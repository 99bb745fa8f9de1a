---------------------------- MODULE ConnectionProofs ----------------------------
(***************************************************************************)
(* Theorems about the connections to the gateways: the cache of channels   *)
(* (Gateways), the ways into the registry (Discovery) and the retries of a *)
(* call (Retries), for any calls, channels, names, scans and budgets.      *)
(***************************************************************************)
EXTENDS Gateways, Discovery, Monitor, Retries, Sandboxes, FiniteSetTheorems, TLAPS

-----------------------------------------------------------------------------
(* The retries.  A call that is being tried began no later than its        *)
(* deadline, and ends within the time of one attempt; a sleep ends before. *)

RetryInv ==
  /\ budget \in {NoBudget} \union 0 .. MaxBudget
  /\ elapsed \in Nat /\ until \in Nat /\ try \in Nat \ {0}
  /\ callState \in {"trying", "sleeping", "ok", "giveup"}
  /\ elapsed <= until
  /\ budget # NoBudget =>
       /\ callState \in {"trying", "giveup"} => until <= budget + MaxAnswer
       /\ callState = "sleeping" => until <= budget

LEMMA MaxOfTwo == ASSUME NEW a \in Int, NEW b \in Int PROVE Max({a, b}) = IF a >= b THEN a ELSE b
BY DEF Max

LEMMA MinOfTwo == ASSUME NEW a \in Int, NEW b \in Int PROVE Min({a, b}) = IF a <= b THEN a ELSE b
BY DEF Min

\* With a budget that is not used up a sleep ends within it.
LEMMA SleepFits ==
  ASSUME NEW n \in Nat \ {0}, NEW s \in SleepFor(n), budget \in {NoBudget} \union 0 .. MaxBudget, elapsed \in Nat
  PROVE  s \in Nat /\ (budget # NoBudget /\ ~ Exhausted => elapsed + s <= budget)
<1>1. Base(n) \in Int
  <2>1. FirstBackoff * 2 ^ (n - 1) \in Int
    <3>1. n - 1 \in Nat
      OBVIOUS
    <3> DEFINE power == 2 ^ (n - 1)
    <3>2. power \in Int
      BY <3>1
    <3> HIDE DEF power
    <3>3. FirstBackoff * power \in Int
      BY <3>2, RetriesAssumption
    <3> QED BY <3>3 DEF power
  <2> DEFINE grown == FirstBackoff * 2 ^ (n - 1)
  <2>2. grown \in Int
    BY <2>1
  <2>3. Base(n) = Min({grown, TopBackoff})
    BY DEF Base
  <2> HIDE DEF grown
  <2>4. TopBackoff \in Int
    BY RetriesAssumption
  <2>5. Min({grown, TopBackoff}) = IF grown <= TopBackoff THEN grown ELSE TopBackoff
    BY <2>2, <2>4, MinOfTwo
  <2> QED BY <2>2, <2>3, <2>4, <2>5
<1>2. \A u \in Unclamped(n) : u \in Int
  <2>1. \A j \in -Spread..Spread : Base(n) + j \in Int
    BY <1>1, RetriesAssumption
  <2>2. \A j \in -Spread..Spread : Max({0, Base(n) + j}) \in Int
    BY <2>1, MaxOfTwo
  <2> QED BY <2>2 DEF Unclamped
<1>3. budget # NoBudget => Remaining \in Nat /\ (~ Exhausted => Remaining = budget - elapsed)
  BY MaxOfTwo, RetriesAssumption DEF Remaining, Exhausted
<1>4. Cap \in Int /\ (budget # NoBudget => Cap = Remaining)
  BY <1>3, RetriesAssumption DEF Cap
<1>5. PICK u \in Unclamped(n) : s = Max({0, Min({u, Cap})})
  BY DEF SleepFor
<1>6. Min({u, Cap}) \in Int /\ Min({u, Cap}) <= Cap
  BY <1>2, <1>4, MinOfTwo
<1>7. s \in Nat /\ (Cap >= 0 => s <= Cap)
  BY <1>4, <1>5, <1>6, MaxOfTwo
<1> QED BY <1>3, <1>4, <1>7 DEF NoBudget

LEMMA RetriesBegin == RetriesInit => RetryInv
BY RetriesAssumption DEF RetriesInit, RetryInv, NoBudget

LEMMA RetriesStep == RetryInv /\ [RetriesNext]_retryVars => RetryInv'
<1> SUFFICES ASSUME RetryInv, [RetriesNext]_retryVars PROVE RetryInv'
  OBVIOUS
<1>1. CASE UNCHANGED retryVars
  BY <1>1 DEF retryVars, RetryInv
<1>2. CASE Clock
  BY <1>2 DEF Clock, RetryInv
<1>3. CASE Answers \/ Refuses
  BY <1>3, RetriesAssumption DEF Answers, Refuses, RetryInv
<1>4. CASE FailsForNow
  <2>1. CASE callState' = "giveup" /\ UNCHANGED until
    BY <1>4, <2>1, RetriesAssumption DEF FailsForNow, RetryInv
  <2>2. CASE ~ (try >= MaxTries \/ Exhausted)
    <3>1. PICK s \in SleepFor(try) : callState' = "sleeping" /\ until' = elapsed + s
      BY <1>4, <2>2 DEF FailsForNow
    <3>2. s \in Nat /\ (budget # NoBudget => elapsed + s <= budget)
      BY <2>2, SleepFits DEF RetryInv
    <3> QED BY <1>4, <3>1, <3>2 DEF FailsForNow, RetryInv
  <2> QED BY <1>4, <2>1, <2>2 DEF FailsForNow
<1>5. CASE Wakes
  <2>1. /\ callState = "sleeping" /\ elapsed = until /\ try' = try + 1 /\ callState' = "trying"
        /\ until' \in elapsed..(elapsed + MaxAnswer) /\ UNCHANGED <<budget, elapsed>>
    BY <1>5 DEF Wakes, Attempt
  <2>2. until' \in Nat /\ elapsed <= until' /\ until' <= elapsed + MaxAnswer
    BY <2>1, RetriesAssumption DEF RetryInv
  <2>3. budget # NoBudget => budget \in Nat /\ elapsed <= budget
    BY <2>1 DEF RetryInv
  <2>4. budget # NoBudget => until' <= budget + MaxAnswer
    BY <2>2, <2>3, RetriesAssumption DEF RetryInv
  <2> QED BY <2>1, <2>2, <2>4 DEF RetryInv
<1> QED BY <1>1, <1>2, <1>3, <1>4, <1>5 DEF RetriesNext

\* No sleep outlasts the deadline, and no call outlasts it by more than an attempt,
\* for any policy, jitter and deadline.
THEOREM BudgetsHold == RetriesSpec => []InBudget
<1>1. RetryInv => InBudget
  BY RetriesAssumption DEF RetryInv, InBudget
<1> QED BY <1>1, RetriesBegin, RetriesStep, PTL DEF RetriesSpec

-----------------------------------------------------------------------------
(* The registry.  What a scan registers, it registers under the first      *)
(* label of the endpoint, which only one row can have.                     *)

ScanRec == [pc: {"new", "register", "import", "done"},
            existing: SUBSET (Targets \union Names), todo: SUBSET Targets]

FoundInv ==
  /\ known \in [Names -> Targets \union {NoTarget}]
  /\ origin \in [Names -> {"hand", "scan"}]
  /\ scan \in [Scans -> ScanRec]
  /\ \A s \in Scans : scan[s].pc = "import" =>
       \E n \in Names, t \in Targets : scan[s].existing = {n} /\ scan[s].todo = {t}
  /\ \A n \in Names : known[n] # NoTarget /\ origin[n] = "scan" => known[n][1] = n

LEMMA DiscoveryBegins == DiscoveryInit => FoundInv
BY DEF DiscoveryInit, FoundInv, ScanRec

\* One row is written, by a hand or under its name, or none is; one run moves on, or none.
LEMMA RowWritten ==
  ASSUME FoundInv, NEW n \in Names, NEW t \in Targets, NEW o \in {"hand", "scan"}, o = "scan" => t[1] = n,
         known' = [known EXCEPT ![n] = t], origin' = [origin EXCEPT ![n] = o]
  PROVE  /\ known' \in [Names -> Targets \union {NoTarget}] /\ origin' \in [Names -> {"hand", "scan"}]
         /\ \A m \in Names : known'[m] # NoTarget /\ origin'[m] = "scan" => known'[m][1] = m
BY DEF FoundInv

LEMMA RowsSame ==
  ASSUME FoundInv, UNCHANGED <<known, origin>>
  PROVE  /\ known' \in [Names -> Targets \union {NoTarget}] /\ origin' \in [Names -> {"hand", "scan"}]
         /\ \A m \in Names : known'[m] # NoTarget /\ origin'[m] = "scan" => known'[m][1] = m
BY DEF FoundInv

LEMMA RunMoves ==
  ASSUME FoundInv, NEW s \in Scans, NEW r \in ScanRec, scan' = [scan EXCEPT ![s] = r],
         r.pc = "import" => \E n \in Names, t \in Targets : r.existing = {n} /\ r.todo = {t}
  PROVE  /\ scan' \in [Scans -> ScanRec]
         /\ \A q \in Scans : scan'[q].pc = "import" =>
              \E n \in Names, t \in Targets : scan'[q].existing = {n} /\ scan'[q].todo = {t}
BY DEF FoundInv

LEMMA RunsSame ==
  ASSUME FoundInv, UNCHANGED scan
  PROVE  /\ scan' \in [Scans -> ScanRec]
         /\ \A q \in Scans : scan'[q].pc = "import" =>
              \E n \in Names, t \in Targets : scan'[q].existing = {n} /\ scan'[q].todo = {t}
BY DEF FoundInv

LEMMA DiscoveryStep == FoundInv /\ [DiscoveryNext]_discoveryVars => FoundInv'
<1> SUFFICES ASSUME FoundInv, [DiscoveryNext]_discoveryVars PROVE FoundInv'
  OBVIOUS
<1> DEFINE done == [pc |-> "done", existing |-> {}, todo |-> {}]
<1>1. CASE UNCHANGED discoveryVars
  BY <1>1, RowsSame, RunsSame DEF discoveryVars, FoundInv
<1>2. ASSUME NEW s \in Scans, ScanReads(s) PROVE FoundInv'
  <2>1. PICK found \in SUBSET Targets :
          scan' = [scan EXCEPT ![s] =
            [pc |-> "register", existing |-> {known[n] : n \in Names} \ {NoTarget}, todo |-> found]]
    BY <1>2 DEF ScanReads
  <2> DEFINE r == [pc |-> "register", existing |-> {known[n] : n \in Names} \ {NoTarget}, todo |-> found]
  <2>2. r \in ScanRec
    BY DEF ScanRec, FoundInv
  <2>3. r.pc # "import" /\ scan' = [scan EXCEPT ![s] = r]
    BY <2>1
  <2>4. UNCHANGED <<known, origin>>
    BY <1>2 DEF ScanReads
  <2>5. /\ known' \in [Names -> Targets \union {NoTarget}] /\ origin' \in [Names -> {"hand", "scan"}]
        /\ \A m \in Names : known'[m] # NoTarget /\ origin'[m] = "scan" => known'[m][1] = m
    BY <2>4, RowsSame
  <2> HIDE DEF r
  <2> QED BY <2>2, <2>3, <2>5, RunMoves DEF FoundInv
<1>3. ASSUME NEW s \in Scans, ImportLooks(s) PROVE FoundInv'
  <2>1. PICK n \in Names, t \in Targets :
          scan' = [scan EXCEPT ![s] =
            IF known[n] = NoTarget THEN [pc |-> "import", existing |-> {n}, todo |-> {t}] ELSE done]
    BY <1>3 DEF ImportLooks
  <2> DEFINE r == IF known[n] = NoTarget THEN [pc |-> "import", existing |-> {n}, todo |-> {t}] ELSE done
  <2>2. r \in ScanRec /\ (r.pc = "import" => r.existing = {n} /\ r.todo = {t})
    BY DEF ScanRec
  <2>3. scan' = [scan EXCEPT ![s] = r]
    BY <2>1
  <2>4. UNCHANGED <<known, origin>>
    BY <1>3 DEF ImportLooks
  <2>5. /\ known' \in [Names -> Targets \union {NoTarget}] /\ origin' \in [Names -> {"hand", "scan"}]
        /\ \A m \in Names : known'[m] # NoTarget /\ origin'[m] = "scan" => known'[m][1] = m
    BY <2>4, RowsSame
  <2> HIDE DEF r
  <2>6. /\ scan' \in [Scans -> ScanRec]
        /\ \A q \in Scans : scan'[q].pc = "import" =>
             \E m \in Names, u \in Targets : scan'[q].existing = {m} /\ scan'[q].todo = {u}
    BY <2>2, <2>3, RunMoves
  <2> QED BY <2>5, <2>6 DEF FoundInv
<1>4. ASSUME NEW s \in Scans, ImportInserts(s) PROVE FoundInv'
  <2>1. PICK n \in Names, t \in Targets : scan[s].existing = {n} /\ scan[s].todo = {t}
    BY <1>4 DEF ImportInserts, FoundInv
  <2>2. Insert(n, t) \/ UNCHANGED <<known, origin>>
    BY <1>4, <2>1 DEF ImportInserts
  <2>3. /\ known' \in [Names -> Targets \union {NoTarget}] /\ origin' \in [Names -> {"hand", "scan"}]
        /\ \A m \in Names : known'[m] # NoTarget /\ origin'[m] = "scan" => known'[m][1] = m
    BY <2>2, RowWritten, RowsSame DEF Insert
  <2>4. scan' = [scan EXCEPT ![s] = done] /\ done \in ScanRec /\ done.pc # "import"
    BY <1>4 DEF ImportInserts, ScanRec
  <2> HIDE DEF done
  <2> QED BY <2>3, <2>4, RunMoves DEF FoundInv
<1>5. ASSUME NEW s \in Scans, NEW t \in Targets, ScanRegisters(s, t) PROVE FoundInv'
  <2> DEFINE insert == t \notin scan[s].existing /\ known[t[1]] = NoTarget
             r == [scan[s] EXCEPT !.todo = @ \ {t}, !.existing = IF insert THEN @ \union {t} ELSE @]
  <2>1. t[1] \in Names
    BY DEF Targets
  <2>2. /\ known'  = IF insert THEN [known EXCEPT ![t[1]] = t] ELSE known
        /\ origin' = IF insert THEN [origin EXCEPT ![t[1]] = "scan"] ELSE origin
        /\ scan' = [scan EXCEPT ![s].todo = @ \ {t}, ![s].existing = IF insert THEN @ \union {t} ELSE @]
        /\ UNCHANGED hands
    BY <1>5 DEF ScanRegisters, Derived
  <2>3. /\ known' \in [Names -> Targets \union {NoTarget}] /\ origin' \in [Names -> {"hand", "scan"}]
        /\ \A m \in Names : known'[m] # NoTarget /\ origin'[m] = "scan" => known'[m][1] = m
    BY <2>1, <2>2, RowWritten, RowsSame
  <2>4. scan[s].pc = "register" /\ scan[s] \in ScanRec /\ scan \in [Scans -> ScanRec]
    BY <1>5 DEF ScanRegisters, FoundInv
  <2> HIDE DEF insert
  <2>5. r \in ScanRec /\ r.pc # "import" /\ scan' = [scan EXCEPT ![s] = r]
    BY <2>2, <2>4 DEF ScanRec
  <2> HIDE DEF r
  <2> QED BY <2>3, <2>5, RunMoves DEF FoundInv
<1>6. ASSUME NEW n \in Names, NEW t \in Targets, RegisterByHand(n, t) PROVE FoundInv'
  BY <1>6, RowWritten, RunsSame DEF RegisterByHand, Insert, FoundInv
<1>7. ASSUME NEW n \in Names, Unregister(n) PROVE FoundInv'
  <2>1. /\ known' \in [Names -> Targets \union {NoTarget}] /\ origin' \in [Names -> {"hand", "scan"}]
        /\ \A m \in Names : known'[m] # NoTarget /\ origin'[m] = "scan" => known'[m][1] = m
    BY <1>7 DEF Unregister, FoundInv
  <2> QED BY <1>7, <2>1, RunsSame DEF Unregister, FoundInv
<1> QED BY <1>1, <1>2, <1>3, <1>4, <1>5, <1>6, <1>7 DEF DiscoveryNext

\* No endpoint is registered twice by scans, for any endpoints, scans and edits.
THEOREM ScansFindOnce == DiscoverySpec => []FoundOnce
<1>1. FoundInv => FoundOnce
  BY DEF FoundInv, FoundOnce
<1> QED BY <1>1, DiscoveryBegins, DiscoveryStep, PTL DEF DiscoverySpec

-----------------------------------------------------------------------------
(* The cache of channels.  While no credentials were read of a row that is *)
(* missing or leaving, a call that will cache its channel holds those of   *)
(* the row, and there is neither such a call nor a channel without one.  A *)
(* client that a call holds of a dropped entry is not the cached one.      *)

CallFits(k, client, g, away, astray) ==
  /\ k.pc \in {"probe", "closing"} => k.client \in Channels
  /\ k.client # NoChannel /\ ~ k.cached => k.client # client
  /\ k.pc = "dial" /\ k.cached /\ ~ astray => k.to = g /\ ~ away

Away == leaving \/ gen = 0

GatewayInv ==
  /\ GatewayTypeOK
  /\ \A c \in Calls : CallFits(call[c], cache.client, gen, Away, strayed)
  /\ ~ strayed /\ Away => cache.client = NoChannel
  /\ NothingStale
  /\ NothingDead

LEMMA Zeros == 0 \in 0 .. MaxGen /\ 0 \in 0 .. MaxBackoff
BY GatewayBounds

LEMMA Blank ==
  /\ NoEntry \in EntryRec /\ NoEntry.client = NoChannel
  /\ NoCall \in CallRec /\ [NoCall EXCEPT !.pc = "creds"] \in CallRec
  /\ [NoCall EXCEPT !.pc = "creds", !.cached = TRUE] \in CallRec
  /\ NoCall.client = NoChannel /\ NoCall.pc = "new"
<1>1. NoChannel \in Client
  BY DEF Client
<1> QED BY <1>1, Zeros DEF NoEntry, NoCall, EntryRec, CallRec

\* A call that is new, or about to read the credentials, has no client.
LEMMA FitsAnew ==
  ASSUME NEW k, k.pc \in {"new", "creds"}, k.client = NoChannel, NEW client, NEW g, NEW away, NEW astray
  PROVE  CallFits(k, client, g, away, astray)
BY DEF CallFits

\* An entry whose client or backoff is set anew is an entry.
LEMMA ClientAnew ==
  ASSUME NEW r \in EntryRec, NEW x \in Client
  PROVE  /\ [r EXCEPT !.client = x, !.backoff = 0] \in EntryRec
         /\ [r EXCEPT !.client = x, !.backoff = 0].client = x
BY Zeros DEF EntryRec

LEMMA BackoffAnew ==
  ASSUME NEW r \in EntryRec, NEW b \in 0 .. MaxBackoff
  PROVE  /\ [r EXCEPT !.backoff = b] \in EntryRec /\ [r EXCEPT !.backoff = b].client = r.client
         /\ [r EXCEPT !.backoff = b, !.due = TRUE] \in EntryRec
         /\ [r EXCEPT !.backoff = b, !.due = TRUE].client = r.client
BY DEF EntryRec

LEMMA GatewayBegins == GatewayInit => GatewayInv
<1> SUFFICES ASSUME GatewayInit PROVE GatewayInv
  OBVIOUS
<1>1. /\ gen = 0 /\ gens = 0 /\ leaving = FALSE /\ strayed = FALSE /\ cache = NoEntry
      /\ call = [c \in Calls |-> NoCall]
      /\ chan = [x \in Channels |-> [open |-> FALSE, to |-> 0]]
  BY DEF GatewayInit
<1>2. cache \in EntryRec /\ cache.client = NoChannel /\ call \in [Calls -> CallRec]
  BY <1>1, Blank
<1>3. chan \in [Channels -> ChannelRec]
  BY <1>1, Zeros DEF ChannelRec
<1>4. \A c \in Calls : CallFits(call[c], cache.client, gen, Away, strayed)
  <2>1. CallFits(NoCall, cache.client, gen, Away, strayed)
    BY Blank, FitsAnew
  <2> QED BY <1>1, <2>1
<1> QED BY <1>1, <1>2, <1>3, <1>4, Zeros DEF GatewayInv, GatewayTypeOK, NothingStale, NothingDead

\* One call moves to k, the cached entry to r, and nothing else changes: a channel
\* that is closed in the cache still has the call that is about to take it out.
LEMMA CallMoves ==
  ASSUME GatewayInv, NEW c \in Calls, NEW k \in CallRec, NEW r \in EntryRec,
         call' = [call EXCEPT ![c] = k], cache' = r,
         UNCHANGED <<gen, gens, chan, leaving, strayed>>,
         CallFits(k, r.client, gen, Away, strayed),
         r.client = NoChannel \/ (r.client = cache.client /\ call[c].pc # "closing")
  PROVE  GatewayInv'
<1>1. GatewayTypeOK'
  BY DEF GatewayInv, GatewayTypeOK
<1>2. ASSUME NEW d \in Calls PROVE CallFits(call'[d], r.client, gen, Away, strayed)
  <2>1. CASE d = c
    BY <2>1 DEF GatewayInv, GatewayTypeOK
  <2>2. CASE d # c
    <3>1. call'[d] = call[d]
      BY <2>2
    <3> QED BY <3>1 DEF GatewayInv, CallFits
  <2> QED BY <2>1, <2>2
<1>3. NothingStale'
  BY DEF GatewayInv, NothingStale
<1>4. NothingDead'
  <2>1. SUFFICES ASSUME r.client # NoChannel, ~ chan[r.client].open
                 PROVE  \E d \in Calls : At(d, "closing")' /\ call'[d].cached /\ call'[d].client = r.client
    BY DEF NothingDead
  <2>2. PICK d \in Calls : At(d, "closing") /\ call[d].cached /\ call[d].client = cache.client
    BY <2>1 DEF GatewayInv, NothingDead
  <2>3. d # c /\ call'[d] = call[d]
    BY <2>1, <2>2 DEF At
  <2> QED BY <2>1, <2>2, <2>3 DEF At
<1>5. (~ strayed /\ Away => cache.client = NoChannel)'
  BY DEF GatewayInv, Away
<1> QED BY <1>1, <1>2, <1>3, <1>4, <1>5 DEF GatewayInv, Away

LEMMA AttemptsKeep ==
  ASSUME GatewayInv, NEW c \in Calls, NEW r \in EntryRec, r.client = NoChannel,
         Attempts(c, r), UNCHANGED <<gen, gens, chan, leaving, strayed>>
  PROVE  GatewayInv'
<1>1. CASE cache' = r /\ Ends(c)
  <2>1. NoCall \in CallRec /\ CallFits(NoCall, r.client, gen, Away, strayed)
    BY Blank, FitsAnew
  <2> QED BY <1>1, <2>1, CallMoves DEF Ends
<1>2. CASE /\ cache' = [r EXCEPT !.due = FALSE]
           /\ call' = [call EXCEPT ![c] = [NoCall EXCEPT !.pc = "creds", !.cached = TRUE]]
  <2> DEFINE k == [NoCall EXCEPT !.pc = "creds", !.cached = TRUE]
             q == [r EXCEPT !.due = FALSE]
  <2>1. k \in CallRec /\ k.pc = "creds" /\ k.client = NoChannel
    BY Blank DEF NoCall
  <2>2. q \in EntryRec /\ q.client = NoChannel
    BY DEF EntryRec
  <2>3. call' = [call EXCEPT ![c] = k] /\ cache' = q
    BY <1>2
  <2> HIDE DEF k, q
  <2>4. CallFits(k, q.client, gen, Away, strayed)
    BY <2>1, FitsAnew
  <2> QED BY <2>1, <2>2, <2>3, <2>4, CallMoves
<1> QED BY <1>1, <1>2 DEF Attempts

LEMMA GatewayStep == GatewayInv /\ [GatewayNext]_gatewayVars => GatewayInv'
<1> SUFFICES ASSUME GatewayInv, [GatewayNext]_gatewayVars PROVE GatewayInv'
  OBVIOUS
<1> USE GatewayBounds
<1>0. /\ cache \in EntryRec /\ call \in [Calls -> CallRec] /\ chan \in [Channels -> ChannelRec]
      /\ gen \in 0 .. MaxGen /\ gens \in 0 .. MaxGen /\ leaving \in BOOLEAN /\ strayed \in BOOLEAN
      /\ \A c \in Calls : CallFits(call[c], cache.client, gen, Away, strayed)
  BY DEF GatewayInv, GatewayTypeOK
<1>1. CASE UNCHANGED gatewayVars
  BY <1>1 DEF gatewayVars, GatewayInv, GatewayTypeOK, CallFits, Away, NothingStale, NothingDead, At
<1>2. ASSUME NEW c \in Calls, GetClient(c) PROVE GatewayInv'
  <2> DEFINE r == [cache EXCEPT !.there = TRUE]
  <2>1. r \in EntryRec /\ r.client = cache.client
    BY <1>0 DEF EntryRec
  <2>2. CASE r.client = NoChannel
    <3>1. Attempts(c, r) /\ UNCHANGED <<gen, gens, chan, leaving, strayed>>
      BY <1>2, <2>2 DEF GetClient
    <3> HIDE DEF r
    <3> QED BY <2>1, <2>2, <3>1, AttemptsKeep
  <2>3. CASE r.client # NoChannel
    <3> DEFINE k == [pc |-> "probe", cached |-> TRUE, client |-> r.client, to |-> 0]
    <3>1. cache' = r /\ call' = [call EXCEPT ![c] = k] /\ UNCHANGED <<gen, gens, chan, leaving, strayed>>
      BY <1>2, <2>3 DEF GetClient
    <3>2. r.client \in Channels
      BY <2>1, <2>3, <1>0 DEF EntryRec, Client
    <3> HIDE DEF r
    <3>3. k \in CallRec /\ CallFits(k, r.client, gen, Away, strayed)
      BY <3>2 DEF CallRec, Client, CallFits
    <3>4. call[c].pc # "closing"
      BY <1>2 DEF GetClient, At
    <3> HIDE DEF k
    <3> QED BY <2>1, <3>1, <3>3, <3>4, CallMoves
  <2> QED BY <2>2, <2>3
<1>3. ASSUME NEW c \in Calls, ProbeEnds(c) \/ ConnectEnds(c) PROVE GatewayInv'
  <2>1. NoCall \in CallRec /\ CallFits(NoCall, cache.client, gen, Away, strayed)
    BY Blank, FitsAnew
  <2>2. /\ call' = [call EXCEPT ![c] = NoCall] /\ call[c].pc # "closing"
        /\ cache' = cache /\ UNCHANGED <<gen, gens, chan, leaving, strayed>>
    BY <1>3 DEF ProbeEnds, ConnectEnds, Ends, At
  <2> QED BY <1>0, <2>1, <2>2, CallMoves
<1>4. ASSUME NEW c \in Calls, ProbeFails(c) PROVE GatewayInv'
  <2> DEFINE x == call[c].client
             k == [call[c] EXCEPT !.pc = "closing"]
  <2>1. /\ call[c].pc = "probe" /\ chan' = [chan EXCEPT ![x].open = FALSE]
        /\ call' = [call EXCEPT ![c] = k] /\ UNCHANGED <<gen, gens, cache, leaving, strayed>>
    BY <1>0, <1>4 DEF ProbeFails, At, CallRec
  <2>2. x \in Channels
    BY <1>0, <2>1 DEF CallFits
  <2>3. k \in CallRec /\ CallFits(k, cache.client, gen, Away, strayed)
        /\ k.pc = "closing" /\ k.cached = call[c].cached /\ k.client = x
    BY <1>0, <2>1, <2>2 DEF CallRec, CallFits
  <2>4. /\ chan' \in [Channels -> ChannelRec] /\ \A y \in Channels : chan'[y].to = chan[y].to
        /\ \A y \in Channels : y # x => chan'[y] = chan[y]
    BY <1>0, <2>1, <2>2 DEF ChannelRec
  <2> HIDE DEF k
  <2>5. call' \in [Calls -> CallRec] /\ call'[c] = k /\ \A d \in Calls : d # c => call'[d] = call[d]
    BY <1>0, <2>1, <2>3
  <2>6. GatewayTypeOK'
    BY <1>0, <2>1, <2>4, <2>5 DEF GatewayTypeOK
  <2>7. \A d \in Calls : CallFits(call'[d], cache.client, gen, Away, strayed)
    BY <1>0, <2>3, <2>5
  <2>8. NothingStale'
    BY <1>0, <2>1, <2>4 DEF GatewayInv, NothingStale, EntryRec, Client
  <2>9. NothingDead'
    <3>1. SUFFICES ASSUME cache.client # NoChannel, ~ chan'[cache.client].open
                   PROVE  \E d \in Calls : At(d, "closing")' /\ call'[d].cached /\ call'[d].client = cache.client
      BY <2>1 DEF NothingDead
    <3>2. CASE cache.client = x
      <4>1. call[c].cached
        BY <1>0, <2>2, <3>1, <3>2 DEF CallFits
      <4> QED BY <2>3, <2>5, <3>2, <4>1 DEF At
    <3>3. CASE cache.client # x
      <4>1. ~ chan[cache.client].open
        BY <1>0, <2>4, <3>1, <3>3 DEF EntryRec, Client
      <4>2. PICK d \in Calls : At(d, "closing") /\ call[d].cached /\ call[d].client = cache.client
        BY <3>1, <4>1 DEF GatewayInv, NothingDead
      <4>3. call'[d] = call[d]
        BY <2>1, <2>5, <4>2 DEF At
      <4> QED BY <4>2, <4>3 DEF At
    <3> QED BY <3>2, <3>3
  <2> QED BY <2>1, <2>6, <2>7, <2>8, <2>9 DEF GatewayInv, Away
<1>5. ASSUME NEW c \in Calls, ProbeFailsToo(c) PROVE GatewayInv'
  <2> DEFINE k == [call[c] EXCEPT !.pc = "closing"]
  <2>1. /\ call[c].pc = "probe" /\ call' = [call EXCEPT ![c] = k]
        /\ cache' = cache /\ UNCHANGED <<gen, gens, chan, leaving, strayed>>
    BY <1>0, <1>5 DEF ProbeFailsToo, At, CallRec
  <2>2. k \in CallRec /\ CallFits(k, cache.client, gen, Away, strayed)
    BY <1>0, <2>1 DEF CallRec, CallFits
  <2> HIDE DEF k
  <2> QED BY <1>0, <2>1, <2>2, CallMoves
<1>6. ASSUME NEW c \in Calls, Closed(c) PROVE GatewayInv'
  <2>1. CASE call[c].cached
    <3>0. NoChannel \in Client
      BY DEF Client
    <3>1. Dropped(cache) \in EntryRec /\ Dropped(cache).client = NoChannel
      BY <1>0, <3>0, ClientAnew DEF Dropped
    <3>2. Attempts(c, Dropped(cache)) /\ UNCHANGED <<gen, gens, chan, leaving, strayed>>
      BY <1>6, <2>1 DEF Closed
    <3> QED BY <3>1, <3>2, AttemptsKeep
  <2>2. CASE ~ call[c].cached
    <3> DEFINE k == [NoCall EXCEPT !.pc = "creds"]
    <3>1. call' = [call EXCEPT ![c] = k] /\ UNCHANGED <<cache, gen, gens, chan, leaving, strayed>>
      BY <1>6, <2>2 DEF Closed
    <3>3. k \in CallRec /\ k.pc = "creds" /\ k.client = NoChannel
      BY Blank DEF NoCall
    <3> HIDE DEF k
    <3>2. CallFits(k, cache.client, gen, Away, strayed)
      BY <3>3, FitsAnew
    <3>4. GatewayTypeOK'
      BY <1>0, <3>1, <3>3 DEF GatewayTypeOK
    <3>5. \A d \in Calls : CallFits(call'[d], cache.client, gen, Away, strayed)
      BY <1>0, <3>1, <3>2
    <3>6. NothingStale'
      BY <3>1 DEF GatewayInv, NothingStale
    <3>7. NothingDead'
      <4>1. \A d \in Calls : call[d].cached => call'[d] = call[d]
        BY <1>0, <2>2, <3>1
      <4> QED BY <3>1, <4>1 DEF GatewayInv, NothingDead, At
    <3> QED BY <3>1, <3>4, <3>5, <3>6, <3>7 DEF GatewayInv, Away
  <2> QED BY <2>1, <2>2
<1>7. ASSUME NEW c \in Calls, ReadCredentials(c) PROVE GatewayInv'
  <2> DEFINE k == [call[c] EXCEPT !.pc = "dial", !.to = gen]
             astray == strayed \/ gen = 0 \/ leaving
  <2>1. /\ call[c].pc = "creds" /\ call' = [call EXCEPT ![c] = k]
        /\ UNCHANGED <<gen, gens, cache, chan, leaving>>
    BY <1>0, <1>7 DEF ReadCredentials, At, CallRec
  <2>2. strayed' = astray
    BY <1>7 DEF ReadCredentials
  <2>3. k \in CallRec /\ CallFits(k, cache.client, gen, Away, astray)
    BY <1>0, <2>1 DEF CallRec, CallFits, Away
  <2> HIDE DEF k
  <2>4. \A d \in Calls : CallFits(call[d], cache.client, gen, Away, astray)
    BY <1>0 DEF CallFits
  <2>5. GatewayTypeOK'
    BY <1>0, <2>1, <2>2, <2>3 DEF GatewayTypeOK
  <2>6. \A d \in Calls : CallFits(call'[d], cache.client, gen, Away, astray)
    BY <1>0, <2>1, <2>3, <2>4
  <2>7. NothingStale'
    BY <2>1, <2>2 DEF GatewayInv, NothingStale
  <2>8. NothingDead'
    <3>1. \A d \in Calls : At(d, "closing") => call'[d] = call[d]
      BY <1>0, <2>1 DEF At
    <3> QED BY <2>1, <3>1 DEF GatewayInv, NothingDead, At
  <2> QED BY <2>1, <2>2, <2>5, <2>6, <2>7, <2>8 DEF GatewayInv, Away
<1>8. ASSUME NEW c \in Calls, Connects(c) PROVE GatewayInv'
  <2>1. PICK x \in Channels :
          /\ Unused(x)
          /\ chan' = [chan EXCEPT ![x] = [open |-> TRUE, to |-> call[c].to]]
          /\ cache' = [cache EXCEPT !.client = x, !.backoff = 0]
    BY <1>8 DEF Connects
  <2>2. /\ call[c].pc = "dial" /\ call[c].cached /\ call' = [call EXCEPT ![c] = NoCall]
        /\ UNCHANGED <<gen, gens, leaving, strayed>>
    BY <1>8 DEF Connects, Ends, At
  <2>3. cache' \in EntryRec /\ cache'.client = x
    <3>1. x \in Client
      BY DEF Client
    <3> QED BY <1>0, <2>1, <3>1, ClientAnew
  <2>4. NoCall \in CallRec /\ CallFits(NoCall, x, gen, Away, strayed)
    BY Blank, FitsAnew
  <2>5. chan' \in [Channels -> ChannelRec] /\ chan'[x].open /\ chan'[x].to = call[c].to
    BY <1>0, <2>1 DEF ChannelRec, CallRec
  <2>6. GatewayTypeOK'
    BY <1>0, <2>2, <2>3, <2>4, <2>5 DEF GatewayTypeOK
  <2>7. \A d \in Calls : CallFits(call'[d], x, gen, Away, strayed)
    <3>1. \A d \in Calls : CallFits(call[d], x, gen, Away, strayed)
      BY <1>0, <2>1 DEF CallFits, Unused
    <3> QED BY <1>0, <2>2, <2>4, <3>1
  <2>8. strayed \/ (call[c].to = gen /\ ~ Away)
    BY <1>0, <2>2 DEF CallFits
  <2>9. NothingStale' /\ NothingDead'
    BY <2>2, <2>3, <2>5, <2>8 DEF NothingStale, NothingDead
  <2> QED BY <2>2, <2>3, <2>6, <2>7, <2>8, <2>9 DEF GatewayInv, Away
<1>9. ASSUME NEW c \in Calls, ConnectFails(c) PROVE GatewayInv'
  <2> DEFINE r == [cache EXCEPT !.backoff = Doubled(@)]
  <2>1. /\ call' = [call EXCEPT ![c] = NoCall] /\ call[c].pc # "closing"
        /\ cache' = r /\ UNCHANGED <<gen, gens, chan, leaving, strayed>>
    BY <1>9 DEF ConnectFails, Ends, At
  <2>2. Doubled(cache.backoff) \in 0 .. MaxBackoff
    BY <1>0 DEF Doubled, EntryRec
  <2>3. r \in EntryRec /\ r.client = cache.client
    BY <1>0, <2>2, BackoffAnew
  <2>4. NoCall \in CallRec /\ CallFits(NoCall, r.client, gen, Away, strayed)
    BY Blank, FitsAnew
  <2> HIDE DEF r
  <2> QED BY <1>0, <2>1, <2>3, <2>4, CallMoves
<1>10. CASE Register
  <2>1. gen = 0 /\ gens < MaxGen /\ gen' = gens + 1 /\ gens' = gens + 1 /\ UNCHANGED <<cache, chan, call, leaving, strayed>>
    BY <1>10 DEF Register
  <2>2. Away
    BY <2>1 DEF Away
  <2>3. \A c \in Calls : CallFits(call[c], cache.client, gen', Away', strayed)
    BY <1>0, <2>2 DEF CallFits
  <2>4. NothingStale' /\ NothingDead'
    BY <2>1, <2>2 DEF GatewayInv, NothingStale, NothingDead, At
  <2>5. GatewayTypeOK'
    BY <1>0, <2>1 DEF GatewayTypeOK
  <2>6. (~ strayed /\ Away => cache.client = NoChannel)'
    BY <2>1, <2>2 DEF GatewayInv
  <2> QED BY <2>1, <2>3, <2>4, <2>5, <2>6 DEF GatewayInv
<1>11. CASE UnregisterDrops \/ InfoDrops
  <2>1. cache' = NoEntry /\ call' = [c \in Calls |-> [call[c] EXCEPT !.cached = FALSE]]
        /\ UNCHANGED <<gen, gens, chan, strayed>> /\ leaving' \in BOOLEAN
    BY <1>0, <1>11 DEF UnregisterDrops, InfoDrops, SetNoClient
  <2>2. cache' \in EntryRec /\ cache'.client = NoChannel
    BY <2>1 DEF NoEntry, EntryRec, Client
  <2>3. \A c \in Calls : /\ call'[c] \in CallRec
                         /\ CallFits(call'[c], NoChannel, gen, Away', strayed)
    BY <1>0, <2>1 DEF CallRec, CallFits
  <2>4. GatewayTypeOK'
    <3>1. call' \in [Calls -> CallRec]
      BY <2>1, <2>3
    <3> QED BY <1>0, <2>1, <2>2, <3>1 DEF GatewayTypeOK
  <2>5. NothingStale' /\ NothingDead'
    BY <2>2 DEF NothingStale, NothingDead
  <2> QED BY <2>1, <2>2, <2>3, <2>4, <2>5 DEF GatewayInv
<1>12. CASE UnregisterDeletes
  <2>1. leaving /\ gen' = 0 /\ leaving' = FALSE /\ UNCHANGED <<gens, cache, chan, call, strayed>>
    BY <1>12 DEF UnregisterDeletes
  <2>2. Away /\ Away'
    BY <2>1 DEF Away
  <2>3. \A c \in Calls : CallFits(call[c], cache.client, 0, TRUE, strayed)
    BY <1>0, <2>2 DEF CallFits
  <2>4. GatewayTypeOK'
    BY <1>0, <2>1, Zeros DEF GatewayTypeOK
  <2>5. NothingStale' /\ NothingDead'
    BY <2>1, <2>2 DEF GatewayInv, NothingStale, NothingDead, At
  <2>6. (\A c \in Calls : CallFits(call[c], cache.client, gen, Away, strayed))'
    BY <2>1, <2>2, <2>3 DEF CallFits
  <2> QED BY <2>1, <2>2, <2>4, <2>5, <2>6 DEF GatewayInv
<1>13. CASE ResetBackoff \/ BackoffPasses
  <2>1. \/ cache' = [cache EXCEPT !.backoff = 0, !.due = TRUE]
        \/ cache' = [cache EXCEPT !.due = TRUE]
    BY <1>13 DEF ResetBackoff, BackoffPasses
  <2>2. cache' \in EntryRec /\ cache'.client = cache.client
    <3>1. CASE cache' = [cache EXCEPT !.backoff = 0, !.due = TRUE]
      BY <1>0, <3>1, BackoffAnew, Zeros
    <3>2. CASE cache' = [cache EXCEPT !.due = TRUE]
      BY <1>0, <3>2 DEF EntryRec
    <3> QED BY <2>1, <3>1, <3>2
  <2>3. UNCHANGED <<gen, gens, chan, call, leaving, strayed>>
    BY <1>13 DEF ResetBackoff, BackoffPasses
  <2>4. GatewayTypeOK'
    BY <1>0, <2>2, <2>3 DEF GatewayTypeOK
  <2> QED BY <2>2, <2>3, <2>4 DEF GatewayInv, Away, CallFits, NothingStale, NothingDead, At
<1> QED BY <1>1, <1>2, <1>3, <1>4, <1>5, <1>6, <1>7, <1>8, <1>9, <1>10, <1>11, <1>12, <1>13 DEF GatewayNext

\* The cached channel is never stale and never dead without a call about to drop it,
\* for any calls, channels and registrations.
THEOREM CacheStaysGood == GatewaySpec => []CacheServes
<1>1. GatewayInv => CacheServes
  BY DEF GatewayInv, CacheServes
<1> QED BY <1>1, GatewayBegins, GatewayStep, PTL DEF GatewaySpec

-----------------------------------------------------------------------------
(***************************************************************************)
(* The monitor.  Without a failed step, the last alert fits the status     *)
(* that a pass compares with (Alerted), and what was lost and is not yet   *)
(* reported is missing from the gateway but in the snapshot that the pass  *)
(* will compare with (Owes).  With failed steps too, what that snapshot    *)
(* has and the gateway has not is what went since (Departed).              *)
(***************************************************************************)

Snapshots == (SUBSET Boxes) \union {NoSnap}

MonitorTypes ==
  /\ status \in Status /\ live \subseteq Boxes /\ snap \in Snapshots
  /\ pass \in [pc: PassPc, previous: Status, answer: Status, pre: Snapshots]

Fits(s) ==
  /\ s = "unknown" => alert = "none"
  /\ s = "up" => alert # "unreachable"
  /\ s = "unreachable" => alert # "recovered"

Alerted ==
  /\ pass.pc = "alert" => status = pass.answer /\ Fits(pass.previous)
  /\ pass.pc # "alert" => Fits(status)
  /\ pass.pc \in {"probe", "write"} => pass.previous = status
  /\ pass.pc \in {"write", "alert"} => pass.answer # "unknown"
  /\ pass.pc \in {"read", "capture", "record"} => status = "up"

Owed == lost \ reaped

Owes ==
  /\ snap = NoSnap => lost = {}
  /\ pass.pc \in {"idle", "probe", "write", "alert", "read"} => Owed \subseteq snap \ live
  /\ pass.pc \in {"idle", "probe", "write"} /\ status # "unreachable" => Owed = {}
  /\ pass.pc = "alert" /\ pass.previous # "unreachable" => Owed = {}
  /\ pass.pc = "capture" => Owed \subseteq pass.pre \ live
  /\ pass.pc = "capture" /\ pass.pre = NoSnap => Owed = {}
  /\ pass.pc = "record" => Owed \subseteq pass.pre \ snap

Departed ==
  /\ snap # NoSnap => snap \ live \subseteq gone
  /\ pass.pc \in {"probe", "write", "alert", "read"} => pass.pre = NoSnap
  /\ pass.pc = "capture" /\ pass.pre # NoSnap => pass.pre \ live \subseteq gone
  /\ pass.pc = "record" => pass.pre \ snap \subseteq gone

MonitorInv == MonitorTypes /\ Departed /\ (~ faulty => Alerted /\ Owes)

LEMMA MonitorBegins == MonitorInit => MonitorInv
<1> SUFFICES ASSUME MonitorInit PROVE MonitorInv
  OBVIOUS
<1>1. /\ pass = [pc |-> "idle", previous |-> "unknown", answer |-> "unknown", pre |-> NoSnap]
      /\ status = "unknown" /\ live = {} /\ snap = NoSnap /\ alert = "none" /\ lost = {} /\ faulty = FALSE
  BY DEF MonitorInit
<1>2. MonitorTypes
  <2>1. NoSnap \in Snapshots
    BY DEF Snapshots
  <2> QED BY <1>1, <2>1 DEF MonitorTypes, Status, PassPc
<1>3. Departed /\ Alerted /\ Owes
  BY <1>1 DEF Departed, Alerted, Owes, Owed, Fits
<1> QED BY <1>2, <1>3 DEF MonitorInv

LEMMA MonitorStep == MonitorInv /\ [MonitorNext]_monitorVars => MonitorInv'
<1> SUFFICES ASSUME MonitorInv, [MonitorNext]_monitorVars PROVE MonitorInv'
  OBVIOUS
<1>t. /\ MonitorTypes /\ Departed /\ (~ faulty => Alerted /\ Owes) /\ live # NoSnap
      /\ NoSnap \in Snapshots /\ live \in Snapshots
  BY SnapAssumption DEF MonitorInv, MonitorTypes, Snapshots
<1> USE DEF InPass
<1>1. CASE UNCHANGED monitorVars
  BY <1>t, <1>1 DEF monitorVars, MonitorInv, MonitorTypes, Departed, Alerted, Owes, Owed, Fits
<1>2. CASE PassStarts \/ StatusWritten \/ ReadSnapshot \/ \E answer \in Status : Probed(answer)
  <2>1. MonitorTypes'
    BY <1>t, <1>2 DEF PassStarts, StatusWritten, ReadSnapshot, LastSnapshot, Probed, MonitorTypes, PassPc
  <2>2. Departed'
    BY <1>t, <1>2 DEF PassStarts, StatusWritten, ReadSnapshot, LastSnapshot, Probed, MonitorTypes, Departed
  <2>3. ~ faulty' => ~ faulty
    BY <1>2 DEF PassStarts, StatusWritten, ReadSnapshot, Probed
  <2>4. ~ faulty' => Alerted'
    BY <1>t, <1>2 DEF PassStarts, StatusWritten, ReadSnapshot, Probed, MonitorTypes, Alerted, Fits
  <2>5. ~ faulty' => Owes'
    BY <1>t, <1>2, <2>3 DEF PassStarts, StatusWritten, ReadSnapshot, LastSnapshot, Probed, MonitorTypes, Alerted, Owes, Owed
  <2> QED BY <2>1, <2>2, <2>4, <2>5 DEF MonitorInv
<1>3. CASE StatusLost \/ ReconcileFails \/ MonitorCrash
  BY <1>t, <1>3 DEF StatusLost, ReconcileFails, MonitorCrash, MonitorInv, MonitorTypes, Departed, PassPc
<1>4. CASE Alerts
  <2>1. MonitorTypes' /\ Departed'
    BY <1>t, <1>4 DEF Alerts, MonitorTypes, Departed, PassPc
  <2>2. ~ faulty => Alerted'
    BY <1>t, <1>4 DEF Alerts, MonitorTypes, Alerted, Fits, WentDown, Recovered, Status
  <2>3. ~ faulty => Owes'
    BY <1>t, <1>4 DEF Alerts, MonitorTypes, Departed, Alerted, Owes, Owed, Recovered, Status
  <2> QED BY <1>4, <2>1, <2>2, <2>3 DEF Alerts, MonitorInv
<1>5. CASE Capture
  <2>1. MonitorTypes' /\ Departed'
    BY <1>t, <1>5 DEF Capture, MonitorTypes, Departed, PassPc
  <2>2. ~ faulty => Alerted' /\ Owes'
    BY <1>t, <1>5 DEF Capture, MonitorTypes, Alerted, Owes, Owed, Fits
  <2> QED BY <1>5, <2>1, <2>2 DEF Capture, MonitorInv
<1>6. CASE Record
  <2>1. MonitorTypes' /\ Departed'
    BY <1>t, <1>6 DEF Record, MonitorTypes, Departed, PassPc
  <2>2. ~ faulty => Alerted' /\ Owes'
    BY <1>t, <1>6 DEF Record, Vanished, MonitorTypes, Alerted, Owes, Owed, Fits
  <2> QED BY <1>6, <2>1, <2>2 DEF Record, MonitorInv
<1>7. ASSUME NEW b \in Boxes, CreateBox(b) \/ DeleteBox(b) PROVE MonitorInv'
  <2>1. MonitorTypes' /\ Departed'
    BY <1>t, <1>7 DEF CreateBox, DeleteBox, MonitorTypes, Departed
  <2>2. ~ faulty => Alerted' /\ Owes'
    BY <1>t, <1>7 DEF CreateBox, DeleteBox, MonitorTypes, Alerted, Owes, Owed, Fits
  <2> QED BY <1>7, <2>1, <2>2 DEF CreateBox, DeleteBox, MonitorInv
<1>8. CASE GatewayRestarts
  <2>1. MonitorTypes' /\ Departed'
    BY <1>t, <1>8 DEF GatewayRestarts, MonitorTypes, Departed
  <2>2. ~ faulty => Alerted' /\ Owes'
    BY <1>t, <1>8 DEF GatewayRestarts, MonitorTypes, Alerted, Owes, Owed, Fits
  <2> QED BY <1>8, <2>1, <2>2 DEF GatewayRestarts, MonitorInv
<1> QED BY <1>1, <1>2, <1>3, <1>4, <1>5, <1>6, <1>7, <1>8 DEF MonitorNext

(***************************************************************************)
(* For any sandboxes, restarts and faults: an outage and its end are told  *)
(* once each, what the outage took is reported, and what is reported went. *)
(***************************************************************************)
THEOREM OutagesAreTold == MonitorSpec => OutagesTold
<1>1. MonitorInv => LossReported
  BY DEF MonitorInv, Owes, Owed, LossReported, InPass
<1>2. MonitorInv /\ [MonitorNext]_monitorVars =>
        [Alerts /\ (WentDown \/ Recovered) =>
           alert # (IF WentDown THEN "unreachable" ELSE "recovered") \/ faulty]_monitorVars
  BY DEF MonitorInv, Alerted, Alerts, InPass, Fits, WentDown, Recovered
<1>3. MonitorInv /\ [MonitorNext]_monitorVars => [reaped' \ reaped \subseteq gone]_monitorVars
  <2> SUFFICES ASSUME MonitorInv, MonitorNext PROVE reaped' \ reaped \subseteq gone
    BY DEF monitorVars
  <2>1. CASE Record
    BY <2>1 DEF MonitorInv, Departed, Record, Vanished, InPass
  <2>2. Record \/ reaped' = reaped
    BY DEF MonitorNext, PassStarts, Probed, StatusWritten, StatusLost, Alerts, ReadSnapshot, Capture,
           ReconcileFails, MonitorCrash, CreateBox, DeleteBox, GatewayRestarts
  <2> QED BY <2>1, <2>2
<1> QED BY <1>1, <1>2, <1>3, MonitorBegins, MonitorStep, PTL DEF MonitorSpec, OutagesTold, AlertsAlternate, ReapsTell

-----------------------------------------------------------------------------
(***************************************************************************)
(* The labels of a sandbox.  As long as nothing happened that excuses      *)
(* them, a sandbox that was given labels has them, or the call that made   *)
(* it is about to write them; and where there are labels without a         *)
(* sandbox, or for another one, a deletion is about to remove them.        *)
(***************************************************************************)
Fields == {"pc", "box", "labels", "presets", "skip", "todo", "ran", "attempt", "throughout"}
IsCall(q) == q = [f \in Fields |-> q[f]]

Numbered(q, n) == q.pc \in {"label", "update"} => q.box \in 1..n

\* A call that is about to label the present sandbox, or to remove the labels.
Labelling(q, b) == q.pc = "label" /\ q.labels /\ q.box = b
Unlabelling(q) == q.pc = "unlabel"

LabelInv ==
  /\ box \in Nat /\ made \in Nat /\ meta \in Nat /\ box <= made
  /\ req = [r \in Requests |-> req[r]]
  /\ \A r \in Requests :
       /\ IsCall(req[r]) /\ Numbered(req[r], made)
       /\ Labelling(req[r], box) => labelled
  /\ labelled => box # 0
  /\ ~ excused =>
       /\ labelled => meta = box \/ \E r \in Requests : Labelling(req[r], box)
       /\ ~ labelled => meta = 0 \/ \E r \in Requests : Unlabelling(req[r])

LabelsStay == UNCHANGED <<box, made, labelled, meta, excused>>

\* The call goes on to something that is not about labels.
GoesElsewhere(r) ==
  \E q : IsCall(q) /\ q.pc \notin {"label", "update"} /\ req' = [req EXCEPT ![r] = q]

LEMMA IdleCall == IsCall(NoRequest) /\ NoRequest.pc = "idle"
BY DEF IsCall, Fields, NoRequest

LEMMA ReturnsAway == ASSUME NEW r \in Requests, Returns(r) PROVE GoesElsewhere(r)
<1>1. req' = [req EXCEPT ![r] = NoRequest]
  BY DEF Returns, Set
<1>2. IsCall(NoRequest) /\ NoRequest.pc \notin {"label", "update"}
  BY IdleCall
<1> QED BY <1>1, <1>2, Zenon DEF GoesElsewhere

LEMMA Continues ==
  ASSUME LabelInv, NEW r \in Requests, NEW pc, pc \notin {"label", "update"}, Goes(r, pc)
  PROVE  GoesElsewhere(r)
<1> DEFINE q == [req[r] EXCEPT !.pc = pc]
<1>1. req' = [req EXCEPT ![r] = q]
  BY DEF Goes, Set
<1>2. IsCall(q) /\ q.pc = pc
  BY DEF LabelInv, IsCall, Fields
<1> HIDE DEF q
<1> QED BY <1>1, <1>2 DEF GoesElsewhere

LEMMA AttemptsAgain ==
  ASSUME LabelInv, NEW r \in Requests, req[r].pc \notin {"label", "update"}, TriesAgain(r)
  PROVE  GoesElsewhere(r)
<1> DEFINE q == [req[r] EXCEPT !.attempt = @ + 1]
<1>1. Returns(r) \/ req' = [req EXCEPT ![r] = q]
  BY DEF TriesAgain, Set
<1>2. IsCall(q) /\ q.pc = req[r].pc
  BY DEF LabelInv, IsCall, Fields
<1> HIDE DEF q
<1> QED BY <1>1, <1>2, ReturnsAway, Zenon DEF GoesElsewhere

LEMMA TakesNext ==
  ASSUME LabelInv, NEW r \in Requests, req[r].pc \notin {"label", "update"}, PostGoesOn(r)
  PROVE  GoesElsewhere(r)
<1> DEFINE t == Tail(req[r].todo)
           q == [req[r] EXCEPT !.todo = t]
<1>1. req' = [req EXCEPT ![r] = q]
  BY DEF PostGoesOn, Set
<1> HIDE DEF t
<1>2. IsCall(q) /\ q.pc = req[r].pc
  BY DEF LabelInv, IsCall, Fields
<1> HIDE DEF q
<1> QED BY <1>1, <1>2 DEF GoesElsewhere

\* What a call does that is not about labels.
LEMMA ElsewhereFits ==
  ASSUME LabelInv, NEW r \in Requests, req[r].pc \notin {"label", "unlabel"}, GoesElsewhere(r), LabelsStay
  PROVE  LabelInv'
<1>1. PICK q : IsCall(q) /\ q.pc \notin {"label", "update"} /\ req' = [req EXCEPT ![r] = q]
  BY DEF GoesElsewhere
<1>2. /\ req' = [o \in Requests |-> req'[o]] /\ req'[r] = q
      /\ \A o \in Requests : o # r => req'[o] = req[o]
  BY <1>1 DEF LabelInv
<1>3. ~ Labelling(q, box) /\ ~ Labelling(req[r], box) /\ ~ Unlabelling(req[r]) /\ Numbered(q, made)
  BY <1>1 DEF Labelling, Unlabelling, Numbered
<1>4. \A o \in Requests : IsCall(req'[o]) /\ Numbered(req'[o], made) /\ (Labelling(req'[o], box) => labelled)
  BY <1>1, <1>2, <1>3 DEF LabelInv
<1>5. \A o \in Requests : Labelling(req[o], box) => Labelling(req'[o], box)
  BY <1>2, <1>3
<1>6. \A o \in Requests : Unlabelling(req[o]) => Unlabelling(req'[o])
  BY <1>2, <1>3
<1> QED BY <1>2, <1>4, <1>5, <1>6 DEF LabelInv, LabelsStay

\* What edits of hooks and the phases of the sandbox do to the calls.
LEMMA CallsStay ==
  ASSUME LabelInv, LabelsStay,
         req' = [r \in Requests |-> req'[r]],
         \A r \in Requests : /\ IsCall(req'[r]) /\ req'[r].pc = req[r].pc
                             /\ req'[r].box = req[r].box /\ req'[r].labels = req[r].labels
  PROVE  LabelInv'
<1>1. \A o \in Requests : /\ Labelling(req[o], box) <=> Labelling(req'[o], box)
                          /\ Unlabelling(req[o]) <=> Unlabelling(req'[o])
                          /\ Numbered(req[o], made) => Numbered(req'[o], made)
  BY DEF Labelling, Unlabelling, Numbered
<1> QED BY <1>1 DEF LabelInv, LabelsStay

\* The steps of a creation but for the making and the labels.
LEMMA CreationSteps ==
  ASSUME NEW r \in Requests
  PROVE  LabelInv /\ (CreateStarts(r) \/ PreListed(r) \/ PreSucceeds(r) \/ PreFails(r) \/ PreEnds(r)
                     \/ MakeUnavailable(r) \/ MakeRefused(r)) => LabelInv'
<1> SUFFICES ASSUME LabelInv, CreateStarts(r) \/ PreListed(r) \/ PreSucceeds(r) \/ PreFails(r) \/ PreEnds(r)
                     \/ MakeUnavailable(r) \/ MakeRefused(r)
             PROVE  LabelInv'
  OBVIOUS
<1>0. IsCall(req[r])
  BY DEF LabelInv
<1>1. CASE CreateStarts(r)
  <2>1. PICK labels \in BOOLEAN, presets \in BOOLEAN, skip \in BOOLEAN :
          Set(r, [NoRequest EXCEPT !.pc = IF skip THEN "make" ELSE "list", !.labels = labels,
                                 !.presets = presets, !.skip = skip, !.throughout = Gates])
    BY <1>1, Zenon DEF CreateStarts
  <2> DEFINE pc == IF skip THEN "make" ELSE "list"
             gates == Gates
             q == [NoRequest EXCEPT !.pc = pc, !.labels = labels,
                                    !.presets = presets, !.skip = skip, !.throughout = gates]
  <2>2. req' = [req EXCEPT ![r] = q]
    BY <2>1 DEF Set
  <2>3. pc \notin {"label", "update"}
    OBVIOUS
  <2> HIDE DEF pc, gates
  <2>4. IsCall(q) /\ q.pc = pc
    BY DEF IsCall, Fields, NoRequest
  <2> HIDE DEF q
  <2>5. GoesElsewhere(r)
    BY <2>2, <2>3, <2>4, Zenon DEF GoesElsewhere
  <2>6. LabelsStay /\ req[r].pc = "idle"
    BY <1>1, Zenon DEF CreateStarts, LabelsStay
  <2> QED BY <2>5, <2>6, ElsewhereFits
<1>2. CASE PreListed(r)
  <2>0. PICK todo : Set(r, [req[r] EXCEPT !.pc = "pre", !.todo = todo])
    BY <1>2, Zenon DEF PreListed
  <2> DEFINE q == [req[r] EXCEPT !.pc = "pre", !.todo = todo]
  <2>1. req' = [req EXCEPT ![r] = q] /\ LabelsStay /\ req[r].pc = "list"
    BY <1>2, <2>0, Zenon DEF PreListed, Set, LabelsStay
  <2>2. IsCall(q) /\ q.pc = "pre"
    BY <1>0 DEF IsCall, Fields
  <2> HIDE DEF q
  <2>3. GoesElsewhere(r)
    BY <2>1, <2>2 DEF GoesElsewhere
  <2> QED BY <2>1, <2>3, ElsewhereFits
<1>3. CASE PreSucceeds(r)
  <2> DEFINE todo == Tail(req[r].todo)
             ran == req[r].ran \union {Head(req[r].todo).id}
             q == [req[r] EXCEPT !.todo = todo, !.ran = ran]
  <2>1. req' = [req EXCEPT ![r] = q] /\ LabelsStay /\ req[r].pc = "pre"
    BY <1>3 DEF PreSucceeds, Set, LabelsStay
  <2> HIDE DEF todo, ran
  <2>2. IsCall(q) /\ q.pc = req[r].pc
    BY <1>0 DEF IsCall, Fields
  <2> HIDE DEF q
  <2>3. GoesElsewhere(r)
    BY <2>1, <2>2 DEF GoesElsewhere
  <2> QED BY <2>1, <2>3, ElsewhereFits
<1>4. CASE PreFails(r)
  BY <1>4, ReturnsAway, ElsewhereFits DEF PreFails, LabelsStay
<1>5. CASE PreEnds(r)
  BY <1>5, Continues, ElsewhereFits DEF PreEnds, LabelsStay
<1>6. CASE MakeUnavailable(r)
  BY <1>6, AttemptsAgain, ElsewhereFits DEF MakeUnavailable, LabelsStay
<1>7. CASE MakeRefused(r)
  BY <1>7, ReturnsAway, ElsewhereFits DEF MakeRefused, LabelsStay
<1> QED BY <1>1, <1>2, <1>3, <1>4, <1>5, <1>6, <1>7

\* What a creation does once its labels are written.
LEMMA AfterSteps ==
  ASSUME NEW r \in Requests
  PROVE  LabelInv /\ (WaitEnds(r) \/ PresetsApplied(r) \/ PostStarts(r) \/ PostExits(r) \/ PostRaises(r)
                     \/ PostEnds(r)) => LabelInv'
<1> SUFFICES ASSUME LabelInv, WaitEnds(r) \/ PresetsApplied(r) \/ PostStarts(r) \/ PostExits(r) \/ PostRaises(r)
                     \/ PostEnds(r)
             PROVE  LabelInv'
  OBVIOUS
<1>0. IsCall(req[r])
  BY DEF LabelInv
<1>1. CASE WaitEnds(r)
  BY <1>1, Continues, ReturnsAway, ElsewhereFits DEF WaitEnds, LabelsStay
<1>2. CASE PresetsApplied(r)
  BY <1>2, Continues, ReturnsAway, ElsewhereFits DEF PresetsApplied, LabelsStay
<1>3. CASE PostStarts(r)
  <2>1. LabelsStay /\ req[r].pc = "service"
    BY <1>3, Zenon DEF PostStarts, LabelsStay
  <2>2. CASE Returns(r)
    BY <2>1, <2>2, ReturnsAway, ElsewhereFits
  <2>3. ASSUME NEW todo, Set(r, [req[r] EXCEPT !.pc = "post", !.todo = todo]) PROVE LabelInv'
    <3> DEFINE q == [req[r] EXCEPT !.pc = "post", !.todo = todo]
    <3>1. req' = [req EXCEPT ![r] = q]
      BY <2>3 DEF Set
    <3>2. IsCall(q) /\ q.pc = "post"
      BY <1>0 DEF IsCall, Fields
    <3> HIDE DEF q
    <3>3. GoesElsewhere(r)
      BY <3>1, <3>2 DEF GoesElsewhere
    <3> QED BY <2>1, <3>3, ElsewhereFits
  <2> QED BY <1>3, <2>2, <2>3, Zenon DEF PostStarts
<1>4. CASE PostExits(r)
  <2>1. LabelsStay /\ req[r].pc = "post" /\ (PostGoesOn(r) \/ Returns(r))
    BY <1>4 DEF PostExits, LabelsStay
  <2> QED BY <2>1, TakesNext, ReturnsAway, ElsewhereFits
<1>5. CASE PostRaises(r)
  <2>1. LabelsStay /\ req[r].pc = "post" /\ (PostGoesOn(r) \/ Returns(r))
    BY <1>5 DEF PostRaises, LabelsStay
  <2> QED BY <2>1, TakesNext, ReturnsAway, ElsewhereFits
<1>6. CASE PostEnds(r)
  BY <1>6, ReturnsAway, ElsewhereFits DEF PostEnds, LabelsStay
<1> QED BY <1>1, <1>2, <1>3, <1>4, <1>5, <1>6

\* Deletions but for their steps on the sandbox and the labels, and calls about hooks.
LEMMA OtherSteps ==
  ASSUME NEW r \in Requests
  PROVE  LabelInv /\ (DeleteStarts(r) \/ DeleteUnavailable(r) \/ NothingDeleted(r) \/ ReorderReads(r)
                     \/ ReorderWrites(r) \/ RunStarts(r) \/ RunEnds(r)) => LabelInv'
<1> SUFFICES ASSUME LabelInv, DeleteStarts(r) \/ DeleteUnavailable(r) \/ NothingDeleted(r) \/ ReorderReads(r)
                     \/ ReorderWrites(r) \/ RunStarts(r) \/ RunEnds(r)
             PROVE  LabelInv'
  OBVIOUS
<1>1. CASE DeleteStarts(r)
  <2> DEFINE q == [NoRequest EXCEPT !.pc = "delete"]
  <2>1. req' = [req EXCEPT ![r] = q] /\ LabelsStay /\ req[r].pc = "idle"
    BY <1>1 DEF DeleteStarts, Set, LabelsStay
  <2>2. IsCall(q) /\ q.pc = "delete"
    BY DEF IsCall, Fields, NoRequest
  <2> HIDE DEF q
  <2>3. GoesElsewhere(r)
    BY <2>1, <2>2 DEF GoesElsewhere
  <2> QED BY <2>1, <2>3, ElsewhereFits
<1>2. CASE DeleteUnavailable(r)
  BY <1>2, AttemptsAgain, ElsewhereFits DEF DeleteUnavailable, LabelsStay
<1>3. CASE NothingDeleted(r)
  BY <1>3, ReturnsAway, ElsewhereFits DEF NothingDeleted, LabelsStay
<1>4. CASE ReorderReads(r)
  <2>1. PICK todo : Set(r, [NoRequest EXCEPT !.pc = "reorder", !.todo = todo])
    BY <1>4, Zenon DEF ReorderReads
  <2> DEFINE q == [NoRequest EXCEPT !.pc = "reorder", !.todo = todo]
  <2>2. req' = [req EXCEPT ![r] = q]
    BY <2>1 DEF Set
  <2>3. LabelsStay /\ req[r].pc = "idle"
    BY <1>4, Zenon DEF ReorderReads, LabelsStay
  <2>4. IsCall(q) /\ q.pc = "reorder"
    BY DEF IsCall, Fields, NoRequest
  <2> HIDE DEF q
  <2>5. GoesElsewhere(r)
    BY <2>2, <2>4 DEF GoesElsewhere
  <2> QED BY <2>3, <2>5, ElsewhereFits
<1>5. CASE ReorderWrites(r)
  <2>1. LabelsStay /\ req[r].pc = "reorder" /\ Returns(r)
    BY <1>5, Zenon DEF ReorderWrites, LabelsStay
  <2> QED BY <2>1, ReturnsAway, ElsewhereFits
<1>6. CASE RunStarts(r)
  <2>1. PICK h \in Hooks : Set(r, [NoRequest EXCEPT !.pc = "one", !.todo = <<Listed(h)>>])
    BY <1>6, Zenon DEF RunStarts
  <2> DEFINE todo == <<Listed(h)>>
             q == [NoRequest EXCEPT !.pc = "one", !.todo = todo]
  <2>2. req' = [req EXCEPT ![r] = q]
    BY <2>1 DEF Set
  <2>3. LabelsStay /\ req[r].pc = "idle"
    BY <1>6, Zenon DEF RunStarts, LabelsStay
  <2> HIDE DEF todo
  <2>4. IsCall(q) /\ q.pc = "one"
    BY DEF IsCall, Fields, NoRequest
  <2> HIDE DEF q
  <2>5. GoesElsewhere(r)
    BY <2>2, <2>4 DEF GoesElsewhere
  <2> QED BY <2>3, <2>5, ElsewhereFits
<1>7. CASE RunEnds(r)
  <2>1. LabelsStay /\ req[r].pc = "one" /\ Returns(r)
    BY <1>7, Zenon DEF RunEnds, LabelsStay
  <2> QED BY <2>1, ReturnsAway, ElsewhereFits
<1> QED BY <1>1, <1>2, <1>3, <1>4, <1>5, <1>6, <1>7

\* What the calls are after a call has gone elsewhere.
LEMMA Elsewhere ==
  ASSUME LabelInv, NEW r \in Requests, GoesElsewhere(r)
  PROVE  /\ req' = [o \in Requests |-> req'[o]]
         /\ IsCall(req'[r]) /\ req'[r].pc \notin {"label", "update"}
         /\ \A o \in Requests : o # r => req'[o] = req[o]
BY DEF GoesElsewhere, LabelInv

\* A sandbox appears: no other call is about to label it.
LEMMA MakeSteps ==
  ASSUME NEW r \in Requests
  PROVE  LabelInv /\ (Made(r) \/ MadeReplyLost(r)) => LabelInv'
<1> SUFFICES ASSUME LabelInv, Made(r) \/ MadeReplyLost(r) PROVE LabelInv'
  OBVIOUS
<1>1. /\ req[r].pc = "make" /\ box = 0 /\ made' = made + 1 /\ box' = made + 1
      /\ labelled' = req[r].labels /\ meta' = meta /\ ~ labelled
  BY DEF Made, MadeReplyLost, Appears, LabelInv
<1>2. made \in Nat /\ \A o \in Requests : IsCall(req[o]) /\ Numbered(req[o], made)
  BY DEF LabelInv
<1>3. ~ excused => meta = 0 \/ \E o \in Requests : Unlabelling(req[o])
  BY <1>1 DEF LabelInv
<1>4. \A o \in Requests : Numbered(req[o], made') /\ ~ Labelling(req[o], box')
  BY <1>1, <1>2 DEF Numbered, Labelling
<1>5. CASE Made(r)
  <2> DEFINE q == [req[r] EXCEPT !.pc = "label", !.box = made + 1]
  <2>1. req' = [req EXCEPT ![r] = q] /\ excused' = excused
    BY <1>5 DEF Made, Set
  <2>2. IsCall(q) /\ q.pc = "label" /\ q.box = made + 1 /\ q.labels = req[r].labels
    BY <1>2 DEF IsCall, Fields
  <2> HIDE DEF q
  <2>3. Numbered(q, made') /\ (Labelling(q, box') <=> req[r].labels)
    BY <1>1, <1>2, <2>2 DEF Numbered, Labelling
  <2>4. /\ req' = [o \in Requests |-> req'[o]] /\ req'[r] = q
        /\ \A o \in Requests : o # r => req'[o] = req[o]
    BY <2>1 DEF LabelInv
  <2>5. \A o \in Requests : /\ IsCall(req'[o]) /\ Numbered(req'[o], made')
                            /\ Labelling(req'[o], box') => labelled'
    BY <1>1, <1>2, <1>4, <2>2, <2>3, <2>4
  <2>6. labelled' => \E o \in Requests : Labelling(req'[o], box')
    BY <1>1, <2>3, <2>4
  <2>7. \A o \in Requests : Unlabelling(req[o]) => Unlabelling(req'[o])
    BY <1>1, <2>4 DEF Unlabelling
  <2> QED BY <1>1, <1>2, <1>3, <2>1, <2>4, <2>5, <2>6, <2>7 DEF LabelInv
<1>6. CASE MadeReplyLost(r)
  <2>1. GoesElsewhere(r) /\ (~ excused' => ~ excused /\ ~ req[r].labels)
    BY <1>1, <1>6, AttemptsAgain DEF MadeReplyLost
  <2>2. /\ req' = [o \in Requests |-> req'[o]] /\ IsCall(req'[r]) /\ req'[r].pc \notin {"label", "update"}
        /\ \A o \in Requests : o # r => req'[o] = req[o]
    BY <2>1, Elsewhere
  <2>3. \A o \in Requests : IsCall(req'[o]) /\ Numbered(req'[o], made') /\ ~ Labelling(req'[o], box')
    BY <1>2, <1>4, <2>2 DEF Numbered, Labelling
  <2>4. \A o \in Requests : Unlabelling(req[o]) => Unlabelling(req'[o])
    BY <1>1, <2>2 DEF Unlabelling
  <2> QED BY <1>1, <1>2, <1>3, <2>1, <2>2, <2>3, <2>4 DEF LabelInv
<1> QED BY <1>5, <1>6

\* The labels are written.
LEMMA LabelStep ==
  ASSUME NEW r \in Requests
  PROVE  LabelInv /\ Labels(r) => LabelInv'
<1> SUFFICES ASSUME LabelInv, Labels(r) PROVE LabelInv'
  OBVIOUS
<1>1. /\ req[r].pc = "label" /\ UNCHANGED <<box, made, labelled>>
      /\ meta' = (IF req[r].labels THEN req[r].box ELSE meta)
      /\ ~ excused' => ~ excused /\ (req[r].labels => box = req[r].box)
  BY DEF Labels
<1>2. GoesElsewhere(r)
  BY Continues, ReturnsAway DEF Labels
<1>3. /\ req' = [o \in Requests |-> req'[o]] /\ IsCall(req'[r]) /\ req'[r].pc \notin {"label", "update"}
      /\ \A o \in Requests : o # r => req'[o] = req[o]
  BY <1>2, Elsewhere
<1>4. req[r].box \in 1..made /\ made \in Nat
  BY <1>1 DEF LabelInv, Numbered
<1>5. \A o \in Requests : IsCall(req'[o]) /\ Numbered(req'[o], made) /\ (Labelling(req'[o], box) => labelled)
  BY <1>3 DEF LabelInv, Numbered, Labelling
<1>6. \A o \in Requests : Unlabelling(req[o]) => Unlabelling(req'[o])
  BY <1>1, <1>3 DEF Unlabelling
<1>7. CASE req[r].labels
  <2>1. ~ excused' => meta' = box /\ labelled
    BY <1>1, <1>7 DEF LabelInv, Labelling
  <2> QED BY <1>1, <1>3, <1>4, <1>5, <1>7, <2>1 DEF LabelInv
<1>8. CASE ~ req[r].labels
  <2>1. \A o \in Requests : Labelling(req[o], box) => Labelling(req'[o], box)
    BY <1>3, <1>8 DEF Labelling
  <2> QED BY <1>1, <1>3, <1>5, <1>6, <1>8, <2>1 DEF LabelInv
<1> QED BY <1>7, <1>8

\* The sandbox goes, at the server's request or behind its back.
LEMMA VanishSteps ==
  LabelInv /\ ((\E r \in Requests : Deleted(r) \/ DeletedReplyLost(r)) \/ DeletedOutside) => LabelInv'
<1> SUFFICES ASSUME LabelInv, (\E r \in Requests : Deleted(r) \/ DeletedReplyLost(r)) \/ DeletedOutside
             PROVE  LabelInv'
  OBVIOUS
<1>1. box' = 0 /\ labelled' = FALSE /\ made' = made /\ meta' = meta
  BY DEF Deleted, DeletedReplyLost, DeletedOutside
<1>2. \A o \in Requests : IsCall(req[o]) /\ Numbered(req[o], made) /\ ~ Labelling(req[o], 0)
  BY DEF LabelInv, Numbered, Labelling
<1>3. CASE DeletedOutside
  <2>1. req' = req /\ (~ excused' => meta = 0)
    BY <1>3 DEF DeletedOutside
  <2> QED BY <1>1, <1>2, <2>1 DEF LabelInv
<1>4. ASSUME NEW r \in Requests, Deleted(r) \/ DeletedReplyLost(r) PROVE LabelInv'
  <2>1. GoesElsewhere(r)
    BY <1>4, Continues, AttemptsAgain DEF Deleted, DeletedReplyLost
  <2>2. /\ req' = [o \in Requests |-> req'[o]] /\ IsCall(req'[r]) /\ req'[r].pc \notin {"label", "update"}
        /\ \A o \in Requests : o # r => req'[o] = req[o]
    BY <2>1, Elsewhere
  <2>3. \A o \in Requests : IsCall(req'[o]) /\ Numbered(req'[o], made) /\ ~ Labelling(req'[o], 0)
    BY <1>2, <2>2 DEF Numbered, Labelling
  <2>4. ~ excused' => meta = 0 \/ \E o \in Requests : Unlabelling(req'[o])
    <3>1. CASE DeletedReplyLost(r)
      BY <3>1 DEF DeletedReplyLost
    <3>2. CASE Deleted(r)
      <4>1. req'[r].pc = "unlabel"
        BY <3>2 DEF Deleted, Goes, Set, LabelInv, IsCall, Fields
      <4> QED BY <4>1 DEF Unlabelling
    <3> QED BY <1>4, <3>1, <3>2
  <2> QED BY <1>1, <2>2, <2>3, <2>4 DEF LabelInv
<1> QED BY <1>3, <1>4

\* The labels are removed, and then the hooks.
LEMMA CleanSteps ==
  ASSUME NEW r \in Requests
  PROVE  LabelInv /\ (DeleteUnlabels(r) \/ DeleteUnhooks(r)) => LabelInv'
<1> SUFFICES ASSUME LabelInv, DeleteUnlabels(r) \/ DeleteUnhooks(r) PROVE LabelInv'
  OBVIOUS
<1>1. CASE DeleteUnlabels(r)
  <2>1. /\ req[r].pc = "unlabel" /\ UNCHANGED <<box, made, labelled>> /\ meta' = 0
        /\ ~ excused' => ~ excused /\ ~ (box # 0 /\ meta = box)
    BY <1>1 DEF DeleteUnlabels, Unlabels
  <2>2. GoesElsewhere(r)
    BY <1>1, Continues DEF DeleteUnlabels, Unlabels
  <2>3. /\ req' = [o \in Requests |-> req'[o]] /\ IsCall(req'[r]) /\ req'[r].pc \notin {"label", "update"}
        /\ \A o \in Requests : o # r => req'[o] = req[o]
    BY <2>2, Elsewhere
  <2>4. \A o \in Requests : IsCall(req'[o]) /\ Numbered(req'[o], made) /\ (Labelling(req'[o], box) => labelled)
    BY <2>3 DEF LabelInv, Numbered, Labelling
  <2>5. \A o \in Requests : Labelling(req[o], box) => Labelling(req'[o], box)
    BY <2>1, <2>3 DEF Labelling
  <2> QED BY <2>1, <2>3, <2>4, <2>5 DEF LabelInv
<1>2. CASE DeleteUnhooks(r)
  <2> DEFINE cleared(o) == [req[o] EXCEPT !.throughout = {}]
  <2>1. /\ req[r].pc = "unhook" /\ UNCHANGED <<box, made, labelled, meta, excused>>
        /\ req' = [o \in Requests |-> IF o = r THEN NoRequest ELSE cleared(o)]
    BY <1>2 DEF DeleteUnhooks
  <2>2. ASSUME NEW o \in Requests
        PROVE  /\ IsCall(cleared(o)) /\ cleared(o).pc = req[o].pc /\ cleared(o).box = req[o].box
               /\ cleared(o).labels = req[o].labels
    BY DEF LabelInv, IsCall, Fields
  <2> HIDE DEF cleared
  <2>3. \A o \in Requests : /\ IsCall(req'[o])
                            /\ o # r => /\ req'[o].pc = req[o].pc /\ req'[o].box = req[o].box
                                        /\ req'[o].labels = req[o].labels
                            /\ o = r => req'[o].pc = "idle"
    BY <2>1, <2>2, IdleCall
  <2>4. \A o \in Requests : /\ Numbered(req[o], made) => Numbered(req'[o], made)
                            /\ Labelling(req[o], box) <=> Labelling(req'[o], box)
                            /\ Unlabelling(req[o]) <=> Unlabelling(req'[o])
    BY <2>1, <2>3 DEF Numbered, Labelling, Unlabelling
  <2> QED BY <2>1, <2>3, <2>4 DEF LabelInv
<1> QED BY <1>1, <1>2

\* update_metadata.
LEMMA UpdateSteps ==
  ASSUME NEW r \in Requests
  PROVE  LabelInv /\ (UpdateChecks(r) \/ UpdateWrites(r)) => LabelInv'
<1> SUFFICES ASSUME LabelInv, UpdateChecks(r) \/ UpdateWrites(r) PROVE LabelInv'
  OBVIOUS
<1>1. CASE UpdateChecks(r)
  <2> DEFINE q == [NoRequest EXCEPT !.pc = "update", !.box = box]
  <2>1. /\ req' = [req EXCEPT ![r] = q] /\ req[r].pc = "idle" /\ box # 0
        /\ UNCHANGED <<box, made, labelled, meta, excused>>
    BY <1>1 DEF UpdateChecks, Set
  <2>2. IsCall(q) /\ q.pc = "update" /\ q.box = box
    BY DEF IsCall, Fields, NoRequest
  <2> HIDE DEF q
  <2>3. Numbered(q, made) /\ ~ Labelling(q, box)
    BY <2>1, <2>2 DEF Numbered, Labelling, LabelInv
  <2>4. /\ req' = [o \in Requests |-> req'[o]] /\ req'[r] = q
        /\ \A o \in Requests : o # r => req'[o] = req[o]
    BY <2>1 DEF LabelInv
  <2>5. \A o \in Requests : IsCall(req'[o]) /\ Numbered(req'[o], made) /\ (Labelling(req'[o], box) => labelled)
    BY <2>2, <2>3, <2>4 DEF LabelInv
  <2>6. \A o \in Requests : /\ Labelling(req[o], box) => Labelling(req'[o], box)
                            /\ Unlabelling(req[o]) => Unlabelling(req'[o])
    BY <2>1, <2>4 DEF Labelling, Unlabelling
  <2> QED BY <2>1, <2>4, <2>5, <2>6 DEF LabelInv
<1>2. CASE UpdateWrites(r)
  <2>1. /\ req[r].pc = "update" /\ UNCHANGED <<box, made>> /\ meta' = req[r].box
        /\ labelled' <=> labelled \/ box = req[r].box
        /\ ~ excused' => box = req[r].box
        /\ Returns(r)
    BY <1>2 DEF UpdateWrites
  <2>2. /\ req' = [o \in Requests |-> req'[o]] /\ IsCall(req'[r]) /\ req'[r].pc \notin {"label", "update"}
        /\ \A o \in Requests : o # r => req'[o] = req[o]
    BY <2>1, ReturnsAway, Elsewhere
  <2>3. req[r].box \in 1..made
    BY <2>1 DEF LabelInv, Numbered
  <2>4. \A o \in Requests : IsCall(req'[o]) /\ Numbered(req'[o], made) /\ (Labelling(req'[o], box) => labelled)
    BY <2>2 DEF LabelInv, Numbered, Labelling
  <2> QED BY <2>1, <2>2, <2>3, <2>4 DEF LabelInv
<1> QED BY <1>1, <1>2

\* The rows of hooks, the phases of the sandbox, and a crash.
LEMMA HookSteps ==
  ASSUME NEW h \in Hooks
  PROVE  LabelInv /\ (HookCreated(h) \/ HookUpdated(h) \/ HookDeleted(h)) => LabelInv'
<1> SUFFICES ASSUME LabelInv, HookCreated(h) \/ HookUpdated(h) \/ HookDeleted(h) PROVE LabelInv'
  OBVIOUS
<1>1. LabelsStay /\ (req' = req \/ NotThroughout(h))
  BY DEF HookCreated, HookUpdated, HookDeleted, LabelsStay
<1>2. CASE req' = req
  BY <1>1, <1>2, CallsStay DEF LabelInv
<1>3. CASE NotThroughout(h)
  <2> DEFINE still(o) == [req[o] EXCEPT !.throughout = @ \ {h}]
  <2>1. req' = [o \in Requests |-> still(o)]
    BY <1>3 DEF NotThroughout
  <2>2. ASSUME NEW o \in Requests
        PROVE  /\ IsCall(still(o)) /\ still(o).pc = req[o].pc /\ still(o).box = req[o].box
               /\ still(o).labels = req[o].labels
    BY DEF LabelInv, IsCall, Fields
  <2> HIDE DEF still
  <2> QED BY <1>1, <2>1, <2>2, CallsStay
<1> QED BY <1>1, <1>2, <1>3

LEMMA CrashStep == LabelInv /\ ServerCrash => LabelInv'
<1> SUFFICES ASSUME LabelInv, ServerCrash PROVE LabelInv'
  OBVIOUS
<1>1. /\ req' = [r \in Requests |-> NoRequest] /\ UNCHANGED <<box, made, labelled, meta>>
      /\ ~ excused' => ~ excused /\ \A r \in Requests : ~ CutShort(r)
  BY DEF ServerCrash
<1>2. \A r \in Requests : /\ req'[r] = NoRequest /\ IsCall(NoRequest) /\ Numbered(NoRequest, made)
                          /\ ~ Labelling(NoRequest, box)
  BY <1>1, IdleCall DEF Numbered, Labelling
<1>3. ~ excused' => /\ \A r \in Requests : ~ Labelling(req[r], box)
                    /\ meta # 0 => \A r \in Requests : ~ Unlabelling(req[r])
  BY <1>1 DEF CutShort, Labelling, Unlabelling
<1> QED BY <1>1, <1>2, <1>3 DEF LabelInv

LEMMA LabelBegins == SandboxInit => LabelInv
<1> SUFFICES ASSUME SandboxInit PROVE LabelInv
  OBVIOUS
<1>1. /\ box = 0 /\ made = 0 /\ labelled = FALSE /\ meta = 0
      /\ req = [r \in Requests |-> NoRequest]
  BY DEF SandboxInit
<1>2. IsCall(NoRequest) /\ Numbered(NoRequest, made) /\ ~ Labelling(NoRequest, box)
  BY IdleCall DEF Numbered, Labelling
<1> QED BY <1>1, <1>2 DEF LabelInv

LEMMA LabelNext == LabelInv /\ [SandboxNext]_sandboxVars => LabelInv'
<1> SUFFICES ASSUME LabelInv, [SandboxNext]_sandboxVars PROVE LabelInv'
  OBVIOUS
<1>1. ASSUME NEW r \in Requests,
             \/ CreateStarts(r) \/ PreListed(r) \/ PreSucceeds(r) \/ PreFails(r) \/ PreEnds(r)
             \/ Made(r) \/ MadeReplyLost(r) \/ MakeUnavailable(r) \/ MakeRefused(r) \/ Labels(r)
             \/ WaitEnds(r) \/ PresetsApplied(r) \/ PostStarts(r) \/ PostExits(r) \/ PostRaises(r) \/ PostEnds(r)
             \/ DeleteStarts(r) \/ Deleted(r) \/ DeletedReplyLost(r) \/ DeleteUnavailable(r) \/ NothingDeleted(r)
             \/ DeleteUnlabels(r) \/ DeleteUnhooks(r) \/ UpdateChecks(r) \/ UpdateWrites(r)
             \/ ReorderReads(r) \/ ReorderWrites(r) \/ RunStarts(r) \/ RunEnds(r)
      PROVE  LabelInv'
  BY <1>1, CreationSteps, MakeSteps, LabelStep, AfterSteps, OtherSteps, VanishSteps, CleanSteps, UpdateSteps
<1>2. ASSUME NEW h \in Hooks, HookCreated(h) \/ HookUpdated(h) \/ HookDeleted(h) PROVE LabelInv'
  BY <1>2, HookSteps
<1>3. CASE PhaseChanges
  BY <1>3, CallsStay DEF PhaseChanges, LabelsStay, LabelInv
<1>4. CASE DeletedOutside
  BY <1>4, VanishSteps
<1>5. CASE ServerCrash
  BY <1>5, CrashStep
<1>6. CASE UNCHANGED sandboxVars
  BY <1>6, CallsStay DEF sandboxVars, LabelsStay, LabelInv
<1> QED BY <1>1, <1>2, <1>3, <1>4, <1>5, <1>6 DEF SandboxNext

\* When no call is in progress, the labels are those given to the present sandbox,
\* but for what LabelsFit excuses: the part of SandboxHolds that is about labels.
THEOREM LabelsAreRight == SandboxSpec => []LabelsFit
<1>1. LabelInv => LabelsFit
  <2> SUFFICES ASSUME LabelInv, AllIdle, ~ excused PROVE meta = IF labelled THEN box ELSE 0
    BY DEF LabelsFit
  <2>1. \A r \in Requests : ~ Labelling(req[r], box) /\ ~ Unlabelling(req[r])
    BY DEF AllIdle, Labelling, Unlabelling
  <2> QED BY <2>1 DEF LabelInv
<1> QED BY <1>1, LabelBegins, LabelNext, PTL DEF SandboxSpec

-----------------------------------------------------------------------------
(***************************************************************************)
(* The hooks before a creation.  A hook that has been on since a call      *)
(* began is still to be listed, is still on its list, or has run for it.   *)
(***************************************************************************)
HookFields == {"phase", "order", "enabled", "goOn", "last"}
IsHook(x) == x = [f \in HookFields |-> x[f]]

Awaits(q, h) == \E i \in 1..Len(q.todo) : q.todo[i].id = h

Gated(q, gates) ==
  /\ q.pc = "list" => q.throughout \subseteq gates
  /\ q.pc = "pre" => /\ \E S : q.todo \in Seq(S)
                     /\ \A h \in q.throughout : h \in q.ran \/ Awaits(q, h)
  /\ q.pc = "make" /\ ~ q.skip => q.throughout \subseteq q.ran

HooksFit == hooks = [h \in Hooks |-> hooks[h]] /\ \A h \in Hooks : IsHook(hooks[h])

GateInv ==
  /\ HooksFit
  /\ req = [r \in Requests |-> req[r]]
  /\ \A r \in Requests : IsCall(req[r]) /\ Gated(req[r], Gates)

\* A gate before a step is one after it.
HooksKeep == HooksFit' /\ Gates \subseteq Gates'

\* A list has each of the hooks that take part: it is as long as they are many.
LEMMA ListsAll ==
  ASSUME NEW phase, NEW todo \in EnabledFor(phase)
  PROVE  /\ \E S : todo \in Seq(S)
         /\ \A h \in Taking(phase) : \E i \in 1..Len(todo) : todo[i].id = h
<1> DEFINE T == Taking(phase)
           D == 1..Cardinality(T)
<1>1. IsFiniteSet(T) /\ Cardinality(T) \in Nat
  <2>1. T \subseteq Hooks
    BY DEF Taking, Stored
  <2> QED BY <2>1, HooksAssumption, FS_Subset, FS_CardinalityType
<1>2. PICK ids \in SetToSeqs(T) : todo = [i \in DOMAIN ids |-> Listed(ids[i])]
  BY Zenon DEF EnabledFor
<1>3. ids \in Injection(D, T)
  <2>1. ids \in [D -> T] /\ \A i, j \in D : i # j => ids[i] # ids[j]
    BY <1>2, Zenon DEF SetToSeqs
  <2> HIDE DEF T, D
  <2> QED BY <2>1 DEF Injection, IsInjective
<1>4. IsFiniteSet(D) /\ Cardinality(D) = Cardinality(T)
  BY <1>1, FS_Interval
<1> HIDE DEF T
<1>5. ids \in Surjection(D, T)
  BY <1>1, <1>3, <1>4, FS_Injection
<1>6. DOMAIN ids = D /\ \A h \in T : \E i \in D : ids[i] = h
  BY <1>5 DEF Surjection
<1> DEFINE n == Cardinality(T)
<1>7. n \in Nat /\ todo = [i \in 1..n |-> Listed(ids[i])]
  BY <1>1, <1>2, <1>6
<1> HIDE DEF n
<1>8. todo \in Seq({Listed(ids[i]) : i \in 1..n}) /\ Len(todo) = n
  BY <1>7
<1>9. \A i \in 1..n : todo[i].id = ids[i]
  BY <1>7 DEF Listed
<1> QED BY <1>6, <1>8, <1>9 DEF n, T

\* One call changes, and the gates stay.
LEMMA GateMoves ==
  ASSUME GateInv, NEW r \in Requests, NEW q, IsCall(q), Gated(q, Gates), HooksKeep,
         req' = [req EXCEPT ![r] = q]
  PROVE  GateInv'
<1>1. /\ req' = [o \in Requests |-> req'[o]] /\ req'[r] = q
      /\ \A o \in Requests : o # r => req'[o] = req[o]
  BY DEF GateInv
<1>2. \A o \in Requests : IsCall(req'[o]) /\ Gated(req'[o], Gates)
  BY <1>1 DEF GateInv
<1>3. \A o \in Requests : Gated(req'[o], Gates')
  BY <1>2 DEF Gated, HooksKeep
<1> QED BY <1>1, <1>2, <1>3 DEF GateInv, HooksKeep

LEMMA HooksSame == ASSUME GateInv, UNCHANGED hooks PROVE HooksKeep
BY DEF GateInv, HooksKeep, HooksFit, Gates, Stored

\* A run changes no more of a row than what it says of the last run.
LEMMA PersistKeeps == ASSUME GateInv, NEW h, NEW s, Persist(h, s) PROVE HooksKeep
<1>1. CASE hooks' = hooks
  BY <1>1, HooksSame
<1>2. CASE hooks' = [hooks EXCEPT ![h].last = s]
  <2>1. \A g \in Hooks : /\ IsHook(hooks'[g]) /\ hooks'[g].phase = hooks[g].phase
                         /\ hooks'[g].enabled = hooks[g].enabled /\ hooks'[g].goOn = hooks[g].goOn
    BY <1>2 DEF GateInv, HooksFit, IsHook, HookFields
  <2>2. hooks' = [g \in Hooks |-> hooks'[g]]
    BY <1>2 DEF GateInv, HooksFit
  <2>3. \A g \in Hooks : hooks'[g].phase = "pre" => hooks'[g] # NoHook
    BY DEF NoHook
  <2> QED BY <2>1, <2>2, <2>3 DEF HooksKeep, HooksFit, Gates, Stored
<1> QED BY <1>1, <1>2 DEF Persist

\* A call goes on to something other than the hooks before a creation and the making.
Passes(r) ==
  \E q : IsCall(q) /\ q.pc \notin {"list", "pre", "make"} /\ req' = [req EXCEPT ![r] = q]

LEMMA PassFits == ASSUME GateInv, NEW r \in Requests, Passes(r), HooksKeep PROVE GateInv'
<1>1. PICK q : IsCall(q) /\ q.pc \notin {"list", "pre", "make"} /\ req' = [req EXCEPT ![r] = q]
  BY DEF Passes
<1>2. Gated(q, Gates)
  BY <1>1 DEF Gated
<1> QED BY <1>1, <1>2, GateMoves

LEMMA ReturnsPass == ASSUME NEW r \in Requests, Returns(r) PROVE Passes(r)
<1>1. req' = [req EXCEPT ![r] = NoRequest]
  BY DEF Returns, Set
<1>2. IsCall(NoRequest) /\ NoRequest.pc \notin {"list", "pre", "make"}
  BY IdleCall
<1> QED BY <1>1, <1>2, Zenon DEF Passes

LEMMA GoesPass ==
  ASSUME GateInv, NEW r \in Requests, NEW pc, pc \notin {"list", "pre", "make"}, Goes(r, pc)
  PROVE  Passes(r)
<1> DEFINE q == [req[r] EXCEPT !.pc = pc]
<1>1. req' = [req EXCEPT ![r] = q]
  BY DEF Goes, Set
<1>2. IsCall(q) /\ q.pc = pc
  BY DEF GateInv, IsCall, Fields
<1> HIDE DEF q
<1> QED BY <1>1, <1>2 DEF Passes

LEMMA NextPass ==
  ASSUME GateInv, NEW r \in Requests, req[r].pc \notin {"list", "pre", "make"}, PostGoesOn(r)
  PROVE  Passes(r)
<1> DEFINE t == Tail(req[r].todo)
           q == [req[r] EXCEPT !.todo = t]
<1>1. req' = [req EXCEPT ![r] = q]
  BY DEF PostGoesOn, Set
<1> HIDE DEF t
<1>2. IsCall(q) /\ q.pc = req[r].pc
  BY DEF GateInv, IsCall, Fields
<1> HIDE DEF q
<1> QED BY <1>1, <1>2 DEF Passes

\* A call that is made or deleted once more, or given up.
LEMMA AgainFits ==
  ASSUME GateInv, NEW r \in Requests, req[r].pc \in {"make", "delete"}, TriesAgain(r), HooksKeep
  PROVE  GateInv'
<1> DEFINE q == [req[r] EXCEPT !.attempt = @ + 1]
<1>1. Returns(r) \/ req' = [req EXCEPT ![r] = q]
  BY DEF TriesAgain, Set
<1>2. /\ IsCall(q) /\ q.pc = req[r].pc /\ q.skip = req[r].skip /\ q.ran = req[r].ran
      /\ q.throughout = req[r].throughout
  BY DEF GateInv, IsCall, Fields
<1> HIDE DEF q
<1>3. Gated(q, Gates)
  BY <1>2 DEF GateInv, Gated
<1> QED BY <1>1, <1>2, <1>3, ReturnsPass, PassFits, GateMoves

LEMMA GateCreation ==
  ASSUME NEW r \in Requests
  PROVE  GateInv /\ (CreateStarts(r) \/ PreListed(r) \/ PreSucceeds(r) \/ PreFails(r) \/ PreEnds(r)) => GateInv'
<1> SUFFICES ASSUME GateInv, CreateStarts(r) \/ PreListed(r) \/ PreSucceeds(r) \/ PreFails(r) \/ PreEnds(r)
             PROVE  GateInv'
  OBVIOUS
<1>0. IsCall(req[r]) /\ Gated(req[r], Gates)
  BY DEF GateInv
<1>1. CASE CreateStarts(r)
  <2>1. PICK labels \in BOOLEAN, presets \in BOOLEAN, skip \in BOOLEAN :
          Set(r, [NoRequest EXCEPT !.pc = IF skip THEN "make" ELSE "list", !.labels = labels,
                                 !.presets = presets, !.skip = skip, !.throughout = Gates])
    BY <1>1, Zenon DEF CreateStarts
  <2> DEFINE pc == IF skip THEN "make" ELSE "list"
             gates == Gates
             q == [NoRequest EXCEPT !.pc = pc, !.labels = labels,
                                    !.presets = presets, !.skip = skip, !.throughout = gates]
  <2>2. req' = [req EXCEPT ![r] = q]
    BY <2>1 DEF Set
  <2>3. (pc = "list" /\ ~ skip) \/ (pc = "make" /\ skip)
    OBVIOUS
  <2> HIDE DEF pc, gates
  <2>4. IsCall(q) /\ q.pc = pc /\ q.skip = skip /\ q.throughout = gates
    BY DEF IsCall, Fields, NoRequest
  <2> HIDE DEF q
  <2>5. Gated(q, gates)
    BY <2>3, <2>4 DEF Gated
  <2>6. HooksKeep
    BY <1>1, HooksSame, Zenon DEF CreateStarts
  <2> QED BY <2>2, <2>4, <2>5, <2>6, GateMoves DEF gates
<1>2. CASE PreListed(r)
  <2>1. PICK todo \in EnabledFor("pre") : Set(r, [req[r] EXCEPT !.pc = "pre", !.todo = todo])
    BY <1>2, Zenon DEF PreListed
  <2> DEFINE q == [req[r] EXCEPT !.pc = "pre", !.todo = todo]
  <2>2. req' = [req EXCEPT ![r] = q]
    BY <2>1 DEF Set
  <2>3. HooksKeep /\ req[r].pc = "list"
    BY <1>2, HooksSame, Zenon DEF PreListed
  <2>4. IsCall(q) /\ q.pc = "pre" /\ q.todo = todo /\ q.throughout = req[r].throughout
    BY <1>0 DEF IsCall, Fields
  <2> HIDE DEF q
  <2>5. Gated(q, Gates)
    <3>1. Gates \subseteq Taking("pre")
      BY DEF Gates, Taking
    <3> QED BY <1>0, <2>3, <2>4, <3>1, ListsAll DEF Gated, Awaits
  <2> QED BY <2>2, <2>3, <2>4, <2>5, GateMoves
<1>3. CASE PreSucceeds(r)
  <2> DEFINE old == req[r].todo
             h == Head(old).id
             todo == Tail(old)
             ran == req[r].ran \union {h}
             q == [req[r] EXCEPT !.todo = todo, !.ran = ran]
  <2>1. req' = [req EXCEPT ![r] = q] /\ req[r].pc = "pre" /\ old # <<>> /\ Persist(h, "success")
    BY <1>3 DEF PreSucceeds, Set
  <2>2. HooksKeep
    BY <2>1, PersistKeeps
  <2> HIDE DEF todo, ran
  <2>3. IsCall(q) /\ q.pc = req[r].pc /\ q.todo = todo /\ q.ran = ran /\ q.throughout = req[r].throughout
    BY <1>0 DEF IsCall, Fields
  <2> HIDE DEF q, old
  <2>4. PICK S : old \in Seq(S)
    BY <1>0, <2>1 DEF Gated, old
  <2>5. todo \in Seq(S)
    BY <2>1, <2>4 DEF todo
  <2>6. ASSUME NEW i \in 1..Len(old) PROVE old[i] = Head(old) \/ \E j \in 1..Len(todo) : todo[j] = old[i]
    <3>1. CASE i = 1
      BY <2>4, <3>1
    <3>2. CASE i # 1
      <4>1. i - 1 \in 1..Len(todo) /\ todo[i - 1] = old[i]
        BY <2>1, <2>4, <3>2 DEF todo
      <4> QED BY <4>1
    <3> QED BY <3>1, <3>2
  <2>7. \A g \in req[r].throughout : g \in req[r].ran \/ \E i \in 1..Len(old) : old[i].id = g
    BY <1>0, <2>1 DEF Gated, Awaits, old
  <2>8. \A g \in q.throughout : g \in q.ran \/ Awaits(q, g)
    BY <2>3, <2>6, <2>7 DEF Awaits, ran
  <2>9. Gated(q, Gates)
    BY <2>1, <2>3, <2>5, <2>8 DEF Gated
  <2> QED BY <2>1, <2>2, <2>3, <2>9, GateMoves
<1>4. CASE PreFails(r)
  BY <1>4, ReturnsPass, PersistKeeps, PassFits DEF PreFails
<1>5. CASE PreEnds(r)
  <2> DEFINE q == [req[r] EXCEPT !.pc = "make"]
  <2>1. req' = [req EXCEPT ![r] = q] /\ req[r].pc = "pre" /\ req[r].todo = <<>> /\ UNCHANGED hooks
    BY <1>5 DEF PreEnds, Goes, Set
  <2>2. IsCall(q) /\ q.pc = "make" /\ q.ran = req[r].ran /\ q.throughout = req[r].throughout
    BY <1>0 DEF IsCall, Fields
  <2> HIDE DEF q
  <2>3. \A h : ~ Awaits(req[r], h)
    BY <2>1 DEF Awaits
  <2>4. Gated(q, Gates)
    BY <1>0, <2>1, <2>2, <2>3 DEF Gated
  <2> QED BY <2>1, <2>2, <2>4, HooksSame, GateMoves
<1> QED BY <1>1, <1>2, <1>3, <1>4, <1>5

LEMMA GateMaking ==
  ASSUME NEW r \in Requests
  PROVE  GateInv /\ (Made(r) \/ MadeReplyLost(r) \/ MakeUnavailable(r) \/ MakeRefused(r) \/ Labels(r)
                    \/ WaitEnds(r) \/ PresetsApplied(r) \/ PostStarts(r) \/ PostExits(r)
                    \/ PostRaises(r) \/ PostEnds(r)) => GateInv'
<1> SUFFICES ASSUME GateInv, Made(r) \/ MadeReplyLost(r) \/ MakeUnavailable(r) \/ MakeRefused(r) \/ Labels(r)
                    \/ WaitEnds(r) \/ PresetsApplied(r) \/ PostStarts(r) \/ PostExits(r)
                    \/ PostRaises(r) \/ PostEnds(r)
             PROVE  GateInv'
  OBVIOUS
<1>0. IsCall(req[r])
  BY DEF GateInv
<1>1. CASE Made(r)
  <2> DEFINE n == made + 1
             q == [req[r] EXCEPT !.pc = "label", !.box = n]
  <2>1. req' = [req EXCEPT ![r] = q] /\ UNCHANGED hooks
    BY <1>1 DEF Made, Set
  <2> HIDE DEF n
  <2>2. IsCall(q) /\ q.pc = "label"
    BY <1>0 DEF IsCall, Fields
  <2> HIDE DEF q
  <2>3. Passes(r)
    BY <2>1, <2>2 DEF Passes
  <2> QED BY <2>1, <2>3, HooksSame, PassFits
<1>2. CASE MadeReplyLost(r) \/ MakeUnavailable(r)
  <2>1. req[r].pc = "make" /\ TriesAgain(r) /\ UNCHANGED hooks
    BY <1>2 DEF MadeReplyLost, MakeUnavailable
  <2> QED BY <2>1, HooksSame, AgainFits
<1>3. CASE MakeRefused(r) \/ PostEnds(r)
  BY <1>3, HooksSame, ReturnsPass, PassFits DEF MakeRefused, PostEnds
<1>4. CASE Labels(r) \/ WaitEnds(r) \/ PresetsApplied(r)
  <2>1. UNCHANGED hooks
    BY <1>4 DEF Labels, WaitEnds, PresetsApplied
  <2>2. Passes(r)
    BY <1>4, ReturnsPass, GoesPass DEF Labels, WaitEnds, PresetsApplied
  <2> QED BY <2>1, <2>2, HooksSame, PassFits
<1>5. CASE PostStarts(r)
  <2>1. HooksKeep
    BY <1>5, HooksSame, Zenon DEF PostStarts
  <2>2. CASE Returns(r)
    BY <2>1, <2>2, ReturnsPass, PassFits
  <2>3. ASSUME NEW todo, Set(r, [req[r] EXCEPT !.pc = "post", !.todo = todo]) PROVE GateInv'
    <3> DEFINE q == [req[r] EXCEPT !.pc = "post", !.todo = todo]
    <3>1. req' = [req EXCEPT ![r] = q]
      BY <2>3 DEF Set
    <3>2. IsCall(q) /\ q.pc = "post"
      BY <1>0 DEF IsCall, Fields
    <3> HIDE DEF q
    <3>3. Passes(r)
      BY <3>1, <3>2 DEF Passes
    <3> QED BY <2>1, <3>3, PassFits
  <2> QED BY <1>5, <2>2, <2>3, Zenon DEF PostStarts
<1>6. CASE PostExits(r)
  <2>1. /\ req[r].pc = "post" /\ (PostGoesOn(r) \/ Returns(r))
        /\ \E h, s : Persist(h, s)
    BY <1>6, Zenon DEF PostExits
  <2>2. Passes(r)
    BY <2>1, NextPass, ReturnsPass
  <2> QED BY <2>1, <2>2, PersistKeeps, PassFits
<1>7. CASE PostRaises(r)
  <2>1. req[r].pc = "post" /\ (PostGoesOn(r) \/ Returns(r)) /\ UNCHANGED hooks
    BY <1>7 DEF PostRaises
  <2> QED BY <2>1, NextPass, ReturnsPass, HooksSame, PassFits
<1> QED BY <1>1, <1>2, <1>3, <1>4, <1>5, <1>6, <1>7

LEMMA GateOthers ==
  ASSUME NEW r \in Requests
  PROVE  GateInv /\ (DeleteStarts(r) \/ Deleted(r) \/ DeletedReplyLost(r) \/ DeleteUnavailable(r)
                    \/ NothingDeleted(r) \/ DeleteUnlabels(r) \/ UpdateChecks(r) \/ UpdateWrites(r)
                    \/ ReorderReads(r) \/ ReorderWrites(r) \/ RunStarts(r) \/ RunEnds(r)) => GateInv'
<1> SUFFICES ASSUME GateInv, DeleteStarts(r) \/ Deleted(r) \/ DeletedReplyLost(r) \/ DeleteUnavailable(r)
                    \/ NothingDeleted(r) \/ DeleteUnlabels(r) \/ UpdateChecks(r) \/ UpdateWrites(r)
                    \/ ReorderReads(r) \/ ReorderWrites(r) \/ RunStarts(r) \/ RunEnds(r)
             PROVE  GateInv'
  OBVIOUS
<1>1. CASE DeletedReplyLost(r) \/ DeleteUnavailable(r)
  <2>1. req[r].pc = "delete" /\ TriesAgain(r) /\ UNCHANGED hooks
    BY <1>1 DEF DeletedReplyLost, DeleteUnavailable
  <2> QED BY <2>1, HooksSame, AgainFits
<1>2. CASE Deleted(r) \/ NothingDeleted(r) \/ DeleteUnlabels(r) \/ UpdateWrites(r)
  <2>1. UNCHANGED hooks
    BY <1>2 DEF Deleted, NothingDeleted, DeleteUnlabels, UpdateWrites
  <2>2. Passes(r)
    BY <1>2, ReturnsPass, GoesPass DEF Deleted, NothingDeleted, DeleteUnlabels, Unlabels, UpdateWrites
  <2> QED BY <2>1, <2>2, HooksSame, PassFits
<1>3. CASE DeleteStarts(r)
  <2> DEFINE q == [NoRequest EXCEPT !.pc = "delete"]
  <2>1. req' = [req EXCEPT ![r] = q] /\ UNCHANGED hooks
    BY <1>3 DEF DeleteStarts, Set
  <2>2. IsCall(q) /\ q.pc = "delete"
    BY DEF IsCall, Fields, NoRequest
  <2> HIDE DEF q
  <2> QED BY <2>1, <2>2, HooksSame, PassFits DEF Passes
<1>4. CASE UpdateChecks(r)
  <2> DEFINE q == [NoRequest EXCEPT !.pc = "update", !.box = box]
  <2>1. req' = [req EXCEPT ![r] = q] /\ UNCHANGED hooks
    BY <1>4 DEF UpdateChecks, Set
  <2>2. IsCall(q) /\ q.pc = "update"
    BY DEF IsCall, Fields, NoRequest
  <2> HIDE DEF q
  <2> QED BY <2>1, <2>2, HooksSame, PassFits DEF Passes
<1>5. CASE ReorderReads(r)
  <2>1. PICK todo : Set(r, [NoRequest EXCEPT !.pc = "reorder", !.todo = todo])
    BY <1>5, Zenon DEF ReorderReads
  <2> DEFINE q == [NoRequest EXCEPT !.pc = "reorder", !.todo = todo]
  <2>2. req' = [req EXCEPT ![r] = q]
    BY <2>1 DEF Set
  <2>3. IsCall(q) /\ q.pc = "reorder"
    BY DEF IsCall, Fields, NoRequest
  <2> HIDE DEF q
  <2>4. Passes(r)
    BY <2>2, <2>3 DEF Passes
  <2>5. HooksKeep
    BY <1>5, HooksSame, Zenon DEF ReorderReads
  <2> QED BY <2>4, <2>5, PassFits
<1>6. CASE RunStarts(r)
  <2>1. PICK h \in Hooks : Set(r, [NoRequest EXCEPT !.pc = "one", !.todo = <<Listed(h)>>])
    BY <1>6, Zenon DEF RunStarts
  <2> DEFINE todo == <<Listed(h)>>
             q == [NoRequest EXCEPT !.pc = "one", !.todo = todo]
  <2>2. req' = [req EXCEPT ![r] = q]
    BY <2>1 DEF Set
  <2> HIDE DEF todo
  <2>3. IsCall(q) /\ q.pc = "one"
    BY DEF IsCall, Fields, NoRequest
  <2> HIDE DEF q
  <2>4. Passes(r)
    BY <2>2, <2>3 DEF Passes
  <2>5. HooksKeep
    BY <1>6, HooksSame, Zenon DEF RunStarts
  <2> QED BY <2>4, <2>5, PassFits
<1>7. CASE RunEnds(r)
  <2>1. Passes(r)
    BY <1>7, ReturnsPass, Zenon DEF RunEnds
  <2>2. (\E h, s : Persist(h, s)) \/ UNCHANGED hooks
    BY <1>7, Zenon DEF RunEnds
  <2> QED BY <2>1, <2>2, HooksSame, PersistKeeps, PassFits
<1>8. CASE ReorderWrites(r)
  <2>1. Passes(r)
    BY <1>8, ReturnsPass, Zenon DEF ReorderWrites
  <2>2. hooks' = hooks \/ hooks' = Reordered(req[r].todo)
    BY <1>8, Zenon DEF ReorderWrites
  <2>3. CASE hooks' = Reordered(req[r].todo)
    <3>1. PICK place : hooks' = [h \in Hooks |-> IF place[h] = {} THEN hooks[h]
                                              ELSE [hooks[h] EXCEPT !.order = Max(place[h]) - 1]]
      <4> DEFINE rows == req[r].todo
                 place == [h \in Hooks |-> {i \in DOMAIN rows : rows[i].id = h /\ rows[i].was # i - 1}]
      <4>1. hooks' = [h \in Hooks |-> IF place[h] = {} THEN hooks[h]
                                     ELSE [hooks[h] EXCEPT !.order = Max(place[h]) - 1]]
        BY <2>3, Zenon DEF Reordered
      <4> QED BY <4>1, Zenon
    <3>2. ASSUME NEW h \in Hooks
          PROVE  /\ IsHook(hooks'[h]) /\ hooks'[h].phase = hooks[h].phase
                 /\ hooks'[h].enabled = hooks[h].enabled /\ hooks'[h].goOn = hooks[h].goOn
      <4> DEFINE n == Max(place[h]) - 1
      <4>1. hooks'[h] = (IF place[h] = {} THEN hooks[h] ELSE [hooks[h] EXCEPT !.order = n])
        BY <3>1
      <4> HIDE DEF n
      <4> QED BY <4>1 DEF GateInv, HooksFit, IsHook, HookFields
    <3>3. hooks' = [h \in Hooks |-> hooks'[h]]
      BY <3>1
    <3>4. \A h \in Hooks : hooks'[h].phase = "pre" => hooks'[h] # NoHook
      BY DEF NoHook
    <3> HIDE DEF Reordered
    <3>5. HooksKeep
      BY <3>2, <3>3, <3>4 DEF HooksKeep, HooksFit, Gates, Stored
    <3> QED BY <2>1, <3>5, PassFits
  <2> QED BY <2>1, <2>2, <2>3, HooksSame, PassFits
<1> QED BY <1>1, <1>2, <1>3, <1>4, <1>5, <1>6, <1>7, <1>8

\* A call is done with, or is as it was except that the hooks in out are not owed to it.
Struck(r, out) ==
  \/ req'[r] = NoRequest
  \/ /\ IsCall(req'[r]) /\ req'[r].pc = req[r].pc /\ req'[r].skip = req[r].skip
     /\ req'[r].todo = req[r].todo /\ req'[r].ran = req[r].ran
     /\ req'[r].throughout \subseteq req[r].throughout \ out

\* Steps that are of no one call: what is no gate any more is struck out of every call.
LEMMA GateAll ==
  ASSUME GateInv, HooksFit', NEW out, Gates \ out \subseteq Gates',
         req' = [r \in Requests |-> req'[r]], \A r \in Requests : Struck(r, out)
  PROVE  GateInv'
<1>1. ASSUME NEW r \in Requests PROVE IsCall(req'[r]) /\ Gated(req'[r], Gates')
  <2>1. CASE req'[r] = NoRequest
    BY <2>1, IdleCall DEF Gated
  <2>2. CASE req'[r] # NoRequest
    BY <2>2 DEF GateInv, Gated, Awaits, Struck
  <2> QED BY <2>1, <2>2
<1> QED BY <1>1 DEF GateInv

\* The calls, each with what is left of what it is owed.
LEMMA StruckFit ==
  ASSUME GateInv, HooksFit', NEW out, Gates \ out \subseteq Gates', NEW rest,
         \A r \in Requests : rest[r] \subseteq req[r].throughout \ out,
         req' = [r \in Requests |-> req'[r]],
         \A r \in Requests : req'[r] = NoRequest \/ req'[r] = [req[r] EXCEPT !.throughout = rest[r]]
  PROVE  GateInv'
<1>1. ASSUME NEW r \in Requests PROVE Struck(r, out)
  <2>1. CASE req'[r] = NoRequest
    BY <2>1 DEF Struck
  <2>2. CASE req'[r] = [req[r] EXCEPT !.throughout = rest[r]]
    <3> DEFINE left == rest[r]
               still == [req[r] EXCEPT !.throughout = left]
    <3>1. left \subseteq req[r].throughout \ out /\ IsCall(req[r]) /\ req'[r] = still
      BY <2>2 DEF GateInv
    <3> HIDE DEF left
    <3>2. /\ IsCall(still) /\ still.pc = req[r].pc /\ still.skip = req[r].skip
          /\ still.todo = req[r].todo /\ still.ran = req[r].ran /\ still.throughout = left
      BY <3>1 DEF IsCall, Fields
    <3> HIDE DEF still
    <3> QED BY <3>1, <3>2 DEF Struck
  <2> QED BY <2>1, <2>2
<1> QED BY <1>1, GateAll

LEMMA GateHooks ==
  ASSUME NEW h \in Hooks
  PROVE  GateInv /\ (HookCreated(h) \/ HookUpdated(h) \/ HookDeleted(h)) => GateInv'
<1> SUFFICES ASSUME GateInv, HookCreated(h) \/ HookUpdated(h) \/ HookDeleted(h) PROVE GateInv'
  OBVIOUS
<1>1. \A r \in Requests : IsCall(req[r])
  BY DEF GateInv
<1>2. PICK x : hooks' = [hooks EXCEPT ![h] = x] /\ IsHook(x)
               /\ (~ NotThroughout(h) => req' = req /\ (h \in Gates => h \in Gates'))
  <2>1. CASE HookCreated(h)
    <3>1. PICK phase \in {"pre", "post"}, goOn \in BOOLEAN :
            hooks' = [hooks EXCEPT ![h] = [phase |-> phase, order |-> NextOrder(phase), enabled |-> TRUE,
                                           goOn |-> goOn, last |-> "never"]]
      BY <2>1, Zenon DEF HookCreated
    <3> DEFINE n == NextOrder(phase)
               x == [phase |-> phase, order |-> n, enabled |-> TRUE, goOn |-> goOn, last |-> "never"]
    <3>2. hooks' = [hooks EXCEPT ![h] = x]
      BY <3>1
    <3> HIDE DEF n
    <3>3. IsHook(x)
      BY DEF IsHook, HookFields
    <3>4. req' = req /\ h \notin Gates
      <4>1. req' = req /\ hooks[h] = NoHook
        BY <2>1, Zenon DEF HookCreated
      <4> QED BY <4>1 DEF Gates, Stored
    <3> HIDE DEF x
    <3> QED BY <3>2, <3>3, <3>4
  <2>2. CASE HookDeleted(h)
    <3>1. hooks' = [hooks EXCEPT ![h] = NoHook] /\ NotThroughout(h)
      BY <2>2 DEF HookDeleted
    <3>2. IsHook(NoHook)
      BY DEF NoHook, IsHook, HookFields
    <3> QED BY <3>1, <3>2
  <2>3. CASE HookUpdated(h)
    <3>1. PICK enabled \in BOOLEAN, goOn \in BOOLEAN :
            hooks' = [hooks EXCEPT ![h].enabled = enabled, ![h].goOn = goOn]
      BY <2>3, Zenon DEF HookUpdated
    <3> DEFINE x == [hooks[h] EXCEPT !.enabled = enabled, !.goOn = goOn]
    <3>2. hooks' = [hooks EXCEPT ![h] = x]
      BY <3>1 DEF GateInv, HooksFit
    <3>3. IsHook(x)
      BY DEF GateInv, HooksFit, IsHook, HookFields
    <3>4. IF h \in Gates' THEN UNCHANGED req ELSE NotThroughout(h)
      BY <2>3, Zenon DEF HookUpdated
    <3> HIDE DEF x
    <3> QED BY <3>2, <3>3, <3>4
  <2> QED BY <2>1, <2>2, <2>3
<1>3. /\ hooks' = [g \in Hooks |-> hooks'[g]] /\ hooks'[h] = x
      /\ \A g \in Hooks : g # h => hooks'[g] = hooks[g]
  BY <1>2 DEF GateInv, HooksFit
<1>4. HooksFit'
  BY <1>2, <1>3 DEF GateInv, HooksFit
<1>5. Gates \ {h} \subseteq Gates'
  BY <1>3 DEF Gates, Stored
<1>6. CASE NotThroughout(h)
  <2> DEFINE out == {h}
             rest == [r \in Requests |-> req[r].throughout \ out]
  <2>1. req' = [r \in Requests |-> [req[r] EXCEPT !.throughout = rest[r]]]
    BY <1>6 DEF NotThroughout
  <2>2. \A r \in Requests : rest[r] \subseteq req[r].throughout \ out
    OBVIOUS
  <2>3. Gates \ out \subseteq Gates'
    BY <1>5
  <2> HIDE DEF rest, out
  <2>4. req' = [r \in Requests |-> req'[r]]
    BY <2>1, Zenon
  <2>5. \A r \in Requests : req'[r] = NoRequest \/ req'[r] = [req[r] EXCEPT !.throughout = rest[r]]
    BY <2>1, Zenon
  <2> QED BY <1>4, <2>2, <2>3, <2>4, <2>5, StruckFit
<1>7. CASE ~ NotThroughout(h)
  <2>1. req' = req /\ Gates \subseteq Gates'
    BY <1>2, <1>5, <1>7
  <2>2. \A r \in Requests : Struck(r, {})
    BY <1>1, <2>1 DEF Struck
  <2>3. req' = [r \in Requests |-> req'[r]] /\ Gates \ {} \subseteq Gates'
    BY <2>1 DEF GateInv
  <2> QED BY <1>4, <2>2, <2>3, GateAll
<1> QED BY <1>6, <1>7

\* Calls are let go and hooks are gone: nothing is owed.
LEMMA GateUnhooks == ASSUME NEW r \in Requests PROVE GateInv /\ DeleteUnhooks(r) => GateInv'
<1> SUFFICES ASSUME GateInv, DeleteUnhooks(r) PROVE GateInv'
  OBVIOUS
<1>1. hooks' = [h \in Hooks |-> NoHook] /\ IsHook(NoHook)
  BY DEF DeleteUnhooks, NoHook, IsHook, HookFields
<1>2. HooksFit' /\ Gates \ Hooks \subseteq Gates'
  BY <1>1 DEF HooksFit, Gates, Stored
<1> DEFINE rest == [q \in Requests |-> {}]
<1>3. req' = [q \in Requests |-> IF q = r THEN NoRequest ELSE [req[q] EXCEPT !.throughout = rest[q]]]
  BY DEF DeleteUnhooks
<1>4. \A q \in Requests : rest[q] \subseteq req[q].throughout \ Hooks
  OBVIOUS
<1> HIDE DEF rest
<1>5. /\ req' = [q \in Requests |-> req'[q]]
      /\ \A q \in Requests : req'[q] = NoRequest \/ req'[q] = [req[q] EXCEPT !.throughout = rest[q]]
  BY <1>3, Zenon
<1> QED BY <1>2, <1>4, <1>5, StruckFit

\* Steps of nobody's call, and a crash, which drops every call.
LEMMA GateRest ==
  GateInv /\ (PhaseChanges \/ DeletedOutside \/ ServerCrash \/ UNCHANGED sandboxVars) => GateInv'
<1>1. ASSUME GateInv, UNCHANGED <<req, hooks>> PROVE GateInv'
  <2>1. HooksKeep /\ req' = req
    BY <1>1, HooksSame
  <2>2. \A r \in Requests : Struck(r, {})
    BY <1>1, <2>1 DEF Struck, GateInv
  <2>3. HooksFit' /\ Gates \ {} \subseteq Gates' /\ req' = [r \in Requests |-> req'[r]]
    BY <1>1, <2>1 DEF HooksKeep, GateInv
  <2> QED BY <1>1, <2>2, <2>3, GateAll
<1>2. ASSUME GateInv, ServerCrash PROVE GateInv'
  <2>1. req' = [r \in Requests |-> NoRequest] /\ UNCHANGED hooks
    BY <1>2 DEF ServerCrash
  <2>2. \A r \in Requests : Struck(r, {})
    BY <2>1 DEF Struck
  <2>3. HooksFit' /\ Gates \ {} \subseteq Gates' /\ req' = [r \in Requests |-> req'[r]]
    BY <1>2, <2>1, HooksSame DEF HooksKeep
  <2> QED BY <1>2, <2>2, <2>3, GateAll
<1> QED BY <1>1, <1>2 DEF PhaseChanges, DeletedOutside, sandboxVars

LEMMA GateBegins == SandboxInit => GateInv
<1> SUFFICES ASSUME SandboxInit PROVE GateInv
  OBVIOUS
<1>1. req = [r \in Requests |-> NoRequest]
  BY Zenon DEF SandboxInit
<1>2. PICK given \in SUBSET Hooks, phase \in {"pre", "post"}, goOn \in BOOLEAN :
        hooks = [h \in Hooks |-> IF h \notin given THEN NoHook
                               ELSE [phase |-> phase, order |-> h, enabled |-> TRUE, goOn |-> goOn, last |-> "never"]]
  BY Zenon DEF SandboxInit
<1>3. IsHook(NoHook)
  BY DEF NoHook, IsHook, HookFields
<1>4. ASSUME NEW h \in Hooks
      PROVE  IsHook([phase |-> phase, order |-> h, enabled |-> TRUE, goOn |-> goOn, last |-> "never"])
  BY DEF IsHook, HookFields
<1>5. HooksFit
  BY <1>2, <1>3, <1>4, Zenon DEF HooksFit
<1>6. Gated(NoRequest, Gates)
  BY IdleCall DEF Gated
<1> QED BY <1>1, <1>5, <1>6, IdleCall DEF GateInv

LEMMA GateNext == GateInv /\ [SandboxNext]_sandboxVars => GateInv'
<1> SUFFICES ASSUME GateInv, [SandboxNext]_sandboxVars PROVE GateInv'
  OBVIOUS
<1>1. ASSUME NEW r \in Requests,
             \/ CreateStarts(r) \/ PreListed(r) \/ PreSucceeds(r) \/ PreFails(r) \/ PreEnds(r)
             \/ Made(r) \/ MadeReplyLost(r) \/ MakeUnavailable(r) \/ MakeRefused(r) \/ Labels(r)
             \/ WaitEnds(r) \/ PresetsApplied(r) \/ PostStarts(r) \/ PostExits(r) \/ PostRaises(r) \/ PostEnds(r)
             \/ DeleteStarts(r) \/ Deleted(r) \/ DeletedReplyLost(r) \/ DeleteUnavailable(r) \/ NothingDeleted(r)
             \/ DeleteUnlabels(r) \/ DeleteUnhooks(r) \/ UpdateChecks(r) \/ UpdateWrites(r)
             \/ ReorderReads(r) \/ ReorderWrites(r) \/ RunStarts(r) \/ RunEnds(r)
      PROVE  GateInv'
  BY <1>1, GateCreation, GateMaking, GateOthers, GateUnhooks
<1>2. ASSUME NEW h \in Hooks, HookCreated(h) \/ HookUpdated(h) \/ HookDeleted(h) PROVE GateInv'
  BY <1>2, GateHooks
<1>3. CASE PhaseChanges \/ DeletedOutside \/ ServerCrash \/ UNCHANGED sandboxVars
  BY <1>3, GateRest
<1> QED BY <1>1, <1>2, <1>3 DEF SandboxNext

\* Labels and hooks together (SandboxService.create, delete and update_metadata;
\* BootHookService.run_pre_create): between calls the labels are those given to the
\* present sandbox, and no sandbox is made past a hook that owed it a run and that is
\* not marked continue_on_failure.
THEOREM SandboxesHold == SandboxSpec => SandboxHolds
<1>1. GateInv => ~ Ungated
  <2> SUFFICES ASSUME GateInv, NEW r \in Requests, MakesUngated(r) PROVE FALSE
    BY DEF Ungated
  <2>1. req[r].pc = "make" /\ ~ req[r].skip /\ ~ (req[r].throughout \subseteq req[r].ran)
    BY DEF MakesUngated, Made, MadeReplyLost
  <2> QED BY <2>1 DEF GateInv, Gated
<1>2. GateInv /\ [SandboxNext]_sandboxVars => [~ Ungated]_sandboxVars
  BY <1>1
<1> QED BY <1>2, GateBegins, GateNext, LabelsAreRight, PTL DEF SandboxSpec, SandboxHolds

=============================================================================
