------------------------------ MODULE Gateways ------------------------------
(***************************************************************************)
(* The connection cache (services/gateway.py) over the gateway registry    *)
(* (services/registry.py), for one gateway name: names do not meet.        *)
(*                                                                         *)
(* get_client keeps the entry it found across its awaits, while unregister *)
(* and get_info drop it from the cache, and other calls change it.  What   *)
(* becomes of a dropped entry nobody sees but the calls that hold it: they *)
(* are told apart from those that hold the cached one.  A channel is known *)
(* by the registration whose credentials it was opened with; 0 stands for  *)
(* the local files, which serve a name that is not registered.             *)
(***************************************************************************)
EXTENDS Naturals

CONSTANTS
  Calls,      \* calls of get_client, by requests and by the periodic tasks
  Channels,   \* clients; one that nothing refers to is used again
  MaxGen,     \* bound on the registrations
  MaxBackoff  \* the steps of the backoff up to its ceiling

ASSUME GatewayBounds == MaxGen \in Nat /\ MaxBackoff \in Nat \ {0}

NoChannel == "no channel"
ASSUME ChannelAssumption == NoChannel \notin Channels

VARIABLES
  gen,      \* the registry row: which registration, 0 for none
  gens,     \* registrations so far
  cache,    \* the cached entry of the name, if there is one
  chan,     \* the channels
  call,     \* where each call is
  leaving,  \* an unregister has dropped the entry and not yet the row
  strayed   \* history: credentials were read of no, or of a leaving, row

gatewayVars == <<gen, gens, cache, chan, call, leaving, strayed>>

Client     == Channels \union {NoChannel}
\* due: the backoff has passed since the last attempt.
EntryRec   == [there: BOOLEAN, client: Client, backoff: 0 .. MaxBackoff, due: BOOLEAN]
ChannelRec == [open: BOOLEAN, to: 0 .. MaxGen]
\* cached: the entry that the call found is the one in the cache.
CallRec    == [pc: {"new", "probe", "closing", "creds", "dial"}, cached: BOOLEAN,
               client: Client, to: 0 .. MaxGen]

NoEntry == [there |-> FALSE, client |-> NoChannel, backoff |-> 0, due |-> TRUE]
NoCall  == [pc |-> "new", cached |-> FALSE, client |-> NoChannel, to |-> 0]

GatewayInit ==
  /\ gen = 0 /\ gens = 0
  /\ cache = NoEntry
  /\ chan = [x \in Channels |-> [open |-> FALSE, to |-> 0]]
  /\ call = [c \in Calls |-> NoCall]
  /\ leaving = FALSE
  /\ strayed = FALSE

At(c, pc) == call[c].pc = pc
Unused(x) == cache.client # x /\ \A c \in Calls : call[c].client # x

-----------------------------------------------------------------------------
(* get_client.                                                             *)

\* The call returns, or raises.
Ends(c) == call' = [call EXCEPT ![c] = NoCall]

\* Phase 3, with r the cached entry: refused, or the next to read the row.
Attempts(c, r) ==
  IF r.backoff > 0 /\ ~ r.due
    THEN cache' = r /\ Ends(c)
    ELSE /\ cache' = [r EXCEPT !.due = FALSE]
         /\ call' = [call EXCEPT ![c] = [NoCall EXCEPT !.pc = "creds", !.cached = TRUE]]

\* Phase 1: the entry is found, or made.
GetClient(c) ==
  /\ At(c, "new")
  /\ LET r == [cache EXCEPT !.there = TRUE] IN
       IF r.client = NoChannel
         THEN Attempts(c, r)
         ELSE /\ cache' = r
              /\ call' = [call EXCEPT ![c] =
                   [pc |-> "probe", cached |-> TRUE, client |-> r.client, to |-> 0]]
  /\ UNCHANGED <<gen, gens, chan, leaving, strayed>>

\* Phase 2: the cached client answers; or else another call has closed it,
\* which is no RPC error: get_client ends with it.
ProbeEnds(c) ==
  /\ At(c, "probe")
  /\ Ends(c)
  /\ UNCHANGED <<gen, gens, cache, chan, leaving, strayed>>

ProbeFails(c) ==
  /\ At(c, "probe") /\ chan[call[c].client].open
  /\ chan' = [chan EXCEPT ![call[c].client].open = FALSE]
  /\ call' = [call EXCEPT ![c].pc = "closing"]
  /\ UNCHANGED <<gen, gens, cache, leaving, strayed>>

\* Two probes of one client fail: the second closes it once more.
ProbeFailsToo(c) ==
  /\ At(c, "probe") /\ ~ chan[call[c].client].open
  /\ call' = [call EXCEPT ![c].pc = "closing"]
  /\ UNCHANGED <<gen, gens, cache, chan, leaving, strayed>>

\* Mutant of Dropped: the closed client stays in the entry.
NotDropped(r) == [r EXCEPT !.backoff = 0]

\* Whatever client the entry has by now, it loses.
Dropped(r) == [r EXCEPT !.client = NoChannel, !.backoff = 0]

\* The entry that was dropped meanwhile gets a new client for nothing.
Closed(c) ==
  /\ At(c, "closing")
  /\ IF call[c].cached
       THEN Attempts(c, Dropped(cache))
       ELSE call' = [call EXCEPT ![c] = [NoCall EXCEPT !.pc = "creds"]] /\ UNCHANGED cache
  /\ UNCHANGED <<gen, gens, chan, leaving, strayed>>

\* Phase 4: the credentials of the row, or else the local files.
ReadCredentials(c) ==
  /\ At(c, "creds")
  /\ call' = [call EXCEPT ![c].pc = "dial", ![c].to = gen]
  /\ strayed' = (strayed \/ gen = 0 \/ leaving)
  /\ UNCHANGED <<gen, gens, cache, chan, leaving>>

\* Phase 5: the caller of a dropped entry has a channel that is not cached.
Connects(c) ==
  /\ At(c, "dial") /\ call[c].cached
  /\ \E x \in Channels :
       /\ Unused(x)
       /\ chan' = [chan EXCEPT ![x] = [open |-> TRUE, to |-> call[c].to]]
       /\ cache' = [cache EXCEPT !.client = x, !.backoff = 0]
  /\ Ends(c)
  /\ UNCHANGED <<gen, gens, leaving, strayed>>

Doubled(b) == IF b = MaxBackoff THEN b ELSE b + 1

ConnectFails(c) ==
  /\ At(c, "dial") /\ call[c].cached
  /\ cache' = [cache EXCEPT !.backoff = Doubled(@)]
  /\ Ends(c)
  /\ UNCHANGED <<gen, gens, chan, leaving, strayed>>

\* A dropped entry; or a bundle that does not validate, past the backoff.
ConnectEnds(c) ==
  /\ At(c, "dial")
  /\ Ends(c)
  /\ UNCHANGED <<gen, gens, cache, chan, leaving, strayed>>

-----------------------------------------------------------------------------
(* The registry, get_info and test_connection.                             *)

Register ==
  /\ gen = 0 /\ gens < MaxGen
  /\ gen' = gens + 1 /\ gens' = gens + 1
  /\ UNCHANGED <<cache, chan, call, leaving, strayed>>

\* set_client without a client pops the entry, and does not close it.
SetNoClient ==
  /\ cache' = NoEntry
  /\ call' = [c \in Calls |-> [call[c] EXCEPT !.cached = FALSE]]

UnregisterDrops ==
  /\ ~ leaving
  /\ SetNoClient
  /\ leaving' = TRUE
  /\ UNCHANGED <<gen, gens, chan, strayed>>

UnregisterDeletes ==
  /\ leaving
  /\ gen' = 0
  /\ leaving' = FALSE
  /\ UNCHANGED <<gens, cache, chan, call, strayed>>

\* A get_info whose probe failed drops the entry, which may be a newer one.
InfoDrops ==
  /\ cache.there
  /\ SetNoClient
  /\ UNCHANGED <<gen, gens, chan, leaving, strayed>>

\* test_connection, before its own call of get_client.
ResetBackoff ==
  /\ cache.there
  /\ cache' = [cache EXCEPT !.backoff = 0, !.due = TRUE]
  /\ UNCHANGED <<gen, gens, chan, call, leaving, strayed>>

BackoffPasses ==
  /\ ~ cache.due
  /\ cache' = [cache EXCEPT !.due = TRUE]
  /\ UNCHANGED <<gen, gens, chan, call, leaving, strayed>>

GatewayNext ==
  \/ \E c \in Calls :
       \/ GetClient(c) \/ ProbeEnds(c) \/ ProbeFails(c) \/ ProbeFailsToo(c) \/ Closed(c)
       \/ ReadCredentials(c) \/ Connects(c) \/ ConnectFails(c) \/ ConnectEnds(c)
  \/ Register
  \/ UnregisterDrops
  \/ UnregisterDeletes
  \/ InfoDrops
  \/ ResetBackoff
  \/ BackoffPasses

GatewaySpec == GatewayInit /\ [][GatewayNext]_gatewayVars

-----------------------------------------------------------------------------
GatewayTypeOK ==
  /\ gen \in 0 .. MaxGen /\ gens \in 0 .. MaxGen
  /\ cache \in EntryRec
  /\ chan \in [Channels -> ChannelRec]
  /\ call \in [Calls -> CallRec]
  /\ leaving \in BOOLEAN /\ strayed \in BOOLEAN

\* The cached channel leads to the gateway that is registered, unless some call
\* read the credentials while the name was not registered or was on its way out.
NothingStale == cache.client # NoChannel => chan[cache.client].to = gen \/ strayed

\* A closed channel is in the cache only while the call that closed it is about
\* to take it out.
NothingDead ==
  cache.client # NoChannel /\ ~ chan[cache.client].open =>
    \E c \in Calls : At(c, "closing") /\ call[c].cached /\ call[c].client = cache.client

(***************************************************************************)
(* get_client never keeps a channel it should not serve: neither one that  *)
(* leads to an earlier registration of the name, nor a dead one, however   *)
(* calls, unregistrations and probes that share the entry overlap.         *)
(***************************************************************************)
CacheServes == NothingStale /\ NothingDead

=============================================================================
