---------------------------- MODULE UsageProofs ----------------------------
(***************************************************************************)
(* Theorems about Usage, for any clock, batch, limits and windows.         *)
(***************************************************************************)
EXTENDS Usage, FiniteSetTheorems, TLAPS

-----------------------------------------------------------------------------
(* Sums of counters.                                                       *)

LEMMA UnitsFinite ==
  ASSUME NEW f \in [Day -> Nat], NEW days \in SUBSET Day
  PROVE  IsFiniteSet(UNION {{d} \X (1 .. f[d]) : d \in days})
<1> DEFINE units == [d \in days |-> {d} \X (1 .. f[d])]
           all   == {{d} \X (1 .. f[d]) : d \in days}
<1>1. IsFiniteSet(days)
  <2>1. IsFiniteSet(Day)
    BY FS_Interval, MeteringAssumption DEF Day
  <2> QED BY <2>1, FS_Subset
<1>2. units \in Surjection(days, all)
  BY DEF Surjection
<1>3. IsFiniteSet(all)
  BY <1>1, <1>2, FS_Surjection
<1>4. \A d \in days : IsFiniteSet({d} \X (1 .. f[d]))
  <2> SUFFICES ASSUME NEW d \in days PROVE IsFiniteSet({d} \X (1 .. f[d]))
    OBVIOUS
  <2>1. IsFiniteSet(1 .. f[d])
    BY FS_Interval
  <2> QED BY <2>1, FS_Singleton, FS_Product
<1> QED BY <1>3, <1>4, FS_UNION

LEMMA SumType ==
  ASSUME usage \in [Day -> Nat], NEW days \in SUBSET Day
  PROVE  SumOf(days) \in Nat
BY UnitsFinite, FS_CardinalityType DEF SumOf

\* A sum grows with its counters.
LEMMA SumGrows ==
  ASSUME usage \in [Day -> Nat], usage' \in [Day -> Nat],
         \A d \in Day : usage[d] <= usage'[d]
  PROVE  SumOf(Day) <= SumOf(Day)'
<1>1. UNION {{d} \X (1 .. usage[d]) : d \in Day} \subseteq UNION {{d} \X (1 .. usage'[d]) : d \in Day}
  OBVIOUS
<1>2. IsFiniteSet(UNION {{d} \X (1 .. usage'[d]) : d \in Day})
  BY UnitsFinite
<1> QED BY <1>1, <1>2, FS_Subset DEF SumOf

-----------------------------------------------------------------------------
(* Type correctness.  A count is a number because the log is finite.       *)

TInv == TypeOK /\ IsFiniteSet(log) /\ \A p \in Poller : poll[p].got \subseteq log

LEMMA PollTypes ==
  /\ IdlePoll \in Poll
  /\ [IdlePoll EXCEPT !.pc = "evaluate"] \in Poll
BY MeteringAssumption DEF IdlePoll, Poll, Day, None

LEMMA TypeInit == Init => TInv
<1> SUFFICES ASSUME Init PROVE TInv
  OBVIOUS
<1>1. poll \in [Poller -> Poll] /\ \A p \in Poller : poll[p].got = {}
  BY PollTypes DEF Init, MInit, IdlePoll
<1>2. budget \in Budget \union {NoBudget}
  BY DEF Init, SInit, Budget, NoBudget, Key, NoKey
<1>3. rate \in Rate \union {NoRate}
  BY DEF Init, CInit, Rate, NoRate, None
<1>4. gov \in [Governor -> Gov]
  BY DEF Init, CInit, Gov, IdleGov
<1>5. day \in Day
  BY MeteringAssumption DEF Init, MInit, Day
<1>6. IsFiniteSet(log)
  BY FS_EmptySet DEF Init, MInit
<1> QED BY <1>1, <1>2, <1>3, <1>4, <1>5, <1>6 DEF Init, MInit, SInit, CInit, TInv, TypeOK

\* What the metering changes.
MeterTypes ==
  /\ now \in Nat /\ day \in Day /\ faults \in Nat
  /\ log \subseteq Line /\ seen \subseteq Line /\ cut \subseteq Line
  /\ cursor \in Nat \union {None} /\ start \in Nat \union {None}
  /\ usage \in [Day -> Nat]
  /\ billed \in [Day -> SUBSET Line]
  /\ poll \in [Poller -> Poll]
  /\ IsFiniteSet(log)
  /\ \A p \in Poller : poll[p].got \subseteq log

LEMMA EvaluatesType ==
  ASSUME MeterTypes, NEW p \in Poller, Evaluates(p) \/ poll' = [poll EXCEPT ![p] = IdlePoll]
  PROVE  /\ poll' \in [Poller -> Poll]
         /\ \A q \in Poller : poll'[q].got \subseteq log
<1>1. poll' \in [Poller -> Poll]
  BY PollTypes DEF MeterTypes, Evaluates
<1>2. \A q \in Poller : poll'[q].got \in {poll[q].got, {}}
  BY DEF MeterTypes, Evaluates, IdlePoll
<1> QED BY <1>1, <1>2 DEF MeterTypes

LEMMA MeterTypesEnvironment ==
  ASSUME MeterTypes, Emit \/ Tick
  PROVE  MeterTypes'
<1>1. CASE Emit
  <2>1. PICK i \in BOOLEAN :
          log' = log \union {[at |-> now, n |-> Cardinality({l \in log : l.at = now}), inference |-> i]}
    BY <1>1 DEF Emit
  <2>2. Cardinality({l \in log : l.at = now}) \in Nat
    BY FS_Subset, FS_CardinalityType DEF MeterTypes
  <2>3. log' \subseteq Line
    BY <2>1, <2>2 DEF MeterTypes, Line
  <2>4. IsFiniteSet(log')
    BY <2>1, FS_AddElement DEF MeterTypes
  <2> QED BY <1>1, <2>1, <2>3, <2>4 DEF Emit, MeterTypes
<1>2. CASE Tick
  BY <1>2 DEF Tick, MeterTypes
<1> QED BY <1>1, <1>2

LEMMA MeterTypesPoll ==
  ASSUME MeterTypes, NEW p \in Poller, PollStep(p) \/ PollFails(p)
  PROVE  MeterTypes'
<1>1. CASE PollFirst(p)
  BY <1>1, EvaluatesType DEF PollFirst, MeterTypes
<1>2. CASE PollStart(p)
  <2>1. poll' \in [Poller -> Poll]
    BY <1>2, ZenonT(60) DEF PollStart, MeterTypes, Poll
  <2>2. \A q \in Poller : poll'[q].got = poll[q].got
    BY <1>2 DEF PollStart, MeterTypes, Poll
  <2> QED BY <1>2, <2>1, <2>2 DEF PollStart, MeterTypes
<1>3. CASE PollFails(p)
  BY <1>3, EvaluatesType DEF PollFails, MeterTypes
<1>4. CASE PollFetch(p)
  <2>1. PICK got \in Answers(poll[p].since) :
          /\ cut' = cut \union (After(poll[p].since) \ got)
          /\ IF got = {} THEN Evaluates(p)
             ELSE poll' = [poll EXCEPT ![p].pc = "store", ![p].got = got]
    BY <1>4 DEF PollFetch
  <2>2. got \subseteq log /\ cut' \subseteq Line
    BY <2>1 DEF Answers, After, MeterTypes
  <2>3. got \subseteq Line
    BY <2>2 DEF MeterTypes
  <2>4. poll' \in [Poller -> Poll] /\ \A q \in Poller : poll'[q].got \subseteq log
    <3>1. CASE got = {}
      BY <2>1, <3>1, EvaluatesType
    <3>2. CASE got # {}
      <4>1. poll' \in [Poller -> Poll]
        BY <2>1, <2>3, <3>2 DEF MeterTypes, Poll
      <4>2. \A q \in Poller : poll'[q].got = IF q = p THEN got ELSE poll[q].got
        BY <2>1, <3>2 DEF MeterTypes, Poll
      <4> QED BY <2>2, <4>1, <4>2 DEF MeterTypes
    <3> QED BY <3>1, <3>2
  <2> QED BY <1>4, <2>2, <2>4 DEF PollFetch, MeterTypes
<1>5. CASE PollReads(p)
  <2>1. poll' \in [Poller -> Poll]
    <3>1. usage[day] \in Nat /\ day \in Day
      BY DEF MeterTypes
    <3> DEFINE new == [poll[p] EXCEPT !.pc = "write", !.day = day, !.base = usage[day]]
    <3>2. new \in Poll
      BY <3>1 DEF MeterTypes, Poll
    <3>3. poll' = [poll EXCEPT ![p] = new]
      BY <1>5 DEF PollReads, MeterTypes, Poll
    <3> HIDE DEF new
    <3> QED BY <3>2, <3>3 DEF MeterTypes
  <2>2. \A q \in Poller : poll'[q].got = poll[q].got
    BY <1>5 DEF PollReads, MeterTypes, Poll
  <2> QED BY <1>5, <2>1, <2>2 DEF PollReads, MeterTypes
<1>6. CASE PollWrites(p)
  <2>1. Cardinality(Counted(p)) \in Nat
    BY FS_Subset, FS_CardinalityType DEF MeterTypes, Counted
  <2>2. poll[p] \in Poll
    BY DEF MeterTypes
  <2>3. NewCursor(p) \subseteq Nat
    BY <2>2 DEF NewCursor, Stamps, Poll, Line, None
  <2>4. cursor' \in Nat \union {None} /\ usage' \in [Day -> Nat]
    BY <1>6, <2>1, <2>2, <2>3 DEF PollWrites, MeterTypes, Poll
  <2>5. billed' \in [Day -> SUBSET Line] /\ seen' \subseteq Line
    BY <1>6, <2>2 DEF PollWrites, MeterTypes, Poll, Counted
  <2>6. Evaluates(p)
    BY <1>6 DEF PollWrites
  <2> QED BY <1>6, <2>4, <2>5, <2>6, EvaluatesType DEF PollWrites, MeterTypes
<1> QED BY <1>1, <1>2, <1>3, <1>4, <1>5, <1>6 DEF PollStep

\* What the evaluation of budgets changes.
SpendTypes ==
  /\ budget \in Budget \union {NoBudget}
  /\ check \in [Poller -> Check \union {NoCheck}]
  /\ fired \subseteq Nat \X Key
  /\ edits \in Nat

LEMMA WindowKeyType ==
  ASSUME day \in Day, NEW w \in Window
  PROVE  WindowKey(w) \in Key
<1>1. day \in Int
  BY MeteringAssumption DEF Day
<1>2. w \in {"daily", "weekly", "monthly", "total"}
  BY SpendingAssumption
<1>3. w # "total" => WindowDays[w] \in Int
  BY <1>2 DEF WindowDays
<1> QED BY <1>1, <1>3 DEF WindowKey, Key

LEMMA Checks ==
  ASSUME SpendTypes, NEW p \in Poller, check[p] # NoCheck
  PROVE  /\ check[p].pc \in {"query", "decide", "mark", "act"}
         /\ check[p].rule \in Budget
         /\ check[p].rule.id \in Nat /\ check[p].rule.edit \in Nat
         /\ check[p].rule.window \in Window
         /\ check[p].key \in Key
BY DEF SpendTypes, Check, Budget

LEMMA CheckMoves ==
  ASSUME SpendTypes, NEW p \in Poller, NEW c \in Check \union {NoCheck},
         check' = [check EXCEPT ![p] = c]
  PROVE  check' \in [Poller -> Check \union {NoCheck}]
BY DEF SpendTypes

LEMMA SpendTypesEval ==
  ASSUME SpendTypes, MeterTypes, NEW p \in Poller, EvalStep(p)
  PROVE  SpendTypes'
<1>1. CASE EvalLoad(p)
  <2>1. CASE budget = NoBudget
    BY <1>1, <2>1, CheckMoves DEF EvalLoad, EvalDone, SpendTypes
  <2>2. CASE budget # NoBudget
    <3>1. [pc |-> "query", rule |-> budget, used |-> 0, key |-> NoKey] \in Check
      BY <2>2 DEF SpendTypes, Check, Key, NoKey
    <3>2. check' \in [Poller -> Check \union {NoCheck}]
      BY <1>1, <2>2, <3>1, CheckMoves DEF EvalLoad
    <3> QED BY <1>1, <3>2 DEF EvalLoad, SpendTypes
  <2> QED BY <2>1, <2>2
<1>2. CASE EvalQuery(p)
  <2> DEFINE used == WindowUsage(check[p].rule.window)
             new  == [check[p] EXCEPT !.pc = "decide", !.used = used]
  <2>1. check[p] \in Check
    BY <1>2 DEF EvalQuery, SpendTypes, NoCheck
  <2>2. used \in Nat
    BY SumType DEF WindowUsage, MeterTypes
  <2>3. check' = [check EXCEPT ![p] = new]
    BY <1>2, <2>1 DEF EvalQuery, SpendTypes
  <2>4. new \in Check
    <3> HIDE DEF used
    <3> QED BY <2>1, <2>2 DEF Check
  <2>5. check' \in [Poller -> Check \union {NoCheck}]
    <3> HIDE DEF new
    <3> QED BY <2>3, <2>4, CheckMoves
  <2> QED BY <1>2, <2>5 DEF EvalQuery, SpendTypes
<1>3. CASE EvalDecide(p)
  <2> DEFINE key == WindowKey(check[p].rule.window)
             new == [check[p] EXCEPT !.pc = "mark", !.key = key]
  <2>1. check[p] \in Check
    BY <1>3 DEF EvalDecide, SpendTypes, NoCheck
  <2>2. key \in Key
    BY <2>1, WindowKeyType DEF MeterTypes, Check, Budget
  <2>3. check' = [check EXCEPT ![p] = new] \/ EvalDone(p)
    BY <1>3, <2>1 DEF EvalDecide, SpendTypes
  <2>4. new \in Check
    <3> HIDE DEF key
    <3> QED BY <2>1, <2>2 DEF Check
  <2>5. check' \in [Poller -> Check \union {NoCheck}]
    <3> HIDE DEF new
    <3> QED BY <2>3, <2>4, CheckMoves DEF EvalDone
  <2>6. UNCHANGED <<budget, fired, edits>>
    BY <1>3 DEF EvalDecide
  <2> QED BY <2>5, <2>6 DEF SpendTypes
<1>4. CASE EvalMark(p)
  <2> DEFINE new == [check[p] EXCEPT !.pc = "act"]
  <2>1. check[p] \in Check
    BY <1>4 DEF EvalMark, SpendTypes, NoCheck
  <2>2. new \in Check
    BY <2>1 DEF Check
  <2>3. check' = [check EXCEPT ![p] = new] \/ EvalDone(p)
    BY <1>4, <2>1 DEF EvalMark, SpendTypes
  <2>4. check' \in [Poller -> Check \union {NoCheck}]
    <3> HIDE DEF new
    <3> QED BY <2>2, <2>3, CheckMoves DEF EvalDone
  <2>5. budget' \in Budget \union {NoBudget}
    <3>1. CASE budget.id = check[p].rule.id
      <4>1. budget \in Budget
        BY <3>1, <2>1 DEF SpendTypes, Check, Budget, NoBudget, None
      <4>2. check[p].key \in Key
        BY <2>1 DEF Check
      <4>3. budget' = [budget EXCEPT !.key = check[p].key]
        BY <1>4, <3>1 DEF EvalMark
      <4> QED BY <4>1, <4>2, <4>3 DEF Budget
    <3>2. CASE budget.id # check[p].rule.id
      BY <1>4, <3>2 DEF EvalMark, SpendTypes
    <3> QED BY <3>1, <3>2
  <2>6. UNCHANGED <<fired, edits>>
    BY <1>4 DEF EvalMark
  <2> QED BY <2>4, <2>5, <2>6 DEF SpendTypes
<1>5. CASE EvalActs(p)
  <2>1. check[p] # NoCheck
    BY <1>5 DEF EvalActs, NoCheck
  <2>2. fired' \subseteq Nat \X Key
    BY <1>5, <2>1, Checks DEF EvalActs, SpendTypes
  <2>3. check' \in [Poller -> Check \union {NoCheck}]
    BY <1>5, CheckMoves DEF EvalActs, EvalDone
  <2> QED BY <1>5, <2>2, <2>3 DEF EvalActs, SpendTypes
<1> QED BY <1>1, <1>2, <1>3, <1>4, <1>5 DEF EvalStep

LEMMA SpendTypesOperator ==
  ASSUME SpendTypes, SetBudget \/ DeleteBudget
  PROVE  SpendTypes'
<1>1. CASE SetBudget
  <2>1. PICK limit \in Limit, w \in Window, id \in {0, edits + 1} :
          budget' = [id    |-> IF budget = NoBudget THEN id ELSE budget.id,
                     edit  |-> edits + 1,
                     limit |-> limit, window |-> w, key |-> NoKey]
    BY <1>1 DEF SetBudget
  <2>2. (IF budget = NoBudget THEN id ELSE budget.id) \in Nat
    BY DEF SpendTypes, Budget
  <2>3. budget' \in Budget
    BY <2>1, <2>2 DEF SpendTypes, Budget, Key, NoKey
  <2> QED BY <1>1, <2>3 DEF SetBudget, SpendTypes
<1>2. CASE DeleteBudget
  BY <1>2 DEF DeleteBudget, SpendTypes
<1> QED BY <1>1, <1>2

LEMMA MeterTypesSpend ==
  ASSUME MeterTypes, SetBudget \/ DeleteBudget \/ \E p \in Poller : EvalStep(p) \/ Restart(p)
  PROVE  MeterTypes'
<1>1. CASE SetBudget \/ DeleteBudget
  BY <1>1 DEF SetBudget, DeleteBudget, MeterKept, MeterTypes
<1>2. ASSUME NEW p \in Poller, EvalStep(p)
      PROVE  MeterTypes'
  <2>1. MeterKept
    BY <1>2 DEF EvalStep, EvalLoad, EvalQuery, EvalDecide, EvalMark, EvalActs
  <2>2. poll' = poll \/ poll' = [poll EXCEPT ![p] = IdlePoll]
    BY <1>2 DEF EvalStep, EvalLoad, EvalQuery, EvalDecide, EvalMark, EvalActs, EvalDone
  <2>3. poll' \in [Poller -> Poll] /\ \A q \in Poller : poll'[q].got \subseteq log
    BY <2>2, EvaluatesType DEF MeterTypes
  <2>4. UNCHANGED <<now, day, log, cursor, usage, start, billed, seen, cut, faults>>
    BY <2>1 DEF MeterKept
  <2> QED BY <2>3, <2>4 DEF MeterTypes
<1>3. ASSUME NEW p \in Poller, Restart(p)
      PROVE  MeterTypes'
  <2>1. poll' \in [Poller -> Poll] /\ \A q \in Poller : poll'[q].got \subseteq log
    BY <1>3, EvaluatesType DEF Restart, EvalDone
  <2>2. faults' = faults + 1 /\ UNCHANGED <<now, day, log, cursor, usage, start, billed, seen, cut>>
    BY <1>3 DEF Restart
  <2> QED BY <2>1, <2>2 DEF MeterTypes
<1> QED BY <1>1, <1>2, <1>3

\* What the rate governor changes.
RateTypes ==
  /\ rate \in Rate \union {NoRate}
  /\ pause \in {"none", "on", "due"}
  /\ gov \in [Governor -> Gov]
  /\ spent \in Nat

LEMMA GovMoves ==
  ASSUME RateTypes, NEW g \in Governor, NEW x \in Gov, gov' = [gov EXCEPT ![g] = x]
  PROVE  gov' \in [Governor -> Gov]
BY DEF RateTypes

LEMMA GovRecords ==
  ASSUME NEW v \in Gov
  PROVE  /\ IdleGov \in Gov
         /\ \A pc \in {"idle", "decide", "pause", "resume", "finish"} :
              /\ [v EXCEPT !.pc = pc] \in Gov
              /\ \A at, total \in Nat : [v EXCEPT !.pc = pc, !.at = at, !.total = total] \in Gov
              /\ \A max \in Nat : [v EXCEPT !.pc = pc, !.max = max] \in Gov
BY DEF Gov, IdleGov

LEMMA RateTypesStep ==
  ASSUME RateTypes, MeterTypes, edits \in Nat, CNext
  PROVE  RateTypes' /\ edits' \in Nat
<1>0. \A g \in Governor : gov[g] \in Gov
  BY DEF RateTypes
<1>1. CASE CooldownEnds
  BY <1>1 DEF CooldownEnds, UsageKept, svars, RateTypes
<1>2. CASE SetRate
  <2>1. rate' \in Rate
    BY <1>2 DEF SetRate, Rate, None
  <2> QED BY <1>2, <2>1 DEF SetRate, RateTypes
<1>3. CASE DeleteRate
  BY <1>3 DEF DeleteRate, UsageKept, svars, RateTypes
<1>4. ASSUME NEW g \in Governor, RateStep(g)
      PROVE  RateTypes' /\ edits' \in Nat
  <2>0. UNCHANGED edits
    BY <1>4 DEF RateStep, RateRead, RateDecide, PauseMade, PauseDeclined, ResumeReads,
                ResumeFinishes, ResumeRetries, UsageKept, svars
  <2>1. Total \in Nat /\ now \in Nat
    BY SumType DEF Total, MeterTypes
  <2>2. CASE RateRead(g)
    <3> DEFINE new == [gov[g] EXCEPT !.pc = "decide", !.at = now, !.total = Total]
    <3>1. new \in Gov
      BY <1>0, <2>1, GovRecords
    <3>2. gov' = [gov EXCEPT ![g] = new]
      BY <2>2 DEF RateRead, RateTypes
    <3> HIDE DEF new
    <3>3. gov' \in [Governor -> Gov]
      BY <3>1, <3>2, GovMoves
    <3> QED BY <2>0, <2>2, <3>3 DEF RateRead, RateTypes
  <2>3. CASE RateDecide(g)
    <3>1. rate' \in Rate \union {NoRate}
      <4>1. CASE rate = NoRate
        BY <2>3, <4>1 DEF RateDecide
      <4>2. CASE rate # NoRate
        <5>1. rate \in Rate
          BY <4>2 DEF RateTypes
        <5>2. gov[g].at \in Int /\ gov[g].total \in Nat
          BY <1>0 DEF Gov
        <5>3. rate' = rate \/ rate' = [rate EXCEPT !.started = gov[g].at, !.base = gov[g].total]
          BY <2>3 DEF RateDecide
        <5> QED BY <5>1, <5>2, <5>3 DEF Rate
      <4> QED BY <4>1, <4>2
    <3>2. PICK new \in Gov : gov' = [gov EXCEPT ![g] = new]
      <4>1. CASE gov' = [gov EXCEPT ![g].pc = "resume"]
        <5>1. gov' = [gov EXCEPT ![g] = [gov[g] EXCEPT !.pc = "resume"]]
          BY <4>1 DEF RateTypes
        <5> QED BY <1>0, <5>1, GovRecords
      <4>2. CASE rate # NoRate
                 /\ gov' = [gov EXCEPT ![g].pc = IF Used(g) >= rate.max THEN "pause" ELSE "resume",
                                       ![g].max = rate.max]
        <5> DEFINE pc == IF Used(g) >= rate.max THEN "pause" ELSE "resume"
        <5>1. rate.max \in Nat
          BY <4>2, CeilingsAssumption DEF RateTypes, Rate
        <5>2. pc \in {"pause", "resume"}
          OBVIOUS
        <5>3. gov' = [gov EXCEPT ![g] = [gov[g] EXCEPT !.pc = pc, !.max = rate.max]]
          BY <4>2 DEF RateTypes
        <5> HIDE DEF pc
        <5> QED BY <1>0, <5>1, <5>2, <5>3, GovRecords
      <4> QED BY <2>3, <4>1, <4>2 DEF RateDecide
    <3>3. gov' \in [Governor -> Gov]
      BY <3>2, GovMoves
    <3>4. UNCHANGED <<pause, spent>>
      BY <2>3 DEF RateDecide
    <3> QED BY <2>0, <3>1, <3>3, <3>4 DEF RateTypes
  <2>4. CASE PauseMade(g) \/ PauseDeclined(g)
    <3>1. gov' = [gov EXCEPT ![g] = [gov[g] EXCEPT !.pc = "resume"]]
      BY <2>4 DEF PauseMade, PauseDeclined, RateTypes
    <3>2. gov' \in [Governor -> Gov]
      BY <1>0, <3>1, GovRecords, GovMoves
    <3>3. spent' \in Nat
      <4>1. gov[g].max \in Nat /\ spent \in Nat
        BY <1>0 DEF Gov, RateTypes
      <4> QED BY <2>4, <4>1 DEF PauseMade, PauseDeclined
    <3>4. UNCHANGED rate /\ pause' \in {pause, "on"}
      BY <2>4 DEF PauseMade, PauseDeclined
    <3> QED BY <2>0, <3>2, <3>3, <3>4 DEF RateTypes
  <2>5. CASE ResumeReads(g)
    <3> DEFINE new == [gov[g] EXCEPT !.pc = "finish", !.at = now, !.total = Total]
    <3>1. new \in Gov /\ IdleGov \in Gov
      BY <1>0, <2>1, GovRecords
    <3>2. gov' = [gov EXCEPT ![g] = new] \/ gov' = [gov EXCEPT ![g] = IdleGov]
      BY <2>5 DEF ResumeReads, RateTypes
    <3> HIDE DEF new
    <3>3. gov' \in [Governor -> Gov]
      BY <3>1, <3>2, GovMoves
    <3>4. UNCHANGED <<rate, pause, spent>>
      BY <2>5 DEF ResumeReads
    <3> QED BY <2>0, <3>3, <3>4 DEF RateTypes
  <2>6. CASE ResumeFinishes(g)
    <3>1. gov' \in [Governor -> Gov]
      BY <1>0, <2>6, GovRecords, GovMoves DEF ResumeFinishes
    <3>2. rate' \in Rate \union {NoRate}
      <4>1. gov[g].at \in Int /\ gov[g].total \in Nat
        BY <1>0 DEF Gov
      <4>2. \/ rate' = rate
            \/ rate # NoRate /\ rate' = [rate EXCEPT !.started = gov[g].at, !.base = gov[g].total]
        <5>1. UNCHANGED rate \/ ResetWindow(g)
          BY <2>6 DEF ResumeFinishes
        <5> QED BY <5>1 DEF ResetWindow
      <4>3. rate # NoRate => rate \in Rate
        BY DEF RateTypes
      <4>4. rate # NoRate => [rate EXCEPT !.started = gov[g].at, !.base = gov[g].total] \in Rate
        BY <4>1, <4>3 DEF Rate
      <4> QED BY <4>2, <4>4 DEF RateTypes
    <3>3. pause' \in {pause, "none"} /\ UNCHANGED spent
      BY <2>6 DEF ResumeFinishes
    <3> QED BY <2>0, <3>1, <3>2, <3>3 DEF RateTypes
  <2>7. CASE ResumeRetries(g)
    <3>1. gov' \in [Governor -> Gov]
      BY <1>0, <2>7, GovRecords, GovMoves DEF ResumeRetries
    <3>2. pause' \in {pause, "none", "on"} /\ UNCHANGED <<rate, spent>>
      BY <2>7 DEF ResumeRetries
    <3> QED BY <2>0, <3>1, <3>2 DEF RateTypes
  <2> QED BY <1>4, <2>2, <2>3, <2>4, <2>5, <2>6, <2>7 DEF RateStep
<1> QED BY <1>1, <1>2, <1>3, <1>4 DEF CNext

LEMMA MeterTypesRate ==
  ASSUME MeterTypes, CNext
  PROVE  MeterTypes'
<1>1. UNCHANGED mvars
  BY DEF CNext, CooldownEnds, SetRate, DeleteRate, RateStep, RateRead, RateDecide, PauseMade,
         PauseDeclined, ResumeReads, ResumeFinishes, ResumeRetries, UsageKept, MeterKept, mvars
<1> QED BY <1>1 DEF mvars, MeterTypes

LEMMA SpendTypesRate ==
  ASSUME SpendTypes, CNext, edits' \in Nat
  PROVE  SpendTypes'
<1>1. UNCHANGED <<budget, check, fired>>
  BY DEF CNext, CooldownEnds, SetRate, DeleteRate, RateStep, RateRead, RateDecide, PauseMade,
         PauseDeclined, ResumeReads, ResumeFinishes, ResumeRetries, UsageKept, svars
<1> QED BY <1>1 DEF SpendTypes

LEMMA TypeStep == TInv /\ [Next]_vars => TInv'
<1> SUFFICES ASSUME TInv, [Next]_vars PROVE TInv'
  OBVIOUS
<1>1. MeterTypes /\ SpendTypes /\ RateTypes
  BY DEF TInv, TypeOK, MeterTypes, SpendTypes, RateTypes
<1>2. MeterTypes' /\ SpendTypes' /\ RateTypes'
  <2>1. CASE MNext /\ UNCHANGED <<svars, cvars>>
    <3>1. MeterTypes'
      BY <1>1, <2>1, MeterTypesEnvironment, MeterTypesPoll DEF MNext
    <3> QED BY <1>1, <2>1, <3>1 DEF svars, cvars, SpendTypes, RateTypes
  <2>2. CASE (SetBudget \/ DeleteBudget \/ \E p \in Poller : EvalStep(p) \/ Restart(p)) /\ UNCHANGED cvars
    <3>1. MeterTypes'
      BY <1>1, <2>2, MeterTypesSpend
    <3>2. SpendTypes'
      <4>1. ASSUME NEW p \in Poller, Restart(p)
            PROVE  SpendTypes'
        BY <1>1, <4>1, CheckMoves DEF Restart, EvalDone, SpendTypes
      <4> QED BY <1>1, <2>2, <4>1, SpendTypesOperator, SpendTypesEval
    <3> QED BY <1>1, <2>2, <3>1, <3>2 DEF cvars, RateTypes
  <2>3. CASE CNext
    BY <1>1, <2>3, MeterTypesRate, SpendTypesRate, RateTypesStep DEF SpendTypes
  <2>4. CASE UNCHANGED vars
    BY <1>1, <2>4 DEF vars, mvars, svars, cvars, MeterTypes, SpendTypes, RateTypes
  <2> QED BY <2>1, <2>2, <2>3, <2>4 DEF Next, SNext
<1> QED BY <1>2 DEF TInv, TypeOK, MeterTypes, SpendTypes, RateTypes

(***************************************************************************)
(* Every counter, cursor, marker and local of the metering task, of the    *)
(* evaluation of budgets and of the rate governor keeps its type.          *)
(***************************************************************************)
THEOREM TypeCorrect == Spec => []TypeOK
<1>1. TInv => TypeOK
  BY DEF TInv
<1> QED BY <1>1, TypeInit, TypeStep, PTL DEF Spec

-----------------------------------------------------------------------------
(* Billing.  With one task, nothing moves the cursor or the counters       *)
(* between a poll's reads and its commit.                                  *)

SinglePoller == \A p, q \in Poller : p = q

CursorInv == (start = None <=> cursor = None) /\ start <= cursor

CountInv ==
  \A d \in Day :
    /\ IsFiniteSet(billed[d])
    /\ usage[d] = Cardinality(billed[d])
    /\ \A l \in billed[d] : cursor # None /\ l.inference /\ start < l.at /\ l.at < cursor

DayInv == \A d, e \in Day : d # e => billed[d] \intersect billed[e] = {}

PollInv(p) ==
  /\ poll[p].pc \in {"fetch", "store", "write"} => cursor # None /\ poll[p].since = cursor
  /\ poll[p].pc \in {"store", "write"} => \A l \in poll[p].got : cursor < l.at
  /\ poll[p].pc = "write" => poll[p].base = usage[poll[p].day]

MeterInv == CursorInv /\ CountInv /\ DayInv /\ \A p \in Poller : PollInv(p)

LEMMA MeterInit == Init => MeterInv
<1> SUFFICES ASSUME Init PROVE MeterInv
  OBVIOUS
<1>1. CursorInv /\ DayInv
  BY DEF Init, MInit, CursorInv, DayInv, None
<1>2. CountInv
  BY FS_EmptySet DEF Init, MInit, CountInv
<1>3. \A p \in Poller : PollInv(p)
  BY DEF Init, MInit, IdlePoll, PollInv
<1> QED BY <1>1, <1>2, <1>3 DEF MeterInv

\* A step that leaves the cursor and the counters, and may end the poll.
LEMMA MeterKeeps ==
  ASSUME MeterTypes, MeterInv, UNCHANGED <<cursor, usage, start, billed>>,
         \A q \in Poller : poll'[q] = poll[q] \/ poll'[q].pc \in {"idle", "evaluate"}
  PROVE  MeterInv'
<1>1. (CursorInv /\ CountInv /\ DayInv)'
  BY DEF MeterInv, CursorInv, CountInv, DayInv
<1>2. ASSUME NEW q \in Poller PROVE PollInv(q)'
  BY DEF MeterInv, PollInv
<1> QED BY <1>1, <1>2 DEF MeterInv

LEMMA EvaluatesEnds ==
  ASSUME MeterTypes, NEW p \in Poller, Evaluates(p) \/ poll' = [poll EXCEPT ![p] = IdlePoll],
         NEW q \in Poller
  PROVE  poll'[q] = poll[q] \/ poll'[q].pc \in {"idle", "evaluate"}
BY DEF MeterTypes, Evaluates, IdlePoll

LEMMA NewCursorPasses ==
  ASSUME MeterTypes, NEW p \in Poller, NEW c \in NewCursor(p)
  PROVE  c \in Nat /\ poll[p].since < c /\ \A l \in poll[p].got : l.at < c
<1>1. poll[p].since \in Int /\ \A l \in poll[p].got : l.at \in Int
  BY DEF MeterTypes, Poll, Line, None
<1>2. PICK t \in Stamps(p) : c = t + 1 /\ \A u \in Stamps(p) : t >= u
  BY DEF NewCursor
<1>3. c \in Nat
  BY <1>2 DEF Stamps, MeterTypes, Poll, Line, None
<1>4. t \in Int
  BY <1>1, <1>2 DEF Stamps
<1>5. poll[p].since \in Stamps(p) /\ \A l \in poll[p].got : l.at \in Stamps(p)
  BY DEF Stamps
<1> QED BY <1>1, <1>2, <1>3, <1>4, <1>5

\* The commit counts lines that no day has, and passes them.
LEMMA MeterWrites ==
  ASSUME MeterTypes, MeterInv, SinglePoller, NEW p \in Poller, PollWrites(p)
  PROVE  MeterInv' /\ \A d \in Day : usage[d] <= usage'[d]
<1> DEFINE d == poll[p].day
           new == Counted(p)
           count == Cardinality(new)
<1>0. Evaluates(p) /\ UNCHANGED start
  BY DEF PollWrites
<1>1. \A q \in Poller : poll'[q].pc = "evaluate"
  BY <1>0 DEF SinglePoller, Evaluates, MeterTypes, IdlePoll
<1>2. \A q \in Poller : PollInv(q)'
  BY <1>1 DEF PollInv
<1>3. CASE UNCHANGED <<cursor, usage, billed>>
  <2>1. (CursorInv /\ CountInv /\ DayInv)'
    BY <1>0, <1>3 DEF MeterInv, CursorInv, CountInv, DayInv
  <2> QED BY <1>2, <1>3, <2>1 DEF MeterInv, MeterTypes
<1>4. CASE /\ cursor' \in NewCursor(p)
           /\ usage' = IF count > 0 THEN [usage EXCEPT ![d] = poll[p].base + count] ELSE usage
           /\ billed' = [billed EXCEPT ![d] = @ \union new]
  <2>1. cursor # None /\ poll[p].since = cursor /\ poll[p].base = usage[d]
    BY DEF MeterInv, PollInv, PollWrites
  <2>2. cursor \in Nat /\ start \in Nat /\ start <= cursor
    BY <2>1 DEF MeterInv, CursorInv, MeterTypes
  <2>3. cursor' \in Nat /\ cursor < cursor' /\ \A l \in new : l.at < cursor'
    BY <1>4, <2>1, NewCursorPasses DEF Counted
  <2>4. \A l \in new : l.at \in Nat /\ l.inference /\ cursor < l.at
    <3>1. poll[p].pc = "write" /\ poll[p] \in Poll
      BY DEF PollWrites, MeterTypes
    <3> QED BY <3>1 DEF Counted, MeterInv, PollInv, Poll, Line
  <2>5. d \in Day
    BY DEF MeterTypes, Poll
  <2>6. \A e \in Day : billed'[e] = IF e = d THEN billed[e] \union new ELSE billed[e]
    BY <1>4, <2>5 DEF MeterTypes
  <2>7. \A e \in Day : \A l \in billed[e] :
          l.at \in Nat /\ l.inference /\ start < l.at /\ l.at < cursor
    BY DEF MeterInv, CountInv, MeterTypes, Line
  <2>8. \A e \in Day : billed[e] \intersect new = {}
    BY <2>2, <2>4, <2>7
  <2>9. IsFiniteSet(new) /\ count \in Nat /\ (count = 0 <=> new = {})
    <3>1. new \subseteq log
      BY DEF Counted, MeterTypes
    <3>2. IsFiniteSet(new)
      BY <3>1, FS_Subset DEF MeterTypes
    <3> QED BY <3>2, FS_CardinalityType, FS_EmptySet
  <2> HIDE DEF d, new, count
  <2>10. IsFiniteSet(billed[d] \union new)
         /\ Cardinality(billed[d] \union new) = Cardinality(billed[d]) + count
    <3>1. IsFiniteSet(billed[d]) /\ Cardinality(billed[d]) \in Nat
      BY <2>5, FS_CardinalityType DEF MeterInv, CountInv
    <3>2. Cardinality(billed[d] \intersect new) = 0
      BY <2>5, <2>8, FS_EmptySet
    <3>3. Cardinality(billed[d] \union new)
            = Cardinality(billed[d]) + count - Cardinality(billed[d] \intersect new)
      BY <2>9, <3>1, FS_Union DEF count
    <3>4. IsFiniteSet(billed[d] \union new)
      BY <2>9, <3>1, FS_Union
    <3> QED BY <2>9, <3>1, <3>2, <3>3, <3>4
  <2>11. \A e \in Day : usage'[e] = IF e = d THEN usage[e] + count ELSE usage[e]
    BY <1>4, <2>1, <2>5, <2>9 DEF MeterTypes
  <2>12. CountInv'
    <3> SUFFICES ASSUME NEW e \in Day
                 PROVE  /\ IsFiniteSet(billed'[e])
                        /\ usage'[e] = Cardinality(billed'[e])
                        /\ \A l \in billed'[e] : /\ cursor' # None /\ l.inference
                                                 /\ start' < l.at /\ l.at < cursor'
      BY DEF CountInv
    <3>1. IsFiniteSet(billed'[e]) /\ usage'[e] = Cardinality(billed'[e])
      BY <2>6, <2>10, <2>11 DEF MeterInv, CountInv
    <3>2. \A l \in billed'[e] : l.inference /\ start < l.at /\ l.at < cursor'
      <4> SUFFICES ASSUME NEW l \in billed'[e]
                   PROVE  l.inference /\ start < l.at /\ l.at < cursor'
        OBVIOUS
      <4>1. l \in billed[e] \/ l \in new
        BY <2>6
      <4>2. l.inference
        BY <2>4, <2>7, <4>1
      <4>3. start < l.at /\ l.at < cursor'
        BY <2>2, <2>3, <2>4, <2>7, <4>1
      <4> QED BY <4>2, <4>3
    <3>3. cursor' # None /\ start' = start
      BY <1>0, <2>3 DEF None
    <3> QED BY <3>1, <3>2, <3>3
  <2>13. CursorInv'
    BY <1>0, <2>2, <2>3 DEF CursorInv, None
  <2>14. DayInv'
    BY <2>6, <2>8 DEF MeterInv, DayInv
  <2>15. \A e \in Day : usage[e] <= usage'[e]
    BY <2>9, <2>11 DEF MeterTypes
  <2> QED BY <1>2, <2>12, <2>13, <2>14, <2>15 DEF MeterInv
<1> HIDE DEF d, new, count
<1>5. UNCHANGED <<cursor, usage, billed>>
      \/ /\ cursor' \in NewCursor(p)
         /\ usage' = IF count > 0 THEN [usage EXCEPT ![d] = poll[p].base + count] ELSE usage
         /\ billed' = [billed EXCEPT ![d] = @ \union new]
  BY DEF PollWrites, d, new, count
<1> QED BY <1>3, <1>4, <1>5

LEMMA MeterPoll ==
  ASSUME MeterTypes, MeterInv, SinglePoller, NEW p \in Poller, PollStep(p) \/ PollFails(p)
  PROVE  MeterInv' /\ \A d \in Day : usage[d] <= usage'[d]
<1>0. \A d \in Day : usage[d] <= usage[d]
  BY DEF MeterTypes
<1>1. CASE PollFirst(p)
  <2>1. cursor = None /\ cursor' = now /\ start' = now /\ UNCHANGED <<usage, billed>> /\ now \in Nat
    BY <1>1 DEF PollFirst, MeterTypes
  <2>2. \A d \in Day : billed[d] = {}
    BY <2>1 DEF MeterInv, CountInv
  <2>3. CountInv' /\ DayInv'
    BY <2>1, <2>2 DEF MeterInv, CountInv, DayInv
  <2>4. CursorInv'
    BY <2>1 DEF CursorInv, None
  <2>5. \A q \in Poller : poll'[q].pc = "evaluate"
    BY <1>1 DEF PollFirst, Evaluates, SinglePoller, MeterTypes, IdlePoll
  <2>6. \A q \in Poller : PollInv(q)'
    BY <2>5 DEF PollInv
  <2> QED BY <1>0, <2>1, <2>3, <2>4, <2>6 DEF MeterInv
<1>2. CASE PollStart(p)
  <2>1. UNCHANGED <<cursor, usage, start, billed>> /\ cursor # None
    BY <1>2 DEF PollStart
  <2>2. \A q \in Poller : poll'[q].pc = "fetch" /\ poll'[q].since = cursor
    BY <1>2 DEF PollStart, SinglePoller, MeterTypes, Poll
  <2>3. \A q \in Poller : PollInv(q)'
    BY <2>1, <2>2 DEF PollInv
  <2>4. (CursorInv /\ CountInv /\ DayInv)'
    BY <2>1 DEF MeterInv, CursorInv, CountInv, DayInv
  <2> QED BY <1>0, <2>1, <2>3, <2>4 DEF MeterInv
<1>3. CASE PollFails(p)
  <2>1. UNCHANGED <<cursor, usage, start, billed>> /\ Evaluates(p)
    BY <1>3 DEF PollFails
  <2> QED BY <1>0, <2>1, EvaluatesEnds, MeterKeeps
<1>4. CASE PollFetch(p)
  <2>1. UNCHANGED <<cursor, usage, start, billed>>
    BY <1>4 DEF PollFetch
  <2>2. cursor # None /\ poll[p].since = cursor /\ poll[p] \in Poll
    BY <1>4 DEF PollFetch, MeterInv, PollInv, MeterTypes
  <2>3. PICK got \in Answers(poll[p].since) :
          IF got = {} THEN Evaluates(p)
          ELSE poll' = [poll EXCEPT ![p].pc = "store", ![p].got = got]
    BY <1>4 DEF PollFetch
  <2>4. \A l \in got : cursor < l.at
    <3>1. got \subseteq After(poll[p].since)
      BY DEF Answers
    <3>2. \A l \in log : l.at \in Int
      BY DEF MeterTypes, Line
    <3>3. cursor \in Int
      BY DEF MeterTypes, None
    <3> QED BY <2>2, <3>1, <3>2, <3>3 DEF After
  <2>5. CASE got = {}
    BY <1>0, <2>1, <2>3, <2>5, EvaluatesEnds, MeterKeeps
  <2>6. CASE got # {}
    <3>1. \A q \in Poller : poll'[q].pc = "store" /\ poll'[q].got = got /\ poll'[q].since = cursor
      BY <2>2, <2>3, <2>6 DEF SinglePoller, MeterTypes, Poll
    <3>2. \A q \in Poller : PollInv(q)'
      BY <2>1, <2>2, <2>4, <3>1 DEF PollInv
    <3>3. (CursorInv /\ CountInv /\ DayInv)'
      BY <2>1 DEF MeterInv, CursorInv, CountInv, DayInv
    <3> QED BY <1>0, <2>1, <3>2, <3>3 DEF MeterInv
  <2> QED BY <2>5, <2>6
<1>5. CASE PollReads(p)
  <2>1. UNCHANGED <<cursor, usage, start, billed>>
    BY <1>5 DEF PollReads
  <2>2. cursor # None /\ poll[p].since = cursor /\ \A l \in poll[p].got : cursor < l.at
    BY <1>5 DEF PollReads, MeterInv, PollInv
  <2>3. \A q \in Poller : /\ poll'[q].pc = "write" /\ poll'[q].got = poll[p].got
                          /\ poll'[q].since = cursor /\ poll'[q].base = usage[poll'[q].day]
    BY <1>5, <2>2 DEF PollReads, SinglePoller, MeterTypes, Poll
  <2>4. \A q \in Poller : PollInv(q)'
    BY <2>1, <2>2, <2>3 DEF PollInv
  <2>5. (CursorInv /\ CountInv /\ DayInv)'
    BY <2>1 DEF MeterInv, CursorInv, CountInv, DayInv
  <2> QED BY <1>0, <2>1, <2>4, <2>5 DEF MeterInv
<1>6. CASE PollWrites(p)
  BY <1>6, MeterWrites
<1> QED BY <1>1, <1>2, <1>3, <1>4, <1>5, <1>6 DEF PollStep

LEMMA MeterStep ==
  ASSUME SinglePoller, TInv, MeterInv, [Next]_vars
  PROVE  MeterInv' /\ \A d \in Day : usage[d] <= usage'[d]
<1>1. MeterTypes
  BY DEF TInv, TypeOK, MeterTypes
<1>2. \A d \in Day : usage[d] <= usage[d]
  BY <1>1 DEF MeterTypes
<1>3. CASE Emit \/ Tick \/ SetBudget \/ DeleteBudget
  <2>1. UNCHANGED <<cursor, usage, start, billed, poll>>
    BY <1>3 DEF Emit, Tick, SetBudget, DeleteBudget, MeterKept
  <2> QED BY <1>1, <1>2, <2>1, MeterKeeps
<1>4. ASSUME NEW p \in Poller, PollStep(p) \/ PollFails(p)
      PROVE  MeterInv' /\ \A d \in Day : usage[d] <= usage'[d]
  BY <1>1, <1>4, MeterPoll
<1>5. ASSUME NEW p \in Poller, EvalStep(p) \/ Restart(p)
      PROVE  MeterInv' /\ \A d \in Day : usage[d] <= usage'[d]
  <2>1. UNCHANGED <<cursor, usage, start, billed>>
    BY <1>5 DEF EvalStep, EvalLoad, EvalQuery, EvalDecide, EvalMark, EvalActs, MeterKept, Restart
  <2>2. poll' = poll \/ poll' = [poll EXCEPT ![p] = IdlePoll]
    BY <1>5 DEF EvalStep, EvalLoad, EvalQuery, EvalDecide, EvalMark, EvalActs, EvalDone, Restart
  <2>3. \A q \in Poller : poll'[q] = poll[q] \/ poll'[q].pc \in {"idle", "evaluate"}
    BY <1>1, <2>2, EvaluatesEnds
  <2> QED BY <1>1, <1>2, <2>1, <2>3, MeterKeeps
<1>6. CASE CNext
  <2>1. UNCHANGED mvars
    BY <1>6 DEF CNext, CooldownEnds, SetRate, DeleteRate, RateStep, RateRead, RateDecide, PauseMade,
                PauseDeclined, ResumeReads, ResumeFinishes, ResumeRetries, UsageKept, MeterKept, mvars
  <2>2. UNCHANGED <<cursor, usage, start, billed, poll>>
    BY <2>1 DEF mvars
  <2> QED BY <1>1, <1>2, <2>2, MeterKeeps
<1>7. CASE UNCHANGED vars
  <2>1. UNCHANGED <<cursor, usage, start, billed, poll>>
    BY <1>7 DEF vars, mvars
  <2> QED BY <1>1, <1>2, <2>1, MeterKeeps
<1> QED BY <1>3, <1>4, <1>5, <1>6, <1>7 DEF Next, SNext, MNext

(***************************************************************************)
(* For any log, batch size, clock and restarts: one metering task bills    *)
(* every request at most once, on one day, and never one from before it    *)
(* first saw the sandbox.                                                  *)
(***************************************************************************)
THEOREM BillsOnce ==
  ASSUME SinglePoller
  PROVE  Spec => []BilledOnce
<1>1. Init => TInv /\ MeterInv
  BY TypeInit, MeterInit
<1>2. (TInv /\ MeterInv) /\ [Next]_vars => (TInv /\ MeterInv)'
  BY TypeStep, MeterStep
<1>3. TInv /\ MeterInv => BilledOnce
  <2> SUFFICES ASSUME TInv, MeterInv PROVE BilledOnce
    OBVIOUS
  <2>1. \A d \in Day : \A l \in billed[d] : l.at \in Int /\ l.inference /\ start < l.at
    BY DEF MeterInv, CountInv, TInv, TypeOK, Line
  <2>2. start \in Int
    BY DEF TInv, TypeOK, None
  <2>3. \A d \in Day : \A l \in billed[d] : l.inference /\ l.at > start
    BY <2>1, <2>2
  <2> QED BY <2>3 DEF BilledOnce, MeterInv, CountInv, DayInv
<1> QED BY <1>1, <1>2, <1>3, PTL DEF Spec

-----------------------------------------------------------------------------
(* What is missed.  The cursor is where the metering began or one past a   *)
(* line that was seen, and a line that came after a fetch is no older than *)
(* what the fetch got.                                                     *)

CursorNear == cursor # None => cursor = start \/ \E m \in seen : cursor = m.at + 1

FetchNear ==
  \A p \in Poller : poll[p].pc \in {"store", "write"} =>
    /\ poll[p].got # {}
    /\ \A l \in log : cursor < l.at =>
         l \in poll[p].got \/ l \in cut \/ \A m \in poll[p].got : m.at <= l.at

NearInv ==
  /\ seen \subseteq log /\ \A l \in log : l.at <= now
  /\ CursorNear /\ FetchNear /\ MissedOnlyNear

\* A step that leaves the lines and the cursor, and starts no poll's commit.
LEMMA NearKeeps ==
  ASSUME MeterTypes, NearInv, UNCHANGED <<log, cursor, start, billed, seen, cut>>, now' \in Nat, now <= now',
         \A q \in Poller : poll'[q].pc \in {"store", "write"} =>
           poll[q].pc \in {"store", "write"} /\ poll'[q].got = poll[q].got
  PROVE  NearInv'
<1>1. \A l \in log : l.at <= now'
  BY DEF NearInv, MeterTypes, Line
<1>2. FetchNear'
  BY DEF NearInv, FetchNear
<1> QED BY <1>1, <1>2 DEF NearInv, CursorNear, MissedOnlyNear

LEMMA NearEmits ==
  ASSUME MeterTypes, MeterTypes', MeterInv, NearInv, Emit
  PROVE  NearInv'
<1>1. PICK l \in log' : log' = log \union {l} /\ l.at = now
  <2>1. PICK i \in BOOLEAN :
          log' = log \union {[at |-> now, n |-> Cardinality({m \in log : m.at = now}), inference |-> i]}
    BY DEF Emit
  <2>2. WITNESS [at |-> now, n |-> Cardinality({m \in log : m.at = now}), inference |-> i] \in log'
  <2> QED BY <2>1
<1>2. UNCHANGED <<now, cursor, start, billed, seen, cut, poll>>
  BY DEF Emit
<1>3. now \in Nat /\ (start # None => start \in Nat) /\ (cursor # None => cursor \in Nat)
      /\ (start = None <=> cursor = None)
      /\ \A m \in log : m.at \in Nat /\ m.at <= now
  BY DEF MeterTypes, NearInv, Line, MeterInv, CursorInv
<1>4. CASE l \in log
  <2>1. log' = log
    BY <1>1, <1>4
  <2> QED BY <1>2, <2>1, NearKeeps, <1>3
<1>5. CASE l \notin log
  <2>1. MissedOnlyNear'
    <3> SUFFICES ASSUME start # None, start < now, now <= cursor
                 PROVE  \E m \in seen : m # l /\ now - m.at \in {0, 1}
      BY <1>1, <1>2 DEF NearInv, MissedOnlyNear
    <3>1. cursor # start
      BY <1>3
    <3>2. PICK m \in seen : cursor = m.at + 1
      BY <1>3, <3>1 DEF NearInv, CursorNear
    <3>3. m \in log
      BY DEF NearInv
    <3>4. now - m.at \in {0, 1}
      BY <1>3, <3>2, <3>3
    <3> QED BY <1>5, <3>3, <3>4
  <2>2. FetchNear'
    <3>1. \A q \in Poller : \A m \in poll[q].got : m.at <= now
      BY <1>3 DEF MeterTypes
    <3> QED BY <1>1, <1>2, <3>1 DEF NearInv, FetchNear
  <2>3. \A m \in log' : m.at <= now
    BY <1>1, <1>3
  <2> QED BY <1>1, <1>2, <2>1, <2>2, <2>3 DEF NearInv, CursorNear
<1> QED BY <1>4, <1>5

LEMMA NearFetches ==
  ASSUME MeterTypes, MeterInv, NearInv, SinglePoller, NEW p \in Poller, PollFetch(p)
  PROVE  NearInv'
<1>1. PICK got \in Answers(poll[p].since) :
        /\ cut' = cut \union (After(poll[p].since) \ got)
        /\ IF got = {} THEN Evaluates(p)
           ELSE poll' = [poll EXCEPT ![p].pc = "store", ![p].got = got]
  BY DEF PollFetch
<1>2. UNCHANGED <<log, cursor, start, billed, seen, now>> /\ cut \subseteq cut' /\ poll[p].since = cursor
  BY <1>1 DEF PollFetch, MeterInv, PollInv
<1>3. \A q \in Poller : poll'[q].pc \in {"store", "write"} => got # {} /\ poll'[q].got = got
  BY <1>1 DEF Evaluates, IdlePoll, SinglePoller, MeterTypes, Poll
<1>4. \A l \in log : cursor < l.at => l \in got \/ l \in cut'
  <2>1. cursor \in Int /\ \A l \in log : l.at \in Int
    BY DEF MeterTypes, Line, None
  <2> QED BY <1>1, <1>2, <2>1 DEF After
<1>5. FetchNear'
  BY <1>2, <1>3, <1>4 DEF FetchNear
<1>6. MissedOnlyNear'
  BY <1>2 DEF NearInv, MissedOnlyNear
<1> QED BY <1>2, <1>5, <1>6 DEF NearInv, CursorNear

LEMMA NearWrites ==
  ASSUME MeterTypes, MeterInv, NearInv, SinglePoller, NEW p \in Poller, PollWrites(p)
  PROVE  NearInv'
<1>1. \A q \in Poller : poll'[q].pc = "evaluate"
  BY DEF PollWrites, SinglePoller, Evaluates, MeterTypes, IdlePoll
<1>2. UNCHANGED <<now, log, start, cut>> /\ poll[p].pc = "write" /\ now \in Nat
  BY DEF PollWrites, MeterTypes
<1>3. CASE UNCHANGED <<cursor, billed, seen>>
  BY <1>1, <1>2, <1>3, NearKeeps
<1>4. CASE /\ cursor' \in NewCursor(p)
           /\ billed' = [billed EXCEPT ![poll[p].day] = @ \union Counted(p)]
           /\ seen' = seen \union poll[p].got
  <2>1. poll[p].got # {} /\ poll[p].got \subseteq log /\ poll[p].since = cursor /\ cursor \in Nat
    BY <1>2 DEF NearInv, FetchNear, MeterTypes, MeterInv, PollInv
  <2>2. \A l \in log : l.at \in Nat
    BY DEF MeterTypes, Line
  <2>3. PICK t \in Stamps(p) : cursor' = t + 1 /\ \A u \in Stamps(p) : t >= u
    BY <1>4 DEF NewCursor
  <2>4. PICK m \in poll[p].got : t = m.at
    <3>1. PICK x \in poll[p].got : cursor < x.at
      BY <1>2, <2>1 DEF MeterInv, PollInv
    <3>2. x.at \in Stamps(p) /\ x.at \in Nat /\ t >= x.at
      BY <2>1, <2>2, <2>3 DEF Stamps
    <3>3. t # cursor
      BY <2>1, <3>1, <3>2
    <3> QED BY <2>1, <2>3, <3>3 DEF Stamps
  <2>5. \A x \in poll[p].got : x.at <= m.at
    BY <2>1, <2>2, <2>3, <2>4 DEF Stamps
  <2>6. CursorNear'
    BY <1>4, <2>3, <2>4 DEF CursorNear
  <2>7. MissedOnlyNear'
    <3> SUFFICES ASSUME NEW l \in log, l.inference, start # None, start < l.at, l.at <= cursor'
                 PROVE  \/ \E d \in Day : l \in billed'[d]
                        \/ l \in cut
                        \/ \E x \in seen' : x # l /\ l.at - x.at \in {0, 1}
      BY <1>2 DEF MissedOnlyNear
    <3>0. \A d \in Day : billed[d] \subseteq billed'[d]
      BY <1>4 DEF MeterTypes
    <3>1. CASE l.at <= cursor
      BY <1>4, <3>0, <3>1 DEF NearInv, MissedOnlyNear
    <3>2. CASE l \in poll[p].got
      <4>1. l \in Counted(p) /\ poll[p].day \in Day
        BY <3>2 DEF Counted, MeterTypes, Poll
      <4> QED BY <1>4, <4>1 DEF MeterTypes
    <3>3. CASE l \notin poll[p].got /\ m.at <= l.at
      <4>1. l.at - m.at \in {0, 1}
        BY <2>1, <2>2, <2>3, <2>4, <3>3
      <4> QED BY <1>4, <3>3, <4>1
    <3>4. l.at <= cursor \/ cursor < l.at
      BY <2>1, <2>2
    <3> QED BY <1>2, <3>1, <3>2, <3>3, <3>4 DEF NearInv, FetchNear
  <2>8. FetchNear'
    BY <1>1 DEF FetchNear
  <2> QED BY <1>2, <1>4, <2>1, <2>6, <2>7, <2>8 DEF NearInv
<1> QED BY <1>3, <1>4 DEF PollWrites

LEMMA NearStep ==
  ASSUME SinglePoller, TInv, TInv', MeterInv, NearInv, [Next]_vars
  PROVE  NearInv'
<1>1. MeterTypes /\ MeterTypes'
  BY DEF TInv, TypeOK, MeterTypes
<1>2. now \in Nat /\ now <= now
  BY <1>1 DEF MeterTypes
<1>3. CASE Emit
  BY <1>1, <1>3, NearEmits
<1>4. CASE Tick
  BY <1>1, <1>2, <1>4, NearKeeps DEF Tick
<1>5. CASE SetBudget \/ DeleteBudget
  BY <1>1, <1>2, <1>5, NearKeeps DEF SetBudget, DeleteBudget, MeterKept
<1>6. ASSUME NEW p \in Poller, PollStep(p) \/ PollFails(p) PROVE NearInv'
  <2>1. CASE PollFirst(p)
    <3>1. /\ cursor' = now /\ start' = now /\ UNCHANGED <<now, log, seen, cut, billed>>
          /\ \A q \in Poller : poll'[q].pc = "evaluate"
      BY <1>1, <2>1 DEF PollFirst, Evaluates, SinglePoller, MeterTypes, IdlePoll
    <3>2. \A l \in log : l.at \in Nat
      BY <1>1 DEF MeterTypes, Line
    <3>3. MissedOnlyNear' /\ CursorNear' /\ FetchNear'
      BY <1>2, <3>1, <3>2 DEF MissedOnlyNear, CursorNear, FetchNear
    <3> QED BY <3>1, <3>3 DEF NearInv
  <2>2. CASE PollStart(p) \/ PollReads(p)
    <3>1. \A q \in Poller : poll'[q].pc \in {"store", "write"} =>
            poll[q].pc \in {"store", "write"} /\ poll'[q].got = poll[q].got
      BY <1>1, <2>2 DEF PollStart, PollReads, SinglePoller, MeterTypes, Poll
    <3> QED BY <1>1, <1>2, <2>2, <3>1, NearKeeps DEF PollStart, PollReads
  <2>3. CASE PollFails(p)
    <3>1. \A q \in Poller : poll'[q].pc = "evaluate"
      BY <1>1, <2>3 DEF PollFails, Evaluates, SinglePoller, MeterTypes, IdlePoll
    <3> QED BY <1>1, <1>2, <2>3, <3>1, NearKeeps DEF PollFails
  <2> QED BY <1>1, <1>6, <2>1, <2>2, <2>3, NearFetches, NearWrites DEF PollStep
<1>7. ASSUME NEW p \in Poller, EvalStep(p) \/ Restart(p) PROVE NearInv'
  <2>1. UNCHANGED <<now, log, cursor, start, billed, seen, cut>>
    BY <1>7 DEF EvalStep, EvalLoad, EvalQuery, EvalDecide, EvalMark, EvalActs, MeterKept, Restart
  <2>2. poll' = poll \/ poll' = [poll EXCEPT ![p] = IdlePoll]
    BY <1>7 DEF EvalStep, EvalLoad, EvalQuery, EvalDecide, EvalMark, EvalActs, EvalDone, Restart
  <2>3. \A q \in Poller : poll'[q] = poll[q] \/ poll'[q].pc \in {"idle", "evaluate"}
    BY <1>1, <2>2, EvaluatesEnds
  <2> QED BY <1>1, <1>2, <2>1, <2>3, NearKeeps
<1>8. CASE CNext
  <2>1. UNCHANGED mvars
    BY <1>8 DEF CNext, CooldownEnds, SetRate, DeleteRate, RateStep, RateRead, RateDecide, PauseMade,
                PauseDeclined, ResumeReads, ResumeFinishes, ResumeRetries, UsageKept, MeterKept, mvars
  <2> QED BY <1>1, <1>2, <2>1, NearKeeps DEF mvars
<1>9. CASE UNCHANGED vars
  <2>1. UNCHANGED mvars
    BY <1>9 DEF vars
  <2> QED BY <1>1, <1>2, <2>1, NearKeeps DEF mvars
<1> QED BY <1>3, <1>4, <1>5, <1>6, <1>7, <1>8, <1>9 DEF Next, SNext, MNext

(***************************************************************************)
(* For any log, batch size, clock and restarts: one metering task misses a *)
(* request only if a batch was full, or if the request has the millisecond *)
(* of a line that was fetched before it, or the one after.                 *)
(***************************************************************************)
THEOREM FewAreMissed ==
  ASSUME SinglePoller
  PROVE  Spec => []MissedOnlyNear
<1>1. Init => TInv /\ MeterInv /\ NearInv
  <2> SUFFICES ASSUME Init PROVE NearInv
    BY TypeInit, MeterInit
  <2> QED BY DEF Init, MInit, NearInv, CursorNear, FetchNear, MissedOnlyNear, IdlePoll
<1>2. (TInv /\ MeterInv /\ NearInv) /\ [Next]_vars => (TInv /\ MeterInv /\ NearInv)'
  BY TypeStep, MeterStep, NearStep
<1>3. TInv /\ MeterInv /\ NearInv => MissedOnlyNear
  BY DEF NearInv
<1> QED BY <1>1, <1>2, <1>3, PTL DEF Spec

-----------------------------------------------------------------------------
(* Pauses.  With one governor, what was spent is at most the base of the   *)
(* window, so a pause spends what has been counted since.                  *)

SingleGovernor == \A g, h \in Governor : g = h

PaidInv ==
  /\ spent <= Total
  /\ pause = "none" /\ rate # NoRate /\ rate.started # None => spent <= rate.base
  /\ \A g \in Governor :
       /\ gov[g].pc \in {"decide", "finish"} => spent <= gov[g].total /\ gov[g].total <= Total
       /\ gov[g].pc = "pause" /\ pause = "none" => spent + gov[g].max <= Total

LEMMA PaidInit == Init => PaidInv
<1> SUFFICES ASSUME Init PROVE PaidInv
  OBVIOUS
<1>1. Total \in Nat
  BY TypeInit, SumType DEF TInv, TypeOK, Total
<1>2. spent = 0 /\ (rate # NoRate => rate.started = None) /\ \A g \in Governor : gov[g].pc = "idle"
  BY DEF Init, CInit, IdleGov
<1> QED BY <1>1, <1>2 DEF PaidInv

\* The counters grow and the governor does nothing.
LEMMA PaidGrows ==
  ASSUME RateTypes, Total \in Nat, Total' \in Nat, Total <= Total', PaidInv,
         UNCHANGED <<pause, gov, spent>>,
         UNCHANGED rate \/ rate' = NoRate \/ rate'.started = None
  PROVE  PaidInv'
<1>1. spent \in Nat /\ \A g \in Governor : gov[g].total \in Nat /\ gov[g].max \in Nat
  BY DEF RateTypes, Gov
<1>2. spent' <= Total'
  BY <1>1 DEF PaidInv
<1>3. pause' = "none" /\ rate' # NoRate /\ rate'.started # None => spent' <= rate'.base
  BY DEF PaidInv
<1>4. \A g \in Governor : gov'[g] = gov[g]
  OBVIOUS
<1>5. \A g \in Governor :
        /\ gov'[g].pc \in {"decide", "finish"} => spent' <= gov'[g].total /\ gov'[g].total <= Total'
        /\ gov'[g].pc = "pause" /\ pause' = "none" => spent' + gov'[g].max <= Total'
  BY <1>1, <1>4 DEF PaidInv
<1> QED BY <1>2, <1>3, <1>5 DEF PaidInv

LEMMA PaidRate ==
  ASSUME RateTypes, Total \in Nat, PaidInv, SingleGovernor, NEW g \in Governor, RateStep(g)
  PROVE  PaidInv'
<1>0. spent \in Nat /\ gov[g] \in Gov /\ gov[g].total \in Nat /\ gov[g].max \in Nat
  BY DEF RateTypes, Gov
<1>1. Total' = Total
  BY DEF RateStep, RateRead, RateDecide, PauseMade, PauseDeclined, ResumeReads, ResumeFinishes,
         ResumeRetries, UsageKept, MeterKept, Total, SumOf
<1>2. \A h \in Governor : h = g
  BY DEF SingleGovernor
<1> SUFFICES /\ spent' <= Total
             /\ pause' = "none" /\ rate' # NoRate /\ rate'.started # None => spent' <= rate'.base
             /\ gov'[g].pc \in {"decide", "finish"} => spent' <= gov'[g].total /\ gov'[g].total <= Total
             /\ gov'[g].pc = "pause" /\ pause' = "none" => spent' + gov'[g].max <= Total
  BY <1>1, <1>2 DEF PaidInv
<1>3. CASE RateRead(g)
  <2>1. gov'[g].pc = "decide" /\ gov'[g].total = Total /\ UNCHANGED <<rate, pause, spent>>
    BY <1>3 DEF RateRead, RateTypes, Gov
  <2> QED BY <1>0, <2>1 DEF PaidInv
<1>4. CASE RateDecide(g)
  <2>1. UNCHANGED <<pause, spent>> /\ spent <= gov[g].total /\ gov[g].total <= Total
    BY <1>4 DEF RateDecide, PaidInv
  <2>2. CASE rate = NoRate
    <3>1. gov'[g].pc = "resume" /\ rate' = rate
      BY <1>4, <2>2 DEF RateDecide, RateTypes, Gov
    <3> QED BY <2>1, <2>2, <3>1 DEF PaidInv
  <2>3. CASE rate # NoRate /\ Expired(g)
    <3>1. rate \in Rate
      BY <2>3 DEF RateTypes
    <3>2. gov'[g].pc = "resume" /\ rate'.base = gov[g].total
      BY <1>4, <2>3, <3>1, ZenonT(60) DEF RateDecide, RateTypes, Gov, Rate
    <3> QED BY <2>1, <3>2 DEF PaidInv
  <2>4. CASE rate # NoRate /\ ~Expired(g)
    <3>1. rate \in Rate /\ rate.started # None
      BY <2>4 DEF RateTypes, Expired
    <3>2. rate.base \in Nat /\ rate.max \in Nat
      BY <3>1, CeilingsAssumption DEF Rate
    <3>3. rate' = rate /\ gov'[g].max = rate.max
          /\ gov'[g].pc = IF Used(g) >= rate.max THEN "pause" ELSE "resume"
      BY <1>4, <2>4 DEF RateDecide, RateTypes, Gov
    <3>4. pause = "none" => spent <= rate.base
      BY <2>4, <3>1 DEF PaidInv
    <3>5. gov'[g].pc = "pause" => rate.base + rate.max <= gov[g].total
      BY <1>0, <3>2, <3>3 DEF Used
    <3>6. gov'[g].pc = "pause" /\ pause = "none" => spent + rate.max <= Total
      BY <1>0, <2>1, <3>2, <3>4, <3>5
    <3> QED BY <1>0, <2>1, <3>3, <3>4, <3>6 DEF PaidInv
  <2> QED BY <2>2, <2>3, <2>4
<1>5. CASE PauseMade(g)
  <2>1. gov'[g].pc = "resume" /\ pause' = "on" /\ spent' = spent + gov[g].max
    BY <1>5 DEF PauseMade, RateTypes, Gov
  <2>2. spent + gov[g].max <= Total
    BY <1>5 DEF PauseMade, PaidInv
  <2> QED BY <2>1, <2>2
<1>6. CASE PauseDeclined(g)
  <2>1. gov'[g].pc = "resume" /\ UNCHANGED <<rate, pause, spent>>
    BY <1>6 DEF PauseDeclined, RateTypes, Gov
  <2> QED BY <2>1 DEF PaidInv
<1>7. CASE ResumeReads(g)
  <2>1. UNCHANGED <<rate, pause, spent>>
    BY <1>7 DEF ResumeReads
  <2>2. gov'[g].pc = "idle" \/ (gov'[g].pc = "finish" /\ gov'[g].total = Total)
    BY <1>7 DEF ResumeReads, RateTypes, Gov, IdleGov
  <2> QED BY <1>0, <2>1, <2>2 DEF PaidInv
<1>8. CASE ResumeFinishes(g)
  <2>1. gov'[g].pc = "idle" /\ spent' = spent /\ spent <= gov[g].total
    BY <1>8 DEF ResumeFinishes, RateTypes, IdleGov, PaidInv
  <2>2. CASE pause = "none"
    BY <1>8, <2>1, <2>2 DEF ResumeFinishes, PaidInv
  <2>3. CASE pause # "none"
    <3>1. ResetWindow(g)
      BY <1>8, <2>3 DEF ResumeFinishes
    <3>2. rate # NoRate => rate'.base = gov[g].total
      BY <3>1 DEF ResetWindow, RateTypes, Rate
    <3>3. rate = NoRate => rate' = NoRate
      BY <3>1 DEF ResetWindow
    <3> QED BY <2>1, <3>2, <3>3 DEF PaidInv
  <2> QED BY <2>2, <2>3
<1>9. CASE ResumeRetries(g)
  <2>1. gov'[g].pc = "idle" /\ UNCHANGED <<rate, spent>> /\ (pause' = "none" => pause = "none")
    BY <1>9 DEF ResumeRetries, RateTypes, IdleGov
  <2> QED BY <2>1 DEF PaidInv
<1> QED BY <1>3, <1>4, <1>5, <1>6, <1>7, <1>8, <1>9 DEF RateStep

LEMMA PaidStep ==
  ASSUME SinglePoller, SingleGovernor, TInv, MeterInv, PaidInv, [Next]_vars
  PROVE  PaidInv'
<1>1. RateTypes
  BY DEF TInv, TypeOK, RateTypes
<1>2. usage \in [Day -> Nat] /\ usage' \in [Day -> Nat]
  BY TypeStep DEF TInv, TypeOK
<1>3. Total \in Nat /\ Total' \in Nat
  <2>1. Total \in Nat
    BY <1>2, SumType DEF Total
  <2>2. Total' \in Nat
    <3>1. IsFiniteSet(UNION {{d} \X (1 .. usage'[d]) : d \in Day})
      BY <1>2, UnitsFinite
    <3> QED BY <3>1, FS_CardinalityType DEF Total, SumOf
  <2> QED BY <2>1, <2>2
<1>4. Total <= Total'
  BY <1>2, MeterStep, SumGrows DEF Total
<1>5. CASE SNext /\ UNCHANGED cvars
  BY <1>1, <1>3, <1>4, <1>5, PaidGrows DEF cvars
<1>6. CASE SetRate \/ DeleteRate
  <2>1. UNCHANGED <<pause, gov, spent>> /\ (rate' = NoRate \/ rate'.started = None)
    BY <1>6 DEF SetRate, DeleteRate
  <2> QED BY <1>1, <1>3, <1>4, <2>1, PaidGrows
<1>7. CASE CooldownEnds
  <2>1. Total' = Total
    BY <1>7 DEF CooldownEnds, UsageKept, MeterKept, Total, SumOf
  <2> QED BY <1>7, <2>1 DEF CooldownEnds, PaidInv
<1>8. ASSUME NEW g \in Governor, RateStep(g) PROVE PaidInv'
  BY <1>1, <1>3, <1>8, PaidRate
<1>9. CASE UNCHANGED vars
  BY <1>1, <1>3, <1>4, <1>9, PaidGrows DEF vars, cvars
<1> QED BY <1>5, <1>6, <1>7, <1>8, <1>9 DEF Next, CNext

(***************************************************************************)
(* For any ceilings, windows and restarts, with one task of each kind: no  *)
(* request counts for two pauses.                                          *)
(***************************************************************************)
THEOREM PausesArePaidFor ==
  ASSUME SinglePoller, SingleGovernor
  PROVE  Spec => []PausesPaidFor
<1>1. Init => TInv /\ MeterInv /\ PaidInv
  BY TypeInit, MeterInit, PaidInit
<1>2. (TInv /\ MeterInv /\ PaidInv) /\ [Next]_vars => (TInv /\ MeterInv /\ PaidInv)'
  BY TypeStep, MeterStep, PaidStep
<1>3. TInv /\ MeterInv /\ PaidInv => PausesPaidFor
  BY DEF PaidInv, PausesPaidFor
<1> QED BY <1>1, <1>2, <1>3, PTL DEF Spec

-----------------------------------------------------------------------------
(***************************************************************************)
(* A budget acts once for a window: the proof of ActsOnce.                 *)
(*                                                                         *)
(* An evaluation acts for a later window than every one that fired for the *)
(* same edit of the budget.  It loads a rule whose marker is as late as    *)
(* all of them; a rule that is edited meanwhile has fired for none.        *)
(***************************************************************************)

\* A key that the window w has, or had before the day d.
FitsAt(k, w, d) ==
  /\ k.kind = IF w = "total" THEN "total" ELSE "from"
  /\ w = "total" => k.day = 0
  /\ w # "total" => k.day <= d - (WindowDays[w] - 1)

\* The marker of the rule r is as late as what fired for its edit.
MarkedAt(r, F, d) == \A f \in F : f[1] = r.edit => FitsAt(r.key, r.window, d) /\ f[2].day <= r.key.day

Same(c, b) == b # NoBudget /\ b.edit = c.rule.edit

CheckAt(c, b, F, e, d) ==
  /\ c.rule.edit <= e
  /\ Same(c, b) => b.window = c.rule.window
  /\ b # NoBudget /\ ~Same(c, b) => \A f \in F : f[1] # b.edit
  /\ c.pc \in {"query", "decide"} => MarkedAt(c.rule, F, d)
  /\ c.pc \in {"mark", "act"} => /\ FitsAt(c.key, c.rule.window, d)
                                 /\ \A f \in F : f[1] = c.rule.edit => f[2].day < c.key.day
  /\ c.pc = "act" /\ Same(c, b) => b.key = c.key

ActInv ==
  /\ \A f \in fired : f[1] <= edits
  /\ budget # NoBudget => budget.edit <= edits /\ MarkedAt(budget, fired, day)
  /\ \A p \in Poller : check[p] # NoCheck => CheckAt(check[p], budget, fired, edits, day)

-----------------------------------------------------------------------------
(* Keys of windows.                                                        *)

LEMMA Windows ==
  ASSUME NEW w \in Window
  PROVE  w # "total" => WindowDays[w] \in Int
BY SpendingAssumption DEF WindowDays

LEMMA FitsLater ==
  ASSUME NEW w \in Window, NEW k \in Key, NEW d \in Int, NEW e \in Int, d <= e, FitsAt(k, w, d)
  PROVE  FitsAt(k, w, e)
<1>1. k.day \in Int
  BY DEF Key
<1> QED BY <1>1, Windows DEF FitsAt

LEMMA PresentKey ==
  ASSUME day \in Int, NEW w \in Window
  PROVE  /\ FitsAt(WindowKey(w), w, day)
         /\ \A k \in Key : FitsAt(k, w, day) /\ k # WindowKey(w) => k.day < WindowKey(w).day
<1>1. CASE w = "total"
  BY <1>1 DEF FitsAt, WindowKey, Key
<1>2. CASE w # "total"
  <2>1. WindowDays[w] \in Int
    BY <1>2, Windows
  <2>2. WindowKey(w) = [kind |-> "from", day |-> day - (WindowDays[w] - 1)]
    BY <1>2 DEF WindowKey
  <2>3. FitsAt(WindowKey(w), w, day)
    BY <1>2, <2>1, <2>2 DEF FitsAt
  <2>4. ASSUME NEW k \in Key, FitsAt(k, w, day), k # WindowKey(w)
        PROVE  k.day < WindowKey(w).day
    <3>1. k.day \in Int /\ k = [kind |-> k.kind, day |-> k.day]
      BY DEF Key
    <3>2. k.kind = "from" /\ k.day <= day - (WindowDays[w] - 1)
      BY <1>2, <2>4 DEF FitsAt
    <3>3. k.day # day - (WindowDays[w] - 1)
      BY <2>2, <2>4, <3>1, <3>2
    <3> QED BY <2>1, <2>2, <3>1, <3>2, <3>3
  <2> QED BY <2>3, <2>4
<1> QED BY <1>1, <1>2

LEMMA MarkedLater ==
  ASSUME NEW r \in Budget, NEW F, NEW d \in Int, NEW e \in Int, d <= e, MarkedAt(r, F, d)
  PROVE  MarkedAt(r, F, e)
<1>1. r.window \in Window /\ r.key \in Key
  BY DEF Budget
<1> QED BY <1>1, FitsLater DEF MarkedAt

LEMMA CheckLater ==
  ASSUME NEW c \in Check, NEW b, NEW F, NEW e \in Nat, NEW e2 \in Nat, e <= e2,
         NEW d \in Int, NEW d2 \in Int, d <= d2, CheckAt(c, b, F, e, d)
  PROVE  CheckAt(c, b, F, e2, d2)
<1>1. c.rule \in Budget /\ c.rule.edit \in Nat /\ c.rule.window \in Window /\ c.key \in Key
  BY DEF Check, Budget
<1>2. c.rule.edit <= e2
  BY <1>1 DEF CheckAt
<1>3. c.pc \in {"query", "decide"} => MarkedAt(c.rule, F, d2)
  BY <1>1, MarkedLater DEF CheckAt
<1>4. c.pc \in {"mark", "act"} => FitsAt(c.key, c.rule.window, d2)
  BY <1>1, FitsLater DEF CheckAt
<1> QED BY <1>2, <1>3, <1>4 DEF CheckAt

-----------------------------------------------------------------------------
(* The steps.                                                              *)

LEMMA ActInit == Init => ActInv
BY MeteringAssumption DEF Init, SInit, ActInv, MarkedAt

\* A step that leaves the budget, and may end the evaluation.
LEMMA ActKeeps ==
  ASSUME SpendTypes, day \in Day, day' \in Day, day <= day', edits' \in Nat, edits <= edits', ActInv,
         UNCHANGED <<budget, fired>>, \A q \in Poller : check'[q] \in {check[q], NoCheck}
  PROVE  ActInv'
<1>1. day \in Int /\ day' \in Int /\ edits \in Nat
  BY MeteringAssumption DEF Day, SpendTypes
<1>2. \A f \in fired' : f[1] <= edits'
  <2>1. \A f \in fired : f[1] \in Nat /\ f[1] <= edits
    BY DEF SpendTypes, ActInv
  <2> QED BY <1>1, <2>1
<1>3. budget' # NoBudget => budget'.edit <= edits' /\ MarkedAt(budget', fired', day')
  <2> SUFFICES ASSUME budget # NoBudget
               PROVE  budget.edit <= edits' /\ MarkedAt(budget, fired, day')
    OBVIOUS
  <2>1. budget \in Budget /\ budget.edit \in Nat
    BY DEF SpendTypes, Budget
  <2> QED BY <1>1, <2>1, MarkedLater DEF ActInv
<1>4. ASSUME NEW q \in Poller, check'[q] # NoCheck
      PROVE  CheckAt(check'[q], budget', fired', edits', day')
  <2>1. check'[q] = check[q] /\ check[q] # NoCheck
    BY <1>4
  <2>2. check[q] \in Check
    BY <2>1 DEF SpendTypes
  <2>3. CheckAt(check[q], budget, fired, edits, day)
    BY <2>1 DEF ActInv
  <2> QED BY <1>1, <2>1, <2>2, <2>3, CheckLater
<1> QED BY <1>2, <1>3, <1>4 DEF ActInv

\* What is left to show of a step of the only task's evaluation.
LEMMA ActMoves ==
  ASSUME SpendTypes, ActInv, SinglePoller, NEW p \in Poller, NEW c,
         check' = [check EXCEPT ![p] = c], UNCHANGED <<budget, fired, edits, day>>,
         CheckAt(c, budget, fired, edits, day)
  PROVE  ActInv'
<1>1. \A q \in Poller : check'[q] = c
  BY DEF SinglePoller, SpendTypes
<1> QED BY <1>1 DEF ActInv

LEMMA ActEval ==
  ASSUME SpendTypes, SpendTypes', day \in Day, ActInv, SinglePoller, NEW p \in Poller, EvalStep(p)
  PROVE  ActInv'
<1>0. UNCHANGED day /\ day \in Int
  BY MeteringAssumption
     DEF EvalStep, EvalLoad, EvalQuery, EvalDecide, EvalMark, EvalActs, MeterKept, Day
<1>1. ASSUME EvalDone(p), UNCHANGED <<budget, fired, edits>> PROVE ActInv'
  <2>1. \A q \in Poller : check'[q] \in {check[q], NoCheck}
    BY <1>1 DEF EvalDone, SpendTypes
  <2>2. edits <= edits' /\ edits' \in Nat /\ day <= day' /\ day' \in Day
    BY <1>0, <1>1 DEF SpendTypes
  <2> QED BY <1>1, <2>1, <2>2, ActKeeps
<1>2. CASE EvalLoad(p)
  <2>1. CASE budget = NoBudget
    BY <1>1, <1>2, <2>1 DEF EvalLoad
  <2>2. CASE budget # NoBudget
    <3> DEFINE c == [pc |-> "query", rule |-> budget, used |-> 0, key |-> NoKey]
    <3>1. check' = [check EXCEPT ![p] = c] /\ UNCHANGED <<budget, fired, edits>>
      BY <1>2, <2>2 DEF EvalLoad
    <3>2. CheckAt(c, budget, fired, edits, day)
      BY <2>2 DEF ActInv, CheckAt, Same
    <3> HIDE DEF c
    <3> QED BY <1>0, <3>1, <3>2, ActMoves
  <2> QED BY <2>1, <2>2
<1>3. CASE EvalQuery(p)
  <2> DEFINE c == [check[p] EXCEPT !.pc = "decide", !.used = WindowUsage(check[p].rule.window)]
  <2>1. check[p] \in Check /\ check[p] # NoCheck /\ check[p].pc = "query"
    BY <1>3 DEF EvalQuery, SpendTypes, NoCheck
  <2>2. check' = [check EXCEPT ![p] = c] /\ UNCHANGED <<budget, fired, edits>>
    BY <1>3, <2>1 DEF EvalQuery, SpendTypes
  <2>3. c.rule = check[p].rule /\ c.pc = "decide"
    BY <2>1 DEF Check
  <2> HIDE DEF c
  <2>4. CheckAt(c, budget, fired, edits, day)
    BY <2>1, <2>3 DEF ActInv, CheckAt, Same
  <2> QED BY <1>0, <2>2, <2>4, ActMoves
<1>4. CASE EvalDecide(p)
  <2> DEFINE w == check[p].rule.window
             c == [check[p] EXCEPT !.pc = "mark", !.key = WindowKey(w)]
  <2>1. check[p] \in Check /\ check[p] # NoCheck /\ check[p].pc = "decide"
    BY <1>4 DEF EvalDecide, SpendTypes, NoCheck
  <2>2. UNCHANGED <<budget, fired, edits>>
    BY <1>4 DEF EvalDecide
  <2>3. CASE EvalDone(p)
    BY <1>1, <2>2, <2>3
  <2>4. CASE ~Acted(check[p]) /\ check' = [check EXCEPT ![p] = c]
    <3>1. c.rule = check[p].rule /\ c.pc = "mark" /\ c.key = WindowKey(w)
      BY <2>1 DEF Check
    <3>2. w \in Window /\ c.rule.key \in Key /\ c.rule.key # WindowKey(w)
      BY <2>1, <2>4, <3>1 DEF Check, Budget, Acted
    <3>3. CheckAt(check[p], budget, fired, edits, day)
      BY <2>1 DEF ActInv
    <3>4. FitsAt(c.key, w, day)
      BY <1>0, <3>1, <3>2, PresentKey
    <3>5. ASSUME NEW f \in fired, f[1] = c.rule.edit
          PROVE  f[2].day < c.key.day
      <4>1. FitsAt(c.rule.key, w, day) /\ f[2].day <= c.rule.key.day
        BY <2>1, <3>1, <3>3, <3>5 DEF CheckAt, MarkedAt
      <4>2. c.rule.key.day < c.key.day
        BY <1>0, <3>1, <3>2, <4>1, PresentKey
      <4>3. f[2].day \in Int /\ c.rule.key.day \in Int /\ c.key.day \in Int
        <5>1. c.key \in Key
          BY <3>1, <3>2, WindowKeyType
        <5> QED BY <3>2, <5>1 DEF SpendTypes, Key
      <4> HIDE DEF c
      <4> QED BY <4>1, <4>2, <4>3
    <3>6. c.rule.window = w
      BY <3>1
    <3> HIDE DEF c, w
    <3>7. CheckAt(c, budget, fired, edits, day)
      BY <3>1, <3>3, <3>4, <3>5, <3>6 DEF CheckAt, Same
    <3> QED BY <1>0, <2>2, <2>4, <3>7, ActMoves
  <2>5. EvalDone(p) \/ (~Acted(check[p]) /\ check' = [check EXCEPT ![p] = c])
    BY <1>4, <2>1 DEF EvalDecide, SpendTypes
  <2> QED BY <2>3, <2>4, <2>5
<1>5. CASE EvalMark(p)
  <2> DEFINE c == [check[p] EXCEPT !.pc = "act"]
  <2>1. check[p] \in Check /\ check[p] # NoCheck /\ check[p].pc = "mark"
    BY <1>5 DEF EvalMark, SpendTypes, NoCheck
  <2>2. CASE budget.id # check[p].rule.id
    BY <1>1, <1>5, <2>2 DEF EvalMark
  <2>3. CASE budget.id = check[p].rule.id
    <3>1. budget \in Budget
      BY <2>1, <2>3 DEF SpendTypes, Check, Budget, NoBudget, None
    <3>2. check' = [check EXCEPT ![p] = c] /\ budget' = [budget EXCEPT !.key = check[p].key]
          /\ UNCHANGED <<fired, edits>>
      BY <1>5, <2>1, <2>3 DEF EvalMark, SpendTypes
    <3>3. c.rule = check[p].rule /\ c.key = check[p].key /\ c.pc = "act"
      BY <2>1 DEF Check
    <3>4. /\ budget'.key = c.key /\ budget'.edit = budget.edit /\ budget'.window = budget.window
          /\ budget # NoBudget /\ budget' # NoBudget
      BY <3>1, <3>2, <3>3 DEF Budget, NoBudget, None
    <3>5. CheckAt(check[p], budget, fired, edits, day)
      BY <2>1 DEF ActInv
    <3> HIDE DEF c
    <3>6. CheckAt(c, budget', fired, edits, day)
      BY <2>1, <3>3, <3>4, <3>5 DEF CheckAt, Same
    <3>7. \A f \in fired : f[2].day \in Int /\ c.key.day \in Int
      BY <2>1, <3>3 DEF SpendTypes, Key, Check
    <3>8. MarkedAt(budget', fired, day)
      <4>1. CASE Same(c, budget)
        <5>1. FitsAt(c.key, budget.window, day)
          BY <2>1, <3>3, <3>5, <4>1 DEF CheckAt, Same
        <5>2. \A f \in fired : f[1] = budget.edit => f[2].day < c.key.day
          BY <2>1, <3>3, <3>5, <4>1 DEF CheckAt, Same
        <5> QED BY <3>4, <3>7, <5>1, <5>2 DEF MarkedAt
      <4>2. CASE ~Same(c, budget)
        BY <3>3, <3>4, <3>5, <4>2 DEF CheckAt, Same, MarkedAt
      <4> QED BY <4>1, <4>2
    <3>9. \A q \in Poller : check'[q] = c
      BY <3>2 DEF SinglePoller, SpendTypes
    <3>10. budget.edit <= edits /\ \A f \in fired : f[1] <= edits
      BY <3>4 DEF ActInv
    <3> QED BY <1>0, <3>2, <3>4, <3>6, <3>8, <3>9, <3>10 DEF ActInv
  <2> QED BY <2>2, <2>3
<1>6. CASE EvalActs(p)
  <2>1. check[p] \in Check /\ check[p] # NoCheck /\ check[p].pc = "act"
    BY <1>6 DEF EvalActs, SpendTypes, NoCheck
  <2> DEFINE c == check[p]
             new == <<c.rule.edit, c.key>>
  <2>2. fired' = fired \union {new} /\ UNCHANGED <<budget, edits>>
    BY <1>6 DEF EvalActs
  <2>3. \A q \in Poller : check'[q] = NoCheck
    BY <1>6 DEF EvalActs, EvalDone, SinglePoller, SpendTypes
  <2>4. CheckAt(c, budget, fired, edits, day)
    BY <2>1 DEF ActInv
  <2>5. c.rule.edit <= edits /\ FitsAt(c.key, c.rule.window, day) /\ c.key.day \in Int
    BY <2>1, <2>4 DEF CheckAt, Check, Key
  <2>6. \A f \in fired' : f[1] <= edits
    BY <2>2, <2>5 DEF ActInv
  <2>7. budget # NoBudget => MarkedAt(budget, fired', day)
    <3> SUFFICES ASSUME budget # NoBudget, NEW f \in fired', f[1] = budget.edit
                 PROVE  FitsAt(budget.key, budget.window, day) /\ f[2].day <= budget.key.day
      BY DEF MarkedAt
    <3>1. CASE f \in fired
      BY <3>1 DEF ActInv, MarkedAt
    <3>2. CASE f = new
      <4>1. Same(c, budget)
        BY <3>2 DEF Same
      <4>2. budget.window = c.rule.window /\ budget.key = c.key
        BY <2>1, <2>4, <4>1 DEF CheckAt
      <4> QED BY <2>5, <3>2, <4>2
    <3> QED BY <2>2, <3>1, <3>2
  <2> QED BY <1>0, <2>2, <2>3, <2>6, <2>7 DEF ActInv
<1> QED BY <1>2, <1>3, <1>4, <1>5, <1>6 DEF EvalStep

LEMMA ActOperator ==
  ASSUME SpendTypes, SpendTypes', day \in Day, ActInv, SetBudget \/ DeleteBudget
  PROVE  ActInv'
<1>0. UNCHANGED <<day, fired, check>> /\ edits \in Nat /\ \A f \in fired : f[1] \in Nat /\ f[1] <= edits
  BY DEF SetBudget, DeleteBudget, MeterKept, SpendTypes, ActInv
<1>1. CASE DeleteBudget
  <2>1. budget' = NoBudget /\ edits' = edits
    BY <1>1 DEF DeleteBudget
  <2>2. ASSUME NEW p \in Poller, check[p] # NoCheck
        PROVE  CheckAt(check[p], NoBudget, fired, edits, day)
    BY <2>2 DEF ActInv, CheckAt, Same
  <2> QED BY <1>0, <2>1, <2>2 DEF ActInv
<1>2. CASE SetBudget
  <2>1. edits' = edits + 1 /\ budget' \in Budget /\ budget'.edit = edits + 1 /\ budget' # NoBudget
    <3>1. PICK limit \in Limit, w \in Window, id \in {0, edits + 1} :
            budget' = [id    |-> IF budget = NoBudget THEN id ELSE budget.id,
                       edit  |-> edits + 1,
                       limit |-> limit, window |-> w, key |-> NoKey]
      BY <1>2 DEF SetBudget
    <3>2. edits' = edits + 1 /\ budget'.edit = edits + 1
      BY <1>2, <3>1 DEF SetBudget
    <3>3. budget' # NoBudget
      <4>1. DOMAIN budget' # DOMAIN NoBudget
        BY <3>1 DEF NoBudget
      <4> QED BY <4>1
    <3> QED BY <3>2, <3>3 DEF SpendTypes
  <2>2. \A f \in fired : f[1] # budget'.edit /\ f[1] <= edits'
    BY <1>0, <2>1
  <2>3. MarkedAt(budget', fired, day)
    BY <2>2 DEF MarkedAt
  <2>4. ASSUME NEW p \in Poller, check[p] # NoCheck
        PROVE  CheckAt(check[p], budget', fired, edits', day)
    <3>1. CheckAt(check[p], budget, fired, edits, day)
      BY <2>4 DEF ActInv
    <3>2. check[p].rule.edit \in Nat /\ check[p].rule.edit <= edits
      BY <2>4, <3>1, Checks DEF CheckAt
    <3>3. ~Same(check[p], budget') /\ check[p].rule.edit <= edits'
      BY <1>0, <2>1, <3>2 DEF Same
    <3> QED BY <2>2, <3>1, <3>3 DEF CheckAt
  <2> QED BY <1>0, <2>1, <2>2, <2>3, <2>4 DEF ActInv
<1> QED BY <1>1, <1>2

LEMMA ActStep ==
  ASSUME SinglePoller, TInv, ActInv, [Next]_vars
  PROVE  ActInv'
<1>1. SpendTypes /\ day \in Day /\ SpendTypes' /\ day' \in Day
  BY TypeStep DEF TInv, TypeOK, SpendTypes
<1>2. day \in Int
  BY <1>1, MeteringAssumption DEF Day
<1>3. ASSUME UNCHANGED <<budget, fired>>, edits' \in {edits, edits + 1}, day' \in {day, day + 1},
             \A q \in Poller : check'[q] \in {check[q], NoCheck}
      PROVE  ActInv'
  <2>1. day <= day' /\ edits <= edits' /\ edits' \in Nat
    BY <1>1, <1>2, <1>3 DEF SpendTypes
  <2> QED BY <1>1, <1>3, <2>1, ActKeeps
<1>4. CASE MNext /\ UNCHANGED svars
  <2>1. day' \in {day, day + 1}
    BY <1>4 DEF MNext, Emit, Tick, PollStep, PollFirst, PollStart, PollFetch, PollReads, PollWrites, PollFails
  <2> QED BY <1>3, <1>4, <2>1 DEF svars
<1>5. CASE SetBudget \/ DeleteBudget
  BY <1>1, <1>5, ActOperator
<1>6. ASSUME NEW p \in Poller, EvalStep(p) PROVE ActInv'
  BY <1>1, <1>6, ActEval
<1>7. ASSUME NEW p \in Poller, Restart(p) PROVE ActInv'
  <2>1. \A q \in Poller : check'[q] \in {check[q], NoCheck}
    BY <1>1, <1>7 DEF Restart, EvalDone, SpendTypes
  <2>2. UNCHANGED <<day, budget, fired, edits>>
    BY <1>7 DEF Restart
  <2> QED BY <1>3, <2>1, <2>2
<1>8. CASE CNext
  <2>1. UNCHANGED <<day, budget, check, fired>> /\ edits' \in {edits, edits + 1}
    BY <1>8 DEF CNext, CooldownEnds, SetRate, DeleteRate, RateStep, RateRead, RateDecide, PauseMade,
                PauseDeclined, ResumeReads, ResumeFinishes, ResumeRetries, UsageKept, MeterKept, svars
  <2> QED BY <1>3, <2>1
<1>9. CASE UNCHANGED vars
  BY <1>3, <1>9 DEF vars, mvars, svars
<1> QED BY <1>4, <1>5, <1>6, <1>7, <1>8, <1>9 DEF Next, SNext

(***************************************************************************)
(* For any limits, windows, edits, days and restarts: the metering task    *)
(* never acts twice on one edit of a budget for one window key.            *)
(***************************************************************************)
THEOREM BudgetActsOnce ==
  ASSUME SinglePoller
  PROVE  Spec => ActsOnce
<1>1. Init => TInv /\ ActInv
  BY TypeInit, ActInit
<1>2. (TInv /\ ActInv) /\ [Next]_vars => (TInv /\ ActInv)'
  BY TypeStep, ActStep
<1>3. TInv /\ ActInv =>
        [\A p \in Poller : EvalActs(p) => <<check[p].rule.edit, check[p].key>> \notin fired]_vars
  <2> SUFFICES ASSUME TInv, ActInv, NEW p \in Poller, EvalActs(p)
               PROVE  <<check[p].rule.edit, check[p].key>> \notin fired
    OBVIOUS
  <2>1. check[p] \in Check /\ check[p] # NoCheck /\ check[p].pc = "act"
    BY DEF EvalActs, TInv, TypeOK, NoCheck
  <2>2. \A f \in fired : f[1] = check[p].rule.edit => f[2].day < check[p].key.day
    BY <2>1 DEF ActInv, CheckAt
  <2>3. check[p].key.day \in Int
    BY <2>1 DEF Check, Key
  <2> QED BY <2>2, <2>3
<1> QED BY <1>1, <1>2, <1>3, PTL DEF Spec, ActsOnce

=============================================================================
