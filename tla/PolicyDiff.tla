----------------------------- MODULE PolicyDiff -----------------------------
(***************************************************************************)
(* One apply of a policy document: the difference that decides whether     *)
(* there is anything to do (services/policy_diff.py), the operations that  *)
(* turn the document at the gateway into the one that is applied           *)
(* (services/policy_merge_ops.py), and the gateway that takes them one by  *)
(* one, or all, or breaks off (external: docs/guides/gitops-merge.md:58    *)
(* says it applies the list in order).                                     *)
(*                                                                         *)
(* A rule is a list of endpoints, each at a host and port, and a list of   *)
(* binaries.  A section that a document may lack is a set of at most one.  *)
(***************************************************************************)
EXTENDS FiniteSets, Naturals, SequencesExt

CONSTANTS
  RuleNames,   \* numbers, which are sorted as the names are
  Documents    \* rules: for some names, [endpoints, binaries], sequences of
               \* [at, body]; files, process, landlock; version, 0 for none

ASSUME DocumentsAssumption ==
  /\ RuleNames \subseteq Nat
  /\ \A d \in Documents : DOMAIN d.rules \subseteq RuleNames /\ IsFiniteSet(DOMAIN d.rules)

VARIABLES
  current,  \* the document as it was read
  target,   \* the document to be applied
  rules,    \* the gateway's network rules
  ops,      \* the operations it has yet to take
  answer    \* none yet, or how the apply ended

diffVars == <<current, target, rules, ops, answer>>

DiffInit ==
  /\ current \in Documents /\ target \in Documents
  /\ rules = current.rules /\ ops = <<>> /\ answer = "none"

-----------------------------------------------------------------------------
(* diff_policy: lists of paths are sets, a missing section is an empty one,  *)
(* rules are compared as they stand, and two sections not at all.            *)

Paths(d, list) == UNION {ToSet(f[list]) : f \in d.files}
Workdir(d) == \E f \in d.files : f.workdir

SameFiles == /\ \A list \in {"ro", "rw"} : Paths(current, list) = Paths(target, list)
             /\ Workdir(current) = Workdir(target)
SameUser == UNION current.process = UNION target.process

DiffIsEmpty == SameFiles /\ SameUser /\ current.rules = target.rules

(* compute_merge_operations. *)

\* _normalize_rule sorts by place, and what is at one place keeps its order.
SameItems(a, b) ==
  \E p \in Bijection(DOMAIN a, DOMAIN b) :
    /\ \A i \in DOMAIN a : b[p[i]] = a[i]
    /\ \A i, j \in DOMAIN a : i < j /\ a[i].at = a[j].at => p[i] < p[j]

RulesEqual(a, b) == SameItems(a.endpoints, b.endpoints) /\ SameItems(a.binaries, b.binaries)

\* Other sections are compared as they stand; the version if both name one.
Unsupported ==
  \/ \E s \in {"files", "process", "landlock"} : current[s] # target[s]
  \/ /\ 0 \notin {current.version, target.version}
     /\ current.version # target.version

InOrder(N) == CHOOSE s \in SetToSeqs(N) : \A i, j \in DOMAIN s : i < j => s[i] < s[j]
ToRemove == DOMAIN current.rules \ DOMAIN target.rules
ToAdd == DOMAIN target.rules \ DOMAIN current.rules
ToChange == {n \in DOMAIN current.rules \cap DOMAIN target.rules : ~ RulesEqual(current.rules[n], target.rules[n])}

MergeOp(t, n) == [type |-> t, name |-> n]
Each(t, N) == [i \in 1 .. Len(InOrder(N)) |-> MergeOp(t, InOrder(N)[i])]
Pairs == [i \in 1 .. 2 * Len(InOrder(ToChange)) |->
            MergeOp(IF i % 2 = 1 THEN "remove_rule" ELSE "add_rule", InOrder(ToChange)[(i + 1) \div 2])]

\* Mutant of MergeOps: new rules come before changed ones.
AddsEarlier == Each("remove_rule", ToRemove) \o Each("add_rule", ToAdd) \o Pairs

MergeOps == Each("remove_rule", ToRemove) \o Pairs \o Each("add_rule", ToAdd)

-----------------------------------------------------------------------------
(* The apply. *)

UpToDate ==
  /\ answer = "none" /\ ops = <<>> /\ DiffIsEmpty
  /\ answer' = "up_to_date"
  /\ UNCHANGED <<current, target, rules, ops>>

Replaces ==
  /\ answer = "none" /\ ops = <<>> /\ ~ DiffIsEmpty
  /\ rules' = target.rules /\ answer' = "replaced"
  /\ UNCHANGED <<current, target, ops>>

MergeRefused ==
  /\ answer = "none" /\ ops = <<>> /\ ~ DiffIsEmpty /\ Unsupported
  /\ answer' = "merge_unsupported"
  /\ UNCHANGED <<current, target, rules, ops>>

\* Rules that differ only in their order leave nothing to send: it is sent all the same.
MergeSends ==
  /\ answer = "none" /\ ops = <<>> /\ ~ DiffIsEmpty /\ ~ Unsupported
  /\ ops' = MergeOps
  /\ answer' = IF MergeOps = <<>> THEN "merged" ELSE "none"
  /\ UNCHANGED <<current, target, rules>>

\* add_rule inserts a rule or replaces it, remove_rule drops one.
Taken(op, R) ==
  IF op.type = "remove_rule" THEN [n \in DOMAIN R \ {op.name} |-> R[n]]
  ELSE [n \in DOMAIN R \cup {op.name} |-> IF n = op.name THEN target.rules[n] ELSE R[n]]

GatewayTakes ==
  /\ answer = "none" /\ ops # <<>>
  /\ rules' = Taken(Head(ops), rules)
  /\ ops' = Tail(ops)
  /\ answer' = IF ops' = <<>> THEN "merged" ELSE "none"
  /\ UNCHANGED <<current, target>>

GatewayBreaksOff ==
  /\ answer = "none" /\ ops # <<>>
  /\ answer' = "failed"
  /\ UNCHANGED <<current, target, rules, ops>>

DiffNext == UpToDate \/ Replaces \/ MergeRefused \/ MergeSends \/ GatewayTakes \/ GatewayBreaksOff

DiffSpec == DiffInit /\ [][DiffNext]_diffVars

-----------------------------------------------------------------------------
SameRules(R, Q) == DOMAIN R = DOMAIN Q /\ \A n \in DOMAIN R : RulesEqual(R[n], Q[n])

\* The places an endpoint of which is in both rules.
Shared(R, m, n) == IF m \in DOMAIN R /\ n \in DOMAIN R
                   THEN {x.at : x \in ToSet(R[m].endpoints)} \cap {x.at : x \in ToSet(R[n].endpoints)} ELSE {}

\* An endpoint moves from one changed rule to another that comes before it.
MovesBack(m, n) == {m, n} \subseteq ToChange

(***************************************************************************)
(* A merge that ends leaves the document that was applied, but for the     *)
(* order of lists; one that breaks off never lacks or alters a rule that   *)
(* is the same in both; and at no time do two rules share an endpoint they *)
(* share in neither, but when both are changed by it                       *)
(* (compute_merge_operations).  What is up to date has the same rules,     *)
(* paths and user: the landlock mode and the version are not looked at.    *)
(***************************************************************************)
MergeTells ==
  /\ answer = "merged" => SameRules(rules, target.rules)
  /\ answer \notin {"replaced"} => \A n \in (DOMAIN current.rules \cap DOMAIN target.rules) \ ToChange :
                                     n \in DOMAIN rules /\ rules[n] = current.rules[n]
  /\ \A m, n \in RuleNames : m # n /\ ~ MovesBack(m, n) =>
       Shared(rules, m, n) \subseteq Shared(current.rules, m, n) \cup Shared(target.rules, m, n)
  /\ answer \in {"merged", "up_to_date"} => SameFiles /\ SameUser

=============================================================================
