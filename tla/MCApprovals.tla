----------------------------- MODULE MCApprovals -----------------------------
(***************************************************************************)
(* What writes a policy document, for TLC: the requests and votes on a     *)
(* chunk, a rule and a document, under a workflow that asks two distinct   *)
(* voters or two votes of admins; and the apply of one document to         *)
(* another.  A behaviour exercises one of the two.                         *)
(***************************************************************************)
EXTENDS Approvals, PolicyDiff, TLC

CONSTANTS c1, k1, d1, h1, h2, a1, a2

VARIABLE part

DocContent == d1 :> {k1}
TwoVoters  == {[need |-> 2, distinct |-> TRUE, roles |-> {}],
               [need |-> 2, distinct |-> FALSE, roles |-> {"admin"}]}
Symmetry   == Permutations(Requests)

\* Rules with one endpoint or two, in either order, at one place or two.
Item(k, b) == [at |-> k, body |-> b]
RuleOf(es, bs) == [endpoints |-> es, binaries |-> bs]
RuleBodies ==
  {RuleOf(<<>>, <<>>), RuleOf(<<Item(h1, a1)>>, <<>>), RuleOf(<<Item(h2, a1)>>, <<>>),
   RuleOf(<<Item(h1, a1), Item(h2, a1)>>, <<>>), RuleOf(<<Item(h2, a1), Item(h1, a1)>>, <<>>),
   RuleOf(<<Item(h1, a1), Item(h1, a2)>>, <<>>), RuleOf(<<Item(h1, a2), Item(h1, a1)>>, <<Item(a1, a1)>>)}

Files == {[ro |-> l, rw |-> <<>>, workdir |-> FALSE] : l \in {<<>>, <<a1>>, <<a1, a2>>, <<a2, a1>>}}
           \cup {[ro |-> <<a2>>, rw |-> <<a1>>, workdir |-> w] : w \in BOOLEAN}
Doc(r, f, p, l, v) == [rules |-> r, files |-> f, process |-> p, landlock |-> l, version |-> v]
NoDoc == Doc(<<>>, {}, {}, {}, 0)

\* Documents that differ in their rules, or in everything else.
MCDocuments ==
  {Doc(r, {}, {}, {}, 0) : r \in UNION {[N -> RuleBodies] : N \in SUBSET RuleNames}}
    \cup {Doc(<<>>, f, p, l, v) : f \in {{}} \cup {{x} : x \in Files}, p \in {{}, {{}}, {{a1}}}, l \in {{}, {a1}}, v \in 0 .. 2}

MCInit ==
  /\ part \in {"votes", "apply"}
  /\ Init /\ policy = {} /\ (part = "apply" => flow = NoFlow)
  /\ DiffInit /\ (part = "votes" => current = NoDoc /\ target = NoDoc)

MCNext ==
  /\ UNCHANGED part
  /\ IF part = "votes" THEN Next ELSE UNCHANGED vars
  /\ IF part = "apply" THEN DiffNext ELSE UNCHANGED diffVars

MCSpec == MCInit /\ [][MCNext]_<<part, vars, diffVars>>

=============================================================================
