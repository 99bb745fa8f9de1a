---------------------------- MODULE OperationLock ----------------------------
(***************************************************************************)
(* What the operations table promises about a resource: it is held by at   *)
(* most one active operation, and it has to be let go before another       *)
(* operation takes it.                                                     *)
(***************************************************************************)
CONSTANTS Resource, Op

VARIABLE held    \* the active operations of each resource

Init == held = [k \in Resource |-> {}]

Take(k) == /\ held[k] = {}
           /\ \E o \in Op : held' = [held EXCEPT ![k] = {o}]

Release == held' \in {h \in [Resource -> SUBSET Op] : \A k \in Resource : h[k] \subseteq held[k]}

Next == Release \/ \E k \in Resource : Take(k)

Spec == Init /\ [][Next]_held

=============================================================================
