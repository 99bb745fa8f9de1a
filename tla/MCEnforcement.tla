---------------------------- MODULE MCEnforcement ----------------------------
(***************************************************************************)
(* Enforcement for TLC.  Operators are interchangeable, as are sandboxes   *)
(* and providers.                                                          *)
(***************************************************************************)
EXTENDS Enforcement, TLC

Interchangeable ==
  Permutations(Operators) \union Permutations(Sandbox) \union Permutations(Provider)

=============================================================================
