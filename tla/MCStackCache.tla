---------------------------- MODULE MCStackCache ----------------------------
(***************************************************************************)
(* Caches of two bursts under a stack of odd length that is about twice as *)
(* large, so that operations end within a burst, at its end and across     *)
(* several.                                                                *)
(***************************************************************************)
EXTENDS StackCache, TLC

CONSTANTS v1, v2

Stored == Permutations(Vals)

=============================================================================
