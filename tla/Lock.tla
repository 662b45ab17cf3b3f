--------------------------------- MODULE Lock ---------------------------------
(***************************************************************************)
(* What a lock promises its users: at most one core holds it.              *)
(***************************************************************************)
CONSTANT Core
VARIABLE holders

Init == holders = {}

Acquire(core) == holders = {} /\ holders' = {core}
Release(core) == core \in holders /\ holders' = holders \ {core}

Next == \E core \in Core : Acquire(core) \/ Release(core)

Spec == Init /\ [][Next]_holders

=============================================================================
