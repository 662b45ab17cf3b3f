----------------------------- MODULE MCCoreMemory -----------------------------
(***************************************************************************)
(* Small programs: methods that do not fit into the cache together, with   *)
(* and without invalidations; accesses to two words of data in lines that  *)
(* replace each other; accesses with calls that miss between them; a word  *)
(* another core stores.                                                    *)
(***************************************************************************)
EXTENDS CoreMemory, TLC

Load(space, a)    == Op("load", space, a, 0)
Store(space, a)   == Op("store", space, a, 1)
Invalidate(which) == Op("inval", which, 0, 0)

Accesses(m, a, s) == [methods |-> m, accesses |-> a, shared |-> s]

MCMemoryPrograms ==
  { Accesses(1 :> 3 @@ 5 :> 2 @@ 8 :> 5, {}, {}),
    Accesses(4 :> 5, {Invalidate("code")}, {}),
    Accesses(1 :> 2, {Load("cached", 32), Load("cached", 37), Store("uncached", 37)}, {}),
    Accesses(1 :> 2 @@ 5 :> 2, {Load("cached", 32), Store("cached", 32)}, {}),
    Accesses(1 :> 2, {Load("cached", 32), Load("uncached", 32)}, {32}),
    Accesses(1 :> 2, {Load("cached", 32), Invalidate("cached")}, {32}) }

\* Methods that do not fit into the cache together, fewer than there are tags.
MCFewMethods == {Accesses(1 :> 5 @@ 9 :> 4, {}, {})}

MCDataWords == 32..39

=============================================================================
