----------------------------- MODULE MCTransactions -----------------------------
(***************************************************************************)
(* Two cores that read a word, write it and commit.                        *)
(***************************************************************************)
EXTENDS TransactionalMemory

Adds(v) == {Access("read", 0, 0), Access("write", 0, v), Commit}

MCScenarios == {[i \in Cores |-> Adds(i + 1)]}

=============================================================================
