----------------------------- MODULE MCPortSetup -----------------------------
(***************************************************************************)
(* One channel between two cores.                                          *)
(***************************************************************************)
EXTENDS PortSetup

OneSrc  == [c \in {0} |-> "c0"]
OneSink == [c \in {0} |-> "c1"]

=============================================================================
