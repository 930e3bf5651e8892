-------------------------- MODULE MCCodingDispatch --------------------------
(* Instances of CodingDispatch for TLC. *)
EXTENDS CodingDispatch

CONSTANT r1

OneRun == {"t1"}
OneName == [t \in Tasks |-> "n1"]
=============================================================================
