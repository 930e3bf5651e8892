-------------------------- MODULE MCProjectControl --------------------------
(***************************************************************************)
(* Small instances of ProjectControl.                                      *)
(***************************************************************************)
EXTENDS ProjectControl, TLC

TwoByMembers == [x \in Members \cup Requests |-> IF x \in Members THEN 2 ELSE 1]
=============================================================================
