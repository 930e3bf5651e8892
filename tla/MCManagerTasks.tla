--------------------------- MODULE MCManagerTasks ---------------------------
(* Instances of ManagerTasks for TLC. *)
EXTENDS ManagerTasks

TwoTasks == {"t1", "t2"}

\* t2 depends on t1.
Chain == [t \in Tasks |-> IF t = "t2" THEN {"t1"} ELSE {}]
=============================================================================
