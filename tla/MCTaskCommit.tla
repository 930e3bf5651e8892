---------------------------- MODULE MCTaskCommit ----------------------------
(***************************************************************************)
(* Small instances of TaskCommit.                                          *)
(***************************************************************************)
EXTENDS TaskCommit, FiniteSets, TLC

SuccessOnly == "SUCCESS" :> "completed"
TwoOutcomes == "SUCCESS" :> "completed" @@ "BLOCKED" :> "blocked"

OneEach == [x \in Members \cup Cancels |-> 1]
TwoByWorkers == [x \in Members \cup Cancels |-> IF x \in Workers THEN 2 ELSE 1]
=============================================================================
