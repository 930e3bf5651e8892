--------------------------- MODULE MCDelegateTask ---------------------------
(***************************************************************************)
(* A small instance of DelegateTask.  The workers can be exchanged.        *)
(***************************************************************************)
EXTENDS DelegateTask, TLC

Passed == "SUCCESS" :> "completed"
Exchange == Permutations(Workers)
=============================================================================
