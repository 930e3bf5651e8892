---------------------------- MODULE TaskContract ----------------------------
(***************************************************************************)
(* The task lifecycle contract, and the part of the Controller's guard on  *)
(* PUT /api/v1/tasks/{id}/meta that is about the status and the            *)
(* cancellation.  The Python runtime (common/constants.py) and the Go      *)
(* Controller (task_meta_commit.go) each carry a copy of the table.        *)
(***************************************************************************)
EXTENDS Naturals

CONSTANTS
  Workers,      \* members whose tools run with the worker role
  Leader,       \* the member whose tools run with the leader role
  Cancels,      \* CancelTask requests, each with a reason of its own
  NoOne,        \* no cancel reason / no cancellation decision
  Results,      \* submitted results, up to result_digest
  Outcome       \* _accepted_node_status: the decision a result calls for

ASSUME NamesAssumption ==
  /\ Leader \notin Workers
  /\ NoOne \notin Cancels \cup {Leader}
  /\ Leader \notin Cancels
  /\ Workers \cap Cancels = {}

Members == Workers \cup {Leader}

(***************************************************************************)
(* TERMINAL_TASK_STATUSES and the remaining canonical statuses.            *)
(***************************************************************************)
Terminal == {"completed", "revision", "blocked", "cancelled"}
Status == {"planned", "prepared", "assigned", "in_progress", "submitted"} \cup Terminal

(***************************************************************************)
(* TRANSITIONS / taskStatusTransitions: the targets of each status.        *)
(***************************************************************************)
Transitions ==
  [s \in Status |->
     CASE s = "planned"     -> {"prepared", "assigned", "in_progress", "submitted", "cancelled"}
       [] s = "prepared"    -> {"assigned", "cancelled"}
       [] s = "assigned"    -> {"in_progress", "submitted", "cancelled"}
       [] s = "in_progress" -> {"submitted", "cancelled"}
       [] s = "submitted"   -> {"completed", "revision", "blocked", "cancelled"}
       [] OTHER             -> {}]

(***************************************************************************)
(* The two authority classes of classifyCommitActor: a team leader (like a *)
(* human, a manager or an admin) decides, a worker reports.                *)
(***************************************************************************)
Class(m) == IF m = Leader THEN "decider" ELSE "worker"

(***************************************************************************)
(* workerStatusLane: the status moves a worker's commit may make.          *)
(***************************************************************************)
WorkerLane(from, to) ==
  \/ to = "in_progress" /\ from \in {"planned", "prepared", "assigned"}
  \/ to = "submitted" /\ from = "in_progress"

(***************************************************************************)
(* checkStatusLane: a same-value write is idempotent; a worker keeps its   *)
(* lane; a decider follows the contract.                                   *)
(***************************************************************************)
StatusLane(class, from, to) ==
  \/ to = from
  \/ class = "worker" /\ WorkerLane(from, to)
  \/ class = "decider" /\ to \in Transitions[from]

-----------------------------------------------------------------------------
(***************************************************************************)
(* A task's meta.json: its status, who cancelled it (cancel_reason and the *)
(* fields written with it), its continuation ("pending", or the decision   *)
(* it was resolved as), and the submission with its result.                *)
(***************************************************************************)
Decision == {"completed", "revision", "blocked"}
ASSUME ResultsAssumption == "none" \notin Results /\ Outcome \in [Results -> Decision]

Reasons == Cancels \cup {Leader, NoOne}
Subs == Nat
Metas == [status : Status, reason : Reasons, cont : {"none", "pending"} \cup Terminal,
          sub : Subs, result : Results \cup {"none"}]

InitMeta == [status |-> "assigned", reason |-> NoOne, cont |-> "none",
             sub |-> 0, result |-> "none"]

(***************************************************************************)
(* What a tool answers: "ok" is ok: True and, where the result says so,    *)
(* synced: True; "unsynced" is ok: True beside synced: False.              *)
(***************************************************************************)
Answers == {"none", "ok", "unsynced", "rejected", "failed"}

(***************************************************************************)
(* The part of PutTaskMeta's guard that is about cancellation: a cancelled *)
(* task stays cancelled, for the stored reason and with its resolved       *)
(* continuation.                                                           *)
(***************************************************************************)
CancellationKept(current, body) ==
  current.status = "cancelled" =>
    /\ body.status = "cancelled"
    /\ current.reason # NoOne => body.reason = current.reason
    /\ current.cont = "cancelled" => body.cont = "cancelled"

(***************************************************************************)
(* Mutant of Guard: the status lane is not checked.                        *)
(***************************************************************************)
GuardCancellationOnly(class, current, body) == CancellationKept(current, body)

Guard(class, current, body) ==
  CancellationKept(current, body) /\ StatusLane(class, current.status, body.status)

(***************************************************************************)
(* _merge_task_cancellation_state.                                         *)
(***************************************************************************)
Merge(local, remote) ==
  IF remote.status # "cancelled" THEN local
  ELSE [local EXCEPT !.status = "cancelled",
                     !.reason = IF remote.reason = NoOne THEN @ ELSE remote.reason,
                     !.cont = IF remote.cont = "none" THEN @ ELSE remote.cont]
=============================================================================
