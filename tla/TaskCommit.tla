----------------------------- MODULE TaskCommit -----------------------------
(***************************************************************************)
(* One delegated task and everyone who commits its metadata.               *)
(*                                                                         *)
(* A task lives in two objects of shared storage: its own meta.json and a  *)
(* node of its project's meta.json.  The TeamHarness tools of the workers  *)
(* and of the leader (ack_task, submit_task, report_progress, cancel_task, *)
(* accept_task_result) pull both, change a local copy and commit first the *)
(* project (_sync_project), then the task (_sync_task), each with a        *)
(* conditional PUT to the Controller that is retried on a conflict.  The   *)
(* Controller vets a task commit (PutTaskMeta) and has a writer of its     *)
(* own, the console's CancelTask.                                          *)
(*                                                                         *)
(* ETags are represented by what they are compared for: a request carries  *)
(* live = TRUE when the ETag it holds is still the ETag of the object, and *)
(* every write of the object takes that away from everybody else.          *)
(***************************************************************************)
EXTENDS TaskContract

CONSTANTS
  Ops,          \* the tool actions this instance runs
  MaxAttempts,  \* _SYNC_TASK_MAX_ATTEMPTS = _SYNC_PROJECT_MAX_ATTEMPTS
  MaxCalls,     \* bound: calls of each member, deliveries of each CancelTask
  Endless       \* members whose calls are not counted

WorkerOps == {"ack_task", "submit_task", "report_progress"}
LeaderOps == {"accept", "reject", "cancel_task"}

ASSUME OpsAssumption == Ops \subseteq WorkerOps \cup LeaderOps
ASSUME BoundsAssumption == MaxAttempts \in Nat \ {0}

VARIABLES
  node,    \* the task's node in the project's meta.json
  task,    \* the task's meta.json
  call,    \* call[m]: the tool call member m is executing
  req,     \* req[m]: the PUT of member m the Controller is serving
  cancel,  \* cancel[c]: the CancelTask request c
  used,    \* used[x]: calls made so far
  subs     \* submission ids minted so far

vars == <<node, task, call, req, cancel, used, subs>>

Nodes == [status : Status, reason : Reasons, sub : Subs]

Phases == {"idle", "load", "readP", "waitP", "readT", "waitT"}
Calls == [pc : Phases, op : Ops \cup {"none"}, result : Results \cup {"none"}, want : Subs,
          node : Nodes, meta : Metas, attempt : 1..MaxAttempts, res : Answers]

Served == {"none", "sent", "guarded", "stat", "done", "conflict", "refused"}
Reqs == [obj : {"none", "project", "task"}, st : Served, live : BOOLEAN,
         node : Nodes, meta : Metas]

CancelPhases == {"idle", "load", "audit", "node", "task"}
CancelRecs == [pc : CancelPhases, live : BOOLEAN, want : Subs, node : Nodes, meta : Metas,
               res : Answers \cup {"conflict"}]

TypeOK ==
  /\ node \in Nodes
  /\ task \in Metas
  /\ call \in [Members -> Calls]
  /\ req \in [Members -> Reqs]
  /\ cancel \in [Cancels -> CancelRecs]
  /\ used \in [Members \cup Cancels -> Nat]
  /\ subs \in Nat

(***************************************************************************)
(* delegate_task has assigned the task: node and task say so.              *)
(***************************************************************************)
InitNode == [status |-> "assigned", reason |-> NoOne, sub |-> 0]
IdleCall == [pc |-> "idle", op |-> "none", result |-> "none", want |-> 0, node |-> InitNode,
             meta |-> InitMeta, attempt |-> 1, res |-> "none"]
NoReq == [obj |-> "none", st |-> "none", live |-> FALSE, node |-> InitNode, meta |-> InitMeta]
IdleCancel == [pc |-> "idle", live |-> FALSE, want |-> 0, node |-> InitNode,
               meta |-> InitMeta, res |-> "none"]

Init ==
  /\ node = InitNode
  /\ task = InitMeta
  /\ call = [m \in Members |-> IdleCall]
  /\ req = [m \in Members |-> NoReq]
  /\ cancel = [c \in Cancels |-> IdleCancel]
  /\ used = [x \in Members \cup Cancels |-> 0]
  /\ subs = 0

-----------------------------------------------------------------------------
(***************************************************************************)
(* Mutant of Stale: a store whose ETags survive a write.                   *)
(***************************************************************************)
StaleNever(obj) == req

(***************************************************************************)
(* Writes of the two objects, and the ETags they make stale.               *)
(***************************************************************************)
Stale(obj) ==
  [m \in Members |-> IF req[m].obj = obj THEN [req[m] EXCEPT !.live = FALSE] ELSE req[m]]

StaleCancels == [c \in Cancels |-> [cancel[c] EXCEPT !.live = FALSE]]

-----------------------------------------------------------------------------
(***************************************************************************)
(* The tools.  A call returns to idle with its answer; what it kept        *)
(* locally is not used again, because every call starts with a pull.       *)
(***************************************************************************)
Return(m, answer) ==
  call' = [call EXCEPT ![m] = [IdleCall EXCEPT !.op = call[m].op, !.res = answer]]

(***************************************************************************)
(* _terminal_task_status: the node first, then the task.                   *)
(***************************************************************************)
TerminalStatus(n, t) ==
  IF n.status \in Terminal THEN n.status
  ELSE IF t.status \in Terminal THEN t.status ELSE "none"

(***************************************************************************)
(* _resolve_task_continuation: without a continuation there is nothing to  *)
(* resolve.                                                                *)
(***************************************************************************)
Resolve(t, resolution) ==
  [t EXCEPT !.cont = IF t.cont = "none" THEN "none" ELSE resolution]

(***************************************************************************)
(* A tool call starts: _pull_project, before anything is decided.  The     *)
(* caller names the submission it has seen.                                *)
(***************************************************************************)
Begin(m, op, result) ==
  /\ call[m].pc = "idle"
  /\ used[m] < MaxCalls[m]
  /\ op \in Ops \cap (IF m = Leader THEN LeaderOps ELSE WorkerOps)
  /\ op # "submit_task" => result = "none"
  /\ op = "submit_task" => result \in Results
  /\ call' = [call EXCEPT ![m] = [IdleCall EXCEPT !.pc = "load", !.op = op, !.result = result,
                                    !.want = task.sub, !.node = node]]
  /\ used' = [used EXCEPT ![m] = IF m \in Endless THEN @ ELSE @ + 1]
  /\ UNCHANGED <<node, task, req, cancel, subs>>

(***************************************************************************)
(* The call goes on with the local task t: through _update_project_task    *)
(* with the new status of the node, or straight to _sync_task.  What it    *)
(* has no more use for is forgotten.                                       *)
(***************************************************************************)
ToProject(m, status, t) ==
  call' = [call EXCEPT ![m] =
             [IdleCall EXCEPT !.pc = "readP", !.op = call[m].op, !.meta = t,
                              !.node = [call[m].node EXCEPT !.status = status]]]

ToTask(m, t) ==
  call' = [call EXCEPT ![m] = [IdleCall EXCEPT !.pc = "readT", !.op = call[m].op, !.meta = t]]

(***************************************************************************)
(* ack_task: in_progress, unless the task is already submitted.            *)
(***************************************************************************)
LoadAck(m) ==
  LET n == call[m].node IN
  /\ call[m].op = "ack_task"
  /\ IF TerminalStatus(n, task) # "none" THEN Return(m, "rejected")
     ELSE IF task.status = "submitted" THEN ToTask(m, task)
     ELSE IF task.status \in {"assigned", "in_progress"}
       THEN ToProject(m, "in_progress", [task EXCEPT !.status = "in_progress"])
     ELSE Return(m, "rejected")
  /\ UNCHANGED subs

(***************************************************************************)
(* submit_task: a fresh submission, or the repetition of the one stored.   *)
(***************************************************************************)
LoadSubmit(m) ==
  LET n == call[m].node
      fresh == subs + 1
  IN
  /\ call[m].op = "submit_task"
  /\ IF TerminalStatus(n, task) = "none" /\ task.status \in {"assigned", "in_progress"}
       THEN /\ subs' = fresh
            /\ ToProject(m, "submitted",
                       [task EXCEPT !.status = "submitted", !.cont = "pending",
                                    !.sub = fresh, !.result = call[m].result])
     ELSE /\ IF /\ TerminalStatus(n, task) = "none"
                /\ task.status = "submitted"
                /\ task.result = call[m].result
               THEN ToProject(m, "submitted", task)
               ELSE Return(m, "rejected")
          /\ UNCHANGED subs

(***************************************************************************)
(* report_progress: a history entry only.                                  *)
(***************************************************************************)
LoadProgress(m) ==
  LET n == call[m].node IN
  /\ call[m].op = "report_progress"
  /\ IF TerminalStatus(n, task) = "none" /\ task.status \in {"assigned", "in_progress"}
       THEN ToTask(m, task)
       ELSE Return(m, "rejected")
  /\ UNCHANGED subs

(***************************************************************************)
(* cancel_task by the leader: fenced by the submission it names; a         *)
(* repetition of its own cancellation is reused.                           *)
(***************************************************************************)
LoadCancel(m) ==
  LET n == call[m].node
      ended == TerminalStatus(n, task)
  IN
  /\ call[m].op = "cancel_task"
  /\ IF call[m].want # task.sub THEN Return(m, "rejected")
     ELSE IF ended = "cancelled" /\ task.reason = Leader
       THEN ToProject(m, "cancelled", task)
     ELSE IF ended # "none" THEN Return(m, "rejected")
     ELSE ToProject(m, "cancelled",
                  Resolve([task EXCEPT !.status = "cancelled", !.reason = Leader], "cancelled"))
  /\ UNCHANGED subs

(***************************************************************************)
(* accept_task_result, with accepted = TRUE (accept) or FALSE (reject).    *)
(* A node that is already decided the same way is repaired: project and    *)
(* task are committed again.                                               *)
(***************************************************************************)
Decided(op, result) ==
  IF op = "reject" /\ Outcome[result] = "completed" THEN "revision" ELSE Outcome[result]

LoadAccept(m) ==
  LET n == call[m].node
      decision == Decided(call[m].op, task.result)
  IN
  /\ call[m].op \in {"accept", "reject"}
  /\ IF /\ task.status \in {"submitted"} \cup Terminal
        /\ task.result # "none"
        /\ call[m].want = task.sub
        /\ n.status \in Terminal => n.status = decision
       THEN ToProject(m, decision, Resolve([task EXCEPT !.status = decision], decision))
       ELSE Return(m, "rejected")
  /\ UNCHANGED subs

(***************************************************************************)
(* _load_authoritative_task (the pull), the action's checks and its change *)
(* of the local copies.                                                    *)
(***************************************************************************)
Load(m) ==
  /\ call[m].pc = "load"
  /\ \/ LoadAck(m)
     \/ LoadSubmit(m)
     \/ LoadProgress(m)
     \/ LoadCancel(m)
     \/ LoadAccept(m)
  /\ UNCHANGED <<node, task, req, cancel, used>>

-----------------------------------------------------------------------------
(***************************************************************************)
(* _sync_project and _sync_task.  A new request waits until an abandoned   *)
(* one of the same member has been served (bound: one PUT per member in    *)
(* the Controller at a time).                                              *)
(***************************************************************************)
Free(m) == req[m].st \in {"none", "done", "conflict", "refused"}

(***************************************************************************)
(* The versioned read of the project and the conditional PUT; the local    *)
(* node is committed as it is (the merge is about the pause state only).   *)
(***************************************************************************)
SendProject(m) ==
  /\ call[m].pc = "readP"
  /\ Free(m)
  /\ req' = [req EXCEPT ![m] = [NoReq EXCEPT !.obj = "project", !.st = "sent", !.live = TRUE,
                                             !.node = call[m].node]]
  /\ call' = [call EXCEPT ![m].pc = "waitP"]
  /\ UNCHANGED <<node, task, cancel, used, subs>>

(***************************************************************************)
(* The versioned read of the task, the merge and the conditional PUT.      *)
(***************************************************************************)
SendTask(m) ==
  LET merged == Merge(call[m].meta, task) IN
  /\ call[m].pc = "readT"
  /\ Free(m)
  /\ req' = [req EXCEPT ![m] = [NoReq EXCEPT !.obj = "task", !.st = "sent", !.live = TRUE,
                                             !.meta = merged]]
  /\ call' = [call EXCEPT ![m] = [@ EXCEPT !.pc = "waitT", !.meta = merged]]
  /\ UNCHANGED <<node, task, cancel, used, subs>>

(***************************************************************************)
(* A failed _sync_task: ack_task and report_progress answer ok: True with  *)
(* synced: False, the others their _sync_failure_result.                   *)
(***************************************************************************)
NotSynced(m) ==
  Return(m, IF call[m].op \in {"ack_task", "report_progress"} THEN "unsynced" ELSE "failed")

(***************************************************************************)
(* The next attempt of the sync loop, or the end of its retries.  ack_task *)
(* ignores a failed _sync_project and goes on to its task.                 *)
(***************************************************************************)
SyncFailed(m) ==
  IF call[m].pc \in {"readP", "waitP"} /\ call[m].op = "ack_task"
    THEN ToTask(m, call[m].meta)
    ELSE NotSynced(m)

(***************************************************************************)
(* Mutant of Retry: one attempt too many.                                  *)
(***************************************************************************)
RetryOnceMore(m) ==
  IF call[m].attempt > MaxAttempts THEN SyncFailed(m)
  ELSE call' = [call EXCEPT ![m].attempt = @ + 1,
                            ![m].pc = IF @ = "waitT" THEN "readT" ELSE "readP"]

Retry(m) ==
  IF call[m].attempt = MaxAttempts THEN SyncFailed(m)
  ELSE call' = [call EXCEPT ![m].attempt = @ + 1,
                            ![m].pc = IF @ = "waitT" THEN "readT" ELSE "readP"]

(***************************************************************************)
(* The answer of the project PUT: a conflict is retried, and so is a       *)
(* commit whose ETag is no longer the live one.                            *)
(***************************************************************************)
ProjectAnswered(m) ==
  /\ call[m].pc = "waitP"
  /\ req[m].st \in {"done", "conflict"}
  /\ IF req[m].st = "done" /\ req[m].live
       THEN ToTask(m, call[m].meta)
       ELSE Retry(m)
  /\ req' = [req EXCEPT ![m] = NoReq]
  /\ UNCHANGED <<node, task, cancel, used, subs>>

(***************************************************************************)
(* _task_cancellation_state and _cancellation_state_missing: what the      *)
(* re-read after a commit must still show.                                 *)
(***************************************************************************)
CancellationMissing(merged, remote) ==
  \/ remote.status # "cancelled"
  \/ merged.reason # NoOne /\ remote.reason # merged.reason
  \/ merged.cont # "none" /\ remote.cont # merged.cont

Verified(m) ==
  IF call[m].meta.status = "cancelled" THEN ~CancellationMissing(call[m].meta, task)
  ELSE req[m].live

(***************************************************************************)
(* The answer of the task PUT: 409 is retried, a refusal (400, 403) fails  *)
(* closed, a success is verified.                                          *)
(***************************************************************************)
TaskAnswered(m) ==
  /\ call[m].pc = "waitT"
  /\ req[m].st \in {"done", "conflict", "refused"}
  /\ IF req[m].st = "refused" THEN NotSynced(m)
     ELSE IF req[m].st = "done" /\ Verified(m) THEN Return(m, "ok")
     ELSE Retry(m)
  /\ req' = [req EXCEPT ![m] = NoReq]
  /\ UNCHANGED <<node, task, cancel, used, subs>>

(***************************************************************************)
(* The push of the project's derived files fails: the attempt is repeated. *)
(* (A failed push of the task's files ends the sync, see NetworkError.)    *)
(***************************************************************************)
PushFailed(m) ==
  /\ call[m].pc = "readP"
  /\ Retry(m)
  /\ UNCHANGED <<node, task, req, cancel, used, subs>>

(***************************************************************************)
(* A read or a push fails, a PUT times out after                           *)
(* _COMMIT_META_TIMEOUT_SECONDS or its answer is lost: the sync fails.     *)
(* The Controller may go on serving the PUT.                               *)
(***************************************************************************)
NetworkError(m) ==
  /\ call[m].pc \in {"readP", "waitP", "readT", "waitT"}
  /\ SyncFailed(m)
  /\ req' = IF Free(m) THEN [req EXCEPT ![m] = NoReq] ELSE req
  /\ UNCHANGED <<node, task, cancel, used, subs>>

(***************************************************************************)
(* The member's process stops in the middle of a call.                     *)
(***************************************************************************)
Crash(m) ==
  /\ call[m].pc # "idle"
  /\ Return(m, "failed")
  /\ req' = IF Free(m) THEN [req EXCEPT ![m] = NoReq] ELSE req
  /\ UNCHANGED <<node, task, cancel, used, subs>>

-----------------------------------------------------------------------------
(***************************************************************************)
(* The Controller's commit endpoints.                                      *)
(***************************************************************************)

(***************************************************************************)
(* PutProjectMeta: the strict conditional write.  Nothing is checked about *)
(* task nodes.                                                             *)
(***************************************************************************)
PutProjectMeta(m) ==
  /\ req[m].obj = "project"
  /\ req[m].st = "sent"
  /\ IF req[m].live
       THEN /\ node' = req[m].node
            /\ req' = [Stale("project") EXCEPT ![m].st = "stat"]
            /\ cancel' = StaleCancels
       ELSE /\ req' = [req EXCEPT ![m].st = "conflict"]
            /\ UNCHANGED <<node, cancel>>
  /\ UNCHANGED <<task, call, used, subs>>

(***************************************************************************)
(* PutTaskMeta reads the stored meta and vets the body against it; 403     *)
(* when it does not pass.                                                  *)
(***************************************************************************)
GuardTaskMeta(m) ==
  /\ req[m].obj = "task"
  /\ req[m].st = "sent"
  /\ req' = [req EXCEPT ![m].st = IF Guard(Class(m), task, req[m].meta)
                                    THEN "guarded" ELSE "refused"]
  /\ UNCHANGED <<node, task, call, cancel, used, subs>>

(***************************************************************************)
(* Mutant of PutTaskMeta: an unconditional PutObject.                      *)
(***************************************************************************)
PutTaskMetaBlind(m) ==
  /\ req[m].obj = "task"
  /\ req[m].st = "guarded"
  /\ task' = req[m].meta
  /\ req' = [Stale("task") EXCEPT ![m].st = "stat"]
  /\ UNCHANGED <<node, call, cancel, used, subs>>

(***************************************************************************)
(* PutTaskMeta's strict conditional write: 409 when the If-Match is stale. *)
(***************************************************************************)
PutTaskMeta(m) ==
  /\ req[m].obj = "task"
  /\ req[m].st = "guarded"
  /\ IF req[m].live
       THEN task' = req[m].meta /\ req' = [Stale("task") EXCEPT ![m].st = "stat"]
       ELSE req' = [req EXCEPT ![m].st = "conflict"] /\ UNCHANGED task
  /\ UNCHANGED <<node, call, cancel, used, subs>>

(***************************************************************************)
(* StatMeta after the write: the ETag that is answered is the one of the   *)
(* version stored then.                                                    *)
(***************************************************************************)
StatMeta(m) ==
  /\ req[m].st = "stat"
  /\ req' = [req EXCEPT ![m] = [NoReq EXCEPT !.obj = req[m].obj, !.st = "done", !.live = TRUE]]
  /\ UNCHANGED <<node, task, call, cancel, used, subs>>

-----------------------------------------------------------------------------
(***************************************************************************)
(* CancelTask, the console's cancellation.                                 *)
(***************************************************************************)
CancelReturn(c, answer) ==
  cancel' = [cancel EXCEPT ![c] = [IdleCancel EXCEPT !.res = answer]]

(***************************************************************************)
(* The request (or its retry) reads the project with its ETag.             *)
(***************************************************************************)
CancelBegin(c) ==
  /\ cancel[c].pc = "idle"
  /\ used[c] < MaxCalls[c]
  /\ cancel' = [cancel EXCEPT ![c] = [IdleCancel EXCEPT !.pc = "load", !.live = TRUE,
                                                       !.want = task.sub, !.node = node]]
  /\ used' = [used EXCEPT ![c] = @ + 1]
  /\ UNCHANGED <<node, task, call, req, subs>>

(***************************************************************************)
(* The checks that end in 409.                                             *)
(***************************************************************************)
CancelRefused(c) ==
  LET n == cancel[c].node IN
  \/ n.status \in Terminal \ {"cancelled"}
  \/ cancel[c].want # task.sub
  \/ n.reason # NoOne /\ (n.reason # c \/ n.sub # cancel[c].want)
  \/ task.status \in Terminal \ {"cancelled"}
  \/ task.cont \in Terminal \ {"cancelled"}
  \/ task.status = "cancelled" /\ task.reason # c

FullyResolved(c) ==
  /\ task.status = "cancelled"
  /\ cancel[c].node.status = "cancelled"
  /\ task.cont \in {"none", "cancelled"}

(***************************************************************************)
(* readTaskMetaFirst, the checks and the body of the task write.           *)
(***************************************************************************)
CancelLoad(c) ==
  /\ cancel[c].pc = "load"
  /\ IF CancelRefused(c) THEN cancel' = [cancel EXCEPT ![c] = [IdleCancel EXCEPT !.pc = "audit",
                                                         !.live = cancel[c].live]]
     ELSE IF FullyResolved(c) THEN CancelReturn(c, "ok")
     ELSE cancel' =
       [cancel EXCEPT ![c] =
          [IdleCancel EXCEPT
             !.pc = IF cancel[c].node.status = "cancelled" THEN "task" ELSE "node",
             !.live = cancel[c].live,
             !.want = cancel[c].want,
             !.meta = Resolve([task EXCEPT !.status = "cancelled", !.reason = c], "cancelled")]]
  /\ UNCHANGED <<node, task, call, req, used, subs>>

(***************************************************************************)
(* persistControlActionAudit: the failed request is recorded in the        *)
(* project, if its ETag is still the live one.                             *)
(***************************************************************************)
CancelAudit(c) ==
  /\ cancel[c].pc = "audit"
  /\ IF cancel[c].live
       THEN /\ req' = Stale("project")
            /\ cancel' = [StaleCancels EXCEPT ![c] = [IdleCancel EXCEPT !.res = "rejected"]]
       ELSE CancelReturn(c, "rejected") /\ UNCHANGED req
  /\ UNCHANGED <<node, task, call, used, subs>>

(***************************************************************************)
(* writeProjectMeta: the node becomes cancelled, under the ETag read at    *)
(* the start; a conflict ends the request.                                 *)
(***************************************************************************)
CancelNode(c) ==
  /\ cancel[c].pc = "node"
  /\ IF cancel[c].live
       THEN /\ node' = [status |-> "cancelled",
                        reason |-> c,
                        sub |-> cancel[c].want]
            /\ req' = Stale("project")
            /\ cancel' = [StaleCancels EXCEPT ![c].pc = "task"]
       ELSE CancelReturn(c, "conflict") /\ UNCHANGED <<node, req>>
  /\ UNCHANGED <<task, call, used, subs>>

(***************************************************************************)
(* PutObject: the task write carries no condition.                         *)
(***************************************************************************)
CancelPut(c) ==
  /\ cancel[c].pc = "task"
  /\ task' = cancel[c].meta
  /\ req' = Stale("task")
  /\ CancelReturn(c, "ok")
  /\ UNCHANGED <<node, call, used, subs>>

(***************************************************************************)
(* The Controller restarts, or storage fails, in the middle of CancelTask. *)
(***************************************************************************)
CancelCrash(c) ==
  /\ cancel[c].pc # "idle"
  /\ CancelReturn(c, "failed")
  /\ UNCHANGED <<node, task, call, req, used, subs>>

-----------------------------------------------------------------------------
MemberStep(m) ==
  \/ Load(m) \/ SendProject(m) \/ ProjectAnswered(m) \/ SendTask(m) \/ TaskAnswered(m)

ServerStep(m) ==
  \/ PutProjectMeta(m) \/ GuardTaskMeta(m) \/ PutTaskMeta(m) \/ StatMeta(m)

CancelStep(c) ==
  \/ CancelLoad(c) \/ CancelAudit(c) \/ CancelNode(c) \/ CancelPut(c)

Next ==
  \/ \E m \in Members :
       \/ \E op \in Ops, result \in Results \cup {"none"} : Begin(m, op, result)
       \/ MemberStep(m)
       \/ ServerStep(m)
       \/ PushFailed(m)
       \/ NetworkError(m)
       \/ Crash(m)
  \/ \E c \in Cancels :
       CancelBegin(c) \/ CancelStep(c) \/ CancelCrash(c)

Spec == Init /\ [][Next]_vars

-----------------------------------------------------------------------------
(***************************************************************************)
(* The protocol implements AtomicCommit.                                   *)
(***************************************************************************)
StoredByCall ==
  [m \in Members |-> call[m].pc = "waitT" /\ req[m].st \in {"stat", "done"}]
LastAnswer == [m \in Members |-> call[m].res]

Atomic == INSTANCE AtomicCommit WITH meta <- task, stored <- StoredByCall, answer <- LastAnswer

(***************************************************************************)
(* Check and write of a commit, retries, lost answers and late deliveries  *)
(* included, look like one atomic step, and only a call whose own body was *)
(* stored answers ok with its sync confirmed (ack_task and report_progress *)
(* answer ok: True, synced: False also when nothing was stored).           *)
(***************************************************************************)
CommitsAreAtomic == Atomic!Spec

(***************************************************************************)
(* A task commit that the Controller has vetted and that can still land    *)
(* was vetted against the meta it will replace, although the meta is read  *)
(* once for the check and a second time, by the store, for the ETag.       *)
(***************************************************************************)
VettedCommit ==
  \A m \in Members :
    req[m].obj = "task" /\ req[m].st = "guarded" /\ req[m].live =>
      Guard(Class(m), task, req[m].meta)

(***************************************************************************)
(* The stored status only moves along the lifecycle contract, whoever      *)
(* writes, retries or is delivered late; the console's cancellation is the *)
(* one exception: it is an unconditional write, decided on an earlier read.*)
(***************************************************************************)
ContractFollowed ==
  [][task'.status # task.status =>
       task'.status \in Transitions[task.status] \cup {"cancelled"}]_task

(***************************************************************************)
(* A cancelled task is never reopened (#1471), and a commit of a member    *)
(* never replaces the reason it was cancelled for.                         *)
(***************************************************************************)
CancelledForever ==
  [][/\ task.status = "cancelled" => task'.status = "cancelled"
     /\ \A m \in Members :
          PutTaskMeta(m) /\ task.status = "cancelled" /\ task.reason # NoOne =>
            task'.reason = task.reason]_vars

(***************************************************************************)
(* What each tool promises when it answers ok with its sync confirmed: the *)
(* statuses the task may have from then on.                                *)
(***************************************************************************)
Reached(op) ==
  CASE op = "ack_task" -> {"in_progress", "submitted"} \cup Terminal
    [] op = "submit_task" -> {"submitted"} \cup Terminal
    [] op \in {"accept", "reject"} -> Terminal
    [] op = "cancel_task" -> {"cancelled"}
    [] OTHER -> Status

(***************************************************************************)
(* A confirmed success stands: after ok with synced not False, no late     *)
(* commit, stale retry or crash of anybody takes the task back behind what *)
(* the tool reported, and a cancellation that was reported is never        *)
(* undone.  Nothing is said of an ok: True that came with synced: False.   *)
(***************************************************************************)
SuccessStands ==
  /\ \A m \in Members : call[m].res = "ok" => task.status \in Reached(call[m].op)
  /\ \A c \in Cancels : cancel[c].res = "ok" => task.status = "cancelled"

(***************************************************************************)
(* Why these hold: the invariant that Next preserves.  A request in flight *)
(* carries the cancellation of the meta it was read with; a waiting call   *)
(* waits for its own request; a local copy is never behind what its tool   *)
(* reports; only a cancelled task has a cancel reason, or else the copy    *)
(* that has one was read from a task that is cancelled by now.             *)
(***************************************************************************)
InFlight(m) == req[m].obj = "task" /\ req[m].st \in {"sent", "guarded"}

MergedCommit ==
  \A m \in Members : InFlight(m) /\ req[m].live => Merge(req[m].meta, task) = req[m].meta

OwnRequest ==
  \A m \in Members :
    /\ call[m].pc = "waitP" => req[m].obj = "project"
    /\ call[m].pc = "waitT" =>
         req[m].obj = "task" /\ (InFlight(m) => req[m].meta = call[m].meta)
    /\ req[m].st = "refused" => req[m].obj = "task"

LocalReached ==
  \A m \in Members :
    /\ call[m].pc \in {"readP", "waitP", "readT", "waitT"} =>
         call[m].meta.status \in Reached(call[m].op)
    /\ call[m].pc = "waitT" /\ req[m].st \in {"stat", "done"} =>
         task.status \in Reached(call[m].op)
    /\ call[m].res = "ok" => call[m].pc = "idle"

ReasonMeansCancelled ==
  /\ task.reason # NoOne => task.status = "cancelled"
  /\ \A m \in Members :
       /\ call[m].meta.reason # NoOne /\ call[m].meta.status # "cancelled" =>
            task.status = "cancelled"
       /\ InFlight(m) /\ req[m].meta.reason # NoOne => req[m].meta.status = "cancelled"
  /\ \A c \in Cancels :
       cancel[c].pc \in {"node", "task"} => cancel[c].meta.status = "cancelled"

IndInv ==
  /\ TypeOK
  /\ task.status \notin {"planned", "prepared"}
  /\ VettedCommit
  /\ MergedCommit
  /\ OwnRequest
  /\ LocalReached
  /\ ReasonMeansCancelled
  /\ SuccessStands

=============================================================================
