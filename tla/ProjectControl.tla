--------------------------- MODULE ProjectControl ---------------------------
(***************************************************************************)
(* One project's meta.json and everyone who writes it.                     *)
(*                                                                         *)
(* The TeamHarness tools (projectflow, and taskflow through                *)
(* _update_project_task) pull the file, change their local copy and commit *)
(* it with _sync_project: a versioned read, the merge of the pause state   *)
(* the Controller owns, a conditional PUT, a verifying re-read.  The       *)
(* Controller's own writers are the lifecycle endpoints (pause, resume,    *)
(* replan, complete, create) and the pause sources of a loop (PauseLoop,   *)
(* ResumeLoop).  Whoever dispatches work looks at the pause state first,   *)
(* so nobody may release or resurrect a pause by accident.                 *)
(*                                                                         *)
(* As in TaskCommit, live = TRUE says that an ETag is still the one of the *)
(* stored file.                                                            *)
(***************************************************************************)
EXTENDS Naturals

CONSTANTS
  Members,      \* workers and leaders whose tools commit the project
  Requests,     \* requests to the lifecycle and the loop endpoints
  Admins,       \* the requests made by an admin
  Ops,          \* the tool actions this instance runs
  Controls,     \* the endpoints this instance calls
  Created,      \* whether the project exists at the start
  MaxAttempts,  \* _SYNC_PROJECT_MAX_ATTEMPTS
  MaxCas,       \* attempts of setProjectPauseSource
  MaxCalls      \* bound: calls of each member, deliveries of each request

Plans == {"create_project", "plan_dag", "plan_loop"}
Progress == {"update_task", "record_loop_iteration", "mark_requester_report_sent"}
Deliberate == {"pause_project", "resume_project", "complete_project"}
Lifecycle == {"PauseProject", "ResumeProject", "ReplanProject", "CompleteProject"}
LoopControls == {"PauseLoop", "ResumeLoop"}

ASSUME ProjectNames ==
  /\ Admins \subseteq Requests
  /\ Members \cap Requests = {}
  /\ Ops \subseteq Plans \cup Progress \cup Deliberate
  /\ Controls \subseteq Lifecycle \cup LoopControls \cup {"CreateProject"}
ASSUME ProjectBounds ==
  /\ Created \in BOOLEAN
  /\ MaxAttempts \in Nat \ {0}
  /\ MaxCas \in Nat \ {0}

VARIABLES
  proj,   \* the stored meta.json
  local,  \* local[m]: the copy in the workspace of m
  call,   \* call[m]: the tool call m is executing
  req,    \* req[m]: the PUT of m the Controller is serving
  ctl,    \* ctl[r]: the request r in the Controller
  used    \* used[x]: calls made so far

vars == <<proj, local, call, req, ctl, used>>

(***************************************************************************)
(* meta.json.  dag and iter stand for the task nodes of the two kinds of   *)
(* plan: nothing started, something in_progress or submitted, or all       *)
(* terminal (an empty plan too).  loop says that there is a loop record;   *)
(* sources is loop.pause_sources, flag loop.paused_by_project.             *)
(***************************************************************************)
Sources == {"user", "project"}
Work == {"planned", "running", "settled"}
Projects == [exists : BOOLEAN, status : {"active", "paused", "completed"},
             sources : SUBSET Sources, flag : BOOLEAN, loop : BOOLEAN,
             plan : {"dag", "loop"}, dag : Work, iter : Work, seq : Nat]

Fresh == [exists |-> TRUE, status |-> "active", sources |-> {}, flag |-> FALSE, loop |-> FALSE,
          plan |-> "dag", dag |-> "settled", iter |-> "settled", seq |-> 0]
Absent == [Fresh EXCEPT !.exists = FALSE]

Authored == {"none", "paused", "completed"}
Calls == [pc : {"idle", "read", "push", "wait"}, op : Ops \cup {"none"},
          attempt : 1..MaxAttempts, res : {"none", "ok", "unsynced", "failed"}]
Reqs == [st : {"none", "sent", "resolved", "guarded", "stat", "done", "conflict", "refused"},
         live : BOOLEAN, stale : BOOLEAN, authored : Authored, body : Projects]
Ctls == [pc : {"idle", "write", "audit", "create", "stat", "get", "cas", "reread"},
         op : Controls \cup {"none"}, source : Sources \cup {"none"}, live : BOOLEAN,
         meta : Projects, attempt : 1..MaxCas,
         res : {"none", "ok", "rejected", "conflict", "ungated", "failed"}]

TypeOK ==
  /\ proj \in Projects
  /\ local \in [Members -> Projects]
  /\ call \in [Members -> Calls]
  /\ req \in [Members -> Reqs]
  /\ ctl \in [Requests -> Ctls]
  /\ used \in [Members \cup Requests -> Nat]

IdleCall == [pc |-> "idle", op |-> "none", attempt |-> 1, res |-> "none"]
NoReq == [st |-> "none", live |-> FALSE, stale |-> FALSE, authored |-> "none", body |-> Absent]
IdleCtl == [pc |-> "idle", op |-> "none", source |-> "none", live |-> FALSE, meta |-> Absent,
            attempt |-> 1, res |-> "none"]

Init ==
  /\ proj = IF Created THEN Fresh ELSE Absent
  /\ local = [m \in Members |-> Absent]
  /\ call = [m \in Members |-> IdleCall]
  /\ req = [m \in Members |-> NoReq]
  /\ ctl = [r \in Requests |-> IdleCtl]
  /\ used = [x \in Members \cup Requests |-> 0]

(***************************************************************************)
(* A write of meta.json makes every ETag read before stale.                *)
(***************************************************************************)
StaleReqs == [m \in Members |-> [req[m] EXCEPT !.live = FALSE]]
StaleCtls == [r \in Requests |-> [ctl[r] EXCEPT !.live = FALSE]]

-----------------------------------------------------------------------------
(***************************************************************************)
(* The tools.                                                              *)
(***************************************************************************)

(***************************************************************************)
(* complete_project and CompleteProject: every node of the plan in use is  *)
(* terminal.                                                               *)
(***************************************************************************)
Settled(p) == IF p.plan = "loop" THEN p.iter = "settled" ELSE p.dag = "settled"

(***************************************************************************)
(* _loop_pause_state.                                                      *)
(***************************************************************************)
LoopPaused(p) == p.sources # {} \/ p.status = "paused"

(***************************************************************************)
(* authored_status of _sync_project.                                       *)
(***************************************************************************)
AuthoredBy(op) ==
  CASE op = "pause_project" -> "paused"
    [] op = "complete_project" -> "completed"
    [] OTHER -> "none"

(***************************************************************************)
(* A call of op has changed the local copy and goes on to _sync_project.   *)
(***************************************************************************)
Start(m, op, copy) ==
  /\ op \in Ops
  /\ call[m].pc = "idle"
  /\ used[m] < MaxCalls[m]
  /\ local' = [local EXCEPT ![m] = copy]
  /\ call' = [call EXCEPT ![m] = [IdleCall EXCEPT !.pc = "read", !.op = op]]
  /\ used' = [used EXCEPT ![m] = @ + 1]
  /\ UNCHANGED <<proj, req, ctl>>

(***************************************************************************)
(* _PROJECTFLOW_MUTATING_ACTIONS go on only when _pull_project succeeded;  *)
(* the others may work on the local copy.                                  *)
(***************************************************************************)
Pulled(copy) == proj.exists /\ copy = proj
PulledOrLocal(m, copy) == Pulled(copy) \/ copy = local[m]

(***************************************************************************)
(* create_project: a fresh project, whatever there is.                     *)
(***************************************************************************)
CreateTool(m) == Start(m, "create_project", Fresh)

(***************************************************************************)
(* plan_dag and plan_loop start from an empty project without a copy.      *)
(* plan_loop refuses a paused project and writes a new loop record.        *)
(***************************************************************************)
OrFresh(p) == IF p.exists THEN p ELSE Fresh

PlanDag(m, p) ==
  /\ PulledOrLocal(m, p)
  /\ Start(m, "plan_dag", [OrFresh(p) EXCEPT !.plan = "dag", !.dag = "planned"])

PlanLoop(m, p) ==
  /\ PulledOrLocal(m, p)
  /\ ~LoopPaused(p)
  /\ Start(m, "plan_loop", [OrFresh(p) EXCEPT !.plan = "loop", !.loop = TRUE, !.iter = "planned",
                                              !.sources = {}, !.flag = FALSE])

(***************************************************************************)
(* A task of the plan moves on (_update_project_task, for the tools of     *)
(* TaskCommit).                                                            *)
(***************************************************************************)
UpdateTask(m, p, w) ==
  /\ Pulled(p)
  /\ w # "planned"
  /\ IF p.plan = "loop"
       THEN p.iter # "settled" /\ Start(m, "update_task", [p EXCEPT !.iter = w])
       ELSE p.dag # "settled" /\ Start(m, "update_task", [p EXCEPT !.dag = w])

(***************************************************************************)
(* record_loop_iteration needs a loop record; its ledger is left out.      *)
(***************************************************************************)
RecordLoopIteration(m, p) ==
  /\ Pulled(p)
  /\ p.loop
  /\ Start(m, "record_loop_iteration", [p EXCEPT !.plan = "loop"])

(***************************************************************************)
(* mark_requester_report_sent changes nothing that is modelled.            *)
(***************************************************************************)
MarkRequesterReportSent(m, p) ==
  PulledOrLocal(m, p) /\ p.exists /\ Start(m, "mark_requester_report_sent", p)

PauseTool(m, p) ==
  Pulled(p) /\ Start(m, "pause_project", [p EXCEPT !.status = "paused"])

ResumeTool(m, p) ==
  Pulled(p) /\ Start(m, "resume_project", [p EXCEPT !.status = "active"])

CompleteTool(m, p) ==
  Pulled(p) /\ Settled(p) /\ Start(m, "complete_project", [p EXCEPT !.status = "completed"])

ToolCall(m) ==
  \/ CreateTool(m)
  \/ \E p \in {proj, local[m]} :
       \/ PlanDag(m, p) \/ PlanLoop(m, p)
       \/ \E w \in Work : UpdateTask(m, p, w)
       \/ RecordLoopIteration(m, p) \/ MarkRequesterReportSent(m, p)
       \/ PauseTool(m, p) \/ ResumeTool(m, p) \/ CompleteTool(m, p)

(***************************************************************************)
(* resolve_project, ready_nodes, ready_loop_nodes, and every action that   *)
(* refuses after its pull: only the local copy is refreshed.               *)
(***************************************************************************)
Refresh(m) ==
  /\ call[m].pc = "idle"
  /\ proj.exists
  /\ local' = [local EXCEPT ![m] = proj]
  /\ UNCHANGED <<proj, call, req, ctl, used>>

(***************************************************************************)
(* The end of a call.  complete_project fails without a successful sync;   *)
(* the others answer ok whatever became of it.                             *)
(***************************************************************************)
Return(m, synced) ==
  call' = [call EXCEPT ![m] =
             [IdleCall EXCEPT !.op = call[m].op,
                              !.res = IF synced THEN "ok"
                                      ELSE IF call[m].op = "complete_project" THEN "failed"
                                      ELSE "unsynced"]]

-----------------------------------------------------------------------------
(***************************************************************************)
(* Mutant of Merge: the union of the two sets of sources, as it once was.  *)
(***************************************************************************)
MergeUnion(l, r, authored) ==
  [l EXCEPT !.status = IF r.status = "paused" THEN "paused"
                       ELSE IF authored = "none" THEN r.status ELSE authored,
            !.sources = l.sources \cup r.sources,
            !.flag = r.flag,
            !.loop = l.loop \/ r.loop,
            !.iter = IF l.loop THEN l.iter ELSE r.iter]

(***************************************************************************)
(* _merge_project_pause_state: status, sources and flag are the remote     *)
(* ones, but for an authored transition that meets no pause; the keys of a *)
(* loop record that is not local are carried over; the rest is local.      *)
(***************************************************************************)
Merge(l, r, authored) ==
  [l EXCEPT !.status = IF r.status = "paused" THEN "paused"
                       ELSE IF authored = "none" THEN r.status ELSE authored,
            !.sources = r.sources,
            !.flag = r.flag,
            !.loop = l.loop \/ r.loop,
            !.iter = IF l.loop THEN l.iter ELSE r.iter]

(***************************************************************************)
(* One PUT per member in the Controller at a time (bound).                 *)
(***************************************************************************)
Free(m) == req[m].st \in {"none", "done", "conflict", "refused"}

(***************************************************************************)
(* The versioned read.  Without a remote file the first push follows; else *)
(* the merge, the push of the derived files and the conditional PUT.       *)
(***************************************************************************)
SyncRead(m) ==
  LET authored == AuthoredBy(call[m].op)
      merged == Merge(local[m], proj, authored)
  IN
  /\ call[m].pc = "read"
  /\ Free(m)
  /\ IF proj.exists
       THEN /\ local' = [local EXCEPT ![m] = merged]
            /\ req' = [req EXCEPT ![m] = [NoReq EXCEPT !.st = "sent", !.live = TRUE,
                                                       !.authored = authored, !.body = merged]]
            /\ call' = [call EXCEPT ![m].pc = "wait"]
       ELSE /\ call' = [call EXCEPT ![m].pc = "push"]
            /\ UNCHANGED <<local, req>>
  /\ UNCHANGED <<proj, ctl, used>>

(***************************************************************************)
(* The first push: the directory with meta.json, without any condition.    *)
(***************************************************************************)
FirstPush(m) ==
  /\ call[m].pc = "push"
  /\ proj' = local[m]
  /\ req' = StaleReqs
  /\ ctl' = StaleCtls
  /\ Return(m, TRUE)
  /\ UNCHANGED <<local, used>>

(***************************************************************************)
(* The next attempt of _sync_project, or the end of its retries.           *)
(***************************************************************************)
Retry(m) ==
  IF call[m].attempt = MaxAttempts THEN Return(m, FALSE)
  ELSE call' = [call EXCEPT ![m].attempt = @ + 1, ![m].pc = "read"]

(***************************************************************************)
(* _project_pause_state and _pause_state_missing: the pause state that was *)
(* committed must be found again; when there was none, the committed       *)
(* version must still be the live one.                                     *)
(***************************************************************************)
PauseStateMissing(merged, remote) ==
  \/ merged.status = "paused" /\ remote.status # "paused"
  \/ ~(merged.sources \subseteq remote.sources)
  \/ merged.flag /\ ~remote.flag

Verified(m) ==
  IF LoopPaused(local[m]) \/ local[m].flag THEN ~PauseStateMissing(local[m], proj)
  ELSE req[m].live

Answered(m) ==
  /\ call[m].pc = "wait"
  /\ req[m].st \in {"done", "conflict", "refused"}
  /\ IF req[m].st = "refused" THEN Return(m, FALSE)
     ELSE IF req[m].st = "done" /\ Verified(m) THEN Return(m, TRUE)
     ELSE Retry(m)
  /\ req' = [req EXCEPT ![m] = NoReq]
  /\ UNCHANGED <<proj, local, ctl, used>>

(***************************************************************************)
(* The push of the derived files fails: the next attempt.                  *)
(***************************************************************************)
PushFailed(m) ==
  /\ call[m].pc = "read"
  /\ proj.exists
  /\ local' = [local EXCEPT ![m] = Merge(local[m], proj, AuthoredBy(call[m].op))]
  /\ Retry(m)
  /\ UNCHANGED <<proj, req, ctl, used>>

(***************************************************************************)
(* A read or the first push fails, a PUT times out, or the process stops:  *)
(* the call is over, the Controller may go on serving its PUT.             *)
(***************************************************************************)
GiveUp(m) ==
  /\ call[m].pc # "idle"
  /\ Return(m, FALSE)
  /\ req' = IF Free(m) THEN [req EXCEPT ![m] = NoReq] ELSE req
  /\ UNCHANGED <<proj, local, ctl, used>>

-----------------------------------------------------------------------------
(***************************************************************************)
(* PutProjectMeta.  The members are not admins.                            *)
(***************************************************************************)

(***************************************************************************)
(* readProjectWriteContext: the stored version, for the If-Match.          *)
(***************************************************************************)
ResolveCommit(m) ==
  /\ req[m].st = "sent"
  /\ req' = [req EXCEPT ![m].st = "resolved", ![m].stale = ~req[m].live]
  /\ UNCHANGED <<proj, local, call, ctl, used>>

(***************************************************************************)
(* The field authority: a body that lacks the user's source or the paused  *)
(* status is compared with the stored file, in a second read.              *)
(***************************************************************************)
Releases(body, current) ==
  \/ "user" \in current.sources /\ "user" \notin body.sources
  \/ current.status = "paused" /\ body.status # "paused"

GuardCommit(m) ==
  /\ req[m].st = "resolved"
  /\ req' = [req EXCEPT ![m].st = IF ~Releases(req[m].body, proj) THEN "guarded"
                                  ELSE IF req[m].stale THEN "conflict" ELSE "refused"]
  /\ UNCHANGED <<proj, local, call, ctl, used>>

(***************************************************************************)
(* Mutant of PutProjectMeta: the blind copy this endpoint has replaced.    *)
(***************************************************************************)
PutProjectMetaBlind(m) ==
  /\ req[m].st = "guarded"
  /\ proj' = req[m].body
  /\ req' = [StaleReqs EXCEPT ![m].st = "stat"]
  /\ ctl' = StaleCtls
  /\ UNCHANGED <<local, call, used>>

(***************************************************************************)
(* The strict conditional write.                                           *)
(***************************************************************************)
PutProjectMeta(m) ==
  /\ req[m].st = "guarded"
  /\ IF req[m].live
       THEN /\ proj' = req[m].body
            /\ req' = [StaleReqs EXCEPT ![m].st = "stat"]
            /\ ctl' = StaleCtls
       ELSE /\ req' = [req EXCEPT ![m].st = "conflict"]
            /\ UNCHANGED <<proj, ctl>>
  /\ UNCHANGED <<local, call, used>>

(***************************************************************************)
(* StatMeta after the write.                                               *)
(***************************************************************************)
StatMeta(m) ==
  /\ req[m].st = "stat"
  /\ req' = [req EXCEPT ![m] = [NoReq EXCEPT !.st = "done", !.live = TRUE]]
  /\ UNCHANGED <<proj, local, call, ctl, used>>

-----------------------------------------------------------------------------
(***************************************************************************)
(* The lifecycle endpoints.                                                *)
(***************************************************************************)
CtlReturn(r, answer) ==
  ctl' = [ctl EXCEPT ![r] = [IdleCtl EXCEPT !.op = ctl[r].op, !.res = answer]]

(***************************************************************************)
(* Mutant of Refused: CompleteProject overlooks tasks that were not        *)
(* started.                                                                *)
(***************************************************************************)
RefusedLax(op, p) ==
  CASE op = "PauseProject" -> p.status # "active"
    [] op = "ResumeProject" -> p.status # "paused"
    [] op = "CompleteProject" -> p.status = "completed" \/ p.dag = "running"
    [] OTHER -> FALSE

(***************************************************************************)
(* What each endpoint answers with 409.                                    *)
(***************************************************************************)
Refused(op, p) ==
  CASE op = "PauseProject" -> p.status # "active"
    [] op = "ResumeProject" -> p.status # "paused"
    [] op = "ReplanProject" -> \/ p.plan # "dag" \/ p.status # "active"
                               \/ p.dag = "running" \/ (p.loop /\ p.iter = "running")
    [] op = "CompleteProject" -> p.status = "completed" \/ ~Settled(p)
    [] OTHER -> FALSE

(***************************************************************************)
(* What it writes, with the next audit_seq (markAuditFields).              *)
(***************************************************************************)
Apply(op, p) ==
  LET audited == [p EXCEPT !.seq = @ + 1] IN
  CASE op = "PauseProject" -> [audited EXCEPT !.status = "paused"]
    [] op = "ResumeProject" -> [audited EXCEPT !.status = "active"]
    [] op = "ReplanProject" -> [audited EXCEPT !.dag = "planned"]
    [] op = "CompleteProject" -> [audited EXCEPT !.status = "completed"]
    [] OTHER -> p

(***************************************************************************)
(* readProjectWriteContext with its ETag, the checks and the new meta.     *)
(***************************************************************************)
CtlBegin(r, op) ==
  /\ ctl[r].pc = "idle"
  /\ used[r] < MaxCalls[r]
  /\ op \in Controls
  /\ proj.exists
  /\ ctl' = [ctl EXCEPT ![r] =
               IF Refused(op, proj)
                 THEN [IdleCtl EXCEPT !.pc = "audit", !.op = op, !.live = TRUE, !.meta = proj]
                 ELSE [IdleCtl EXCEPT !.pc = "write", !.op = op, !.live = TRUE,
                                      !.meta = Apply(op, proj)]]
  /\ used' = [used EXCEPT ![r] = @ + 1]
  /\ UNCHANGED <<proj, local, call, req>>

PauseProject(r) == CtlBegin(r, "PauseProject")
ResumeProject(r) == CtlBegin(r, "ResumeProject")
ReplanProject(r) == CtlBegin(r, "ReplanProject")
CompleteProject(r) == CtlBegin(r, "CompleteProject")

(***************************************************************************)
(* writeProjectMeta: the strict conditional write, not repeated.           *)
(***************************************************************************)
CtlWrite(r) ==
  /\ ctl[r].pc = "write"
  /\ IF ctl[r].live
       THEN /\ proj' = ctl[r].meta
            /\ req' = StaleReqs
            /\ ctl' = [StaleCtls EXCEPT ![r] = [IdleCtl EXCEPT !.op = ctl[r].op, !.res = "ok"]]
       ELSE CtlReturn(r, "conflict") /\ UNCHANGED <<proj, req>>
  /\ UNCHANGED <<local, call, used>>

(***************************************************************************)
(* persistControlActionAudit: the refused action is recorded in the file,  *)
(* under the ETag of the read.                                             *)
(***************************************************************************)
CtlAudit(r) ==
  /\ ctl[r].pc = "audit"
  /\ IF ctl[r].live
       THEN /\ proj' = ctl[r].meta
            /\ req' = StaleReqs
            /\ ctl' = [StaleCtls EXCEPT ![r] = [IdleCtl EXCEPT !.op = ctl[r].op, !.res = "rejected"]]
       ELSE CtlReturn(r, "rejected") /\ UNCHANGED <<proj, req>>
  /\ UNCHANGED <<local, call, used>>

(***************************************************************************)
(* CreateProject: Stat, then an unconditional PutObject.                   *)
(***************************************************************************)
CreateProject(r) ==
  /\ "CreateProject" \in Controls
  /\ ctl[r].pc = "idle"
  /\ used[r] < MaxCalls[r]
  /\ ctl' = [ctl EXCEPT ![r] = IF proj.exists
                                 THEN [IdleCtl EXCEPT !.op = "CreateProject", !.res = "rejected"]
                                 ELSE [IdleCtl EXCEPT !.op = "CreateProject", !.pc = "create"]]
  /\ used' = [used EXCEPT ![r] = @ + 1]
  /\ UNCHANGED <<proj, local, call, req>>

CreatePut(r) ==
  /\ ctl[r].pc = "create"
  /\ proj' = Fresh
  /\ req' = StaleReqs
  /\ ctl' = [StaleCtls EXCEPT ![r] = [IdleCtl EXCEPT !.op = ctl[r].op, !.res = "ok"]]
  /\ UNCHANGED <<local, call, used>>

-----------------------------------------------------------------------------
(***************************************************************************)
(* PauseLoop and ResumeLoop.  Only an admin may release the user's source. *)
(***************************************************************************)
LoopBegin(r, op, source) ==
  /\ ctl[r].pc = "idle"
  /\ used[r] < MaxCalls[r]
  /\ op \in LoopControls
  /\ ctl' = [ctl EXCEPT ![r] =
               IF op = "ResumeLoop" /\ source = "user" /\ r \notin Admins
                 THEN [IdleCtl EXCEPT !.op = op, !.source = source, !.res = "rejected"]
                 ELSE [IdleCtl EXCEPT !.op = op, !.source = source, !.pc = "stat"]]
  /\ used' = [used EXCEPT ![r] = @ + 1]
  /\ UNCHANGED <<proj, local, call, req>>

(***************************************************************************)
(* The source set and, for the project's source, the legacy flag.          *)
(***************************************************************************)
WithSource(p, op, source) ==
  LET set == op = "PauseLoop" IN
  [p EXCEPT !.sources = IF set THEN @ \cup {source} ELSE @ \ {source},
            !.flag = IF source = "project" THEN set ELSE @]

(***************************************************************************)
(* setProjectPauseSource: the ETag is taken before the body is read, so a  *)
(* write in between makes the conditional write fail.                      *)
(***************************************************************************)
LoopStat(r) ==
  /\ ctl[r].pc = "stat"
  /\ IF proj.exists THEN ctl' = [ctl EXCEPT ![r].pc = "get", ![r].live = TRUE]
     ELSE CtlReturn(r, "ungated")
  /\ UNCHANGED <<proj, local, call, req, used>>

LoopGet(r) ==
  /\ ctl[r].pc = "get"
  /\ IF proj.loop
       THEN ctl' = [ctl EXCEPT ![r].pc = "cas",
                               ![r].meta = WithSource(proj, ctl[r].op, ctl[r].source)]
       ELSE CtlReturn(r, "ungated")
  /\ UNCHANGED <<proj, local, call, req, used>>

(***************************************************************************)
(* Mutant of LoopRead: the body first and the ETag after it.               *)
(***************************************************************************)
LoopReadSwapped(r) ==
  /\ \/ /\ ctl[r].pc = "stat"
        /\ proj.exists /\ proj.loop
        /\ ctl' = [ctl EXCEPT ![r].pc = "get",
                              ![r].meta = WithSource(proj, ctl[r].op, ctl[r].source)]
     \/ /\ ctl[r].pc = "get"
        /\ ctl' = [ctl EXCEPT ![r].pc = "cas", ![r].live = TRUE]
  /\ UNCHANGED <<proj, local, call, req, used>>

LoopRead(r) == LoopStat(r) \/ LoopGet(r)

LoopCas(r) ==
  /\ ctl[r].pc = "cas"
  /\ IF ctl[r].live
       THEN /\ proj' = ctl[r].meta
            /\ req' = StaleReqs
            /\ ctl' = [StaleCtls EXCEPT ![r].pc = "reread"]
       ELSE /\ IF ctl[r].attempt < MaxCas
                 THEN ctl' = [ctl EXCEPT ![r].pc = "stat", ![r].attempt = @ + 1,
                                         ![r].meta = Absent]
                 ELSE CtlReturn(r, "failed")
            /\ UNCHANGED <<proj, req>>
  /\ UNCHANGED <<local, call, used>>

(***************************************************************************)
(* The answer reports the sources that are stored by then.                 *)
(***************************************************************************)
LoopReread(r) ==
  /\ ctl[r].pc = "reread"
  /\ CtlReturn(r, "ok")
  /\ UNCHANGED <<proj, local, call, req, used>>

(***************************************************************************)
(* The Controller stops, or storage fails, in the middle of a request.     *)
(***************************************************************************)
CtlCrash(r) ==
  /\ ctl[r].pc # "idle"
  /\ CtlReturn(r, "failed")
  /\ UNCHANGED <<proj, local, call, req, used>>

-----------------------------------------------------------------------------
MemberNext(m) ==
  \/ ToolCall(m)
  \/ Refresh(m) \/ SyncRead(m) \/ FirstPush(m) \/ Answered(m) \/ PushFailed(m) \/ GiveUp(m)
  \/ ResolveCommit(m) \/ GuardCommit(m) \/ PutProjectMeta(m) \/ StatMeta(m)

RequestNext(r) ==
  \/ PauseProject(r) \/ ResumeProject(r) \/ ReplanProject(r) \/ CompleteProject(r)
  \/ CreateProject(r)
  \/ \E op \in Controls, source \in Sources : LoopBegin(r, op, source)
  \/ CtlWrite(r) \/ CtlAudit(r) \/ CreatePut(r)
  \/ LoopRead(r) \/ LoopCas(r) \/ LoopReread(r) \/ CtlCrash(r)

Next == (\E m \in Members : MemberNext(m)) \/ (\E r \in Requests : RequestNext(r))

Spec == Init /\ [][Next]_vars

-----------------------------------------------------------------------------
(***************************************************************************)
(* The two writers that do not look at what is stored.                     *)
(***************************************************************************)
Creation == (\E m \in Members : FirstPush(m)) \/ (\E r \in Requests : CreatePut(r))

(***************************************************************************)
(* The pause state belongs to the Controller (#1402).  Whatever copy a     *)
(* member works on and however its commit is retried or delayed: a source  *)
(* comes and goes only with PauseLoop and ResumeLoop, the user's source    *)
(* goes only with an admin's request; a commit of a member never changes   *)
(* the status, except pause_project and complete_project, which never      *)
(* release a pause.                                                        *)
(***************************************************************************)
PauseOwned ==
  [][Creation \/
     /\ \A s \in Sources : s \in proj.sources /\ s \notin proj'.sources =>
          \E r \in Requests : /\ LoopCas(r)
                              /\ ctl[r].op = "ResumeLoop" /\ ctl[r].source = s
                              /\ s = "user" => r \in Admins
     /\ \A s \in Sources : s \notin proj.sources /\ s \in proj'.sources =>
          \E r \in Requests : LoopCas(r) /\ ctl[r].op = "PauseLoop" /\ ctl[r].source = s
     /\ proj'.status # proj.status =>
          \/ \E r \in Requests : CtlWrite(r) /\ ctl[r].op \in Lifecycle
          \/ \E m \in Members : /\ PutProjectMeta(m)
                                /\ proj.status # "paused"
                                /\ proj'.status = req[m].authored]_vars

(***************************************************************************)
(* The legacy flag and the source set never drift apart                    *)
(* (setProjectPauseSource), through the merges and the re-plans of the     *)
(* members too.                                                            *)
(***************************************************************************)
FlagMatchesSources == proj.flag <=> "project" \in proj.sources

(***************************************************************************)
(* A control action that can still land was decided on the version it will *)
(* replace: the checks hold and the new file differs from the stored one   *)
(* by the action alone.                                                    *)
(***************************************************************************)
ControlsVetted ==
  \A r \in Requests :
    ctl[r].live =>
      /\ ctl[r].pc = "write" => ~Refused(ctl[r].op, proj) /\ ctl[r].meta = Apply(ctl[r].op, proj)
      /\ ctl[r].pc = "audit" => ctl[r].meta = proj
      /\ ctl[r].pc = "cas" => ctl[r].meta = WithSource(proj, ctl[r].op, ctl[r].source)

(***************************************************************************)
(* A project becomes completed only with a plan whose tasks are all        *)
(* terminal, by whichever side it is completed and whoever re-plans it     *)
(* meanwhile.                                                              *)
(***************************************************************************)
CompletedSettled ==
  [][proj.status # "completed" /\ proj'.status = "completed" => Settled(proj')]_proj

(***************************************************************************)
(* Why these hold: the invariant that Next preserves.  Every copy has a    *)
(* flag that matches its sources and a loop record if its plan is one; a   *)
(* commit that can still land carries the stored pause state; a completion *)
(* under way has a settled copy; a loop request under way is entitled; and *)
(* until the project exists its copies are active.                         *)
(***************************************************************************)
CopyOK(p) ==
  /\ p.flag <=> "project" \in p.sources
  /\ p.plan = "loop" => p.loop

InFlight(m) == req[m].st \in {"sent", "resolved", "guarded"}

KeepsPause(body, authored, current) ==
  /\ body.sources = current.sources
  /\ body.flag = current.flag
  /\ body.status # current.status => current.status # "paused" /\ body.status = authored

CommitsMerged ==
  \A m \in Members : InFlight(m) =>
    /\ req[m].body.exists
    /\ CopyOK(req[m].body)
    /\ req[m].authored = "completed" => Settled(req[m].body)
    /\ req[m].live => KeepsPause(req[m].body, req[m].authored, proj)

CopiesReady ==
  \A m \in Members :
    /\ CopyOK(local[m])
    /\ call[m].pc # "idle" => local[m].exists
    /\ call[m].pc # "idle" /\ call[m].op = "complete_project" => Settled(local[m])
    /\ ~proj.exists \/ call[m].pc = "push" => local[m].status = "active"

RequestsEntitled ==
  \A r \in Requests :
    /\ ctl[r].pc = "write" => ctl[r].op \in Lifecycle
    /\ ctl[r].pc \in {"stat", "get", "cas"} =>
         /\ ctl[r].op \in LoopControls
         /\ ctl[r].source \in Sources
         /\ ctl[r].op = "ResumeLoop" /\ ctl[r].source = "user" => r \in Admins

IndInv ==
  /\ TypeOK
  /\ CopyOK(proj)
  /\ ControlsVetted
  /\ CommitsMerged
  /\ CopiesReady
  /\ RequestsEntitled
=============================================================================
