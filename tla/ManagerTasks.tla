---------------------------- MODULE ManagerTasks ----------------------------
(***************************************************************************)
(* The task store of the CoPaw team leader and its workers: task.py and    *)
(* the tools taskflow.py and projectflow.py of agentteams_manager.         *)
(*                                                                         *)
(* The leader, the worker and the shared storage each have a copy of       *)
(* tasks/<id>/ (meta.json, result.md, spec.md); the leader and the storage *)
(* one of projects/<id>/ (meta.json, plan.md).  A tool call reads and      *)
(* writes local files one at a time and copies them with mc, file by file; *)
(* a call that fails half way leaves the files it reached.  Only the await *)
(* of a notification lets other calls of the leader run in between, so a   *)
(* call is one step up to there: what it does locally is invisible to the  *)
(* others before the copy.                                                 *)
(***************************************************************************)
EXTENDS Integers, FiniteSets

CONSTANTS
    Tasks,           \* the task ids of one project
    Deps,            \* depends_on of each task
    ResultStatuses,  \* the RESULT_STATUSES a worker reports
    LegacyTasks,     \* tasks submitted by a runtime without submission ids
    MaxSubmissions,  \* submission ids minted
    MaxFaults,       \* calls and restarts that fail half way
    MaxControls,     \* planning, pause, resume and complete calls
    MaxCalls         \* delegate_task calls of a task in flight

ASSUME ManagerGraph ==
    /\ Deps \in [Tasks -> SUBSET Tasks]
    /\ LegacyTasks \subseteq Tasks
    /\ ResultStatuses \subseteq {"SUCCESS", "SUCCESS_WITH_NOTES", "REVISION_NEEDED",
                                 "BLOCKED", "INTERRUPTED"}

ASSUME ManagerBounds ==
    /\ MaxSubmissions \in Nat /\ MaxFaults \in Nat
    /\ MaxControls \in Nat /\ MaxCalls \in Nat

VARIABLES
    proj,    \* projects/<id>/ at the leader and in the shared storage
    dir,     \* tasks/<id>/ at the leader, in the shared storage, at the worker
    calls,   \* delegate_task calls that await their notification
    told,    \* tasks whose assignment reached the room
    acking,  \* the task of an ack_task call between its pull and its push
    minted,  \* every submission made: task, id, result
    renewed, \* tasks planned anew after their decision
    spent    \* faults and control calls so far

vars == <<proj, dir, calls, told, acking, minted, renewed, spent>>

-----------------------------------------------------------------------------
(* Values *)

TERMINAL_TASK_STATUSES == {"completed", "revision", "blocked", "cancelled"}
NodeStatuses == {"absent", "pending", "delegated"} \cup TERMINAL_TASK_STATUSES
EFFECTIVE_RESULT_STATUSES == {"SUCCESS", "SUCCESS_WITH_NOTES"}

\* A task whose submission predates submission ids has id 0 and no digest; an
\* adopted one has an id derived from its result, so a retry derives it again.
LegacyId ==
    [r \in ResultStatuses |-> CASE r = "SUCCESS" -> -1
                                [] r = "SUCCESS_WITH_NOTES" -> -2
                                [] r = "REVISION_NEEDED" -> -3
                                [] r = "BLOCKED" -> -4
                                [] OTHER -> -5]

TaskMeta ==
    [st : {"none", "prepared", "assigned", "in_progress", "submitted"}
             \cup TERMINAL_TASK_STATUSES,
     sid : (0..MaxSubmissions) \cup {LegacyId[r] : r \in ResultStatuses},
     digest : ResultStatuses \cup {"none"}]

NoMeta == [st |-> "none", sid |-> 0, digest |-> "none"]
NoTask == [meta |-> NoMeta, result |-> "none", spec |-> "none"]
TaskFiles == {"meta", "result", "spec"}

NoPlan == [type |-> "none", nodes |-> [t \in Tasks |-> "absent"]]
NoProject == [meta |-> "none", plan |-> NoPlan]
ProjectFiles == {"meta", "plan"}

\* mc mirror --overwrite, cut off after the files S: what the source has
\* replaces what the target has, and nothing is deleted.
Mirror(from, to, none, S) ==
    [f \in DOMAIN to |-> IF f \in S /\ from[f] # none[f] THEN from[f] ELSE to[f]]

\* A call that does not get to its end is a fault.
Finished(done) ==
    IF done THEN spent' = spent
    ELSE spent.faults < MaxFaults /\ spent' = [spent EXCEPT !.faults = @ + 1]

Controlled ==
    spent.controls < MaxControls /\ spent' = [spent EXCEPT !.controls = @ + 1]

Plan == proj.leader.plan
Meta(t) == dir.leader[t].meta

\* push_shared_path of a task directory, after the leader wrote it.
LeaderPush(t, files, S) ==
    dir' = [dir EXCEPT !.leader[t] = files,
                       !.remote[t] = Mirror(files, dir.remote[t], NoTask, S)]

-----------------------------------------------------------------------------
(* The project and its plan, at the leader *)

\* create_project: meta.json, then plan.md.
CreateProject ==
    /\ proj.leader.meta = "none"
    /\ \E done \in BOOLEAN :
          /\ Finished(done)
          /\ proj' = [proj EXCEPT !.leader =
                        [meta |-> "active",
                         plan |-> IF done THEN [NoPlan EXCEPT !.type = "dag"] ELSE NoPlan]]
    /\ UNCHANGED <<dir, calls, told, acking, minted, renewed>>

\* validate_dag: a graph names no unknown dependency (Deps has no cycle).
ValidGraph(N) == \A t \in N : Deps[t] \subseteq N

\* What becomes of the nodes when the leader plans N: a known node keeps its
\* status.
Replan(N, known) ==
    [t \in Tasks |-> IF t \notin N THEN "absent"
                     ELSE IF t \in known THEN Plan.nodes[t] ELSE "pending"]

PlanWith(type, N, known) ==
    /\ Plan # NoPlan /\ ValidGraph(N)
    /\ Controlled
    /\ proj' = [proj EXCEPT !.leader.plan = [type |-> type, nodes |-> Replan(N, known)]]
    /\ renewed' = renewed \cup {t \in Tasks : /\ Plan.nodes[t] \in TERMINAL_TASK_STATUSES
                                             /\ Replan(N, known)[t] # Plan.nodes[t]}
    /\ UNCHANGED <<dir, calls, told, acking, minted>>

\* plan_dag looks every node up in the whole text of the plan ...
PlanDag(N) == PlanWith("dag", N, {t \in Tasks : Plan.nodes[t] # "absent"})

\* ... and plan_loop in the current iteration only, which a DAG does not have.
PlanLoop(N) ==
    PlanWith("loop", N, {t \in Tasks : Plan.type = "loop" /\ Plan.nodes[t] # "absent"})

SetProject(status) ==
    /\ proj.leader.meta # "none"
    /\ Controlled
    /\ proj' = [proj EXCEPT !.leader.meta = status]
    /\ UNCHANGED <<dir, calls, told, acking, minted, renewed>>

PauseProject == SetProject("paused")
ResumeProject == SetProject("active")

\* complete_project: no node of the plan is left to schedule.
CompleteProject ==
    /\ Plan # NoPlan
    /\ \A t \in Tasks : Plan.nodes[t] \in {"absent"} \cup TERMINAL_TASK_STATUSES
    /\ SetProject("completed")

-----------------------------------------------------------------------------
(* delegate_task *)

DelegableEarly(t) ==
    /\ proj.leader.meta \notin {"none", "paused"}
    /\ Plan.nodes[t] = "pending"
    /\ \A d \in Deps[t] : Plan.nodes[d] \in TERMINAL_TASK_STATUSES

\* validate_delegate_task.
Delegable(t) ==
    /\ proj.leader.meta \notin {"none", "paused"}
    /\ Plan.nodes[t] = "pending"
    /\ \A d \in Deps[t] : Plan.nodes[d] = "completed"

\* An assigned task is only published again.
DelegateAssigned(t) ==
    /\ Meta(t).st = "assigned"
    /\ \E S \in SUBSET TaskFiles :
          /\ Finished(S = TaskFiles)
          /\ LeaderPush(t, dir.leader[t], S)
    /\ UNCHANGED <<proj, calls, told, acking, minted, renewed>>

\* prepare_task writes meta.json, spec.md and the plan, in this order: the
\* task directory after k of the three.
Prepared(files, k) ==
    [files EXCEPT !.meta = IF k > 0 THEN [NoMeta EXCEPT !.st = "prepared"] ELSE @,
                  !.spec = IF k > 1 THEN "spec" ELSE @]

\* A pending task is prepared and published, and the notification awaited.
DelegateFresh(t) ==
    /\ Meta(t).st = "none" /\ Delegable(t) /\ calls[t] < MaxCalls
    /\ \E k \in 0..3, S \in SUBSET TaskFiles :
          LET done == k = 3 /\ S = TaskFiles
          IN /\ k < 3 => S = {}
             /\ Finished(done)
             /\ LeaderPush(t, Prepared(dir.leader[t], k), S)
             /\ proj' = IF k = 3 THEN [proj EXCEPT !.leader.plan.nodes[t] = "delegated"]
                        ELSE proj
             /\ calls' = [calls EXCEPT ![t] = IF done THEN @ + 1 ELSE @]
    /\ UNCHANGED <<told, acking, minted, renewed>>

\* The retry of a task that has a meta.json, whatever the plan says of it.
DelegateRetry(t) ==
    /\ Meta(t).st \notin {"none", "assigned"} /\ calls[t] < MaxCalls
    /\ \E S \in SUBSET TaskFiles :
          /\ Finished(S = TaskFiles)
          /\ LeaderPush(t, dir.leader[t], S)
          /\ calls' = [calls EXCEPT ![t] = IF S = TaskFiles THEN @ + 1 ELSE @]
    /\ UNCHANGED <<proj, told, acking, minted, renewed>>

\* _notify_task_assignment fails: the worker is not in the room, the send
\* fails, or the answer of a send that worked is lost.
NotifyFails(t) ==
    /\ calls[t] > 0
    /\ calls' = [calls EXCEPT ![t] = @ - 1]
    /\ told' \in {told, told \cup {t}}
    /\ UNCHANGED <<proj, dir, acking, minted, spent, renewed>>

\* commit_task_assignment takes a prepared or an assigned task.
Committable == {"prepared", "assigned"}
Assigned(files) == [files EXCEPT !.meta.st = "assigned"]

\* The message is in the room (the transaction id keeps it single); the task
\* is marked assigned and published again.
NotifyDone(t) ==
    /\ calls[t] > 0
    /\ calls' = [calls EXCEPT ![t] = @ - 1]
    /\ told' = told \cup {t}
    /\ IF Meta(t).st \in Committable
       THEN \E S \in SUBSET TaskFiles :
               /\ Finished(S = TaskFiles)
               /\ LeaderPush(t, Assigned(dir.leader[t]), S)
       ELSE UNCHANGED <<dir, spent>>
    /\ UNCHANGED <<proj, acking, minted, renewed>>

-----------------------------------------------------------------------------
(* The worker *)

\* ack_task pulls the task first.
AckPull(t) ==
    /\ t \in told /\ acking = {}
    /\ \E S \in SUBSET TaskFiles :
          /\ Finished(S = TaskFiles)
          /\ dir' = [dir EXCEPT !.worker[t] = Mirror(dir.remote[t], @, NoTask, S)]
          /\ acking' = IF S = TaskFiles THEN acking \cup {t} ELSE acking
    /\ UNCHANGED <<proj, calls, told, minted, renewed>>

AckableStatuses == {"assigned", "in_progress"}

\* An assigned task with a spec is acknowledged and pushed without its spec.
AckPush(t) ==
    /\ t \in acking
    /\ acking' = acking \ {t}
    /\ IF dir.worker[t].spec # "none" /\ dir.worker[t].meta.st \in AckableStatuses
       THEN \E S \in SUBSET (TaskFiles \ {"spec"}) :
               LET files == [dir.worker[t] EXCEPT !.meta.st = "in_progress"]
               IN /\ Finished(S = TaskFiles \ {"spec"})
                  /\ dir' = [dir EXCEPT !.worker[t] = files,
                                        !.remote[t] = Mirror(files, @, NoTask, S)]
       ELSE UNCHANGED <<dir, spent>>
    /\ UNCHANGED <<proj, calls, told, minted, renewed>>

\* submit_task publishes result.md before meta.json: after k of the two.
Publish(t, files, k) ==
    dir' = [dir EXCEPT !.worker[t] = files,
                       !.remote[t] = Mirror(files, @, NoTask,
                                            IF k = 0 THEN {} ELSE IF k = 1 THEN {"result"}
                                            ELSE {"result", "meta"})]

NextId == Cardinality({m \in minted : m.sid > 0}) + 1

\* A first submission writes result.md, mints an id and writes meta.json:
\* after w of the two writes and k of the two uploads.
SubmitNew(t, r) ==
    LET old == dir.worker[t]
        result == IF r = "none" THEN old.result ELSE r
        new == [meta |-> [st |-> "submitted", sid |-> NextId, digest |-> result],
                result |-> result, spec |-> old.spec]
    IN /\ old.meta.st \in {"assigned", "in_progress"}
       /\ result # "none" /\ NextId <= MaxSubmissions
       /\ \E w \in 0..2, k \in 0..2 :
             /\ w < 2 => k = 0
             /\ Finished(k = 2)
             /\ Publish(t, IF w = 2 THEN new
                           ELSE IF w = 1 THEN [old EXCEPT !.result = result] ELSE old, k)
             /\ minted' = IF w = 2
                          THEN minted \cup {[task |-> t, sid |-> NextId, result |-> result]}
                          ELSE minted
       /\ UNCHANGED <<proj, calls, told, acking, renewed>>

\* A retry of a submitted task: the result on disk and the one of the call
\* must have the digest of the submission; a missing file is written again.
SubmitAgain(t, r) ==
    LET old == dir.worker[t]
    IN /\ old.meta.st = "submitted" /\ old.meta.sid # 0
       /\ old.result \in {"none", old.meta.digest}
       /\ r \in {"none", old.meta.digest}
       /\ {old.result, r} # {"none"}
       /\ \E k \in 0..2 :
             /\ Finished(k = 2)
             /\ Publish(t, [old EXCEPT !.result = old.meta.digest], k)
       /\ UNCHANGED <<proj, calls, told, acking, minted, renewed>>

\* _adopt_legacy_submission: the result of the call is the one on disk.
SubmitLegacy(t, r) ==
    LET old == dir.worker[t]
        meta == [st |-> "submitted", sid |-> LegacyId[r], digest |-> r]
    IN /\ old.meta.st = "submitted" /\ old.meta.sid = 0
       /\ r # "none" /\ r = old.result
       /\ \E k \in 0..2 :
             /\ Finished(k = 2)
             /\ Publish(t, [old EXCEPT !.meta = meta], k)
       /\ minted' = minted \cup {[task |-> t, sid |-> LegacyId[r], result |-> r]}
       /\ UNCHANGED <<proj, calls, told, acking, renewed>>

-----------------------------------------------------------------------------
(* The leader's decision *)

\* check_task pulls the task directory.
CheckTask(t) ==
    /\ \E S \in SUBSET TaskFiles :
          /\ Finished(S = TaskFiles)
          /\ dir' = [dir EXCEPT !.leader[t] = Mirror(dir.remote[t], @, NoTask, S)]
    /\ UNCHANGED <<proj, calls, told, acking, minted, renewed>>

\* What accept_task_result makes of a result.
Verdict(r, accepted) ==
    CASE r \in EFFECTIVE_RESULT_STATUSES -> IF accepted THEN "completed" ELSE "revision"
      [] r = "REVISION_NEEDED" -> "revision"
      [] OTHER -> "blocked"

\* _validated_submission_identity and, for a verdict on the result,
\* _validated_submitted_task.
Identified(t, sid) ==
    /\ Plan.nodes[t] # "absent"
    /\ Meta(t).st \in {"submitted"} \cup TERMINAL_TASK_STATUSES
    /\ sid # 0 /\ sid = Meta(t).sid

ResultExists(t) == dir.leader[t].result # "none"

ResultIsSubmitted(t) ==
    Meta(t).digest # "none" /\ dir.leader[t].result = Meta(t).digest

UndisputedMeta(t, status) ==
    Meta(t).st \in TERMINAL_TASK_STATUSES => Meta(t).st = status

\* _commit_task_decision refuses what contradicts a terminal meta.json or a
\* terminal node of the plan.
Undisputed(t, status) ==
    /\ Meta(t).st \in TERMINAL_TASK_STATUSES => Meta(t).st = status
    /\ /\ Meta(t).st \notin TERMINAL_TASK_STATUSES
       /\ Plan.nodes[t] \in TERMINAL_TASK_STATUSES
       => Plan.nodes[t] = status

\* The plan is written before meta.json: both after w of the two writes.  A
\* task already decided is not written again.
Decided(t) == Meta(t).st \in TERMINAL_TASK_STATUSES

DecidedProject(t, status, w) ==
    [proj.leader EXCEPT !.plan.nodes[t] = IF w > 0 /\ ~Decided(t) THEN status ELSE @]

DecidedTask(t, status, w) ==
    [dir.leader[t] EXCEPT !.meta.st = IF w = 2 THEN status ELSE @]

\* Then the project is published, then the task without its spec.
Commit(t, status) ==
    \E w \in 0..2, P \in SUBSET ProjectFiles, S \in SUBSET (TaskFiles \ {"spec"}) :
       LET here == DecidedProject(t, status, w)
       IN /\ w < 2 => P = {} /\ S = {} /\ ~Decided(t)
          /\ P # ProjectFiles => S = {}
          /\ Finished(P = ProjectFiles /\ S = TaskFiles \ {"spec"})
          /\ proj' = [leader |-> here,
                      remote |-> Mirror(here, proj.remote, NoProject, P)]
          /\ LeaderPush(t, DecidedTask(t, status, w), S)
          /\ UNCHANGED <<calls, told, acking, minted, renewed>>

AcceptTaskResult(t, sid, accepted) ==
    /\ Identified(t, sid) /\ ResultIsSubmitted(t)
    /\ LET status == Verdict(dir.leader[t].result, accepted)
       IN Undisputed(t, status) /\ Commit(t, status)

CancelTask(t, sid) ==
    /\ Identified(t, sid) /\ Undisputed(t, "cancelled")
    /\ Commit(t, "cancelled")

-----------------------------------------------------------------------------
(* Restarts: mirror_all brings shared/ back, and a failure is not fatal *)

LeaderRestart ==
    /\ \E S \in SUBSET TaskFiles, P \in SUBSET ProjectFiles :
          /\ Finished(S = TaskFiles /\ P = ProjectFiles)
          /\ proj' = [proj EXCEPT !.leader = Mirror(proj.remote, @, NoProject, P)]
          /\ dir' = [dir EXCEPT !.leader =
                       [t \in Tasks |-> Mirror(dir.remote[t], @[t], NoTask, S)]]
    /\ calls' = [t \in Tasks |-> 0]
    /\ UNCHANGED <<told, acking, minted, renewed>>

WorkerRestart ==
    /\ \E S \in SUBSET TaskFiles :
          /\ Finished(S = TaskFiles)
          /\ dir' = [dir EXCEPT !.worker =
                       [t \in Tasks |-> Mirror(dir.remote[t], @[t], NoTask, S)]]
    /\ acking' = {}
    /\ UNCHANGED <<proj, calls, told, minted, renewed>>

-----------------------------------------------------------------------------
(* The specification *)

\* Nothing exists yet, or a project with submissions of an older runtime that
\* is not planned any more.
LegacyDir(r) == [t \in Tasks |->
    IF t \in LegacyTasks
    THEN [meta |-> [NoMeta EXCEPT !.st = "submitted"], result |-> r, spec |-> "spec"]
    ELSE NoTask]

LegacyProject ==
    [meta |-> "active",
     plan |-> [type |-> "dag",
               nodes |-> [t \in Tasks |-> IF t \in LegacyTasks THEN "delegated" ELSE "absent"]]]

Init ==
    /\ \/ /\ proj = [leader |-> NoProject, remote |-> NoProject]
          /\ dir = [c \in {"leader", "remote", "worker"} |-> [t \in Tasks |-> NoTask]]
          /\ told = {}
          /\ spent = [faults |-> 0, controls |-> 0]
       \/ \E r \in ResultStatuses :
          /\ LegacyTasks # {}
          /\ proj = [leader |-> LegacyProject, remote |-> NoProject]
          /\ dir = [c \in {"leader", "remote", "worker"} |-> LegacyDir(r)]
          /\ told = LegacyTasks
          /\ spent = [faults |-> 0, controls |-> MaxControls]
    /\ calls = [t \in Tasks |-> 0]
    /\ acking = {}
    /\ minted = {}
    /\ renewed = {}

SubmissionIds == {m.sid : m \in minted}

LeaderStep ==
    \/ CreateProject \/ PauseProject \/ ResumeProject \/ CompleteProject
    \/ \E N \in SUBSET Tasks : PlanDag(N) \/ PlanLoop(N)
    \/ \E t \in Tasks :
          \/ DelegateAssigned(t) \/ DelegateFresh(t) \/ DelegateRetry(t)
          \/ NotifyFails(t) \/ NotifyDone(t) \/ CheckTask(t)
          \/ \E sid \in SubmissionIds :
                \/ CancelTask(t, sid)
                \/ \E accepted \in BOOLEAN : AcceptTaskResult(t, sid, accepted)
    \/ LeaderRestart

WorkerStep ==
    \/ \E t \in Tasks :
          \/ AckPull(t) \/ AckPush(t)
          \/ acking = {} /\ \E r \in ResultStatuses \cup {"none"} :
                            SubmitNew(t, r) \/ SubmitAgain(t, r) \/ SubmitLegacy(t, r)
    \/ WorkerRestart

Next == LeaderStep \/ WorkerStep

Spec == Init /\ [][Next]_vars

-----------------------------------------------------------------------------
(* Properties *)

TypeOK ==
    /\ proj \in [{"leader", "remote"} ->
                   [meta : {"none", "active", "paused", "completed"},
                    plan : [type : {"none", "dag", "loop"},
                            nodes : [Tasks -> NodeStatuses]]]]
    /\ dir \in [{"leader", "remote", "worker"} ->
                  [Tasks -> [meta : TaskMeta, result : ResultStatuses \cup {"none"},
                             spec : {"none", "spec"}]]]
    /\ calls \in [Tasks -> 0..MaxCalls]
    /\ told \subseteq Tasks /\ acking \subseteq Tasks /\ renewed \subseteq Tasks
    /\ spent \in [faults : 0..MaxFaults, controls : 0..MaxControls]

\* A verdict on a result is one the submission it names deserves, at every
\* copy, although meta.json and result.md travel one by one and fail one by
\* one (the digest of _validated_submitted_task).
VerdictOnSubmission ==
    \A c \in DOMAIN dir, t \in Tasks :
       LET m == dir[c][t].meta
       IN m.st \in TERMINAL_TASK_STATUSES \ {"cancelled"} =>
             \E s \in minted : /\ s.task = t /\ s.sid = m.sid
                               /\ \E a \in BOOLEAN : m.st = Verdict(s.result, a)

\* A decision that reached the shared plan stands, and the leader's plan agrees
\* with it: through retries of half-done commits, an older meta.json pulled over
\* a decided one and restarts that bring some of the files back.  A decision
\* that only the leader's plan has is lost in one way, a restart that brings
\* the shared plan back, which does not have it; the task may then be decided
\* otherwise.  Planning a task anew ends what is said of it.
DecisionStands ==
    [][\A t \in Tasks \ renewed' :
          LET shared == proj.remote.plan.nodes[t]
              own == proj.leader.plan.nodes[t]
          IN /\ shared \in TERMINAL_TASK_STATUSES =>
                   proj'.remote.plan.nodes[t] = shared /\ proj'.leader.plan.nodes[t] = shared
             /\ own \in TERMINAL_TASK_STATUSES /\ proj'.leader.plan.nodes[t] # own =>
                   LeaderRestart /\ shared \notin TERMINAL_TASK_STATUSES]_vars

\* What delegate_task made of a task, and not an older runtime.
DelegatedHere(m) == m.st \in {"prepared", "assigned", "in_progress"} \/ m.sid > 0

\* A task is published only after a worker submitted a result worth accepting
\* for each task it depends on; a restart that brings an older plan back, a
\* half-done decision or a pull does not change that.  (What an older runtime
\* published is not this system's doing.)
DependencySubmitted ==
    \A t \in Tasks : \A d \in Deps[t] :
       DelegatedHere(dir.remote[t].meta) =>
          \E s \in minted : s.task = d /\ s.result \in EFFECTIVE_RESULT_STATUSES
=============================================================================
