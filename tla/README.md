# TLA+ verification of the AgentTeams protocols

AgentTeams runs teams of LLM agents. A Go Controller creates the agents'
containers, rooms and credentials and offers an HTTP API to consoles and agents;
the agents coordinate through files in shared object storage and through Matrix
rooms. What makes a team work as one is a handful of protocols that are nowhere
written down as such: who may decide what about a task when several do so at
once, over a store whose only synchronisation primitive is a conditional write;
how a worker follows its desired configuration and its container the resource
that describes it; how a chat message is answered once and from the right
context; how a coding run is started, watched, cancelled and told about; how the
files of a human share one quota. This project models those protocols.

Contents: [inventory](#1-inventory), [modules](#2-the-modules-and-the-code),
[runs](#3-the-runs), [divergences](#4-where-code-and-comments-disagree),
[proofs](#5-the-proofs), [abstractions and bounds](#6-abstractions-bounds-fairness),
[plan and what is not modelled](#7-plan-and-what-is-not-modelled),
[how to run](#8-running-it).

## 1. Inventory

Paths are relative to `src/`. `plugins/agentteams-teamharness/mcp` is a
byte-identical copy of `plugins/teamharness/mcp`, and
`plugins/agentteams-matrix/adapters/qwenpaw` an older copy of
`plugins/agentteams-matrix-channel`; the map names the second of each.

| Component | State it keeps | Operations | Modelled |
|---|---|---|---|
| **TeamHarness taskflow** (`plugins/teamharness/mcp/lifecycle/`, `project/flow.py`) | task `meta.json` (status, cancel reason, continuation, submission, result, questions, approvals, decision history), the task's node in the project's `meta.json` | `ack_task`, `submit_task`, `report_progress`, `cancel_task`, `accept_task_result`; `request_attention`, `review_task`; `delegate_task` | `TaskCommit`, `DecisionGate`, `DelegateTask` |
| **TeamHarness sync** (`artifact/sync.py`) | local copies, ETags | `_pull_project`, `_load_authoritative_task`, `_sync_project`, `_sync_task`, `_commit_task_guarded`: versioned read, merge, conditional PUT, verifying re-read, bounded retries | `TaskCommit`, `ProjectControl`, `DecisionGate`, `DelegateTask` |
| **TeamHarness projectflow** (`project/flow.py`, `project/state.py`) | project `meta.json`: status, plan, loop record with pause sources | `create_project`, `plan_dag`, `plan_loop`, `record_loop_iteration`, `pause_project`, `resume_project`, `complete_project`, `mark_requester_report_sent`, ready sets | `ProjectControl`; the loop's ledger and the ready sets planned |
| **Controller: commit endpoints** (`agentteams-controller/internal/server/task_meta_commit.go`, `project_handler.go`) | the stored objects | `PutTaskMeta`: validation, status lanes, cancellation and decision guards, conditional write; `PutProjectMeta`: pause guard, conditional write | `TaskCommit`, `DecisionGate`, `ProjectControl` |
| **Controller: console writers** (`project_handler.go`, `loop_handler.go`) | the stored objects, audit fields | `CancelTask`, `PauseProject`, `ResumeProject`, `ReplanProject`, `CompleteProject`, `CreateProject`, `PauseLoop`, `ResumeLoop` | `TaskCommit`, `ProjectControl` |
| **CoPaw manager** (`manager/src/agentteams_manager`) | `projects/<id>/` and `tasks/<id>/` at the leader, in storage and at the worker | `create_project`, `plan_dag`, `plan_loop`, pause, resume, complete, `delegate_task`, `ack_task`, `submit_task`, `check_task`, `accept_task_result`, `cancel_task`, mirror | `ManagerTasks` |
| **qwen-code-bridge** (`plugins/qwen-code-bridge/`) | a file and a child process per coding run, open questions, `wake-queue.json` | start, two watchdogs, cancel and its delayed kill, reads that recover a dead run, reaper, sweep on load, questions, wake queue | `CodingDispatch` |
| **Matrix channel of QwenPaw** (`plugins/agentteams-matrix-channel/`) | sync token, room history, send gate, placeholders | long poll, catch-up, callbacks, turns with placeholder and final edit, retrigger, proactive streams | `MatrixChannel` |
| **QwenPaw worker: desired state** (`qwenpaw/src/qwenpaw_worker/update.py`, `api.py`) | current configuration, settings of the QwenPaw process, MCP ownership file, agent package | poll, apply part by part, package swap and roll-back, restart | `RuntimeUpdate` |
| **Worker reconciler and lifecycle endpoints** (`agentteams-controller/internal/controller/`, `server/lifecycle_handler.go`, `appservice_handler.go`, `backend/docker.go`) | the Worker resource, its container | reconcile pass, wake, sleep, restart, ensure-ready, edit, delete, auto-sleep, wake by mention | `WorkerLifecycle` |
| **Human storage** (`server/human_files_handler.go`, `human_quota_ledger.go`, `human_file_lock.go`) | files, recycle bin, leases, quota ledger, upload sessions | PUT, DELETE, restore, purge, quota, presign, commit | `HumanFiles` |
| WorkerFlow (`plugins/workerflow/mcp/server.py`) | a workflow state file per worker | plan, advance, spawn and clean up sub-agents | planned |
| Rooms and notifications of TeamHarness (`room/`, `message_tool.py`, `transport/`), artifacts | Matrix rooms, uploads | notify, publish, mention routing | the announcement of a task in `DelegateTask`, else no (delivery) |
| Reconcilers of teams, humans, managers; other backends | resources | level-triggered reconcile, hot apply | no |
| Other runtimes (`hermes/`, `deepseek-harness/`, `openclaw-base/`, `plugins/agentteams-matrix`) | workspaces | start, mirror files, forward chat | no |
| Clients and services (`internal/service`, `backend`, `gateway`, `matrix`, `oss`), auth, audit, telemetry, CLI, Helm, scripts | external systems | I/O | no |

**How they interact.** A TeamHarness tool call pulls the project and the task, decides
on the local copies, changes them, and commits first the project, then the task. Each
commit is an HTTP PUT to the Controller with the ETag of a versioned read; the
Controller vets the body against what is stored and writes under the same ETag. The
console reaches the same objects through endpoints that run inside the Controller. The
CoPaw manager is the older way to run a team: the same tools over plain file copies, no
conditions. A mention in a room reaches a worker twice: the homeserver pushes it to the
Controller, which wakes a sleeping container (`WorkerLifecycle`), and the worker's own
channel reads it from the sync (`MatrixChannel`). The container runs the worker runtime,
which follows the configuration the Controller projects (`RuntimeUpdate`) and may start
coding runs (`CodingDispatch`) whose end is told to the session that asked. Between the
components of different modules the shared state is one value each (the state of the
container, the projected configuration, the event), so each is the environment of the
other, and no module needs another's internals.

**What is hard.**

* *Stores without locks.* The check and the write of a commit are separate accesses, and
  so are the reads they rely on; a timed-out PUT may be served later; retries commit a
  body decided on an older version; some writers carry no condition; objects that belong
  together are written one after the other.
* *Coroutines of one loop.* In the bridge and the channel every `await` lets the
  watchdog, a cancel, a reader, the reaper, a drain, another event in between.
* *Processes that die.* Workers, leaders, the plugin host, the Controller and containers
  stop between any two writes, and what they remembered is gone.
* *Level-triggered loops and direct calls.* The reconciler and the endpoints move the same
  container, each from its own copy of the resource.
* *Ledgers.* A quota is kept beside the files it counts, by requests that may stop half way.

`PROJECT.json` lists 40 such hazards at their lines.

**What makes the components correct.**

* Task commits: a commit lands only on the version it was vetted against; the
  status follows the lifecycle contract; a reported success stands; a cancellation
  is never undone.
* Decisions: at most one open question of a kind; nothing undoes an approval, a freeze or
  the history; nothing accepted without a human's approval where one is required.
* Project control: the pause state changes only by those who own it; a control
  action lands on the version it was decided on; completion implies a settled plan.
* Manager: a verdict fits the submission it names; a decision is not reversed; nothing is
  delegated before what it depends on has a result.
* Coding runs: no foreign process is signalled, no closed run has a living child, a cancel
  is final, every run is decided; a wake record ends only for the documented reasons.
* Chat: no event behind the saved token is skipped; a reply is not sent over events it
  has not seen; a placeholder is always replaced.
* Desired state and containers: a finished application left what it says; the last
  configuration is reached; the recorded hash is the running container's; the container
  ends up where the resource wants it; a mention is not swallowed.
* Human files: a reservation stays until its writer settles it, a delete removes what the
  recycle bin holds, a signed upload is not forgotten.

## 2. The modules and the code

```
TaskContract <- AtomicCommit            (what a task commit promises)
TaskContract <- TaskCommit <- MCTaskCommit
TaskContract <- DelegateTask <- MCDelegateTask
                TaskCommit, DelegateTask <- TaskCommitProofs
                TaskCommit -- Atomic == INSTANCE AtomicCommit --> refinement
ProjectControl <- MCProjectControl, ProjectControlProofs
DecisionGate, ManagerTasks, CodingDispatch, MatrixChannel,
RuntimeUpdate, WorkerLifecycle, HumanFiles      each <- MC<module>
DecisionGate, ManagerTasks, CodingDispatch, MatrixChannel,
HumanFiles                                      each <- <module>Proofs
WorkerLifecycle, RuntimeUpdate <- WorkerProofs
```

`PROJECT.json` maps every definition to its lines; this section says how to read
the correspondence.

### TaskContract
The lifecycle table (`TRANSITIONS` in Python, `taskStatusTransitions` in Go), the
authority classes of `classifyCommitActor`, the lanes of `checkStatusLane`, the
cancellation part of `PutTaskMeta`'s guard and `_merge_task_cancellation_state`.

### TaskCommit
One delegated task. `task` is its `meta.json`, `node` its entry in the project's
`meta.json`. `call[m]` is the tool call of member `m`: `load` (after
`_pull_project`), `readP`/`waitP` (`_sync_project`), `readT`/`waitT`
(`_sync_task`). `req[m]` is the PUT the Controller serves for `m`, in steps: vet,
conditional write, Stat. `cancel[c]` is a CancelTask request: read project, read
task and check, write node under the ETag, write task *without* one.

| Action | Code |
|---|---|
| `Begin` | a tool call pulls the project |
| `Load` = `LoadAck` \| `LoadSubmit` \| `LoadProgress` \| `LoadCancel` \| `LoadAccept` | `_load_authoritative_task`, then the checks and the local change of each action |
| `SendProject`, `ProjectAnswered` | an attempt of `_sync_project` |
| `SendTask`, `TaskAnswered` | an attempt of `_sync_task`: merge, PUT, verification |
| `PutProjectMeta`; `GuardTaskMeta`, `PutTaskMeta`, `StatMeta` | the two endpoints |
| `CancelBegin`, `CancelLoad`, `CancelAudit`, `CancelNode`, `CancelPut` | `CancelTask` |
| `PushFailed`, `NetworkError`, `Crash`, `CancelCrash` | faults |

`live = TRUE` in a request means that the ETag it holds is the ETag of the stored
object; a write makes all others `FALSE`. That is all an ETag is compared for.

### AtomicCommit
The abstract promise: a commit is one step that replaces the stored meta by a body
which carries over the stored cancellation and passes the Controller's guard, and a
call answers ok with its sync confirmed only if its own body was stored during the call. `TaskCommit`
implements it under the mapping `meta <- task`, `stored <- StoredByCall`,
`answer <- LastAnswer`.

### DelegateTask
How a task gets to its worker, up to the point where `TaskCommit` begins. `stored` is the
task's `meta.json` in shared storage, `spec` whose `spec.md` is there, `plan` the project
(pause, node, its cancellation), `draft` the leader's local copy of the task, `tool` the
call, `put` its PUT at the Controller, `nodePut` its project write, `wire` and `room` the
announcements under way and posted, `stop[c]` a CancelTask request. `last` and `calm` are
history. Numbers made by `minted` are the transaction ids; an event is named by its
transaction.

| Action | Code |
|---|---|
| `Delegate` | `_pull_project`, the first look at the pause |
| `RefuseDelegation`, `ReuseAssignment`, `Prepare` | `_load_authoritative_task_optional` and what follows: refused, the retry of a complete assignment, a preparation with a new or a kept `notifyTxn` |
| `SyncTask`, `SyncAgain`, `SyncDone` | `_sync_task`, for each of its three uses |
| `PutLands`, `PutRejected`, `PutAnswers` | `PutTaskMeta`, `putTaskMetaCreateIfAbsent` |
| `Recheck`, `Announce`, `MarkAssigned` | the second look at the pause, `_send_delegate_notification`, `_transition_task` |
| `SendNode`, `NodeLands`, `NodeDone` | `_update_project_task` |
| `Post`, `Lose` | the homeserver, which posts a transaction once |
| `CallFails`, `Replaced` | every failing exit, a stop of the leader's runtime, the loss of its files |
| `MemberNode`, `MemberTask` | the other tools' commits, one step each (`AtomicCommit`) |
| `PauseProject`, `ResumeProject`; `StopReads`, `StopNode`, `StopTask`, `StopFails` | the console's endpoints; `CancelTask` in its three steps |

A commit that does not come true in time stays in `put` (or `nodePut`) after its call has
ended, and the next call meets it.

### ProjectControl
One project's `meta.json` (`proj`): status, `loop.pause_sources`,
`loop.paused_by_project`, whether there is a loop record, the kind of plan, the
progress of each plan, `audit_seq`. `local[m]` is the copy in a member's workspace;
unlike in `TaskCommit` it survives calls, because `plan_dag`, `plan_loop` and
`mark_requester_report_sent` go on from it when a pull fails. `req[m]` is served in
four steps (the version, the pause guard with its second read, the conditional
write, Stat). `ctl[r]` is a request to a lifecycle or loop endpoint.

| Action | Code |
|---|---|
| `ToolCall` (nine tools), `Refresh` | the branches of `_projectflow`, `_update_project_task` |
| `SyncRead`, `FirstPush`, `Answered`, `PushFailed`, `GiveUp` | `_sync_project` with `_merge_project_pause_state` and `_pause_state_missing` |
| `ResolveCommit`, `GuardCommit`, `PutProjectMeta`, `StatMeta` | `PutProjectMeta` |
| `PauseProject`, `ResumeProject`, `ReplanProject`, `CompleteProject`, `CtlWrite`, `CtlAudit` | the lifecycle endpoints and `persistControlActionAudit` |
| `CreateProject`, `CreatePut` | `CreateProject` |
| `LoopBegin`, `LoopRead` (`LoopStat`, `LoopGet`), `LoopCas`, `LoopReread` | `PauseLoop`, `ResumeLoop`, `setProjectPauseSource` |
| `CtlCrash` | the Controller stops in the middle of a request |

### DecisionGate
The same task under `protocol.enforce`, seen by those who decide. `meta` is the task's
`meta.json`: status, decision status (open, blocked, frozen), the questions of each kind
(resolved, by whom, over which channel, announced), the decision history, the review.
`node` is the task's node in the leader's project. `call[m]` is the tool call of `m`
with its body `t`, the version it holds and its attempts.

| Action | Code |
|---|---|
| `AskAgain`, `AskPending`, `AskNew`, `Notify` | the four ways of `request_attention`: a loop already open, one raised but not announced, a new one, the notification and its record |
| `Resolve` | `request_attention` with a resolution; `StallEscalate`, `ResolvedStatus` are `_attention_stall_escalate`, `_attention_resolved_status` |
| `SubmitTask` | `submit_task` |
| `ReviewTask`, `ReviewPull`, `ReviewBind` | `_review_task_action`: pull with version, verdict, commit bound to that version |
| `AcceptTaskResult` | `_accept_task_result` with `_protocol_guard_for_accept` |
| `SyncRead`, `PutTaskMeta`, `Verify`, `CallFails` | `_sync_task`; `PutTaskMeta` with `Permitted` = `validateW2DecisionAuthority` |

The three modules overlap in the commit endpoints on purpose: `TaskCommit` needs the
fate of status and cancellation, `DecisionGate` that of the decision fields,
`ProjectControl` that of the pause state; no property reads the fields of another module.

### ManagerTasks
The leader's, the storage's and the worker's copies of a project's files (`proj`) and of
each task's `meta.json`, `result.md`, `spec.md` (`dir`). `calls` holds the `delegate_task`
calls that await the notification, the only point at which other calls of the leader run;
`told` the announced tasks, `acking` the worker's call between pull and push. `minted`
and `renewed` are history.

| Action | Code |
|---|---|
| `CreateProject`, `PlanDag`, `PlanLoop`, `PauseProject`, `ResumeProject`, `CompleteProject` | `projectflow` and the store methods of the same names |
| `DelegateAssigned`, `DelegateFresh`, `DelegateRetry`; `NotifyFails`, `NotifyDone` | `taskflow` `delegate_task`: already assigned, first time, again after a failed notification |
| `CheckTask`, `AcceptTaskResult`, `CancelTask` | `check_task`, `accept_task_result`, `cancel_task` with `_commit_task_decision` |
| `AckPull`, `AckPush`, `SubmitNew`, `SubmitAgain`, `SubmitLegacy` | `ack_task`, `submit_task` at the worker, `_adopt_legacy_submission` |
| `LeaderRestart`, `WorkerRestart` | `mirror_all` |

`Mirror` is the copying of a directory file by file: a call that fails half way has
copied any subset.

### CodingDispatch
`file[t]` is `<task_id>.json` (state, pid, cancel flag, terminating, wake status, freshness),
`child[t]` the process and whether its pid belongs to somebody else by now, `clock[t]`
what the clock says of budget and silence. `starter`, `wd`, `esc`, `reap`, `drain` are the
program counters of the coroutines; `quest` the open question; `queue` is
`wake-queue.json`; `heard` records what the origin session was told.

| Action | Code |
|---|---|
| `StartClaim`, `StartWrite`, `StartLock`, `SpawnOk`, `SpawnFail`, `WatchStart` | `start` between its awaits |
| `WatchBudget`, `WatchKeep`, `WatchKill`, `WatchReapFinished`, `WatchExit`, `WatchFinish`, `WatchTell`, `WatchSent` | `_watch` with `decide_liveness`, the final status and the terminal wake |
| `Cancel`, `Escalate` | `request_cancel`, `_cancel_escalate` |
| `Read`, `ReadAll`, `Cleanup` | `get_task`, `list_tasks` (which close runs whose child is gone), `cleanup` |
| `ReaperScan`, `NotifyBegin`, `NotifyTell`, `NotifySent` | `_reaper_loop`, `_notify_external` |
| `DrainStart`, `DrainNext`, `DrainProbe`, `DrainSent`, `AgeRecord` | the drain loop of the wake queue |
| `Ask`, `Answer`, `HoldEnds`, `Resolve` | a run's question: `_handle_event`, `post_dispatch_answer`, `_resolve_interaction` |
| `DenyTool`, `HookDeny` | denials seen in the stream or by the hook, `_note_denial` |
| `SessionTakesFrom...` | the message reaches the session, whatever the sender is told |
| `ChildSpeaks`, `ChildExit`, `ReusePid`, `Spend`, `Silence`, `Quiet` | child, kernel and clock |
| `Crash`, `Restart` | the plugin host stops; load with `orphan_cleanup` |

### MatrixChannel
One group room. `timeline` is what the homeserver ordered, `token` the saved sync token,
`sync` the loop with its response and the `next_batch` the library keeps, `omitted` what
responses left out, `history` and `log` the two buffers of the room,
`queue` and `turn` the turns of the runtime, `gate` the retrigger budget, `cron` a
proactive stream, `posts` the placeholders.

| Action | Code |
|---|---|
| `Start`, `LoginFails`, `CatchUp`, `CatchUpFails` | `start`, the first sync of `_sync_loop` |
| `SyncResponse`, `SyncRevoked`, `Callback`, `CallbackFails`, `SaveSyncToken` | one round of the loop; a response may be limited or taken for a repeated one (`LeftOut`); `Callback` is `_on_room_event` or `_on_room_media_event` on one event |
| `TurnStarts`, `TurnMessage`, `TurnCompletes`, `TurnEnds`, `TurnRequeued`, `TurnFails` | `on_streaming_start`, `on_event_message_completed`, `_on_process_completed` with `_evaluate_send_gate`, `_retrigger_for_new_context`, `_on_consume_error` |
| `StreamMessage`, `StreamCompletes`, `StreamEnds` | `send_event` of a proactive stream |
| `Crash` | the worker stops; memory is lost, the token is not |

### RuntimeUpdate
Its specification is `UpdaterSpec`, with names of its own throughout, so that one proof
module can extend it together with `WorkerLifecycle`.

`want` is the projected configuration with its generation, `mem` what the updater
remembers to have applied, `job` the application in progress, `rt` the settings of the
QwenPaw process, `owned` the MCP ownership file, `ws` and `pkgdir` the disk, `torn` the
parts that an application which raised or crashed left in doubt.

| Action | Code |
|---|---|
| `Desire` | the Controller changes the configuration |
| `SkipPoll`, `Begin` | `apply_once`: nothing changed; what is to be applied, with the deferral of unreadable channels |
| `ApplyModel`, `ApplyMatrix`, `ApplyPolicy` | the API calls, each of which may fail before or after it took effect |
| `PackageNotDue`, `PackageCurrent`, `PackageFetched`, `PackageCleaned`, `PackageCopied`, `CurrentMoved`, `StagingMoved`, `MarkerWritten`, `StaleKept`, `PackageFails` | `AgentPackageManager.apply` and its roll-back |
| `DueClients`, `DeleteClients`, `WriteClients`, `RecordOwned` | `_reconcile_mcp_clients` |
| `ApplyInline`, `Commit` | `_apply_inline_config`, the end of `apply_once` |
| `Restart`, `Crash` | `Worker.start` with a forced application |

### WorkerLifecycle
`cr` is the Worker resource, `box` its container, `rec` the reconcile pass with the copy
it read, `call` the requests, `held` the calls whose copy still is the stored version
(optimistic locking), `ticker` a decision of the auto-sleep controller, `mention` and
`seen` the homeserver's pushes. `lost` is a history variable of named accidents, see
section 4.

| Action | Code |
|---|---|
| `Reconcile`, `ReconcileMember`, `ReconcileMemberContainer` (`DeleteStale`, `KeepRunning`, `StartStopped`, `createMemberContainer`, `ensureMemberContainerAbsent`), `PatchStatus` | `WorkerReconciler.Reconcile`, the deferred status patch at its end |
| `reconcileDelete`, `RemoveFinalizer` | deletion behind the finalizer |
| `GetWorker`, `UpdateState`, `CallStop`, `CallStart`, `WritePhase` | Wake, Sleep, Restart, EnsureReady |
| `UpdateWorker`, `DeleteWorker`, `TeamChanges` | edits of the resource and of teams |
| `shouldSleep`, `setWorkerState` | the auto-sleep controller |
| `SendMention`, `HandleTransactions`, `wakeStandaloneWorker`, `wakeTeamWorker`, `SetRunning`, `SetLastActive`, `MarkSeen` | the appservice handler |
| `ControllerRestarts`, `ContainerDies` | faults |

### HumanFiles
`file` and `trash` are the objects of the area, `lease` the per-path locks, `ledger` the
quota ledger (used bytes, reservations by token, counted size per path), `session` and
`stage` the direct uploads, `call` the requests. An ETag is the MD5 of the bytes, so a
conditional write compares contents.

| Action | Code |
|---|---|
| `PutFile`, `DeleteFile`, `RestoreTrash`, `PurgeTrash`, `PutQuota`, `CommitPresigned` | a request is accepted |
| `Lock`, `LockEntry`, `End`, `Expire` | `acquireHumanPathLock`, `Release`, a lease that runs out |
| `ReadLedger`, `WalkFiles`, `WalkTrash`, `CreateLedger`, `ReserveQuota`, `StatLive`, `SettleQuota`, `SyncQuotaUsage`, `AdjustQuotaLedger` | `reserveQuota`, `commitQuota`, `releaseQuota`, `syncQuotaUsage`, `adjustQuotaLedger`, each a CAS loop on the ledger |
| `StatFile`, `Verify`, `WriteFile` | the write of a PUT or a commit under the verified lease |
| `Snapshot`, `Archive`, `Look`, `RemoveFile`, `Rollback` | DELETE: copy to the trash, check, tombstone, roll back |
| `ReadEntry`, `StatTarget`, `CheckEntry`, `PutBack`, `RestatTarget`, `Overwrite`, `UnlinkEntry`, `Fence`, `DeletePrefix` | restore and purge |
| `PresignUpload`, `Upload`, `RecheckSession`, `Confirm`, `RecordCommit` | a direct upload |
| `StorageError`, `Landed`, `Crash` | an error, a write that took effect although it failed, a Controller that stops |

## 3. The runs

| Run | Question |
|---|---|
| `commit_console` | A worker (two calls), the leader and CancelTask with every tool action, lost answers and crashes: do commits stay atomic and decisions final? |
| `delegate_handoff` | Three calls of `delegate_task` for two workers with every failure, late write and late announcement, a pause, a cancellation and the work itself: is each assignment announced once, and nobody assigned who was not told? |
| `project_control` | A project created twice at once, then pause, resume, replan, complete and two requests on loop sources against a member that uses every tool from fresh and from stale copies: is a pause lost, resurrected or released by somebody who may not, and does the project complete only when settled? |
| `decision_gate` | A worker asks and submits, the leader reviews and accepts, two humans answer, one under the assignee's account: are decisions kept and needed? |
| `manager_tasks` | Leader and worker of the CoPaw manager over two dependent tasks, any file copy and any restart may stop half way: are decisions and order right? |
| `dispatch_runs` | One run through start, watch, cancel, kill, reading, reaping and sweep, with a crash and a reused pid: is the right process killed, and is the run decided? |
| `dispatch_wakes` | The wakes of a run and its denials with busy, failing and late sessions: does a record end only as documented? |
| `matrix_room` | Three events, a proactive stream and the turns of a room with one failure: fresh replies, no placeholder left |
| `matrix_sync` | Every kind of event before and after a first start, with one failure and one crash: nothing skipped, everything handled |
| `runtime_update` | Two changes of the configuration with two faults at any of the steps: is what was applied there, and the last one reached? |
| `worker_lifecycle` | Two changes out of requests, edits, deletion, team change and mention, with one fault: does the container follow the resource? |
| `human_files` | Two requests of all kinds at once with one expiring lease and one fault: ledger, trash and sessions |

*Task commits* (`commit_console`)

* `VettedCommit`: a vetted commit that can still land was vetted against the meta it
  will replace, although check and write are two accesses.
* `SuccessStands`: after a tool has answered ok with its sync confirmed (or CancelTask has
  answered ok), nothing (late PUT, stale retry, crash of somebody else) takes the task back
  behind what was reported. `ack_task` and `report_progress` also answer ok with `synced`
  false; that answer (`"unsynced"`) promises nothing, see section 4.
* `CommitsAreAtomic`: the refinement of `AtomicCommit`; ok with the sync confirmed is
  answered only by a call whose own body was stored.
* `ContractFollowed`: the stored status moves along the contract; the console's
  cancellation is the one exception, see section 4.
* `CancelledForever`: a cancelled task stays cancelled, and members keep its reason.

*Delegation* (`delegate_handoff`)

* `AnnouncedOnce`: one announcement for each assignment in the room, across retries, lost
  answers, late deliveries, stops and a lost local copy.
* `AssignedAnnounced`: the atomicity contract of `delegate_task`. A stored task is assigned
  or worked on only if the event it names is in the room and mentions its worker, and no
  assignment after it was announced.
* `ToldOfPublished`: what is announced is in shared storage at that moment.
* `PauseHonoured`: a pause that is there when the files have been published, and stays,
  holds the announcement back.
* `DelegationInContract`: with stale copies from `delegate_task` and `CancelTask` the task
  still moves along the contract; no work, submission or decision is reset.

*Project control* (`project_control`)

* `PauseOwned`: a source comes and goes only with PauseLoop and ResumeLoop, the
  user's source goes only with an admin's request, and no commit of a member changes
  the status, except `pause_project` and `complete_project`, which never release a
  pause. Excepted are the two creation writes, which do not look at what is stored.
* `ControlsVetted`: a control action that can still land was decided on the version
  it will replace.
* `CompletedSettled`: a project becomes completed only with all tasks terminal.

*Decisions* (`decision_gate`)

* `OneOpenLoop`: at most the last question of a kind is open, so an answer has one
  addressee.
* `DecisionsKept`: no commit drops a question, an approval or an entry of the history,
  the decision status is what the history says, and a freeze ends only with an approval.
* `AcceptedApproved`: a completed node has the approval of a human who is not the
  assignee, although gate and commit are far apart.

*Manager* (`manager_tasks`)

* `VerdictOnSubmission`: a decided meta, wherever a copy is, holds the verdict on a
  submission that was made, with the result that submission had.
* `DecisionStands`: a decision that reached the shared plan stays there and the leader's
  plan agrees with it, across retries, pulls of older files and partial restarts; a decision
  that only the leader's plan has goes in one way, a restart that brings back a shared plan
  without it, after which the task may be decided otherwise (section 4). Both unless the
  task was planned anew.
* `DependencySubmitted`: a task reaches the storage only when each of its dependencies has
  had a result that counts. Tasks an older runtime published (`LegacyTasks`) are not meant
  (`DelegatedHere`).

*Coding runs* (`dispatch_runs`, `dispatch_wakes`)

* `OwnChildOnly`: no signal ever reaches a process that reused the child's pid.
* `NoRunawayChild`: a closed run with a pid has no living child.
* `CancelWins`: a cancelled run ends as cancelled, whatever order kill, exit and cancel have.
* `RunDecided` (liveness): a running run leaves that state.
* `RecordEnds`: a wake record leaves the queue only when it was delivered, is too old or
  ran out of attempts.

*Chat* (`matrix_room`, `matrix_sync`)

* `FreshReply`: a gated reply goes out only when every logged event since its mention was
  in the context it was drafted from.
* `PlaceholdersClose` (liveness): an open placeholder gets its final edit, unless a fault
  took it (`stuck`: its edit or its id was lost, or the worker crashed; `stranded`: the
  error of its turn was written into another placeholder, section 4).
* `NothingSkipped`: an event that was not history at the first start and lies behind the
  saved token was handled, or a response left it out. `EventsHandled` (liveness): every such
  event is, unless a response leaves it out or the login is revoked. Responses leave events
  out when the timeline is limited or the library takes them for repeated ones (section 4):
  these two say that the loop and its token lose nothing beyond that.

*Desired state* (`runtime_update`)

* `ApplyConverges`: when an application gets to its end, each part is what its
  configuration says, except parts that an earlier fault left in doubt (`torn`).
* `DesiredReached` (liveness): again and again the updater holds the configuration wanted,
  with no retry pending, and the process has its channel and access control, a deferred
  channel included. Exempt are a channel or policy in doubt (`torn`), and an application that
  only a retry asked for and that raised before it got through both (`retry` in `torn`,
  section 4).

*Workers* (`worker_lifecycle`)

* `HashHonest`: if the recorded hash is the spec's, a running container was made from it.
* `Converges` (liveness): in the end the container is as the resource says.
* `MentionWakes` (liveness): a queued mention ends with the worker asked to run.

*Human files* (`human_files`)

* `ReservationKept`: a reservation leaves the ledger only in the settling step of its own
  request, and what is charged for its path stays at least its size until then.
* `TrashHoldsDeleted`: the step that removes a file finds it in the trash entry of its own
  request, or that entry was taken out by a restore or purge in the meantime.
* `SessionKept`: a signed upload is forgotten only by its own commit or a newer one for
  the path.

Each module has one type invariant, which also bounds its retry counters, buffers or
extensions. The runs of `TaskCommit`, `CodingDispatch`, `WorkerLifecycle` and `HumanFiles`
check theirs (in `HumanFiles` it says that usage is never negative); those of the other
modules are proved for all constants (section 5) and not repeated in a run.

Each property has a mutant of the code that breaks it, listed in `PROJECT.json`: for
example a blind PUT, ETags that survive a write, a guard without the status lane, the
union merge of pause sources, an ETag taken after the body, a gate that only looks at the
room's buffer, a sync token saved before the callbacks, a channel policy applied only when
it changed, a kill that trusts the pid, a final status that asks for the kill before the
cancel, a delete that ignores its ETag, a settle step that drops the path's other tokens.

## 4. Where code and comments disagree

They were met while modelling. None of them is a run: the properties above state what holds
beside them, and each exception in a property is one of them.

*Task and project commits*

* `ack_task` and `report_progress` answer `ok: True` whatever became of their sync: a 403,
  used-up retries or an unreachable Controller only show as `synced: False` beside it
  (`taskflow.py:743-751`, 1133-1141). `submit_task`, `accept_task_result` and `cancel_task`
  answer `ok: False` then. A worker that looks at `ok` alone takes a task for acknowledged
  that is stored as assigned.
* CancelTask's task write has no If-Match (`project_handler.go:4320`, while
  `task_meta_commit.go:654-656` says terminal states are never left): a task completed
  since its read becomes cancelled, and an approval closed since then is erased.
* A stale node is committed over a committed cancellation by any tool's retry, for the
  reason given under *Delegation*.
* A late submission is replaced, id included, by the retry of the next one
  (`sync.py:170`); the design note calls `submission_id` immutable.
* A member's stale copy brings an old `audit_seq` back (`sync.py:363`), which
  `project_handler.go:87-90` says only grows.
* `complete_project` on a paused project commits paused and notifies all the same
  (`flow.py:1150`, `notify.py:200-204`).
* The first push of a project is unconditional and can overwrite a pause
  (`sync.py:1026`, `sync.py:931-932`).
* A stale commit gets a final 403 instead of a 409 when the guard notices the change
  first; the ETag a commit returns is read after the write; a task cancelled before it had
  a continuation keeps the pending one of a submission in flight; `pause_project` takes a
  completed project back to paused.

*Delegation*

* A re-delegation of an assigned task is refused: the code
  commits a fresh meta with status prepared (`taskflow.py:492-509`, "falling through
  re-prepares the task" at 389), and `checkStatusLane` knows no step from assigned to
  prepared (`task_meta_commit.go:652-667`, 1382). The test of re-delegation
  (`test_delegate_redelegation.py:128`) replaces `_sync_task`. By then `_push_task_files`
  has replaced the `spec.md` of the worker that is assigned.
* A node that CancelTask has cancelled becomes assigned again:
  the node is not looked at after the announcement (`taskflow.py:663`), and the merge in
  `_sync_project` keeps the pause only (`sync.py:1030`), while the design note
  (`project-task-runtime-design.md:453`) says it is not changed back. `TaskMeta` stays
  cancelled.
* A task that is cancelled between the load and the first sync is announced all the same
  and the call answers ok: the sync merges the cancellation and reports success.
* What `_update_project_task` returns is not looked at, and the retry of a complete
  assignment does not repeat it (`taskflow.py:398-442`): the node stays planned.
* An announcement that is delivered late can reach the room after that of a newer
  assignment.

*Decisions*

* The tool schema offers `review_task` to a critic (`tool_schemas.py:505`), the Controller
  counts a critic as a worker and refuses the review.
* `accept_task_result` with an open approval decides the node before the task's commit is
  refused; a stale retry of it overwrites a newer failed review.
* A stale retry of `request_attention` can reopen a resolved record that is no approval;
  two members who raise the same kind at once give their records one identity, and one
  question is lost; a renewed affirmation of a closed approval on a frozen task is refused.

*Manager*

* A retried `delegate_task` publishes the leader's older meta over a submission
  (`tools/taskflow.py:466`, called idempotent at 455-458); the push of a resubmission
  overwrites a terminal meta.
* A crash before `prepare_task` writes the plan leaves a node pending whose task was
  delegated (`taskflow.py:501`); one between the two writes of `create_project` leaves half
  a project; a partly failed mirror leaves a decided meta beside a delegated node.
* A decision whose project push failed is lost when the leader restarts and mirrors the
  older shared plan back (`sync.py:606`): the node is pending or delegated again, and the
  same submission may be decided the other way, while a `meta.json` that was not brought
  back still shows the first decision.
* `plan_loop` over a DAG resets decided nodes; a prepared task is retried while its project
  is paused; delegation ignores the status of the loop.

*Coding runs*

* `_queue_wake` that skips leaves `wake_status` at queued without a record
  (`wake_queue.py:14`); a crash while a wake is pending loses it (`dispatch.py:2839`).
* The claim of a name is checked before an await, so two runs of one name start; a
  `cancelling` run whose child ignores signals, or whose pid was reused, stays so after a
  reload; recovery by a reader can race the watchdog (`dispatch.py:1317`, 1280-1284).
* An answer can be accepted after the question was denied (`router.py:651`);
  `proc.kill()` on a process already gone ends the watchdog with an exception; the drain
  removes by identity and may drop a record replaced meanwhile.

*Chat*

* A sync whose timeline is limited leaves the older events out; the loop does not look at
  `limited` or `prev_batch` and saves the new token (1757-1767), so a mention among them is
  never answered, although the comment at `channel.py:1714` says that messages of the offline
  window are processed normally. `deepseek-harness/scripts/matrix_channel.py:150` fetches
  what was omitted. When a callback raises, the loop asks again with its old `next_batch`,
  but matrix-nio has stored that of the response already and ignores a response that repeats
  it: without a newer event the rest of the response is lost behind the token saved next.
* A retrigger for another event resets the gate's budget (comment at `channel.py:4613`); a
  failed turn strands its placeholder (`channel.py:4835`, docstring 4640-4643 "no orphaned
  placeholder"); a cancel during the final edit replaces a reply already delivered.
* After a failed catch-up, old messages are replayed (comment 1671-1675); a slash command
  clears history no turn was given; a failed login is never tried again; two proactive
  streams at once share one state.

*Desired state*: the parts in `torn`. A client or prompt step that raises after the package
swap is not remembered, so a return to the old package finds it up to date
(`update.py:1504`); a read-back that fails after the write took effect, a crash between the
rename of the package and its marker (`update.py:1097`), one in the middle of a copy, one
between a client's creation and the ownership file do the like. A retry of a deferred channel
that raises is forgotten: the flag is cleared (`update.py:1392`) before the channel and the
policy are applied (1462, 1480), and the next poll finds nothing changed (1355), so the
channel or its access control stays as it was until the configuration changes.
Removing an inline prompt or a package from the configuration leaves its files.

*Workers*: the accidents in `lost`. `asleepSpec`: a spec changed while the worker sleeps is
recorded as applied, and the wake resumes the old container (`member_reconcile.go:670`).
`unrecorded`: the status patch after a creation is lost, and the spec returns to the recorded
hash. `startFailed`: a container created whose start fails is started by no later pass
(`member_reconcile.go:613`). `deleteFailed`: a failed delete is not fatal, the finalizer goes
and the container stays. `mentionSkipped`: `wakeTeamWorker` takes any error of Get for a
missing worker, and the mention is marked as handled.

*Human files*

* A delete whose tombstone write fails but took effect rolls the trash copy back: both
  copies are gone (`human_files_handler.go:1411-1425`), against the comment at 1344-1346 and
  the answer "the file is preserved in the trash". TLC finds it in 14 steps when the
  roll-back is required to leave a copy.
* The ledger may understate the usage (invariant I4, `human_quota_ledger.go:54`): a write
  lands between the walk and the stat of a sync; a restore during the walk of `files/` and
  then `.trash/`; an adjustment after a sync that had already seen the purge; an overwriting
  restore whose trash delete fails, or two of them after a lease ran out; a request begun
  without a quota lands after the quota's reconcile. `putQuota` reconciles the ledger of
  `name`, not of the effective user name (line 2080).
* A commit that stops between the publication and the session's record publishes the old
  staged bytes again on retry, over a newer PUT (comment 2714-2717). A crash between the two
  objects of a trash entry leaves one that can be neither restored nor purged.

## 5. The proofs

The eight modules `...Proofs` are checked by TLAPS to the last leaf. Every safety property
of a passing run, invariant or action property, is a theorem there, and so is the refinement.
The theorems hold for any number of members, requests, events, attempts, calls, tasks and
results, under the assumptions declared in the modules only:

* names are distinct (`NamesAssumption`, `AssigneeAssumption`, `ProjectNames`, `NameAssumption`, `DispatchNames`),
  every result has a decision (`ResultsAssumption`), every member a role (`RoleAssumption`),
  dependencies are tasks (`ManagerGraph`);
* actions, requests and kinds are among those modelled (`OpsAssumption`, `KindAssumption`,
  `ChannelKinds`, `LifecycleAssumption`);
* there is at least one attempt, and limits are numbers in the order the code has them
  (`BoundsAssumption`, `ProjectBounds`, `AttemptAssumption`, `ThresholdAssumption`,
  `ChannelBounds`, `DispatchBounds`, `ManagerBounds`);
* contents have a size, quotas are sizes or absent, and there are finitely many requests and
  paths, so that a usage is a number (`SizeAssumption`, `QuotaAssumption`,
  `FiniteAssumption`);
* every part of a worker's configuration is a value, and a deployed worker has its Matrix
  account in the environment, where `_matrix_channel_desired_state` reads it
  (`UpdateConfigs`).

The bounds on calls, faults, changes, crashes and expiries are numbers and not assumed to be
small, so the theorems cover executions of any length. `PidReuse` may be on or off.

**TaskCommit.** `TypeCorrect`, `VettedCommits`, `SuccessIsFinal`, `FollowsContract`,
`StaysCancelled`, `ImplementsAtomicCommit`, from `Inductive: Spec => []IndInv`.
`SuccessStands` is not inductive by itself: that a late PUT cannot undo a success
needs to know that a request in flight carries the cancellation of the meta it was
read with as long as its ETag is live, that a waiting call waits for its own request,
that a local copy is never behind what its tool will report, and that only a cancelled
task has a cancel reason. Those are the conjuncts of `IndInv`. The refinement uses the
same invariant: `GuardTaskMeta` and `PutTaskMeta` become one `Commit` because
`VettedCommit` holds in between.

**DelegateTask** (in `TaskCommitProofs`). `DelegationTyped`, `OneAnnouncement`,
`AnnouncedBeforeAssigned`, `PublishedBeforeTold`, `PauseKeepsQuiet`,
`DelegationFollowsContract`, from `DelegationInvariant`. `AnnouncedOnce` speaks of the room,
where messages arrive late; the invariant says it of everything announced (`Sent`), and says
what makes it last: an assignment has one transaction (`Numbered`), a call that announces
holds the one recorded last (`InCall`), and a body that may still be committed either begins
another assignment, or repeats the recorded one, or comes before anything was announced
(`Offering`). The third case is the one a stale PUT needs: two calls may prepare the same
assignment twice after the leader has lost its files, but then nobody has been told.
`AssignedAnnounced` has to be said of every copy that may come to be stored (`Vouching`),
the one in a late PUT included. That no newer announcement exists needs that the
transaction recorded last has not been overtaken, which holds because a transaction that
was overtaken is never offered again (`Offer`): the assignee goes back and forth only with a
new one (`BoundedStep`).

**ProjectControl.** `TypeCorrect`, `FlagFollowsSources`, `ControlsAreVetted`,
`PauseIsOwned`, `CompletesSettled`, again from `Inductive`. The argument: whoever
writes takes every other ETag away, so what is said about requests with a live ETag
only has to be established by their own steps (`WriteStep`, `ControlStep`,
`CommitStep`). `PauseOwned` needs that a commit that can still land carries the
stored pause state (`CommitsMerged`) and that a loop request under way is entitled
(`RequestsEntitled`). `CompletedSettled` needs that a completion under way has a
settled copy *and* that the merge keeps it settled, which holds because a copy whose
plan is a loop has a loop record of its own (`CopyOK`), and that a first push always
carries an active project (`CopiesReady`). The lemma `Writers` lists what each
write does; both action properties follow from it. `FlagFollowsSources`, that the legacy
flag equals membership in the source set, is proved only.

**DecisionGate.** `TypeCorrect`, `OneLoop`, `AcceptedHasApproval`, `DecisionsStand`. A body
may be stale when it is committed, so nothing is claimed about how it compares with the
stored task before the Controller looks. The invariant says that every body a tool may
commit is good *by itself* (`GoodBody`): one open record per kind, whoever answered closed
it, the history ends in the decision status. What a stale body may have forgotten is
exactly what the Controller's guard compares (lemmas `Decided`, `MetaSteps`); the
acceptance needs in addition that the leader decides the node only on a task that had the
approval, and that no later commit drops it (`NodeSteps`).

**MatrixChannel.** `TypeCorrect`, `NothingIsSkipped`, `RepliesAreFresh`. `NothingSkipped`
speaks of the saved token and of the events a response brought; inductively it needs the
same of the position in memory (`PassedHandled`) and that a response in progress lies
between that position and the end of the room (`Following`). `FreshReply` needs that a turn, running or queued, has in its
context every retained record between its mention and its snapshot (`TurnsInformed`), which
survives the cut of the log because a cut only forgets (`KeepFacts`).

**HumanFiles.** `NothingLost`, `SessionsStand`, `TypeCorrect`, `ReservationsStand`. `InStep`
says where a request of each kind can be, so that only a delete removes and only a write, a
commit or a restore writes; `HasContent` that these write contents and never a tombstone;
`Archived` that a delete past its archive still has the entry it wrote, unless a restore or a
purge took that entry. The lease does not occur in the invariant: the conditional replace and
the unguessable id of the entry carry the argument, which is why it survives a lease that
runs out. For the ledger, `LedgerOK` says that no reservation is larger than the charge of its
path. That alone makes the maximum over the reservations left on a path exist and stay
within the charge, without an induction over the set; and it is kept by each of the ledger's
own operations, so that it does not matter which requests interleave. `Total`, the sum a
sync writes, is the number of bytes (pairs of a path and a position below its size), because
the provers know cardinalities and no recursive sums.

**CodingDispatch.** `DispatchTypes`, `OnlyOwnChildren`, `NoneRunsAway`, `CancelStands`,
`WakesEnd`, from `DispatchInvariant`. `RunInv` relates the file of a run to its child, its
`start()` call and its watchdog: before the spawn there is neither pid nor child, nobody
closes the file of a run whose child lives, a watchdog past its loop has a dead child, and a
dead child stays dead whoever has its pid. That, with the check of each signaller
(`VerifyKillTarget`), gives `OnlyOwnChildren`. `CancelStands` needs that whoever read the
file before an await writes it back only where the flag cannot have changed. `RecordEnds` is the deepest: the watchdog and the reaper may both report one
outcome, and the drain works on a copy of the queue. `OnceInv` says that while the outcome
of a run is queued or copied one of its two reporters is past it, `AgeInv` that a copy is no
older and no more tried than its record, unless both reporters are past the run and the
record is gone; `LandedInv` that what a sender was told a session took, the session heard.

**ManagerTasks.** `TypeCorrect`, `VerdictsDeserved`, `DependenciesFirst`, `DecisionsStand`,
from `TasksInvariant`. Files are copied one by one, so hardly anything is true of two files
of a directory together. What is true is said of each file alone: every `meta.json`, at any
copy, is *vouched for* by submissions that were made (`Vouched`), and submissions are never
unmade, so copying in any order and any subset keeps it (lemmas `MirrorTask`, `PushDir`,
`PullDir`). Likewise each copy of the plan completes only tasks with a worthy submission,
and the shared plan decides nothing that the leader's plan has not decided, or planned anew
(`SharedStands`): that is why a restart never touches a decision that was shared.

**WorkerLifecycle.** `TypeCorrect`, `HashIsHonest`, from `LifecycleInvariant`. Only a pass
writes the hash and only a pass makes or removes a container (`PassKnows`), although others
stop and start it; hence a container that the pass did not just make is of the recorded spec,
or one of the two accidents that break the record is in `lost` (`BoxKnown`).

**RuntimeUpdate.** `UpdaterTypeCorrect`, `ApplicationsConverge`, from `UpdateInvariant`. One
conjunct per part (`ModelOK`, `ChannelOK`, `PackageOK`, `InlineOK`, `ClientsOK`): what is
remembered and not in doubt is what QwenPaw and the workspace have, and a part that the
application has behind it is remembered as its configuration says. During a package swap
these facts hold of the snapshot, since the roll-back returns there (`SwapOK`). A client that
is present is owned or about to be recorded, which is why the next application deletes it.

**Found by proving.** What the models left implicit and the proofs needed is now explicit:
no denial rule is called `none` (`DispatchNames`), requests and paths are finite
(`FiniteAssumption`), what a configuration contains (`UpdateConfigs`), whether a workspace
snapshot is held, and that `DependencySubmitted` does not speak of tasks which a runtime
without submission ids published.

**Only model-checked.** All liveness (`PROPERTY` with `WF`/`SF`), which is out of the
prover's reach. The configurations bound the fault counts, so what a run shows of liveness is for
finitely many faults.
## 6. Abstractions, bounds, fairness

*Commit modules (TaskCommit, ProjectControl, DecisionGate)*

* Every write of an object is a new version. A real ETag is the MD5 of the content, so
  a byte-identical rewrite keeps it; such a rewrite changes nothing that the properties
  speak about.
* One PUT per member is in the Controller at a time (`Free`): a new request waits for an
  abandoned one. More would need more memory per member and adds no new kind of late
  delivery, since different members already overlap.
* `MaxAttempts` is 2 in TLC (3 in the code): the second attempt is the first with a body
  decided on an older version, and the last. `MaxCas` is 2 (6 in the code).
  The theorems hold for all values.
* `MaxCalls` bounds the calls of a member and the deliveries of a request; two calls
  let a member meet its own abandoned PUT.

*TaskCommit*

* The behaviour starts with a task that `delegate_task` has assigned (`DelegateTask`).
* A result stands for its `result_digest`; `Outcome` is `_accepted_node_status`.
* `Begin` assumes that the call names the project, so the pull happens. What a call
  leaves in the local files is not read again: every call pulls first.
* The local pre-check of `ack_task` is covered by the authoritative one after the pull.
* `PutProjectMeta` here omits the pause guard (modelled in `ProjectControl`), the guard
  of `PutTaskMeta` the decision fields (modelled in `DecisionGate`).
* That every call returns is not a run of its own: the retries are bounded by the
  attempt counter, which `TypeOK` checks and the proof covers.

*DelegateTask*

* One task and one leader, whose calls come one after the other, since `server.py` serves
  one request of its input at a time. The leader's `cancel_task` is left out;
  `CancelTask` of the console stands for a cancellation.
* Three calls reach every order of two workers (there, and back); one pause and one
  CancelTask can come between any two steps. `CancelTask` reads project and task in one step.
* An abandoned PUT is served before the next sync sends its own, one node write likewise;
  sync attempts are not counted, and may end at any time in `CallFails`.
* The membership check and failing pulls only end the call (`CallFails`). The call names
  its assignee and runs with Matrix configured.
* The homeserver knows a transaction id for ever. Real ones may forget it; an announcement
  repeated after that would be a second one.
* The worker acts only on a task that is assigned: before that `ack_task` and
  `submit_task` refuse or its files are missing. The symmetry of the workers is sound, no
  property being a liveness property.

*ProjectControl*

* The task nodes of a plan are abstracted to planned / running / settled per kind of
  plan: what the endpoints' checks tell apart.
* `loop.status`, the iteration ledger and the control-action ledger are left out; an
  audit write is a write of the file.
* Members are not admins (an admin's PUT skips the pause guard). `Admins` are the
  requests made by an admin.
* Two spellings of a source or a status are one value; the endpoints canonicalise them.
* An action whose pull fails and which then refuses does nothing; `Refresh` stands for
  reads and for actions that refuse after the pull.
* One run has every tool and every control at once, so that a creation, a pause and a stale
  copy can meet. The member makes two calls, each request acts once: that two foreign writes
  exhaust the attempts of one `setProjectPauseSource` is left to the theorems.

*DecisionGate*

* `protocol.enforce` is on, the task is of risk r1 and is not cancelled. A record is
  identified by its position, a history entry by the call that wrote it.
* Guard and conditional write are one step; that they may be apart is what `TaskCommit`
  checks and proves. The node is the leader's copy.
* The stall thresholds are 1 and 2 attempts (2 and 3 in the code), so that both are reached
  with two questions; five calls, two at a time: each exception in section 4 appears with
  that many. An instance with a second asker (4.2 million states) also passed.

*ManagerTasks*

* A tool call is one step except where it awaits the notification, since nothing else of
  the leader runs in between and its local files are private; a mirror copies any subset of
  the files when it fails. Two tasks in a chain, or the same two submitted before submission
  ids existed; two faults let a restart meet a half-published decision; two controls let a
  plan be replaced and a project be paused and resumed. That an unshared decision is lost
  and made otherwise happens with the two older submissions, which need no new id.
* Not modelled: `record_loop_iteration`, `add_tasks`, cancel reasons, who calls.

*CodingDispatch*

* Timing assumptions: a spawn takes less than the budget; the polling watchdog decides
  within a minute of the budget and notices an exit before the file stops being fresh; the
  console polls the task list; the host is loaded again after a crash.
* One run, since runs meet only in the claim of a name; one attempt of a wake is enough to
  reach the last one; one extension reaches the cap of `decide_liveness`; one crash.
* The parser of the stream, the approval policy and chats are left out.

*MatrixChannel*

* A response with at most `TimelineLimit` events is complete, a longer one may be cut
  anywhere and brings its newest ones; `omitted` records what was cut. `matrix_sync` cuts at
  one event; `matrix_room`, whose questions are the gate and the placeholders, has no
  response that is cut. That the library ignores a repeated response and goes on from its own
  `next_batch` when it is given none is modelled from matrix-nio, external, as a choice.
* The sync library gives each response's events to the callbacks, one by one, and the next
  response only then. Left out: invites, encryption, typing, media, the fallback for long
  texts, the rendering of mentions.
* The history buffer holds one record, so three events overflow it; one retrigger, one
  stream and one fault reach every way a placeholder is handed over. `matrix_sync` uses all
  seven kinds of event with two events, one of which may precede the first start.

*RuntimeUpdate*

* Parts that follow the same pattern as another one stand for it: sub-agent models as the
  model, DingTalk as Matrix, managed skills and the team prompt as the inline prompt, MCP
  clients of a package as those of the configuration. The member identity and the runtime
  reconciliation before the first part, and what they write, are left out.
* Two changes let the configuration go back; two faults let a repair fail as well.

*WorkerLifecycle*

* One worker on the Docker backend. Reads of the API server are fresh; retry-on-conflict
  loops are atomic; merge patches write field by field. A pass joins the infrastructure
  steps with the status query. `status.phase` is not kept, token refresh and re-creation
  under the same name are left out.
* Two changes and one fault: a pair of actors beside the reconciler and the ticker.

*HumanFiles*

* The two objects of a trash entry are written and removed together, each area is walked
  at once, a session is signed at once; CAS retries are not counted. Reads, the change
  feed, the migration of the old ledger and authorisation are left out; `name` is the
  effective user name.
* One path (paths meet only in the ledger's sum), contents of one and two bytes, a quota of
  three or none: one file fits, two do not. Start states with every content (6.4 million
  states) also passed.

`CHECK_DEADLOCK FALSE` everywhere but in `runtime_update`: when all calls, changes and
faults of the bounds are used up and all have returned, the system properly rests; nobody
has to start another call.

*Fairness.* Only steps that the code's own scheduling takes are fair, never a request, a
fault or an event. `CodingDispatch`: each coroutine of the event loop that is ready runs
(start, watchdog, the delayed kill, reaper, drain, the hold of a question), the console
reads (its polling), the clock goes on, the host is loaded again. `MatrixChannel`:
the sync loop, the turn and the stream, coroutines likewise. `RuntimeUpdate`: the updater's
thread polls for ever and the container's restart policy brings a worker back.
`WorkerLifecycle`: the reconciler requeues, a request and a mention being served are
handlers that run to their end, the ticker finishes what it decided. The child of a run is
not fair: it may run, talk and stay silent for ever.

## 7. Plan and what is not modelled

Done: the modules above. Left, in this order:

1. **LoopLedger**: `record_loop_iteration` with its idempotency key, budgets and
   plateau stop, under retries.
2. **TaskGraph**: `_validate_task_graph` and `validateTaskGraph` against a reference
   definition of acyclicity and against each other, `_ready_nodes` and `_ready_loop_nodes`
   against theirs, over all small graphs.
3. **Workflow** of WorkerFlow; the approval policy of qwen-code-bridge.
4. The reconcilers of teams, humans and managers, the Kubernetes backend and a switch of
   backends (a lost patch there can leave two containers); liveness of the wake queue.

**Not modelled**, and why: the clients of external services, HTTP CRUD, authentication and
rendering hold most of the repository's lines and no protocol state of their own; runtimes
other than QwenPaw forward chat; two directories are copies of code that is mapped once.
Telemetry, CLI, install scripts, Helm charts and images do not take part at run time.
`PROJECT.json` gives the reason per component.

## 8. Running it

```
cd tla
tlc -workers 2 -config TaskCommit_console.cfg MCTaskCommit
tlc -workers 2 -config HumanFiles_area.cfg MCHumanFiles
tlapm TaskCommitProofs.tla
tlapm ProjectControlProofs.tla          # and the other modules *Proofs
```

Every run ends within about two minutes on two workers; the largest has four million
states (`delegate_handoff`). The proofs take one to five minutes
each from nothing.
