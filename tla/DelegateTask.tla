---------------------------- MODULE DelegateTask ----------------------------
(***************************************************************************)
(* delegate_task of TeamHarness: the leader hands one task to a worker.    *)
(*                                                                         *)
(* A call prepares the task's meta.json and spec.md, publishes them,       *)
(* looks once more whether the project is paused, announces the task in    *)
(* its Matrix room, and only then commits the status assigned with the     *)
(* event of the announcement.  Each step may fail, its answer may be lost  *)
(* and come true later, the runtime may stop between two steps, and the    *)
(* leader may call again, for the same worker or for another one.  What    *)
(* holds the attempts together is notifyTxn, the transaction id of the     *)
(* announcement, which is written down before anything is sent.            *)
(*                                                                         *)
(* The commits of the members are one step each here: TaskCommit shows     *)
(* that they look like that (AtomicCommit).                                *)
(***************************************************************************)
EXTENDS TaskContract

CONSTANTS
  MaxDelegations,  \* bound: calls of delegate_task
  MaxPauses,       \* bound: pauses of the project
  MaxStops         \* bound: deliveries of each CancelTask request

ASSUME AssigneeAssumption == NoOne \notin Workers

VARIABLES
  stored,   \* the task's meta.json in shared storage
  spec,     \* the transaction of the attempt whose spec.md is in shared storage
  plan,     \* the project's meta.json: its pause and the task's node
  draft,    \* the leader's local copy of the task's meta.json
  tool,     \* the delegate_task call in progress
  put,      \* the PUT of the task's meta.json the Controller serves
  nodePut,  \* the commit of the node as assigned that is under way with a live ETag
            \* (its cancellation, if any), or empty
  wire,     \* announcements on their way to the homeserver
  room,     \* announcements in the task's room
  minted,   \* transaction ids made so far
  stop,     \* stop[c]: the CancelTask request c
  last,     \* history: the assignment committed last, and its number
  calm,     \* history: at some moment since the publication nothing was paused
  spent     \* calls, pauses and CancelTask requests so far

delegationVars ==
  <<stored, spec, plan, draft, tool, put, nodePut, wire, room, minted, stop, last, calm, spent>>

(***************************************************************************)
(* A meta.json: status and cancellation as in TaskContract, the assignee,  *)
(* notifyTxn and eventId.  An event is named by its transaction, 0 is      *)
(* none.  Blank is the file that does not exist.                           *)
(***************************************************************************)
Assignees == Workers \cup {NoOne}
Files == [status : Status \cup {"absent"}, reason : Reasons, cont : {"none", "pending"} \cup Terminal,
          to : Assignees, txn : Nat, event : Nat]
Blank == [status |-> "absent", reason |-> NoOne, cont |-> "none",
          to |-> NoOne, txn |-> 0, event |-> 0]

Messages == [txn : Nat, to : Assignees, attempt : Nat]

Steps == {"idle", "load", "sync", "wait", "recheck", "send", "sending", "node"}
Syncs == {"none", "reuse", "publish", "assign"}
Tools == [pc : Steps, sync : Syncs, to : Assignees, txn : Nat, node : Status, reason : Reasons]
IdleTool == [pc |-> "idle", sync |-> "none", to |-> NoOne, txn |-> 0,
             node |-> "planned", reason |-> NoOne]

Puts == [st : {"none", "sent", "stat", "ok", "conflict", "refused"}, live : BOOLEAN, body : Files]
NoPut == [st |-> "none", live |-> FALSE, body |-> Blank]

Stops == [pc : {"idle", "node", "task"}, live : BOOLEAN, body : Files]
IdleStop == [pc |-> "idle", live |-> FALSE, body |-> Blank]

DelegationTypeOK ==
  /\ stored \in Files
  /\ spec \in Nat
  /\ plan \in [paused : BOOLEAN, node : Status, reason : Reasons]
  /\ draft \in Files
  /\ tool \in Tools
  /\ put \in Puts
  /\ nodePut \subseteq Reasons
  /\ wire \subseteq Messages
  /\ room \subseteq Messages
  /\ minted \in Nat
  /\ stop \in [Cancels -> Stops]
  /\ last \in [to : Assignees, txn : Nat, attempt : Nat]
  /\ calm \in BOOLEAN
  /\ spent \in [{"calls", "pauses"} \cup Cancels -> Nat]

(***************************************************************************)
(* The task has been planned and nobody has been asked yet.                *)
(***************************************************************************)
DelegationInit ==
  /\ stored = Blank
  /\ spec = 0
  /\ plan = [paused |-> FALSE, node |-> "planned", reason |-> NoOne]
  /\ draft = Blank
  /\ tool = IdleTool
  /\ put = NoPut
  /\ nodePut = {}
  /\ wire = {}
  /\ room = {}
  /\ minted = 0
  /\ stop = [c \in Cancels |-> IdleStop]
  /\ last = [to |-> NoOne, txn |-> 0, attempt |-> 0]
  /\ calm = FALSE
  /\ spent = [x \in {"calls", "pauses"} \cup Cancels |-> 0]

-----------------------------------------------------------------------------
(***************************************************************************)
(* Writes to the two objects make the ETags that others hold stale.        *)
(***************************************************************************)
WriteTask(file) == stored' = file /\ put' = [put EXCEPT !.live = FALSE]

WritePlan(project) ==
  /\ plan' = project
  /\ nodePut' = {}
  /\ stop' = [c \in Cancels |-> [stop[c] EXCEPT !.live = FALSE]]

-----------------------------------------------------------------------------
(***************************************************************************)
(* A call starts: _pull_project, and the first look at the pause.  (A call *)
(* on a paused project returns without having changed anything.)           *)
(***************************************************************************)
Delegate(w) ==
  /\ tool.pc = "idle"
  /\ spent["calls"] < MaxDelegations
  /\ ~plan.paused
  /\ tool' = [IdleTool EXCEPT !.pc = "load", !.to = w, !.node = plan.node]
  /\ spent' = [spent EXCEPT !["calls"] = @ + 1]
  /\ UNCHANGED <<stored, spec, plan, draft, put, nodePut, wire, room, minted, stop, last, calm>>

(***************************************************************************)
(* _load_authoritative_task_optional: the pulled task; when shared storage *)
(* has none, what an earlier attempt left in the local directory.          *)
(***************************************************************************)
Known == IF stored.status = "absent" THEN draft ELSE stored

(***************************************************************************)
(* An assignee other than the recorded one is no retry.                    *)
(***************************************************************************)
Redelegate == Known.to # tool.to

Assigned == Known.status = "assigned" /\ Known.event # 0 /\ ~Redelegate

(***************************************************************************)
(* _require_task_mutable, and a task that is being worked on or has been   *)
(* submitted is not prepared again.                                        *)
(***************************************************************************)
Refused ==
  \/ tool.node \in Terminal
  \/ Known.status \in Terminal
  \/ ~Assigned /\ Known.status \in {"in_progress", "submitted"}

RefuseDelegation ==
  /\ tool.pc = "load"
  /\ Refused
  /\ draft' = Known
  /\ tool' = IdleTool
  /\ UNCHANGED <<stored, spec, plan, put, nodePut, wire, room, minted, stop, last, calm, spent>>

(***************************************************************************)
(* The retry of a complete assignment: nothing is sent, but the state must *)
(* still reach shared storage.                                             *)
(***************************************************************************)
ReuseAssignment ==
  /\ tool.pc = "load"
  /\ ~Refused
  /\ Assigned
  /\ draft' = Known
  /\ tool' = [tool EXCEPT !.pc = "sync", !.sync = "reuse", !.node = "planned"]
  /\ UNCHANGED <<stored, spec, plan, put, nodePut, wire, room, minted, stop, last, calm, spent>>

(***************************************************************************)
(* Mutant of KeepTxn: every send gets an id of its own.                    *)
(***************************************************************************)
KeepTxnNever == FALSE

(***************************************************************************)
(* A retry of the same attempt keeps the transaction id.                   *)
(***************************************************************************)
KeepTxn == ~Redelegate /\ Known.txn # 0

(***************************************************************************)
(* The new meta.json: nothing of the old one but its history is kept.      *)
(***************************************************************************)
Prepared(w, txn) == [Blank EXCEPT !.status = "prepared", !.to = w, !.txn = txn]

(***************************************************************************)
(* After the membership check: spec.md and meta.json are written.          *)
(***************************************************************************)
Prepare ==
  /\ tool.pc = "load"
  /\ ~Refused
  /\ ~Assigned
  /\ \E txn \in {IF KeepTxn THEN Known.txn ELSE minted + 1} :
       /\ draft' = Prepared(tool.to, txn)
       /\ tool' = [tool EXCEPT !.pc = "sync", !.sync = "publish", !.txn = txn, !.node = "planned"]
  /\ minted' = IF KeepTxn THEN minted ELSE minted + 1
  /\ UNCHANGED <<stored, spec, plan, put, nodePut, wire, room, stop, last, calm, spent>>

-----------------------------------------------------------------------------
(***************************************************************************)
(* An attempt of _sync_task: the versioned read, the merge of the          *)
(* cancellation, the push of the other files, then the PUT with If-Match,  *)
(* or with If-None-Match when there is nothing yet.  It waits until the    *)
(* Controller has served an abandoned PUT (bound: one at a time).          *)
(***************************************************************************)
SyncTask ==
  /\ tool.pc = "sync"
  /\ put.st # "sent"
  /\ \E merged \in {IF stored.status = "absent" THEN draft ELSE Merge(draft, stored)} :
       /\ draft' = merged
       /\ put' = [st |-> "sent", live |-> TRUE, body |-> merged]
  /\ spec' = IF tool.sync = "reuse" THEN spec ELSE tool.txn
  /\ tool' = [tool EXCEPT !.pc = "wait"]
  /\ UNCHANGED <<stored, plan, nodePut, wire, room, minted, stop, last, calm, spent>>

(***************************************************************************)
(* PutTaskMeta for a leader, or putTaskMetaCreateIfAbsent.                 *)
(***************************************************************************)
Accepts == stored.status # "absent" => Guard("decider", stored, put.body)

PutLands ==
  /\ put.st = "sent"
  /\ put.live
  /\ Accepts
  /\ stored' = put.body
  /\ put' = [put EXCEPT !.st = "stat", !.live = FALSE]
  /\ last' = [to |-> put.body.to, txn |-> put.body.txn,
              attempt |-> IF put.body.to = last.to THEN last.attempt ELSE last.attempt + 1]
  /\ UNCHANGED <<spec, plan, draft, tool, nodePut, wire, room, minted, stop, calm, spent>>

(***************************************************************************)
(* 403 from the guard, 409 from the conditional write.  With a stale ETag  *)
(* it depends on which of the two notices first.                           *)
(***************************************************************************)
PutRejected ==
  /\ put.st = "sent"
  /\ \/ /\ ~put.live
        /\ put' = [put EXCEPT !.st = "conflict"]
     \/ /\ ~put.live \/ ~Accepts
        /\ put' = [put EXCEPT !.st = "refused", !.live = FALSE]
  /\ UNCHANGED <<stored, spec, plan, draft, tool, nodePut, wire, room, minted, stop, last, calm,
                 spent>>

(***************************************************************************)
(* StatMeta after the write answers the ETag of what is stored then.       *)
(***************************************************************************)
PutAnswers ==
  /\ put.st = "stat"
  /\ put' = [put EXCEPT !.st = "ok", !.live = TRUE]
  /\ UNCHANGED <<stored, spec, plan, draft, tool, nodePut, wire, room, minted, stop, last, calm,
                 spent>>

(***************************************************************************)
(* The re-read after the commit: the cancellation that was merged in is    *)
(* there, or else the ETag is still the one of the commit.                 *)
(***************************************************************************)
Confirmed ==
  /\ put.st = "ok"
  /\ IF draft.status = "cancelled"
       THEN /\ stored.status = "cancelled"
            /\ draft.reason # NoOne => stored.reason = draft.reason
            /\ draft.cont # "none" => stored.cont = draft.cont
       ELSE put.live

(***************************************************************************)
(* A conflict, or a commit that is no longer there: the next attempt.  How *)
(* many there may be is left to CallFails.                                 *)
(***************************************************************************)
SyncAgain ==
  /\ tool.pc = "wait"
  /\ \/ put.st = "conflict"
     \/ put.st = "ok" /\ ~Confirmed
  /\ put' = NoPut
  /\ tool' = [tool EXCEPT !.pc = "sync"]
  /\ UNCHANGED <<stored, spec, plan, draft, nodePut, wire, room, minted, stop, last, calm, spent>>

(***************************************************************************)
(* Mutant of Synced: the result of the first _sync_task is not looked at.  *)
(***************************************************************************)
SyncedOrRefused == put.st = "refused" \/ Confirmed

(***************************************************************************)
(* _sync_task returns True.                                                *)
(***************************************************************************)
Synced == Confirmed

SyncDone ==
  /\ tool.pc = "wait"
  /\ Synced
  /\ tool' = IF tool.sync = "publish" THEN [tool EXCEPT !.pc = "recheck"] ELSE IdleTool
  /\ calm' = IF tool.sync = "publish" THEN ~plan.paused ELSE calm
  /\ put' = NoPut
  /\ UNCHANGED <<stored, spec, plan, draft, nodePut, wire, room, minted, stop, last, spent>>

-----------------------------------------------------------------------------
(***************************************************************************)
(* Mutant of Clear: the project is not pulled again before the send.       *)
(***************************************************************************)
ClearBefore == TRUE

(***************************************************************************)
(* The second _pull_project and _loop_pause_state; whether the task has    *)
(* been cancelled is not looked at again.                                  *)
(***************************************************************************)
Clear == ~plan.paused

Recheck ==
  /\ tool.pc = "recheck"
  /\ tool' = IF Clear THEN [tool EXCEPT !.pc = "send", !.reason = plan.reason] ELSE IdleTool
  /\ UNCHANGED <<stored, spec, plan, draft, put, nodePut, wire, room, minted, stop, last, calm,
                 spent>>

(***************************************************************************)
(* _send_delegate_notification puts the announcement on the wire, under    *)
(* the transaction id of the attempt.                                      *)
(***************************************************************************)
Announce ==
  /\ tool.pc = "send"
  /\ wire' = wire \cup {[txn |-> tool.txn, to |-> tool.to, attempt |-> last.attempt]}
  /\ tool' = [tool EXCEPT !.pc = "sending"]
  /\ UNCHANGED <<stored, spec, plan, draft, put, nodePut, room, minted, stop, last, calm, spent>>

(***************************************************************************)
(* The homeserver posts a message unless it knows its transaction id.      *)
(***************************************************************************)
Post(m) ==
  /\ wire' = wire \ {m}
  /\ room' = IF \E e \in room : e.txn = m.txn THEN room ELSE room \cup {m}
  /\ UNCHANGED <<stored, spec, plan, draft, tool, put, nodePut, minted, stop, last, calm, spent>>

Lose(m) ==
  /\ wire' = wire \ {m}
  /\ UNCHANGED <<stored, spec, plan, draft, tool, put, nodePut, room, minted, stop, last, calm,
                 spent>>

(***************************************************************************)
(* Mutant of Delivered: whatever came of the send, the task is assigned.   *)
(***************************************************************************)
DeliveredOrNot == TRUE

(***************************************************************************)
(* The homeserver answers with the event of the transaction.               *)
(***************************************************************************)
Delivered == \E e \in room : e.txn = tool.txn

(***************************************************************************)
(* _transition_task, on the copy in memory: assigned, with the event.      *)
(***************************************************************************)
MarkAssigned ==
  /\ tool.pc = "sending"
  /\ Delivered
  /\ draft' = [Prepared(tool.to, tool.txn) EXCEPT !.status = "assigned", !.event = tool.txn]
  /\ tool' = [tool EXCEPT !.pc = "node"]
  /\ UNCHANGED <<stored, spec, plan, put, nodePut, wire, room, minted, stop, last, calm, spent>>

(***************************************************************************)
(* _update_project_task.  Its _sync_project writes the pause as it is      *)
(* stored, and the node as it was pulled before the send, now assigned;    *)
(* whether it succeeded is not looked at, and it may come true later.      *)
(***************************************************************************)
SendNode ==
  /\ tool.pc = "node"
  /\ nodePut = {}
  /\ nodePut' = {tool.reason}
  /\ UNCHANGED <<stored, spec, plan, draft, tool, put, wire, room, minted, stop, last, calm, spent>>

NodeLands ==
  /\ \E reason \in nodePut : WritePlan([plan EXCEPT !.node = "assigned", !.reason = reason])
  /\ UNCHANGED <<stored, spec, draft, tool, put, wire, room, minted, last, calm, spent>>

NodeDone ==
  /\ tool.pc = "node"
  /\ tool' = [tool EXCEPT !.pc = "sync", !.sync = "assign"]
  /\ UNCHANGED <<stored, spec, plan, draft, put, nodePut, wire, room, minted, stop, last, calm,
                 spent>>

(***************************************************************************)
(* The PUT of a call that has ended: the Controller may have it still.     *)
(***************************************************************************)
Abandoned == {NoPut} \cup IF put.st = "sent" THEN {put} ELSE {}

(***************************************************************************)
(* The call ends early: a pull, the membership check, a push, the PUT or   *)
(* the send fails or is not answered in time, the attempts of a sync are   *)
(* used up, the Controller has refused, or the leader's runtime stops.     *)
(* What is under way stays under way.                                      *)
(***************************************************************************)
CallFails ==
  /\ tool.pc # "idle"
  /\ tool' = IdleTool
  /\ put' \in Abandoned
  /\ UNCHANGED <<stored, spec, plan, draft, nodePut, wire, room, minted, stop, last, calm, spent>>

(***************************************************************************)
(* The leader's container is made anew: the local copy is gone as well.    *)
(***************************************************************************)
Replaced ==
  /\ draft # Blank
  /\ draft' = Blank
  /\ tool' = IdleTool
  /\ put' \in Abandoned
  /\ UNCHANGED <<stored, spec, plan, nodePut, wire, room, minted, stop, last, calm, spent>>

-----------------------------------------------------------------------------
(***************************************************************************)
(* The others.  Once a task is assigned, its worker and the decisions on   *)
(* its submission move it along the contract, the node first.              *)
(***************************************************************************)
Working == stored.status \in {"assigned", "in_progress", "submitted"}

MemberNode(s) ==
  /\ Working
  /\ plan.node \notin Terminal
  /\ s \in Transitions[stored.status] \ {"cancelled"}
  /\ WritePlan([plan EXCEPT !.node = s])
  /\ UNCHANGED <<stored, spec, draft, tool, put, wire, room, minted, last, calm, spent>>

Continuation(s) ==
  CASE s = "submitted" -> "pending"
    [] s \in Decision /\ stored.cont # "none" -> s
    [] OTHER -> stored.cont

MemberTask(s) ==
  /\ Working
  /\ s \in Transitions[stored.status] \ {"cancelled"}
  /\ WriteTask([stored EXCEPT !.status = s, !.cont = Continuation(s)])
  /\ UNCHANGED <<spec, plan, draft, tool, nodePut, wire, room, minted, stop, last, calm, spent>>

(***************************************************************************)
(* The Controller's pause and resume.                                      *)
(***************************************************************************)
PauseProject ==
  /\ ~plan.paused
  /\ spent["pauses"] < MaxPauses
  /\ spent' = [spent EXCEPT !["pauses"] = @ + 1]
  /\ WritePlan([plan EXCEPT !.paused = TRUE])
  /\ UNCHANGED <<stored, spec, draft, tool, put, wire, room, minted, last, calm>>

ResumeProject ==
  /\ plan.paused
  /\ WritePlan([plan EXCEPT !.paused = FALSE])
  /\ calm' = TRUE
  /\ UNCHANGED <<stored, spec, draft, tool, put, wire, room, minted, last, spent>>

(***************************************************************************)
(* CancelTask: project and task are read and checked ...                   *)
(***************************************************************************)
StopReads(c) ==
  /\ stop[c].pc = "idle"
  /\ spent[c] < MaxStops
  /\ plan.node \notin Terminal \ {"cancelled"}
  /\ stored.status \notin {"absent"} \cup (Terminal \ {"cancelled"})
  /\ stored.cont \notin Terminal \ {"cancelled"}
  /\ plan.reason \in {NoOne, c}
  /\ stored.status = "cancelled" => stored.reason = c /\ plan.node # "cancelled"
  /\ spent' = [spent EXCEPT ![c] = @ + 1]
  /\ stop' = [stop EXCEPT ![c] =
       [pc |-> IF plan.node = "cancelled" THEN "task" ELSE "node",
        live |-> TRUE,
        body |-> [stored EXCEPT !.status = "cancelled", !.reason = c,
                                !.cont = IF @ = "none" THEN @ ELSE "cancelled"]]]
  /\ UNCHANGED <<stored, spec, plan, draft, tool, put, nodePut, wire, room, minted, last, calm>>

(***************************************************************************)
(* ... the node is written under the project's ETag ...                    *)
(***************************************************************************)
StopNode(c) ==
  /\ stop[c].pc = "node"
  /\ stop[c].live
  /\ plan' = [plan EXCEPT !.node = "cancelled", !.reason = c]
  /\ nodePut' = {}
  /\ stop' = [d \in Cancels |-> [stop[d] EXCEPT !.live = FALSE, !.pc = IF d = c THEN "task" ELSE @]]
  /\ UNCHANGED <<stored, spec, draft, tool, put, wire, room, minted, last, calm, spent>>

(***************************************************************************)
(* ... and the task without a condition.                                   *)
(***************************************************************************)
StopTask(c) ==
  /\ stop[c].pc = "task"
  /\ WriteTask(stop[c].body)
  /\ stop' = [stop EXCEPT ![c] = IdleStop]
  /\ UNCHANGED <<spec, plan, draft, tool, nodePut, wire, room, minted, last, calm, spent>>

(***************************************************************************)
(* A conflict, a failing store or a restart of the Controller.             *)
(***************************************************************************)
StopFails(c) ==
  /\ stop[c].pc # "idle"
  /\ stop' = [stop EXCEPT ![c] = IdleStop]
  /\ UNCHANGED <<stored, spec, plan, draft, tool, put, nodePut, wire, room, minted, last, calm,
                 spent>>

-----------------------------------------------------------------------------
DelegationNext ==
  \/ \E w \in Workers : Delegate(w)
  \/ RefuseDelegation \/ ReuseAssignment \/ Prepare
  \/ SyncTask \/ SyncAgain \/ SyncDone
  \/ PutLands \/ PutRejected \/ PutAnswers
  \/ Recheck \/ Announce \/ MarkAssigned
  \/ \E m \in wire : Post(m) \/ Lose(m)
  \/ SendNode \/ NodeLands \/ NodeDone
  \/ CallFails \/ Replaced
  \/ \E s \in Status : MemberNode(s) \/ MemberTask(s)
  \/ PauseProject \/ ResumeProject
  \/ \E c \in Cancels : StopReads(c) \/ StopNode(c) \/ StopTask(c) \/ StopFails(c)

DelegationSpec == DelegationInit /\ [][DelegationNext]_delegationVars

-----------------------------------------------------------------------------
(***************************************************************************)
(* One announcement for each assignment, across retries, lost answers,     *)
(* late deliveries, stops and a lost local copy.  A new assignment begins  *)
(* when the leader commits another assignee than before.                   *)
(***************************************************************************)
AnnouncedOnce == \A m1, m2 \in room : m1.attempt = m2.attempt => m1 = m2

(***************************************************************************)
(* delegate_task's atomicity contract: the stored task is never assigned,  *)
(* nor worked on, unless the event it names is in the room and mentions    *)
(* the worker it names; and nobody has been told of the task since, not    *)
(* even when it went from one worker to another and back.                  *)
(***************************************************************************)
AssignedAnnounced ==
  stored.status \notin {"absent", "prepared", "cancelled"} =>
    \E m \in room :
      /\ m.txn = stored.event /\ m.to = stored.to
      /\ \A e \in room : e.attempt <= m.attempt

(***************************************************************************)
(* A worker is never pointed to files that were not published: whenever an *)
(* announcement is sent, spec.md and meta.json of its attempt are in       *)
(* shared storage (or CancelTask has written over the latter).             *)
(***************************************************************************)
ToldOfPublished ==
  [][\A m \in wire' \ wire :
       /\ spec = m.txn
       /\ stored.status # "cancelled" => stored.txn = m.txn /\ stored.to = m.to]_delegationVars

(***************************************************************************)
(* A pause that is there when the files have been published, and stays,    *)
(* keeps the task from being announced, however long the call has looked   *)
(* at the project before.                                                  *)
(***************************************************************************)
PauseHonoured == [][\A m \in wire' \ wire : calm]_delegationVars

(***************************************************************************)
(* However stale the copies are that delegate_task and CancelTask write,   *)
(* the task moves along the contract: work in progress, a submission or a  *)
(* decision is never reset to prepared or assigned.                        *)
(***************************************************************************)
DelegationInContract ==
  [][stored.status # stored'.status =>
       \/ stored.status = "absent" /\ stored'.status = "prepared"
       \/ stored'.status = "cancelled"
       \/ stored.status # "absent" /\ stored'.status \in Transitions[stored.status]]_delegationVars
=============================================================================
