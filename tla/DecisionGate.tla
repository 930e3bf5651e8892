---------------------------- MODULE DecisionGate ----------------------------
(***************************************************************************)
(* The human decisions on one task (protocol.enforce on): questions to     *)
(* people (request_attention), the stall chain that blocks and freezes an  *)
(* unanswered task, approvals only a human may close, the review of a      *)
(* submission and the gates of accept_task_result.                         *)
(*                                                                         *)
(* Every tool pulls the task's meta.json, changes its copy and commits the *)
(* whole of it.  _sync_task reads the version again and then commits a     *)
(* body that may have been pulled long ago; what keeps a stale body from   *)
(* undoing other people's decisions is the guard of the Controller         *)
(* (validateW2DecisionAuthority).  review_task instead binds its body to   *)
(* the version it was read under (_commit_task_guarded).                   *)
(*                                                                         *)
(* A record of a kind is identified by its attempt, here its position.     *)
(* Times, texts and evidence are left out; what tells two history entries  *)
(* apart, the time, is represented by the member whose call wrote it.      *)
(* ETags are represented as in TaskCommit: live = TRUE when the ETag a     *)
(* call holds is still the object's.  Cancellation, which _sync_task also  *)
(* merges into the body, and the project's side of a submission are the    *)
(* subject of TaskCommit; the task here is never cancelled.                *)
(***************************************************************************)
EXTENDS Naturals, FiniteSets, SequencesExt

CONSTANTS
  Members,     \* runtimes that call the tools
  Role,        \* Role[m]: the runtime role of m, which is also its Controller role
  Account,     \* Account[m]: the canonical account of m
  Assignee,    \* the account the task is assigned to
  Kinds,       \* kinds of attention records
  BlockedAt,   \* ATTENTION_STALL_BLOCKED
  FrozenAt,    \* ATTENTION_STALL_FROZEN
  MaxAttempts, \* _SYNC_TASK_MAX_ATTEMPTS = _TASK_COMMIT_ATTEMPTS
  Tools,       \* bound: Tools[m], the tools m calls and the kinds it asks for
  MaxCalls,    \* bound: tool calls
  MaxOpen,     \* bound: calls under way at once
  Nobody

Roles == {"worker", "critic", "leader", "human"}

ASSUME RoleAssumption == Role \in [Members -> Roles] /\ Nobody \notin Members
ASSUME KindAssumption == "approval" \in Kinds
ASSUME ThresholdAssumption == BlockedAt \in Nat \ {0} /\ FrozenAt \in Nat /\ BlockedAt < FrozenAt
ASSUME AttemptAssumption == MaxAttempts \in Nat \ {0}

VARIABLES
  meta,     \* the task's meta.json in shared storage
  node,     \* the status of the task's node in the leader's project
  call,     \* call[m]: the tool call m executes
  used      \* calls begun

vars == <<meta, node, call, used>>

Terminal == {"completed", "revision"}
Statuses == {"in_progress", "submitted"} \cup Terminal

Channels == {"none", "im", "tool"}
Records == [res : BOOLEAN, by : Members \cup {Nobody}, via : Channels, ev : BOOLEAN, stall : Nat]
NewRecord == [res |-> FALSE, by |-> Nobody, via |-> "none", ev |-> FALSE, stall |-> 0]

Entries == [to : {"open", "blocked", "frozen"}, by : Members]
Reviews == {"none", "pass", "fail"}

InitMeta(st) == [st |-> st, ds |-> "open", hist |-> <<>>, att |-> [k \in Kinds |-> <<>>],
                 review |-> "none"]

Ops == {"none", "ask", "told", "resolve", "submit", "review", "accept"}
Idle == [pc |-> "idle", op |-> "none", kind |-> "approval", verdict |-> "none",
         body |-> InitMeta("in_progress"), live |-> FALSE, attempt |-> 1]

Init ==
  /\ \E st \in {"in_progress", "submitted"} : meta = InitMeta(st) /\ node = st
  /\ call = [m \in Members |-> Idle]
  /\ used = 0

Metas(x) ==
  /\ x.st \in Statuses /\ x.ds \in {"open", "blocked", "frozen"} /\ x.review \in Reviews
  /\ x.hist \in Seq(Entries) /\ DOMAIN x.att = Kinds
  /\ \A k \in Kinds : x.att[k] \in Seq(Records)

-----------------------------------------------------------------------------
(***************************************************************************)
(* The decision_status sub-state.                                          *)
(*                                                                         *)
(* _set_decision_status: frozen is left only for open and only with the    *)
(* authority of an approval; another attempt is kept in the history.       *)
(***************************************************************************)
SetDecisionStatus(t, to, m, approved) ==
  IF t.ds = to THEN t
  ELSE IF t.ds = "frozen" /\ ~(to = "open" /\ approved)
  THEN [t EXCEPT !.hist = Append(@, [to |-> "frozen", by |-> m])]
  ELSE [t EXCEPT !.ds = to, !.hist = Append(@, [to |-> to, by |-> m])]

(***************************************************************************)
(* _attention_stall_escalate, after record i of kind k stalled once more.  *)
(***************************************************************************)
StallEscalate(t, k, i, m) ==
  LET stall == t.att[k][i].stall IN
  IF t.ds # "frozen" /\ stall >= FrozenAt THEN SetDecisionStatus(t, "frozen", m, FALSE)
  ELSE IF t.ds # "frozen" /\ stall >= BlockedAt THEN SetDecisionStatus(t, "blocked", m, FALSE)
  ELSE t

(***************************************************************************)
(* _attention_resolved_status: the answer to record i zeroes its stalls    *)
(* and opens a blocked or frozen task.                                     *)
(***************************************************************************)
ResolvedStatus(t, k, i, m) ==
  LET u == [t EXCEPT !.att[k][i].stall = 0] IN
  IF t.ds \in {"blocked", "frozen"} THEN SetDecisionStatus(u, "open", m, k = "approval") ELSE u

-----------------------------------------------------------------------------
(***************************************************************************)
(* The decision-authority guard of the Controller.                         *)
(***************************************************************************)
IsDecider(m) == Role[m] \in {"leader", "human"}

Authority(r) == <<r.res, r.by, r.via>>

(***************************************************************************)
(* authorizeApprovalClose: a human closes in its own name, a leader passes *)
(* on what a human of the roster decided; the assignee approves nothing.   *)
(***************************************************************************)
AuthorizedClose(m, r) ==
  /\ Role[m] = "human" => Account[m] = Account[r.by]
  /\ Account[r.by] # Assignee

(***************************************************************************)
(* validateApprovalClose: the marker says human, the channel is a human    *)
(* one and an account is named.                                            *)
(***************************************************************************)
LegalClose(m, r) ==
  /\ r.by # Nobody /\ Role[r.by] = "human" /\ r.via = "im"
  /\ AuthorizedClose(m, r)

(***************************************************************************)
(* Mutant of CheckAttention: the guard forgets that records may be missing *)
(* from the body.                                                          *)
(***************************************************************************)
CheckAttentionMissing(cur, bod, m) ==
  LET old == cur.att["approval"] new == bod.att["approval"] IN
  \A i \in 1..Len(new) :
    IF i > Len(old) THEN Authority(new[i]) = Authority(NewRecord)
    ELSE Authority(new[i]) # Authority(old[i]) => IsDecider(m) /\ LegalClose(m, new[i])

(***************************************************************************)
(* checkAttention: no record is deleted, an existing approval changes only *)
(* by a decider's legal close, a new approval is raised open.              *)
(***************************************************************************)
CheckAttention(cur, bod, m) ==
  LET old == cur.att["approval"] new == bod.att["approval"] IN
  /\ \A k \in Kinds : Len(cur.att[k]) <= Len(bod.att[k])
  /\ \A i \in 1..Len(new) :
       IF i > Len(old) THEN Authority(new[i]) = Authority(NewRecord)
       ELSE Authority(new[i]) # Authority(old[i]) => IsDecider(m) /\ LegalClose(m, new[i])

NewlyClosed(cur, bod) ==
  {i \in 1..Len(cur.att["approval"]) : bod.att["approval"][i].res /\ ~cur.att["approval"][i].res}

CheckReview(cur, bod, m) == ~IsDecider(m) => bod.review = cur.review

(***************************************************************************)
(* checkDecisionStatus: for a worker frozen stays frozen and blocked does  *)
(* not open; a decider leaves frozen only together with a newly closed     *)
(* approval.                                                               *)
(***************************************************************************)
CheckDecisionStatus(cur, bod, m) ==
  IF IsDecider(m)
  THEN cur.ds = "frozen" /\ bod.ds # "frozen" => NewlyClosed(cur, bod) # {}
  ELSE /\ cur.ds = "frozen" => bod.ds = "frozen"
       /\ cur.ds = "blocked" => bod.ds # "open"

CheckDecisionHistory(cur, bod) == IsPrefix(cur.hist, bod.hist)

(***************************************************************************)
(* checkStatusLane: a worker hands off, a decider follows the lifecycle    *)
(* contract.                                                               *)
(***************************************************************************)
CheckStatusLane(cur, bod, m) ==
  \/ bod.st = cur.st
  \/ cur.st = "in_progress" /\ bod.st = "submitted"
  \/ IsDecider(m) /\ cur.st = "submitted" /\ bod.st \in Terminal

(***************************************************************************)
(* validateW2DecisionAuthority.                                            *)
(***************************************************************************)
Permitted(cur, bod, m) ==
  /\ CheckAttention(cur, bod, m)
  /\ CheckReview(cur, bod, m)
  /\ CheckDecisionStatus(cur, bod, m)
  /\ CheckDecisionHistory(cur, bod)
  /\ CheckStatusLane(cur, bod, m)

-----------------------------------------------------------------------------
(***************************************************************************)
(* Tool calls.                                                             *)
(***************************************************************************)
CanCall(m, op) ==
  /\ op \in Tools[m] /\ call[m].pc = "idle" /\ used < MaxCalls
  /\ Cardinality({n \in Members : call[n].pc # "idle"}) < MaxOpen

Begin(m, c) ==
  /\ call' = [call EXCEPT ![m] = c]
  /\ used' = used + 1

(***************************************************************************)
(* _require_task_mutable: the node of the plan first, then the task.  Only *)
(* the leader's copy of the plan is known to be fresh.                     *)
(***************************************************************************)
Mutable(m, t) == t.st \notin Terminal /\ (Role[m] = "leader" => node \notin Terminal)

MayAsk(m) == Role[m] \in {"worker", "leader", "human"} /\ Mutable(m, meta)

Unresolved(t, k) == {i \in 1..Len(t.att[k]) : ~t.att[k][i].res}
Notified(t, k) == {i \in 1..Len(t.att[k]) : t.att[k][i].ev}

(***************************************************************************)
(* request_attention of a kind whose open record was already announced:    *)
(* one more stall, no second message.                                      *)
(***************************************************************************)
AskAgain(m, k) ==
  /\ CanCall(m, k) /\ MayAsk(m)
  /\ Unresolved(meta, k) \cap Notified(meta, k) # {}
  /\ LET i == CHOOSE i \in Unresolved(meta, k) \cap Notified(meta, k) :
                \A j \in Unresolved(meta, k) \cap Notified(meta, k) : j <= i
     IN  Begin(m, [Idle EXCEPT !.pc = "sync", !.op = "told", !.kind = k,
           !.body = StallEscalate([meta EXCEPT !.att[k][i].stall = @ + 1], k, i, m)])
  /\ UNCHANGED <<meta, node>>

(***************************************************************************)
(* ... of a kind whose open record could not be announced: the same record *)
(* is synced again and announced.                                          *)
(***************************************************************************)
AskPending(m, k) ==
  /\ CanCall(m, k) /\ MayAsk(m)
  /\ Unresolved(meta, k) # {} /\ Unresolved(meta, k) \cap Notified(meta, k) = {}
  /\ Begin(m, [Idle EXCEPT !.pc = "sync", !.op = "ask", !.kind = k, !.body = meta])
  /\ UNCHANGED <<meta, node>>

(***************************************************************************)
(* Mutant of NoOpenRecord: only announced records count as an open loop.   *)
(***************************************************************************)
NoOpenRecordAnnounced(t, k) == Unresolved(t, k) \cap Notified(t, k) = {}

NoOpenRecord(t, k) == Unresolved(t, k) = {}

(***************************************************************************)
(* ... and of a kind without an open record: a new one.                    *)
(***************************************************************************)
AskNew(m, k) ==
  /\ CanCall(m, k) /\ MayAsk(m) /\ NoOpenRecord(meta, k)
  /\ Begin(m, [Idle EXCEPT !.pc = "sync", !.op = "ask", !.kind = k,
                           !.body = [meta EXCEPT !.att[k] = Append(@, NewRecord)]])
  /\ UNCHANGED <<meta, node>>

(***************************************************************************)
(* Once the record is in shared storage the room is told; the outcome goes *)
(* into the record, which is synced again.                                 *)
(***************************************************************************)
Notify(m) ==
  /\ call[m].pc = "notify"
  /\ LET k == call[m].kind
         i == CHOOSE i \in Unresolved(call[m].body, k) : \A j \in Unresolved(call[m].body, k) : j <= i
     IN  \E sent \in BOOLEAN :
           call' = [call EXCEPT ![m].body.att[k][i].ev = sent, ![m].pc = "sync", ![m].op = "told",
                                ![m].attempt = 1]
  /\ UNCHANGED <<meta, node, used>>

(***************************************************************************)
(* The record an answer closes: the latest open one, or again the latest   *)
(* announced one when all are closed.                                      *)
(***************************************************************************)
Answered(t, k) ==
  IF Unresolved(t, k) # {}
  THEN CHOOSE i \in Unresolved(t, k) : \A j \in Unresolved(t, k) : j <= i
  ELSE CHOOSE i \in Notified(t, k) : \A j \in Notified(t, k) : j <= i

(***************************************************************************)
(* request_attention with resolved=true.  A frozen task takes only an      *)
(* approval, and _approval_authorized lets only the human role close one.  *)
(* The channel is told apart only for approvals.                           *)
(***************************************************************************)
Resolve(m, k, via) ==
  /\ CanCall(m, "resolve") /\ MayAsk(m)
  /\ Unresolved(meta, k) \cup Notified(meta, k) # {}
  /\ meta.ds = "frozen" => k = "approval"
  /\ k = "approval" => Role[m] = "human"
  /\ k # "approval" => via = "tool"
  /\ LET i == Answered(meta, k) IN
       Begin(m, [Idle EXCEPT !.pc = "sync", !.op = "resolve", !.kind = k,
         !.body = ResolvedStatus([meta EXCEPT !.att[k][i] =
                                    [@ EXCEPT !.res = TRUE, !.by = m, !.via = via]], k, i, m)])
  /\ UNCHANGED <<meta, node>>

(***************************************************************************)
(* submit_task, the first time and again.                                  *)
(***************************************************************************)
SubmitTask(m) ==
  /\ CanCall(m, "submit") /\ Role[m] = "worker" /\ Mutable(m, meta)
  /\ Begin(m, [Idle EXCEPT !.pc = "sync", !.op = "submit", !.body = [meta EXCEPT !.st = "submitted"]])
  /\ UNCHANGED <<meta, node>>

-----------------------------------------------------------------------------
(***************************************************************************)
(* review_task: stat and pull, then a stat that must repeat the first one  *)
(* before the review is put onto the body, and a write on that version.    *)
(* Nobody reviews a result of its own account; results are the assignee's. *)
(***************************************************************************)
ReviewTask(m, verdict) ==
  /\ CanCall(m, "review") /\ Role[m] \in {"critic", "leader"}
  /\ Begin(m, [Idle EXCEPT !.pc = "pull", !.op = "review", !.verdict = verdict])
  /\ UNCHANGED <<meta, node>>

ReviewPull(m) ==
  /\ call[m].pc = "pull"
  /\ call' = [call EXCEPT ![m].body = meta, ![m].live = TRUE, ![m].pc = "bind"]
  /\ UNCHANGED <<meta, node, used>>

(***************************************************************************)
(* The end of a call, and another attempt from the step named.             *)
(***************************************************************************)
Return(m) == call' = [call EXCEPT ![m] = Idle]

Again(m, pc) ==
  IF call[m].attempt < MaxAttempts
  THEN call' = [call EXCEPT ![m].pc = pc, ![m].attempt = @ + 1, ![m].live = FALSE]
  ELSE Return(m)

Bound(m) == call[m].live

ReviewBind(m) ==
  /\ call[m].pc = "bind"
  /\ IF ~Bound(m) THEN Again(m, "pull")
     ELSE IF call[m].body.st = "submitted" /\ Mutable(m, call[m].body) /\ Account[m] # Assignee
     THEN call' = [call EXCEPT ![m].body.review = call[m].verdict, ![m].live = TRUE,
                               ![m].pc = "put"]
     ELSE Return(m)
  /\ UNCHANGED <<meta, node, used>>

-----------------------------------------------------------------------------
(***************************************************************************)
(* _has_approval_record.                                                   *)
(***************************************************************************)
HasApproval(t) ==
  \E i \in 1..Len(t.att["approval"]) :
    LET r == t.att["approval"][i] IN
    r.res /\ r.by # Nobody /\ Role[r.by] = "human" /\ r.via = "im" /\ Account[r.by] # Assignee

(***************************************************************************)
(* Mutant of Acceptable: the gate looks at the review alone.               *)
(***************************************************************************)
AcceptableReviewed(t) == t.review = "pass"

(***************************************************************************)
(* _protocol_guard_for_accept of an r1 task.                               *)
(***************************************************************************)
Acceptable(t) == t.review = "pass" /\ HasApproval(t)

(***************************************************************************)
(* accept_task_result.  The first time it decides the node and closes all  *)
(* open records, whatever their kind; repeated, it only repairs the status *)
(* of the task.  The node is written locally before anything is sent, and  *)
(* a failed _sync_project ends the call (CallFails).                       *)
(***************************************************************************)
Closed(t) ==
  [t EXCEPT !.att = [k \in Kinds |-> [i \in 1..Len(t.att[k]) |-> [t.att[k][i] EXCEPT !.res = TRUE]]]]

AcceptTaskResult(m, verdict) ==
  /\ CanCall(m, "accept") /\ Role[m] = "leader"
  /\ meta.st \in {"submitted"} \cup Terminal
  /\ verdict = "completed" => Acceptable(meta)
  /\ node \in Terminal => node = verdict
  /\ node' = verdict
  /\ Begin(m, [Idle EXCEPT !.pc = "sync", !.op = "accept",
       !.body = [(IF node \in Terminal THEN meta ELSE Closed(meta)) EXCEPT !.st = verdict]])
  /\ UNCHANGED meta

-----------------------------------------------------------------------------
(***************************************************************************)
(* _sync_task: a versioned read, of which only the version is used, the    *)
(* PUT, and a look at what the storage holds afterwards.                   *)
(***************************************************************************)
SyncRead(m) ==
  /\ call[m].pc = "sync"
  /\ call' = [call EXCEPT ![m].live = TRUE, ![m].pc = "put"]
  /\ UNCHANGED <<meta, node, used>>

Matches(m) == call[m].live

Stale(c, m) == [n \in Members |-> IF n = m THEN c[n] ELSE [c[n] EXCEPT !.live = FALSE]]

(***************************************************************************)
(* PutTaskMeta reads the stored task, judges the body by it and writes on  *)
(* the version the caller named.  While that version stands the two steps  *)
(* see the same task and are one; once it is gone the answer is 409, or    *)
(* 403 (CallFails) if the body displeased the version the guard met.       *)
(***************************************************************************)
PutTaskMeta(m) ==
  /\ call[m].pc = "put"
  /\ IF ~Matches(m)
     THEN Again(m, IF call[m].op = "review" THEN "pull" ELSE "sync") /\ UNCHANGED meta
     ELSE IF ~Permitted(meta, call[m].body, m) THEN Return(m) /\ UNCHANGED meta
     ELSE /\ meta' = call[m].body
          /\ call' = Stale([call EXCEPT ![m] = IF call[m].op = "review" THEN Idle
                                               ELSE [@ EXCEPT !.pc = "verify"]], m)
  /\ UNCHANGED <<node, used>>

(***************************************************************************)
(* The ETag of the answer was read after the write, so it may be that of a *)
(* later version; then the later write goes unnoticed.                     *)
(***************************************************************************)
Verify(m) ==
  /\ call[m].pc = "verify"
  /\ \/ IF call[m].op = "ask" THEN call' = [call EXCEPT ![m].pc = "notify", ![m].live = FALSE]
        ELSE Return(m)
     \/ ~call[m].live /\ Again(m, "sync")
  /\ UNCHANGED <<meta, node, used>>

(***************************************************************************)
(* A pull, a push, a PUT or the runtime fails.                             *)
(***************************************************************************)
CallFails(m) ==
  /\ call[m].pc # "idle"
  /\ Return(m)
  /\ UNCHANGED <<meta, node, used>>

-----------------------------------------------------------------------------
Step(m) ==
  \/ \E k \in Kinds : AskAgain(m, k) \/ AskPending(m, k) \/ AskNew(m, k)
  \/ \E k \in Kinds, via \in {"im", "tool"} : Resolve(m, k, via)
  \/ SubmitTask(m)
  \/ \E v \in {"pass", "fail"} : ReviewTask(m, v)
  \/ \E v \in {"completed", "revision"} : AcceptTaskResult(m, v)
  \/ Notify(m) \/ ReviewPull(m) \/ ReviewBind(m)
  \/ SyncRead(m) \/ PutTaskMeta(m) \/ Verify(m) \/ CallFails(m)

Next == \E m \in Members : Step(m)

Spec == Init /\ [][Next]_vars

-----------------------------------------------------------------------------
(***************************************************************************)
(* Types.                                                                  *)
(***************************************************************************)
TypeOK ==
  /\ Metas(meta)
  /\ node \in Statuses
  /\ used \in Nat
  /\ \A m \in Members : call[m] # Idle =>
       /\ Metas(call[m].body) /\ call[m].live \in BOOLEAN /\ call[m].attempt \in 1..MaxAttempts
       /\ call[m].pc \in {"idle", "pull", "bind", "sync", "put", "verify",
                          "notify"}
       /\ call[m].op \in Ops /\ call[m].kind \in Kinds /\ call[m].verdict \in Reviews

(***************************************************************************)
(* One open loop per kind (taskflow.py, request_attention): however calls  *)
(* interleave, fail and retry, only the latest record of a kind is         *)
(* unanswered.                                                             *)
(***************************************************************************)
OneOpenLoop == \A k \in Kinds : \A i \in Unresolved(meta, k) : i = Len(meta.att[k])

(***************************************************************************)
(* What people decided is kept by every commit, a stale one included: no   *)
(* record disappears, an approval that a human closed stays closed by a    *)
(* human who is not the assignee, the history only grows, and it always    *)
(* ends in the current decision status; frozen is left only by a commit    *)
(* that closes an approval.                                                *)
(***************************************************************************)
DecisionsKept ==
  [][/\ \A k \in Kinds : Len(meta.att[k]) <= Len(meta'.att[k])
     /\ HasApproval(meta) => HasApproval(meta')
     /\ IsPrefix(meta.hist, meta'.hist)
     /\ meta'.ds = IF meta'.hist = <<>> THEN "open" ELSE Last(meta'.hist).to
     /\ meta.ds = "frozen" /\ meta'.ds # "frozen" => NewlyClosed(meta, meta') # {}]_vars

(***************************************************************************)
(* A result of an r1 task that the leader accepted has, in shared storage  *)
(* and from then on, the approval of a human who is not its assignee.      *)
(***************************************************************************)
AcceptedApproved == node = "completed" => HasApproval(meta)

=============================================================================
