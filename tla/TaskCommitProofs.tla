-------------------------- MODULE TaskCommitProofs --------------------------
(***************************************************************************)
(* Theorems about TaskCommit, for any members, CancelTask requests,        *)
(* results, tool actions and numbers of attempts and calls, and about      *)
(* DelegateTask, for any workers, CancelTask requests and numbers of       *)
(* calls, pauses and cancellations.                                        *)
(***************************************************************************)
EXTENDS TaskCommit, DelegateTask, TLAPS

(***************************************************************************)
(* The constant records have their types.                                  *)
(***************************************************************************)
LEMMA IdleTypes ==
  /\ InitMeta \in Metas
  /\ InitNode \in Nodes
  /\ IdleCall \in Calls
  /\ NoReq \in Reqs
  /\ IdleCancel \in CancelRecs
<1>1. InitMeta \in Metas
  BY DEF InitMeta, Metas, Status, Reasons, Subs
<1>2. InitNode \in Nodes
  BY DEF InitNode, Nodes, Status, Reasons, Subs
<1>3. 1 \in 1..MaxAttempts
  BY BoundsAssumption
<1>4. IdleCall \in Calls
  BY <1>1, <1>2, <1>3 DEF IdleCall, Calls, Phases, Answers, Subs
<1>5. NoReq \in Reqs
  BY <1>1, <1>2 DEF NoReq, Reqs, Served
<1>6. IdleCancel \in CancelRecs
  BY <1>1, <1>2 DEF IdleCancel, CancelRecs, CancelPhases, Answers, Subs
<1>. QED BY <1>1, <1>2, <1>4, <1>5, <1>6

(***************************************************************************)
(* Making ETags stale keeps the types.                                     *)
(***************************************************************************)
LEMMA StaleTypes ==
  ASSUME TypeOK, NEW obj
  PROVE  Stale(obj) \in [Members -> Reqs] /\ StaleCancels \in [Cancels -> CancelRecs]
<1>1. Stale(obj) \in [Members -> Reqs]
  BY DEF TypeOK, Stale, Reqs
<1>2. StaleCancels \in [Cancels -> CancelRecs]
  BY DEF TypeOK, StaleCancels, CancelRecs
<1>. QED BY <1>1, <1>2

(***************************************************************************)
(* Nothing but the ETags of that object changes.                           *)
(***************************************************************************)
LEMMA StaleFacts ==
  ASSUME TypeOK, NEW obj, NEW m \in Members
  PROVE  /\ Stale(obj)[m].obj = req[m].obj
         /\ Stale(obj)[m].st = req[m].st
         /\ Stale(obj)[m].meta = req[m].meta
         /\ req[m].obj # obj => Stale(obj)[m] = req[m]
         /\ req[m].obj = obj => ~Stale(obj)[m].live
BY DEF TypeOK, Stale, Reqs

(***************************************************************************)
(* Resolving a continuation and merging a cancellation keep the type.      *)
(***************************************************************************)
LEMMA MetaTypes ==
  /\ \A t \in Metas, s \in Terminal : Resolve(t, s) \in Metas
  /\ \A t, u \in Metas : Merge(t, u) \in Metas
  /\ \A t \in Metas, s \in Status : [t EXCEPT !.status = s] \in Metas
  /\ \A t \in Metas, s \in Status, r \in Reasons :
       [t EXCEPT !.status = s, !.reason = r] \in Metas
<1>1. ASSUME NEW t \in Metas, NEW s \in Terminal PROVE Resolve(t, s) \in Metas
  BY DEF Metas, Resolve
<1>2. ASSUME NEW t \in Metas, NEW u \in Metas PROVE Merge(t, u) \in Metas
  <2>1. "cancelled" \in Status
    BY DEF Status, Terminal
  <2>. QED BY <2>1 DEF Metas, Merge
<1>3. ASSUME NEW t \in Metas, NEW s \in Status PROVE [t EXCEPT !.status = s] \in Metas
  BY DEF Metas
<1>4. ASSUME NEW t \in Metas, NEW s \in Status, NEW r \in Reasons
      PROVE  [t EXCEPT !.status = s, !.reason = r] \in Metas
  BY DEF Metas
<1>. QED BY <1>1, <1>2, <1>3, <1>4

(***************************************************************************)
(* The ways a call goes on keep its type.                                  *)
(***************************************************************************)
LEMMA CallTypes ==
  ASSUME TypeOK, NEW m \in Members
  PROVE  /\ \A a \in Answers : Return(m, a) => call' \in [Members -> Calls]
         /\ \A s \in Status, t \in Metas : ToProject(m, s, t) => call' \in [Members -> Calls]
         /\ \A t \in Metas : ToTask(m, t) => call' \in [Members -> Calls]
         /\ NotSynced(m) => call' \in [Members -> Calls]
         /\ SyncFailed(m) => call' \in [Members -> Calls]
         /\ Retry(m) => call' \in [Members -> Calls]
<1>. USE IdleTypes
<1>1. ASSUME NEW a \in Answers, Return(m, a) PROVE call' \in [Members -> Calls]
  BY <1>1 DEF TypeOK, Return, Calls
<1>2. ASSUME NEW s \in Status, NEW t \in Metas, ToProject(m, s, t)
      PROVE  call' \in [Members -> Calls]
  BY <1>2, ZenonT(60) DEF TypeOK, ToProject, Calls, Phases, Nodes
<1>3. ASSUME NEW t \in Metas, ToTask(m, t) PROVE call' \in [Members -> Calls]
  BY <1>3 DEF TypeOK, ToTask, Calls, Phases
<1>4. ASSUME NotSynced(m) PROVE call' \in [Members -> Calls]
  <2>1. {"failed", "unsynced"} \subseteq Answers
    BY DEF Answers
  <2>. QED BY <1>1, <1>4, <2>1 DEF NotSynced
<1>5. ASSUME SyncFailed(m) PROVE call' \in [Members -> Calls]
  <2>1. call[m].meta \in Metas
    BY DEF TypeOK, Calls
  <2>. QED BY <1>3, <1>5, <1>4, <2>1 DEF SyncFailed
<1>6. ASSUME Retry(m) PROVE call' \in [Members -> Calls]
  <2>1. CASE call[m].attempt = MaxAttempts
    BY <1>5, <1>6, <2>1 DEF Retry
  <2>2. CASE call[m].attempt # MaxAttempts
    <3>1. call[m].attempt + 1 \in 1..MaxAttempts
      BY <2>2, BoundsAssumption DEF TypeOK, Calls
    <3>2. (IF call[m].pc = "waitT" THEN "readT" ELSE "readP") \in Phases
      BY DEF Phases
    <3>. QED BY <1>6, <2>2, <3>1, <3>2 DEF TypeOK, Retry, Calls
  <2>. QED BY <2>1, <2>2
<1>. QED BY <1>1, <1>2, <1>3, <1>4, <1>5, <1>6

(***************************************************************************)
(* Every step keeps the types.                                             *)
(***************************************************************************)
LEMMA TypeStep ==
  ASSUME TypeOK, [Next]_vars
  PROVE  TypeOK'
<1>. USE IdleTypes
<1>1. ASSUME NEW m \in Members, NEW op \in Ops, NEW result \in Results \cup {"none"},
             Begin(m, op, result)
      PROVE  TypeOK'
  <2>1. call' \in [Members -> Calls]
    BY <1>1 DEF TypeOK, Begin, Calls, Phases, Metas, Subs
  <2>2. used' \in [Members \cup Cancels -> Nat]
    BY <1>1 DEF TypeOK, Begin
  <2>. QED BY <1>1, <2>1, <2>2 DEF TypeOK, Begin
<1>2. ASSUME NEW m \in Members, Load(m) PROVE TypeOK'
  <2>. DEFINE n == call[m].node
  <2>0. /\ task \in Metas /\ n \in Nodes /\ n.status \in Status
        /\ {"assigned", "in_progress", "submitted", "cancelled"} \subseteq Status
        /\ "cancelled" \in Terminal
        /\ {"rejected"} \subseteq Answers
        /\ Leader \in Reasons
    BY DEF TypeOK, Calls, Nodes, Status, Terminal, Answers, Reasons
  <2>1. CASE LoadAck(m)
    <3>1. subs' \in Nat
      BY <2>1 DEF LoadAck, TypeOK
    <3>2. call' \in [Members -> Calls]
      BY <2>0, <2>1, CallTypes, MetaTypes DEF LoadAck
    <3>. QED BY <1>2, <3>1, <3>2 DEF TypeOK, Load
  <2>2. CASE LoadSubmit(m)
    <3>1. subs' \in Nat
      BY <2>2 DEF LoadSubmit, TypeOK
    <3>2. [task EXCEPT !.status = "submitted", !.cont = "pending", !.sub = subs + 1,
                       !.result = call[m].result] \in Metas
      <4>1. subs + 1 \in Subs /\ call[m].result \in Results \cup {"none"}
        BY DEF TypeOK, Calls, Subs
      <4>2. "submitted" \in Status /\ "pending" \in {"none", "pending"} \cup Terminal
        BY <2>0
      <4>. QED BY <2>0, <4>1, <4>2 DEF Metas
    <3>3. call' \in [Members -> Calls]
      BY <2>0, <2>2, <3>2, CallTypes DEF LoadSubmit
    <3>. QED BY <1>2, <3>1, <3>3 DEF TypeOK, Load
  <2>3. CASE LoadProgress(m)
    <3>1. subs' \in Nat
      BY <2>3 DEF LoadProgress, TypeOK
    <3>2. call' \in [Members -> Calls]
      BY <2>0, <2>3, CallTypes DEF LoadProgress
    <3>. QED BY <1>2, <3>1, <3>2 DEF TypeOK, Load
  <2>4. CASE LoadCancel(m)
    <3>1. subs' \in Nat
      BY <2>4 DEF LoadCancel, TypeOK
    <3>2. Resolve([task EXCEPT !.status = "cancelled", !.reason = Leader], "cancelled") \in Metas
      BY <2>0, MetaTypes
    <3>3. call' \in [Members -> Calls]
      BY <2>0, <2>4, <3>2, CallTypes DEF LoadCancel
    <3>. QED BY <1>2, <3>1, <3>3 DEF TypeOK, Load
  <2>5. CASE LoadAccept(m)
    <3>1. subs' \in Nat
      BY <2>5 DEF LoadAccept, TypeOK
    <3>. DEFINE d == Decided(call[m].op, task.result)
    <3>2. ASSUME task.result # "none" PROVE d \in Terminal /\ d \in Status
      <4>1. task.result \in Results
        BY <2>0, <3>2 DEF Metas
      <4>2. Outcome[task.result] \in Decision
        BY <4>1, ResultsAssumption
      <4>. QED BY <4>2 DEF Decided, Decision, Terminal, Status
    <3>3. ASSUME task.result # "none"
          PROVE  Resolve([task EXCEPT !.status = d], d) \in Metas
      BY <2>0, <3>2, <3>3, MetaTypes
    <3>4. call' \in [Members -> Calls]
      <4>. HIDE DEF d
      <4>1. \/ task.result # "none" /\ ToProject(m, d, Resolve([task EXCEPT !.status = d], d))
            \/ Return(m, "rejected")
        BY <2>5 DEF LoadAccept, d
      <4>. QED BY <2>0, <3>2, <3>3, <4>1, CallTypes
    <3>. QED BY <1>2, <3>1, <3>4 DEF TypeOK, Load
  <2>. QED BY <1>2, <2>1, <2>2, <2>3, <2>4, <2>5 DEF Load
<1>3. ASSUME NEW m \in Members, SendProject(m) PROVE TypeOK'
  <2>1. req' \in [Members -> Reqs]
    BY <1>3 DEF TypeOK, SendProject, Calls, Reqs, Served
  <2>2. call' \in [Members -> Calls]
    BY <1>3, ZenonT(60) DEF TypeOK, SendProject, Calls, Phases
  <2>. QED BY <1>3, <2>1, <2>2 DEF TypeOK, SendProject
<1>4. ASSUME NEW m \in Members, SendTask(m) PROVE TypeOK'
  <2>1. Merge(call[m].meta, task) \in Metas
    BY MetaTypes DEF TypeOK, Calls
  <2>2. req' \in [Members -> Reqs]
    BY <1>4, <2>1 DEF TypeOK, SendTask, Reqs, Served
  <2>3. call' \in [Members -> Calls]
    BY <1>4, <2>1, ZenonT(60) DEF TypeOK, SendTask, Calls, Phases
  <2>. QED BY <1>4, <2>2, <2>3 DEF TypeOK, SendTask
<1>5. ASSUME NEW m \in Members, ProjectAnswered(m) PROVE TypeOK'
  <2>1. call' \in [Members -> Calls]
    <3>1. call[m].meta \in Metas
      BY DEF TypeOK, Calls
    <3>. QED BY <1>5, <3>1, CallTypes DEF ProjectAnswered
  <2>. QED BY <1>5, <2>1 DEF TypeOK, ProjectAnswered
<1>6. ASSUME NEW m \in Members, TaskAnswered(m) PROVE TypeOK'
  <2>1. call' \in [Members -> Calls]
    <3>1. "ok" \in Answers
      BY DEF Answers
    <3>. QED BY <1>6, <3>1, CallTypes DEF TaskAnswered
  <2>. QED BY <1>6, <2>1 DEF TypeOK, TaskAnswered
<1>7. ASSUME NEW m \in Members, PushFailed(m) \/ NetworkError(m) \/ Crash(m) PROVE TypeOK'
  <2>1. "failed" \in Answers
    BY DEF Answers
  <2>2. call' \in [Members -> Calls]
    BY <1>7, <2>1, CallTypes DEF PushFailed, NetworkError, Crash
  <2>3. req' \in [Members -> Reqs]
    BY <1>7 DEF TypeOK, PushFailed, NetworkError, Crash
  <2>. QED BY <1>7, <2>2, <2>3 DEF TypeOK, PushFailed, NetworkError, Crash
<1>8. ASSUME NEW m \in Members, PutProjectMeta(m) PROVE TypeOK'
  <2>1. req' \in [Members -> Reqs]
    BY <1>8, StaleTypes DEF TypeOK, PutProjectMeta, Reqs, Served
  <2>2. node' \in Nodes /\ cancel' \in [Cancels -> CancelRecs]
    BY <1>8, StaleTypes DEF TypeOK, PutProjectMeta, Reqs
  <2>. QED BY <1>8, <2>1, <2>2 DEF TypeOK, PutProjectMeta
<1>9. ASSUME NEW m \in Members, GuardTaskMeta(m) PROVE TypeOK'
  BY <1>9 DEF TypeOK, GuardTaskMeta, Reqs, Served
<1>10. ASSUME NEW m \in Members, PutTaskMeta(m) PROVE TypeOK'
  <2>1. req' \in [Members -> Reqs]
    BY <1>10, StaleTypes, SMTT(30) DEF TypeOK, PutTaskMeta, Reqs, Served
  <2>2. task' \in Metas
    BY <1>10 DEF TypeOK, PutTaskMeta, Reqs
  <2>. QED BY <1>10, <2>1, <2>2 DEF TypeOK, PutTaskMeta
<1>11. ASSUME NEW m \in Members, StatMeta(m) PROVE TypeOK'
  BY <1>11 DEF TypeOK, StatMeta, Reqs, Served
<1>12. ASSUME NEW c \in Cancels, CancelBegin(c) PROVE TypeOK'
  <2>1. cancel' \in [Cancels -> CancelRecs]
    BY <1>12 DEF TypeOK, CancelBegin, CancelRecs, CancelPhases, Metas, Subs
  <2>2. used' \in [Members \cup Cancels -> Nat]
    BY <1>12 DEF TypeOK, CancelBegin
  <2>. QED BY <1>12, <2>1, <2>2 DEF TypeOK, CancelBegin
<1>13. ASSUME NEW c \in Cancels, NEW a \in Answers \cup {"conflict"}, CancelReturn(c, a)
       PROVE  cancel' \in [Cancels -> CancelRecs]
  BY <1>13 DEF TypeOK, CancelReturn, CancelRecs
<1>14. ASSUME NEW c \in Cancels, CancelLoad(c) PROVE TypeOK'
  <2>1. Resolve([task EXCEPT !.status = "cancelled", !.reason = c], "cancelled") \in Metas
    BY MetaTypes DEF TypeOK, Status, Terminal, Reasons
  <2>2. cancel' \in [Cancels -> CancelRecs]
    <3>1. CASE CancelRefused(c)
      <4>1. [IdleCancel EXCEPT !.pc = "audit", !.live = cancel[c].live] \in CancelRecs
        BY DEF TypeOK, CancelRecs, CancelPhases
      <4>. QED BY <1>14, <3>1, <4>1 DEF TypeOK, CancelLoad
    <3>2. CASE ~CancelRefused(c) /\ FullyResolved(c)
      BY <1>13, <1>14, <3>2 DEF CancelLoad, Answers
    <3>3. CASE ~CancelRefused(c) /\ ~FullyResolved(c)
      <4>. DEFINE body == Resolve([task EXCEPT !.status = "cancelled", !.reason = c], "cancelled")
      <4>1. ASSUME NEW p \in CancelPhases, NEW t \in Metas
            PROVE  [IdleCancel EXCEPT !.pc = p, !.live = cancel[c].live,
                                      !.want = cancel[c].want, !.meta = t] \in CancelRecs
        BY DEF TypeOK, CancelRecs
      <4>2. (IF cancel[c].node.status = "cancelled" THEN "task" ELSE "node") \in CancelPhases
        BY DEF CancelPhases
      <4>. HIDE DEF body
      <4>3. cancel' = [cancel EXCEPT ![c] =
              [IdleCancel EXCEPT
                 !.pc = IF cancel[c].node.status = "cancelled" THEN "task" ELSE "node",
                 !.live = cancel[c].live, !.want = cancel[c].want, !.meta = body]]
        BY <1>14, <3>3, Zenon DEF CancelLoad, body
      <4>4. body \in Metas
        BY <2>1 DEF body
      <4>. QED BY <4>1, <4>2, <4>3, <4>4 DEF TypeOK
    <3>. QED BY <3>1, <3>2, <3>3
  <2>. QED BY <1>14, <2>2 DEF TypeOK, CancelLoad
<1>15. ASSUME NEW c \in Cancels, CancelAudit(c) PROVE TypeOK'
  <2>1. cancel' \in [Cancels -> CancelRecs]
    BY <1>13, <1>15, StaleTypes DEF CancelAudit, CancelRecs, Answers
  <2>2. req' \in [Members -> Reqs]
    BY <1>15, StaleTypes DEF TypeOK, CancelAudit
  <2>. QED BY <1>15, <2>1, <2>2 DEF TypeOK, CancelAudit
<1>16. ASSUME NEW c \in Cancels, CancelNode(c) PROVE TypeOK'
  <2>1. cancel' \in [Cancels -> CancelRecs]
    BY <1>13, <1>16, StaleTypes DEF CancelNode, CancelRecs, CancelPhases
  <2>2. req' \in [Members -> Reqs]
    BY <1>16, StaleTypes DEF TypeOK, CancelNode
  <2>3. node' \in Nodes
    BY <1>16 DEF TypeOK, CancelNode, Nodes, CancelRecs, Status, Terminal, Reasons
  <2>. QED BY <1>16, <2>1, <2>2, <2>3 DEF TypeOK, CancelNode
<1>17. ASSUME NEW c \in Cancels, CancelPut(c) PROVE TypeOK'
  <2>1. cancel' \in [Cancels -> CancelRecs]
    BY <1>13, <1>17 DEF CancelPut, Answers
  <2>2. req' \in [Members -> Reqs] /\ task' \in Metas
    BY <1>17, StaleTypes DEF TypeOK, CancelPut, CancelRecs
  <2>. QED BY <1>17, <2>1, <2>2 DEF TypeOK, CancelPut
<1>18. ASSUME NEW c \in Cancels, CancelCrash(c) PROVE TypeOK'
  <2>1. cancel' \in [Cancels -> CancelRecs]
    BY <1>13, <1>18 DEF CancelCrash, Answers
  <2>. QED BY <1>18, <2>1 DEF TypeOK, CancelCrash
<1>19. CASE UNCHANGED vars
  BY <1>19 DEF vars, TypeOK
<1>. QED BY <1>1, <1>2, <1>3, <1>4, <1>5, <1>6, <1>7, <1>8, <1>9, <1>10, <1>11, <1>12, <1>14,
           <1>15, <1>16, <1>17, <1>18, <1>19
         DEF Next, MemberStep, ServerStep, CancelStep

(***************************************************************************)
(* Every reachable state is well typed.                                    *)
(***************************************************************************)
THEOREM TypeCorrect == Spec => []TypeOK
<1>1. Init => TypeOK
  BY IdleTypes DEF Init, TypeOK
<1>2. TypeOK /\ [Next]_vars => TypeOK'
  BY TypeStep
<1>. QED BY <1>1, <1>2, PTL DEF Spec

-----------------------------------------------------------------------------
(***************************************************************************)
(* After delegation, the Controller's lanes are moves of the contract, and *)
(* what a tool reports is closed under them.                               *)
(***************************************************************************)
Early == {"planned", "prepared"}

\* A lane only goes along the contract, and never back from what was reached.
LEMMA LaneFacts ==
  ASSUME NEW class, NEW from \in Status \ Early, NEW to \in Status, StatusLane(class, from, to)
  PROVE  /\ to = from \/ to \in Transitions[from]
         /\ to \notin Early
         /\ from \in Terminal => to = from
         /\ \A op : from \in Reached(op) => to \in Reached(op)
<1>1. to = from \/ to \in Transitions[from]
  BY DEF StatusLane, WorkerLane, Transitions, Status, Early, Terminal
<1>2. to # from => to \in Terminal \cup {"in_progress", "submitted"}
  BY DEF StatusLane, WorkerLane, Transitions, Status, Early, Terminal
<1>3. from \in Terminal => to = from
  BY <1>1 DEF Transitions, Terminal, Status
<1>4. from = "submitted" /\ to # from => to \in Terminal
  BY <1>1 DEF Transitions, Terminal, Status
<1>5. to \notin Early
  BY <1>2 DEF Early, Terminal
<1>6. ASSUME NEW op, from \in Reached(op) PROVE to \in Reached(op)
  BY <1>2, <1>3, <1>4, <1>6 DEF Reached, Status, Terminal, Early
<1>. QED BY <1>1, <1>3, <1>5, <1>6

\* No tool reports a status that a cancellation takes back.
LEMMA CancelledReached == \A op \in Ops \cup {"none"} : "cancelled" \in Reached(op)
BY DEF Reached, Terminal, Status

(***************************************************************************)
(* Only a vetted commit and the console's PutObject write the task.        *)
(***************************************************************************)
LEMMA TaskWriters ==
  ASSUME TypeOK, [Next]_vars
  PROVE  \/ UNCHANGED task
         \/ \E m \in Members : PutTaskMeta(m) /\ req[m].live /\ task' = req[m].meta
         \/ \E c \in Cancels : CancelPut(c) /\ task' = cancel[c].meta
<1>1. ASSUME NEW m \in Members, PutTaskMeta(m)
      PROVE  UNCHANGED task \/ (req[m].live /\ task' = req[m].meta)
  BY <1>1 DEF PutTaskMeta
<1>2. ASSUME NEW m \in Members, Load(m) PROVE UNCHANGED task
  BY <1>2 DEF Load
<1>. QED BY <1>1, <1>2
         DEF Next, vars, MemberStep, ServerStep, CancelStep, Begin, SendProject,
             ProjectAnswered, SendTask, TaskAnswered, PutProjectMeta, GuardTaskMeta, StatMeta,
             PushFailed, NetworkError, Crash, CancelBegin, CancelLoad, CancelAudit, CancelNode,
             CancelPut, CancelCrash

(***************************************************************************)
(* What a step may do to the status: the contract, or a cancellation.      *)
(***************************************************************************)
LEMMA StatusMoves ==
  ASSUME IndInv, [Next]_vars
  PROVE  /\ \/ task'.status = task.status
            \/ task'.status \in Transitions[task.status] \cup {"cancelled"}
         /\ task.status = "cancelled" => task'.status = "cancelled"
         /\ task'.status \notin Early
         /\ \A op \in Ops \cup {"none"} :
              task.status \in Reached(op) => task'.status \in Reached(op)
<1>0. task.status \in Status \ Early /\ "cancelled" \in Terminal /\ "cancelled" \notin Early
  BY DEF IndInv, TypeOK, Metas, Early, Terminal
<1>1. CASE UNCHANGED task
  BY <1>0, <1>1
<1>2. ASSUME NEW m \in Members, PutTaskMeta(m), req[m].live, task' = req[m].meta
      PROVE  StatusLane(Class(m), task.status, task'.status) /\ task'.status \in Status
  BY <1>2 DEF IndInv, TypeOK, Reqs, Metas, VettedCommit, PutTaskMeta, Guard
<1>3. ASSUME NEW c \in Cancels, CancelPut(c), task' = cancel[c].meta
      PROVE  task'.status = "cancelled"
  BY <1>3 DEF IndInv, ReasonMeansCancelled, CancelPut
<1>. QED BY <1>0, <1>1, <1>2, <1>3, TaskWriters, LaneFacts, CancelledReached DEF IndInv

(***************************************************************************)
(* The parts of IndInv, one by one.                                        *)
(***************************************************************************)
LEMMA VettedStep ==
  ASSUME IndInv, [Next]_vars
  PROVE  VettedCommit' /\ MergedCommit'
<1>. DEFINE V(m) == req[m].obj = "task" /\ req[m].st = "guarded" /\ req[m].live =>
                      Guard(Class(m), task, req[m].meta)
            G(m) == InFlight(m) /\ req[m].live => Merge(req[m].meta, task) = req[m].meta
<1>. SUFFICES ASSUME NEW m \in Members PROVE V(m)' /\ G(m)'
  BY DEF VettedCommit, MergedCommit
<1>0. TypeOK /\ V(m) /\ G(m)
  BY DEF IndInv, VettedCommit, MergedCommit
<1>1. CASE UNCHANGED <<task, req>>
  BY <1>0, <1>1 DEF InFlight
<1>2. ASSUME NEW x \in Members, SendProject(x) PROVE V(m)' /\ G(m)'
  <2>1. CASE m = x
    BY <1>0, <1>2, <2>1 DEF SendProject, InFlight, TypeOK, NoReq
  <2>2. CASE m # x
    BY <1>0, <1>2, <2>2 DEF SendProject, InFlight, TypeOK
  <2>. QED BY <2>1, <2>2
<1>3. ASSUME NEW x \in Members, SendTask(x) PROVE V(m)' /\ G(m)'
  <2>1. CASE m = x
    <3>1. req'[m].st = "sent" /\ req'[m].meta = Merge(call[m].meta, task) /\ task' = task
      BY <1>0, <1>3, <2>1 DEF SendTask, TypeOK, NoReq
    <3>2. call[m].meta \in Metas /\ task \in Metas
      BY <1>0 DEF TypeOK, Calls
    <3>3. Merge(Merge(call[m].meta, task), task) = Merge(call[m].meta, task)
      BY <3>2 DEF Merge, Metas
    <3>. QED BY <3>1, <3>3
  <2>2. CASE m # x
    BY <1>0, <1>3, <2>2 DEF SendTask, InFlight, TypeOK
  <2>. QED BY <2>1, <2>2
<1>4. ASSUME NEW x \in Members,
             \/ ProjectAnswered(x) \/ TaskAnswered(x) \/ NetworkError(x) \/ Crash(x)
      PROVE  V(m)' /\ G(m)'
  <2>1. task' = task /\ (req' = req \/ req' = [req EXCEPT ![x] = NoReq])
    BY <1>4 DEF ProjectAnswered, TaskAnswered, NetworkError, Crash
  <2>2. req'[m] = req[m] \/ req'[m] = NoReq
    BY <1>0, <2>1 DEF TypeOK
  <2>. QED BY <1>0, <2>1, <2>2 DEF InFlight, NoReq
<1>5. ASSUME NEW x \in Members, PutProjectMeta(x) PROVE V(m)' /\ G(m)'
  <2>1. /\ req'[m].obj = req[m].obj /\ req'[m].meta = req[m].meta
        /\ req[m].obj = "task" => req'[m] = req[m]
    <3>1. req[m] \in Reqs /\ req[x].obj = "project"
      BY <1>0, <1>5 DEF TypeOK, PutProjectMeta
    <3>2. CASE req[x].live
      <4>1. req' = [Stale("project") EXCEPT ![x].st = "stat"]
        BY <1>5, <3>2 DEF PutProjectMeta
      <4>2. m # x => req'[m] = Stale("project")[m]
        BY <1>0, <4>1, StaleTypes
      <4>3. m = x => req'[m].obj = Stale("project")[m].obj /\ req'[m].meta = Stale("project")[m].meta
        BY <1>0, <4>1, StaleTypes DEF Reqs
      <4>. QED BY <1>0, <3>1, <4>2, <4>3, StaleFacts
    <3>3. CASE ~req[x].live
      BY <1>0, <1>5, <3>1, <3>3 DEF PutProjectMeta, TypeOK, Reqs
    <3>. QED BY <3>2, <3>3
  <2>. QED BY <1>0, <1>5, <2>1 DEF InFlight, PutProjectMeta
<1>6. ASSUME NEW x \in Members, GuardTaskMeta(x) PROVE V(m)' /\ G(m)'
  <2>1. CASE m = x
    BY <1>0, <1>6, <2>1 DEF GuardTaskMeta, InFlight, TypeOK, Reqs
  <2>2. CASE m # x
    BY <1>0, <1>6, <2>2 DEF GuardTaskMeta, InFlight, TypeOK
  <2>. QED BY <2>1, <2>2
<1>7. ASSUME NEW x \in Members, PutTaskMeta(x) PROVE V(m)' /\ G(m)'
  <2>1. CASE req[x].live
    <3>1. m # x => (req'[m].live => req[m].obj # "task") /\ req'[m].obj = req[m].obj
      <4>1. req' = [Stale("task") EXCEPT ![x].st = "stat"]
        BY <1>7, <2>1 DEF PutTaskMeta
      <4>2. m # x => req'[m] = Stale("task")[m]
        BY <1>0, <4>1, StaleTypes
      <4>. QED BY <1>0, <4>2, StaleFacts
    <3>2. m = x => req'[m].st = "stat"
      BY <1>0, <1>7, <2>1, StaleTypes DEF PutTaskMeta, TypeOK, Reqs
    <3>. QED BY <3>1, <3>2 DEF InFlight
  <2>2. CASE ~req[x].live
    <3>1. task' = task /\ (m # x => req'[m] = req[m]) /\ (m = x => req'[m].st = "conflict")
      BY <1>0, <1>7, <2>2 DEF PutTaskMeta, TypeOK, Reqs
    <3>. QED BY <1>0, <3>1 DEF InFlight
  <2>. QED BY <2>1, <2>2
<1>8. ASSUME NEW x \in Members, StatMeta(x) PROVE V(m)' /\ G(m)'
  <2>1. CASE m = x
    BY <1>0, <1>8, <2>1 DEF StatMeta, InFlight, TypeOK, NoReq
  <2>2. CASE m # x
    BY <1>0, <1>8, <2>2 DEF StatMeta, InFlight, TypeOK
  <2>. QED BY <2>1, <2>2
<1>9. ASSUME NEW c \in Cancels, CancelAudit(c) \/ CancelNode(c) PROVE V(m)' /\ G(m)'
  <2>1. task' = task /\ (req' = req \/ req' = Stale("project"))
    BY <1>9 DEF CancelAudit, CancelNode
  <2>2. (req[m].obj = "task" => req'[m] = req[m]) /\ req'[m].obj = req[m].obj
    BY <1>0, <2>1, StaleFacts
  <2>. QED BY <1>0, <2>1, <2>2 DEF InFlight
<1>10. ASSUME NEW c \in Cancels, CancelPut(c) PROVE V(m)' /\ G(m)'
  <2>1. (req'[m].live => req[m].obj # "task") /\ req'[m].obj = req[m].obj
    BY <1>0, <1>10, StaleFacts DEF CancelPut
  <2>. QED BY <2>1 DEF InFlight
<1>11. ASSUME NEW x \in Members, Load(x) PROVE UNCHANGED <<task, req>>
  BY <1>11 DEF Load
<1>. HIDE DEF V, G
<1>. QED BY <1>1, <1>2, <1>3, <1>4, <1>5, <1>6, <1>7, <1>8, <1>9, <1>10, <1>11
         DEF Next, vars, MemberStep, ServerStep, CancelStep, Begin, PushFailed, CancelBegin,
             CancelLoad, CancelCrash

(***************************************************************************)
(* How a call goes on, field by field.                                     *)
(***************************************************************************)
LEMMA CallFacts ==
  ASSUME TypeOK, NEW m \in Members
  PROVE  /\ \A a : Return(m, a) =>
              /\ call'[m].pc = "idle" /\ call'[m].op = call[m].op
              /\ call'[m].meta = InitMeta /\ call'[m].res = a
         /\ \A s, t : ToProject(m, s, t) =>
              /\ call'[m].pc = "readP" /\ call'[m].op = call[m].op
              /\ call'[m].meta = t /\ call'[m].res = "none"
         /\ \A t : ToTask(m, t) =>
              /\ call'[m].pc = "readT" /\ call'[m].op = call[m].op
              /\ call'[m].meta = t /\ call'[m].res = "none"
BY ZenonT(60) DEF TypeOK, Return, ToProject, ToTask, IdleCall

(***************************************************************************)
(* A sync that is repeated or given up keeps the local copy, or drops it.  *)
(***************************************************************************)
Continues(m) ==
  /\ call'[m].op = call[m].op
  /\ call'[m].res = "ok" => call[m].res = "ok"
  /\ \/ call'[m].pc = "idle" /\ call'[m].meta = InitMeta
     \/ call'[m].pc \in {"readP", "readT"} /\ call'[m].meta = call[m].meta

\* A failed attempt is repeated on the same body or ends the call.
LEMMA RetryFacts ==
  ASSUME TypeOK, NEW m \in Members,
         Retry(m) \/ SyncFailed(m) \/ NotSynced(m) \/ Return(m, "failed")
  PROVE  Continues(m)
<1>1. CASE Return(m, "failed")
  BY <1>1, CallFacts DEF Continues
<1>2. CASE NotSynced(m)
  BY <1>2, CallFacts DEF Continues, NotSynced
<1>3. CASE SyncFailed(m)
  BY <1>2, <1>3, CallFacts DEF Continues, SyncFailed
<1>4. CASE Retry(m) /\ call[m].attempt # MaxAttempts
  BY <1>4 DEF Retry, TypeOK, Calls, Continues
<1>. QED BY <1>1, <1>2, <1>3, <1>4 DEF Retry

(***************************************************************************)
(* A step of the others leaves a member's call alone, and of its request   *)
(* at most the ETag.                                                       *)
(***************************************************************************)
Others(m) ==
  /\ call'[m] = call[m]
  /\ req'[m].obj = req[m].obj
  /\ req'[m].st = req[m].st
  /\ req'[m].meta = req[m].meta

\* A step of one member leaves the calls and requests of the others alone.
LEMMA MemberFrame ==
  ASSUME TypeOK, NEW x \in Members, NEW m \in Members, m # x,
         \/ \E op \in Ops, result \in Results \cup {"none"} : Begin(x, op, result)
         \/ MemberStep(x)
         \/ ServerStep(x)
         \/ PushFailed(x) \/ NetworkError(x) \/ Crash(x)
  PROVE  Others(m)
<1>1. ASSUME NEW f \in {call, req}, NEW v PROVE [f EXCEPT ![x] = v][m] = f[m]
  BY DEF TypeOK
<1>2. /\ \A a : Return(x, a) => call'[m] = call[m]
      /\ \A s, t : ToProject(x, s, t) => call'[m] = call[m]
      /\ \A t : ToTask(x, t) => call'[m] = call[m]
  BY <1>1 DEF Return, ToProject, ToTask
<1>3. (NotSynced(x) \/ SyncFailed(x)) => call'[m] = call[m]
  BY <1>2 DEF NotSynced, SyncFailed
<1>4. Retry(x) => call'[m] = call[m]
  BY <1>3 DEF Retry, TypeOK
<1>5. CASE \E op \in Ops, result \in Results \cup {"none"} : Begin(x, op, result)
  BY <1>5 DEF Begin, Others, TypeOK
<1>6. CASE Load(x)
  <2>1. call'[m] = call[m]
    BY <1>2, <1>6 DEF Load, LoadAck, LoadSubmit, LoadProgress, LoadCancel, LoadAccept
  <2>. QED BY <1>6, <2>1 DEF Load, Others
<1>7. CASE SendProject(x) \/ SendTask(x)
  BY <1>7 DEF SendProject, SendTask, Others, TypeOK
<1>8. CASE ProjectAnswered(x) \/ TaskAnswered(x)
  <2>1. call'[m] = call[m]
    BY <1>2, <1>3, <1>4, <1>8 DEF ProjectAnswered, TaskAnswered
  <2>. QED BY <1>8, <2>1 DEF ProjectAnswered, TaskAnswered, Others, TypeOK
<1>9. CASE PushFailed(x) \/ NetworkError(x) \/ Crash(x)
  <2>1. call'[m] = call[m]
    BY <1>2, <1>3, <1>4, <1>9 DEF PushFailed, NetworkError, Crash
  <2>. QED BY <1>9, <2>1 DEF PushFailed, NetworkError, Crash, Others, TypeOK
<1>10. CASE PutProjectMeta(x) \/ PutTaskMeta(x)
  <2>1. \/ req' = [req EXCEPT ![x].st = "conflict"]
        \/ \E obj : req' = [Stale(obj) EXCEPT ![x].st = "stat"]
    BY <1>10 DEF PutProjectMeta, PutTaskMeta
  <2>2. req'[m] = req[m] \/ \E obj : req'[m] = Stale(obj)[m]
    BY <2>1, StaleTypes DEF TypeOK
  <2>. QED BY <1>10, <2>2, StaleFacts DEF PutProjectMeta, PutTaskMeta, Others
<1>11. CASE GuardTaskMeta(x) \/ StatMeta(x)
  BY <1>11 DEF GuardTaskMeta, StatMeta, Others, TypeOK
<1>. QED BY <1>5, <1>6, <1>7, <1>8, <1>9, <1>10, <1>11 DEF MemberStep, ServerStep

\* A step of the console leaves the calls of the members alone.
LEMMA ConsoleFrame ==
  ASSUME TypeOK, NEW c \in Cancels, CancelBegin(c) \/ CancelStep(c) \/ CancelCrash(c),
         NEW m \in Members
  PROVE  Others(m)
<1>1. call' = call /\ (req' = req \/ \E obj : req' = Stale(obj))
  BY DEF CancelBegin, CancelStep, CancelCrash, CancelLoad, CancelAudit, CancelNode, CancelPut
<1>. QED BY <1>1, StaleFacts DEF Others

(***************************************************************************)
(* What a member's own step does to its request and to the phase.          *)
(***************************************************************************)
LEMMA OwnRequestStep ==
  ASSUME IndInv, [Next]_vars
  PROVE  OwnRequest'
<1>. DEFINE O(m) == /\ call[m].pc = "waitP" => req[m].obj = "project"
                    /\ call[m].pc = "waitT" =>
                         req[m].obj = "task" /\ (InFlight(m) => req[m].meta = call[m].meta)
                    /\ req[m].st = "refused" => req[m].obj = "task"
<1>. SUFFICES ASSUME NEW m \in Members PROVE O(m)'
  BY DEF OwnRequest
<1>0. TypeOK /\ O(m)
  BY DEF IndInv, OwnRequest
<1>1. ASSUME Others(m) PROVE O(m)'
  BY <1>0, <1>1 DEF Others, InFlight
<1>2. CASE \E op \in Ops, result \in Results \cup {"none"} : Begin(m, op, result)
  BY <1>0, <1>2 DEF Begin, TypeOK, IdleCall, InFlight
<1>3. CASE Load(m)
  <2>1. call'[m].pc \in {"idle", "readP", "readT"}
    BY <1>0, <1>3, CallFacts
       DEF Load, LoadAck, LoadSubmit, LoadProgress, LoadCancel, LoadAccept
  <2>. QED BY <1>0, <1>3, <2>1 DEF Load
<1>4. CASE SendProject(m)
  BY <1>0, <1>4 DEF SendProject, TypeOK, NoReq, Calls, InFlight
<1>5. CASE SendTask(m)
  BY <1>0, <1>5 DEF SendTask, TypeOK, NoReq, Calls, InFlight
<1>6. ASSUME call'[m].pc \in {"idle", "readP", "readT"}, req'[m] = NoReq \/ req'[m] = req[m]
      PROVE  O(m)'
  BY <1>0, <1>6 DEF NoReq
<1>7. CASE ProjectAnswered(m) \/ TaskAnswered(m)
  <2>1. call'[m].pc \in {"idle", "readP", "readT"}
    BY <1>0, <1>7, CallFacts, RetryFacts DEF ProjectAnswered, TaskAnswered, Continues
  <2>2. req'[m] = NoReq
    BY <1>0, <1>7 DEF ProjectAnswered, TaskAnswered, TypeOK
  <2>. QED BY <1>6, <2>1, <2>2
<1>8. CASE PushFailed(m) \/ NetworkError(m) \/ Crash(m)
  <2>1. call'[m].pc \in {"idle", "readP", "readT"}
    BY <1>0, <1>8, RetryFacts DEF PushFailed, NetworkError, Crash, Continues
  <2>2. req'[m] = NoReq \/ req'[m] = req[m]
    BY <1>0, <1>8 DEF PushFailed, NetworkError, Crash, TypeOK
  <2>. QED BY <1>6, <2>1, <2>2
<1>9. CASE PutProjectMeta(m) \/ PutTaskMeta(m)
  <2>1. \/ req' = [req EXCEPT ![m].st = "conflict"]
        \/ \E obj : req' = [Stale(obj) EXCEPT ![m].st = "stat"]
    BY <1>9 DEF PutProjectMeta, PutTaskMeta
  <2>2. req'[m].obj = req[m].obj /\ req'[m].st \in {"conflict", "stat"}
    <3>1. CASE req' = [req EXCEPT ![m].st = "conflict"]
      BY <1>0, <3>1 DEF TypeOK, Reqs
    <3>2. ASSUME NEW obj, req' = [Stale(obj) EXCEPT ![m].st = "stat"]
          PROVE  req'[m].obj = req[m].obj /\ req'[m].st \in {"conflict", "stat"}
      BY <1>0, <3>2, StaleTypes, StaleFacts DEF Reqs
    <3>. QED BY <2>1, <3>1, <3>2
  <2>3. call' = call
    BY <1>9 DEF PutProjectMeta, PutTaskMeta
  <2>. QED BY <1>0, <2>2, <2>3 DEF InFlight
<1>10. CASE GuardTaskMeta(m)
  BY <1>0, <1>10 DEF GuardTaskMeta, TypeOK, Reqs, InFlight
<1>11. CASE StatMeta(m)
  BY <1>0, <1>11 DEF StatMeta, TypeOK, NoReq, InFlight
<1>12. CASE UNCHANGED vars
  BY <1>0, <1>12 DEF vars, InFlight
<1>. HIDE DEF O
<1>. QED BY <1>0, <1>1, <1>2, <1>3, <1>4, <1>5, <1>7, <1>8, <1>9, <1>10, <1>11, <1>12,
            MemberFrame, ConsoleFrame DEF Next, MemberStep, ServerStep

(***************************************************************************)
(* The local copy an action starts its syncs with.                         *)
(***************************************************************************)
LEMMA LoadFacts ==
  ASSUME IndInv, NEW m \in Members, Load(m)
  PROVE  /\ call'[m].op = call[m].op
         /\ call'[m].res # "ok"
         /\ \/ call'[m].pc = "idle" /\ call'[m].meta = InitMeta
            \/ /\ call'[m].pc \in {"readP", "readT"}
               /\ call'[m].meta.status \in Reached(call[m].op)
               /\ \/ call'[m].meta.reason = task.reason
                  \/ call'[m].meta.status = "cancelled"
<1>0. TypeOK /\ task \in Metas /\ (task.reason # NoOne => task.status = "cancelled")
  BY DEF IndInv, TypeOK, ReasonMeansCancelled
<1>1. CASE LoadAck(m)
  <2>. DEFINE t == [task EXCEPT !.status = "in_progress"]
  <2>1. t.status = "in_progress" /\ t.reason = task.reason
    BY <1>0 DEF Metas
  <2>2. {"in_progress", "submitted"} \subseteq Reached(call[m].op)
    BY <1>1 DEF LoadAck, Reached
  <2>3. \/ ToProject(m, "in_progress", t)
        \/ task.status = "submitted" /\ ToTask(m, task)
        \/ Return(m, "rejected")
    BY <1>1 DEF LoadAck
  <2>. HIDE DEF t
  <2>. QED BY <1>0, <2>1, <2>2, <2>3, CallFacts
<1>2. CASE LoadSubmit(m)
  <2>. DEFINE t == [task EXCEPT !.status = "submitted", !.cont = "pending",
                                !.sub = subs + 1, !.result = call[m].result]
  <2>1. t.status = "submitted" /\ t.reason = task.reason
    BY <1>0 DEF Metas
  <2>2. \/ ToProject(m, "submitted", t)
        \/ task.status = "submitted" /\ ToProject(m, "submitted", task)
        \/ Return(m, "rejected")
    BY <1>2 DEF LoadSubmit
  <2>3. "submitted" \in Reached(call[m].op)
    BY <1>2 DEF LoadSubmit, Reached
  <2>. HIDE DEF t
  <2>. QED BY <1>0, <2>1, <2>2, <2>3, CallFacts
<1>3. CASE LoadProgress(m)
  <2>1. task.status \in Reached(call[m].op)
    BY <1>0, <1>3 DEF LoadProgress, Reached, Metas
  <2>. QED BY <1>0, <1>3, <2>1, CallFacts DEF LoadProgress
<1>4. CASE LoadCancel(m)
  <2>. DEFINE t == Resolve([task EXCEPT !.status = "cancelled", !.reason = Leader], "cancelled")
  <2>1. t.status = "cancelled"
    BY <1>0 DEF Metas, Resolve
  <2>2. \/ ToProject(m, "cancelled", t)
        \/ task.reason = Leader /\ ToProject(m, "cancelled", task)
        \/ Return(m, "rejected")
    BY <1>4 DEF LoadCancel
  <2>3. "cancelled" \in Reached(call[m].op) /\ Leader # NoOne
    BY <1>4, NamesAssumption DEF LoadCancel, Reached
  <2>. HIDE DEF t
  <2>. QED BY <1>0, <2>1, <2>2, <2>3, CallFacts
<1>5. CASE LoadAccept(m)
  <2>. DEFINE d == Decided(call[m].op, task.result)
              t == Resolve([task EXCEPT !.status = d], d)
  <2>1. t.status = d /\ t.reason = task.reason
    BY <1>0 DEF Metas, Resolve
  <2>2. \/ task.result # "none" /\ ToProject(m, d, t)
        \/ Return(m, "rejected")
    BY <1>5 DEF LoadAccept
  <2>3. ASSUME task.result # "none" PROVE d \in Reached(call[m].op)
    <3>1. Outcome[task.result] \in Decision
      BY <1>0, <2>3, ResultsAssumption DEF Metas
    <3>. QED BY <1>5, <3>1 DEF Decided, Decision, Reached, LoadAccept, Terminal
  <2>. HIDE DEF d, t
  <2>. QED BY <1>0, <2>1, <2>2, <2>3, CallFacts
<1>. QED BY <1>1, <1>2, <1>3, <1>4, <1>5 DEF Load

(***************************************************************************)
(* The local copies stay at or past what their tools report.               *)
(***************************************************************************)
LEMMA LocalReachedStep ==
  ASSUME IndInv, [Next]_vars
  PROVE  LocalReached'
<1>. DEFINE A(m) == call[m].pc \in {"readP", "waitP", "readT", "waitT"} =>
                      call[m].meta.status \in Reached(call[m].op)
            B(m) == call[m].pc = "waitT" /\ req[m].st \in {"stat", "done"} =>
                      task.status \in Reached(call[m].op)
            C(m) == call[m].res = "ok" => call[m].pc = "idle"
            L(m) == A(m) /\ B(m) /\ C(m)
<1>. SUFFICES ASSUME NEW m \in Members PROVE L(m)'
  BY DEF LocalReached
<1>0. TypeOK /\ L(m) /\ call[m].op \in Ops \cup {"none"}
  BY DEF IndInv, LocalReached, TypeOK, Calls
<1>1. task.status \in Reached(call[m].op) => task'.status \in Reached(call[m].op)
  BY <1>0, StatusMoves
<1>2. ASSUME Others(m) PROVE L(m)'
  BY <1>0, <1>1, <1>2 DEF Others
<1>3. CASE \E op \in Ops, result \in Results \cup {"none"} : Begin(m, op, result)
  BY <1>0, <1>3 DEF Begin, TypeOK, IdleCall
<1>4. CASE Load(m)
  BY <1>4, LoadFacts
<1>5. CASE SendProject(m)
  <2>1. /\ call'[m].pc = "waitP" /\ call'[m].op = call[m].op
        /\ call'[m].meta = call[m].meta /\ call'[m].res = call[m].res
    BY <1>0, <1>5 DEF SendProject, TypeOK, Calls
  <2>. QED BY <1>0, <1>5, <2>1 DEF SendProject
<1>6. CASE SendTask(m)
  <2>1. /\ call'[m].pc = "waitT" /\ call'[m].op = call[m].op
        /\ call'[m].meta = Merge(call[m].meta, task) /\ call'[m].res = call[m].res
        /\ req'[m].st = "sent"
    BY <1>0, <1>6 DEF SendTask, TypeOK, Calls, NoReq
  <2>2. Merge(call[m].meta, task).status \in {call[m].meta.status, "cancelled"}
    BY <1>0 DEF Merge, TypeOK, Calls, Metas
  <2>. QED BY <1>0, <1>6, <2>1, <2>2, CancelledReached DEF SendTask
<1>7. ASSUME Continues(m), call[m].pc \in {"readP", "waitP", "readT", "waitT"} PROVE L(m)'
  BY <1>0, <1>7 DEF Continues
<1>8. CASE ProjectAnswered(m)
  <2>1. CASE ToTask(m, call[m].meta)
    BY <1>0, <1>8, <2>1, CallFacts DEF ProjectAnswered
  <2>2. CASE Retry(m)
    BY <1>0, <1>7, <1>8, <2>2, RetryFacts DEF ProjectAnswered
  <2>. QED BY <1>8, <2>1, <2>2 DEF ProjectAnswered
<1>9. CASE TaskAnswered(m)
  <2>1. CASE Return(m, "ok")
    BY <1>0, <2>1, CallFacts
  <2>2. CASE Retry(m) \/ NotSynced(m)
    BY <1>0, <1>7, <1>9, <2>2, RetryFacts DEF TaskAnswered
  <2>. QED BY <1>9, <2>1, <2>2 DEF TaskAnswered
<1>10. CASE PushFailed(m) \/ NetworkError(m)
  BY <1>0, <1>7, <1>10, RetryFacts DEF PushFailed, NetworkError
<1>11. CASE Crash(m)
  BY <1>0, <1>11, CallFacts DEF Crash
<1>12. CASE PutProjectMeta(m)
  <2>1. call' = call /\ call[m].pc # "waitT"
    BY <1>12 DEF PutProjectMeta, IndInv, OwnRequest
  <2>. QED BY <1>0, <2>1
<1>13. CASE GuardTaskMeta(m)
  BY <1>0, <1>13 DEF GuardTaskMeta, TypeOK, Reqs
<1>14. CASE PutTaskMeta(m)
  <2>1. CASE req[m].live
    <3>1. task' = req[m].meta /\ call' = call
      BY <1>14, <2>1 DEF PutTaskMeta
    <3>2. call[m].pc = "waitT" => req[m].meta = call[m].meta
      BY <1>14 DEF PutTaskMeta, IndInv, OwnRequest, InFlight
    <3>. QED BY <1>0, <3>1, <3>2
  <2>2. CASE ~req[m].live
    <3>1. req'[m].st = "conflict" /\ call' = call
      BY <1>0, <1>14, <2>2 DEF PutTaskMeta, TypeOK, Reqs
    <3>. QED BY <1>0, <3>1
  <2>. QED BY <2>1, <2>2
<1>15. CASE StatMeta(m)
  BY <1>0, <1>15 DEF StatMeta
<1>16. CASE UNCHANGED vars
  BY <1>0, <1>16 DEF vars
<1>. HIDE DEF A, B, C
<1>. QED BY <1>0, <1>2, <1>3, <1>4, <1>5, <1>6, <1>8, <1>9, <1>10, <1>11, <1>12, <1>13, <1>14,
            <1>15, <1>16, MemberFrame, ConsoleFrame DEF Next, MemberStep, ServerStep

(***************************************************************************)
(* A console request keeps the body it has prepared.                       *)
(***************************************************************************)
LEMMA CancelBodies ==
  ASSUME IndInv, [Next]_vars, NEW c \in Cancels
  PROVE  /\ cancel'[c].pc \in {"node", "task"} => cancel'[c].meta.status = "cancelled"
         /\ cancel'[c].res = "ok" => cancel[c].res = "ok" \/ task'.status = "cancelled"
<1>. DEFINE P == /\ cancel'[c].pc \in {"node", "task"} => cancel'[c].meta.status = "cancelled"
                 /\ cancel'[c].res = "ok" => cancel[c].res = "ok" \/ task'.status = "cancelled"
            Kept == /\ cancel'[c].pc = cancel[c].pc /\ cancel'[c].meta = cancel[c].meta
                    /\ cancel'[c].res = cancel[c].res
<1>. SUFFICES P
  OBVIOUS
<1>0. /\ TypeOK /\ cancel[c] \in CancelRecs
      /\ cancel[c].pc \in {"node", "task"} => cancel[c].meta.status = "cancelled"
  BY DEF IndInv, ReasonMeansCancelled, TypeOK
<1>1. CASE Kept
  BY <1>0, <1>1
<1>2. StaleCancels[c].pc = cancel[c].pc /\ StaleCancels[c].meta = cancel[c].meta
      /\ StaleCancels[c].res = cancel[c].res
  BY <1>0 DEF StaleCancels, TypeOK, CancelRecs
<1>3. \A a : CancelReturn(c, a) => cancel'[c].pc = "idle" /\ cancel'[c].res = a
  BY <1>0 DEF CancelReturn, TypeOK, IdleCancel
<1>4. ASSUME NEW x \in Members, PutProjectMeta(x) PROVE P
  BY <1>1, <1>2, <1>4 DEF PutProjectMeta
<1>5. CASE CancelBegin(c)
  BY <1>0, <1>5 DEF CancelBegin, TypeOK, IdleCancel
<1>6. CASE CancelLoad(c)
  <2>1. CASE CancelRefused(c)
    BY <1>0, <1>6, <2>1 DEF CancelLoad, TypeOK, IdleCancel
  <2>2. CASE ~CancelRefused(c) /\ FullyResolved(c)
    BY <1>3, <1>6, <2>2 DEF CancelLoad, FullyResolved
  <2>3. CASE ~CancelRefused(c) /\ ~FullyResolved(c)
    <3>. DEFINE t == Resolve([task EXCEPT !.status = "cancelled", !.reason = c], "cancelled")
    <3>1. t.status = "cancelled"
      BY <1>0 DEF TypeOK, Metas, Resolve
    <3>. HIDE DEF t
    <3>2. cancel' = [cancel EXCEPT ![c] =
            [IdleCancel EXCEPT
               !.pc = IF cancel[c].node.status = "cancelled" THEN "task" ELSE "node",
               !.live = cancel[c].live, !.want = cancel[c].want, !.meta = t]]
      BY <1>6, <2>3, Zenon DEF CancelLoad, t
    <3>3. cancel'[c].meta = t /\ cancel'[c].res = "none"
      BY <1>0, <3>2 DEF TypeOK, IdleCancel
    <3>. QED BY <3>1, <3>3
  <2>. QED BY <2>1, <2>2, <2>3
<1>7. CASE CancelAudit(c)
  <2>1. cancel'[c] = [IdleCancel EXCEPT !.res = "rejected"]
    BY <1>0, <1>7, StaleTypes DEF CancelAudit, CancelReturn, TypeOK
  <2>. QED BY <2>1 DEF IdleCancel
<1>8. CASE CancelNode(c)
  <2>1. CASE cancel[c].live
    <3>1. cancel' = [StaleCancels EXCEPT ![c].pc = "task"]
      BY <1>8, <2>1 DEF CancelNode
    <3>2. cancel'[c].meta = cancel[c].meta /\ cancel'[c].res = cancel[c].res
      BY <1>0, <1>2, <3>1, StaleTypes DEF CancelRecs
    <3>. QED BY <1>0, <1>8, <3>2 DEF CancelNode
  <2>2. CASE ~cancel[c].live
    BY <1>3, <1>8, <2>2 DEF CancelNode
  <2>. QED BY <2>1, <2>2
<1>9. CASE CancelPut(c)
  BY <1>0, <1>3, <1>9 DEF CancelPut
<1>10. CASE CancelCrash(c)
  BY <1>3, <1>10 DEF CancelCrash
<1>11. ASSUME NEW x \in Cancels, x # c, CancelBegin(x) \/ CancelStep(x) \/ CancelCrash(x)
       PROVE  Kept
  <2>1. \/ \E v : cancel' = [cancel EXCEPT ![x] = v]
        \/ \E v : cancel' = [StaleCancels EXCEPT ![x] = v]
    BY <1>11 DEF CancelBegin, CancelStep, CancelLoad, CancelAudit, CancelNode, CancelPut,
                 CancelCrash, CancelReturn
  <2>2. cancel'[c] = cancel[c] \/ cancel'[c] = StaleCancels[c]
    BY <1>0, <1>11, <2>1, StaleTypes DEF TypeOK
  <2>. QED BY <1>2, <2>2
<1>12. CASE UNCHANGED cancel
  BY <1>1, <1>12
<1>13. ASSUME NEW x \in Members, Load(x) PROVE UNCHANGED cancel
  BY <1>13 DEF Load
<1>. HIDE DEF P, Kept
<1>. QED BY <1>1, <1>4, <1>5, <1>6, <1>7, <1>8, <1>9, <1>10, <1>11, <1>12, <1>13
         DEF Next, vars, MemberStep, ServerStep, CancelStep, Begin, SendProject,
             ProjectAnswered, SendTask, TaskAnswered, GuardTaskMeta, PutTaskMeta, StatMeta,
             PushFailed, NetworkError, Crash

(***************************************************************************)
(* Only cancelled tasks have a cancel reason.                              *)
(***************************************************************************)
LEMMA ReasonStep ==
  ASSUME IndInv, [Next]_vars
  PROVE  ReasonMeansCancelled'
<1>0. /\ TypeOK /\ task \in Metas
      /\ task.reason # NoOne => task.status = "cancelled"
      /\ task.status = "cancelled" => task'.status = "cancelled"
  BY StatusMoves DEF IndInv, ReasonMeansCancelled, TypeOK
<1>1. task'.reason # NoOne => task'.status = "cancelled"
  <2>1. ASSUME NEW m \in Members, PutTaskMeta(m), task' = req[m].meta
        PROVE  task'.reason # NoOne => task'.status = "cancelled"
    BY <2>1 DEF PutTaskMeta, InFlight, IndInv, ReasonMeansCancelled
  <2>2. ASSUME NEW c \in Cancels, CancelPut(c), task' = cancel[c].meta
        PROVE  task'.status = "cancelled"
    BY <2>2 DEF CancelPut, IndInv, ReasonMeansCancelled
  <2>. QED BY <1>0, <2>1, <2>2, TaskWriters
<1>2. ASSUME NEW m \in Members
      PROVE  /\ call'[m].meta.reason # NoOne /\ call'[m].meta.status # "cancelled" =>
                  task'.status = "cancelled"
             /\ InFlight(m)' /\ req'[m].meta.reason # NoOne =>
                  req'[m].meta.status = "cancelled"
  <2>. DEFINE X(t) == t.reason # NoOne /\ t.status # "cancelled" => task'.status = "cancelled"
              Y == InFlight(m)' /\ req'[m].meta.reason # NoOne =>
                     req'[m].meta.status = "cancelled"
              R == X(call'[m].meta) /\ Y
  <2>. SUFFICES R
    OBVIOUS
  <2>0. /\ X(call[m].meta) /\ X(InitMeta) /\ X(task)
        /\ InFlight(m) /\ req[m].meta.reason # NoOne => req[m].meta.status = "cancelled"
    BY <1>0 DEF IndInv, ReasonMeansCancelled, InitMeta
  <2>1. ASSUME call'[m].meta \in {call[m].meta, InitMeta}, ~InFlight(m)' \/ req' = req PROVE R
    BY <2>0, <2>1 DEF InFlight
  <2>2. CASE Others(m)
    BY <2>0, <2>2 DEF Others, InFlight
  <2>3. CASE \E op \in Ops, result \in Results \cup {"none"} : Begin(m, op, result)
    BY <1>0, <2>1, <2>3 DEF Begin, TypeOK, IdleCall
  <2>4. CASE Load(m)
    <3>1. X(call'[m].meta)
      BY <1>0, <2>0, <2>4, LoadFacts
    <3>2. req' = req
      BY <2>4 DEF Load
    <3>. QED BY <2>0, <3>1, <3>2 DEF InFlight
  <2>5. CASE SendProject(m)
    <3>1. call'[m].meta = call[m].meta /\ req'[m].obj = "project"
      BY <1>0, <2>5 DEF SendProject, TypeOK, Calls, NoReq
    <3>. QED BY <2>1, <3>1 DEF InFlight
  <2>6. CASE SendTask(m)
    <3>. DEFINE t == Merge(call[m].meta, task)
    <3>1. t.reason # NoOne => t.status = "cancelled"
      BY <1>0 DEF IndInv, ReasonMeansCancelled, Merge, TypeOK, Calls, Metas
    <3>2. call'[m].meta = t /\ req'[m].meta = t
      BY <1>0, <2>6 DEF SendTask, TypeOK, Calls, NoReq
    <3>. QED BY <3>1, <3>2
  <2>7. ASSUME \/ Retry(m) \/ SyncFailed(m) \/ NotSynced(m)
               \/ (\E a : Return(m, a)) \/ ToTask(m, call[m].meta)
        PROVE  call'[m].meta \in {call[m].meta, InitMeta}
    BY <1>0, <2>7, RetryFacts, CallFacts DEF Continues
  <2>8. CASE ProjectAnswered(m) \/ TaskAnswered(m)
    <3>1. req'[m] = NoReq
      BY <1>0, <2>8 DEF ProjectAnswered, TaskAnswered, TypeOK
    <3>2. call'[m].meta \in {call[m].meta, InitMeta}
      BY <2>7, <2>8 DEF ProjectAnswered, TaskAnswered
    <3>. QED BY <2>1, <3>1, <3>2 DEF InFlight, NoReq
  <2>9. CASE PushFailed(m) \/ NetworkError(m) \/ Crash(m)
    <3>1. req'[m] = NoReq \/ req' = req
      BY <1>0, <2>9 DEF PushFailed, NetworkError, Crash, TypeOK
    <3>2. call'[m].meta \in {call[m].meta, InitMeta}
      BY <2>7, <2>9 DEF PushFailed, NetworkError, Crash
    <3>. QED BY <2>1, <3>1, <3>2 DEF InFlight, NoReq
  <2>10. CASE PutProjectMeta(m) \/ PutTaskMeta(m) \/ StatMeta(m)
    <3>1. req'[m].st \in {"conflict", "stat", "done"}
      <4>1. \/ req' = [req EXCEPT ![m].st = "conflict"]
            \/ \E obj : req' = [Stale(obj) EXCEPT ![m].st = "stat"]
            \/ \E obj : req' = [req EXCEPT ![m] =
                                 [NoReq EXCEPT !.obj = obj, !.st = "done", !.live = TRUE]]
        BY <2>10 DEF PutProjectMeta, PutTaskMeta, StatMeta
      <4>2. ASSUME NEW obj, req' = [Stale(obj) EXCEPT ![m].st = "stat"]
            PROVE  req'[m].st = "stat"
        BY <1>0, <4>2, StaleTypes DEF Reqs
      <4>. QED BY <1>0, <4>1, <4>2 DEF TypeOK, Reqs, NoReq
    <3>2. call' = call
      BY <2>10 DEF PutProjectMeta, PutTaskMeta, StatMeta
    <3>. QED BY <2>1, <3>1, <3>2 DEF InFlight
  <2>11. CASE GuardTaskMeta(m)
    <3>1. req'[m].meta = req[m].meta /\ call' = call /\ InFlight(m)
      BY <1>0, <2>11 DEF GuardTaskMeta, TypeOK, Reqs, InFlight
    <3>. QED BY <2>0, <3>1
  <2>12. CASE UNCHANGED vars
    BY <2>1, <2>12 DEF vars
  <2>. HIDE DEF R
  <2>. QED BY <1>0, <2>2, <2>3, <2>4, <2>5, <2>6, <2>8, <2>9, <2>10, <2>11, <2>12,
              MemberFrame, ConsoleFrame DEF Next, MemberStep, ServerStep
<1>. QED BY <1>1, <1>2, CancelBodies DEF ReasonMeansCancelled

(***************************************************************************)
(* A confirmed success stands.                                             *)
(***************************************************************************)
LEMMA SuccessStep ==
  ASSUME IndInv, [Next]_vars
  PROVE  SuccessStands'
<1>1. ASSUME NEW m \in Members, call'[m].res = "ok"
      PROVE  task'.status \in Reached(call'[m].op)
  <2>. DEFINE R == task'.status \in Reached(call'[m].op)
              Kept == call'[m].res = call[m].res /\ call'[m].op = call[m].op
  <2>. SUFFICES R
    OBVIOUS
  <2>0. /\ TypeOK /\ call[m].op \in Ops \cup {"none"}
        /\ call[m].res = "ok" => task.status \in Reached(call[m].op)
    BY DEF IndInv, SuccessStands, TypeOK, Calls
  <2>1. task.status \in Reached(call[m].op) => task'.status \in Reached(call[m].op)
    BY <2>0, StatusMoves
  <2>2. CASE Kept
    BY <1>1, <2>0, <2>1, <2>2
  <2>3. CASE Others(m) \/ UNCHANGED call
    BY <2>2, <2>3 DEF Others
  <2>4. CASE \E op \in Ops, result \in Results \cup {"none"} : Begin(m, op, result)
    BY <1>1, <2>0, <2>4 DEF Begin, TypeOK, IdleCall
  <2>5. CASE Load(m)
    BY <1>1, <2>5, LoadFacts
  <2>6. CASE SendProject(m) \/ SendTask(m)
    <3>1. CASE SendProject(m)
      BY <2>0, <2>2, <3>1 DEF SendProject, TypeOK, Calls
    <3>2. CASE SendTask(m)
      <4>1. Kept
        BY <2>0, <3>2 DEF SendTask, TypeOK, Calls
      <4>. QED BY <2>2, <4>1
    <3>. QED BY <2>6, <3>1, <3>2
  <2>7. CASE Retry(m) \/ SyncFailed(m) \/ NotSynced(m) \/ Return(m, "failed")
    BY <1>1, <2>0, <2>1, <2>7, RetryFacts DEF Continues
  <2>8. CASE ToTask(m, call[m].meta)
    BY <1>1, <2>0, <2>8, CallFacts
  <2>9. CASE TaskAnswered(m) /\ Return(m, "ok")
    <3>1. CASE req[m].st = "done"
      <4>1. task.status \in Reached(call[m].op) /\ task' = task
        BY <2>9, <3>1 DEF TaskAnswered, IndInv, LocalReached
      <4>. QED BY <2>0, <2>9, <4>1, CallFacts
    <3>2. CASE req[m].st # "done"
      <4>1. Retry(m) \/ NotSynced(m)
        BY <2>9, <3>2 DEF TaskAnswered
      <4>. QED BY <2>7, <4>1
    <3>. QED BY <3>1, <3>2
  <2>10. CASE ProjectAnswered(m) \/ TaskAnswered(m)
    BY <2>7, <2>8, <2>9, <2>10 DEF ProjectAnswered, TaskAnswered
  <2>11. CASE PushFailed(m) \/ NetworkError(m) \/ Crash(m)
    BY <2>7, <2>11 DEF PushFailed, NetworkError, Crash
  <2>12. CASE ServerStep(m)
    BY <2>3, <2>12 DEF ServerStep, PutProjectMeta, GuardTaskMeta, PutTaskMeta, StatMeta
  <2>. HIDE DEF R
  <2>. QED BY <2>0, <2>3, <2>4, <2>5, <2>6, <2>10, <2>11, <2>12, MemberFrame, ConsoleFrame
           DEF Next, MemberStep, vars
<1>2. ASSUME NEW c \in Cancels, cancel'[c].res = "ok" PROVE task'.status = "cancelled"
  <2>1. cancel[c].res = "ok" => task.status = "cancelled"
    BY DEF IndInv, SuccessStands
  <2>. QED BY <1>2, <2>1, CancelBodies, StatusMoves
<1>. QED BY <1>1, <1>2 DEF SuccessStands

-----------------------------------------------------------------------------
\* The invariant holds when the task was assigned.
LEMMA IndInvInit == Init => IndInv
<1>. SUFFICES ASSUME Init PROVE IndInv
  OBVIOUS
<1>1. TypeOK
  BY IdleTypes DEF Init, TypeOK
<1>2. task.status \notin {"planned", "prepared"} /\ task.reason = NoOne
  BY DEF Init, InitMeta
<1>3. ASSUME NEW m \in Members
      PROVE  /\ call[m].pc = "idle" /\ call[m].res = "none" /\ call[m].meta.reason = NoOne
             /\ req[m].obj = "none" /\ req[m].st = "none"
  BY DEF Init, IdleCall, NoReq, InitMeta
<1>4. ASSUME NEW c \in Cancels PROVE cancel[c].pc = "idle" /\ cancel[c].res = "none"
  BY DEF Init, IdleCancel
<1>. QED BY <1>1, <1>2, <1>3, <1>4
         DEF IndInv, VettedCommit, MergedCommit, OwnRequest, LocalReached,
             ReasonMeansCancelled, SuccessStands, InFlight

\* The invariant is inductive.
LEMMA IndInvStep == IndInv /\ [Next]_vars => IndInv'
<1>. SUFFICES ASSUME IndInv, [Next]_vars PROVE IndInv'
  OBVIOUS
<1>1. TypeOK'
  BY TypeStep DEF IndInv
<1>2. task'.status \notin {"planned", "prepared"}
  BY StatusMoves DEF Early
<1>. QED BY <1>1, <1>2, VettedStep, OwnRequestStep, LocalReachedStep, ReasonStep, SuccessStep
         DEF IndInv

(***************************************************************************)
(* The inductive invariant of the protocol.                                *)
(***************************************************************************)
THEOREM Inductive == Spec => []IndInv
BY IndInvInit, IndInvStep, PTL DEF Spec

(***************************************************************************)
(* PutTaskMeta's check and its write are two accesses to the store, and    *)
(* nothing gets between them unnoticed.                                    *)
(***************************************************************************)
THEOREM VettedCommits == Spec => []VettedCommit
<1>1. IndInv => VettedCommit
  BY DEF IndInv
<1>. QED BY <1>1, Inductive, PTL

(***************************************************************************)
(* What a tool or the console reported as done is never taken back.        *)
(***************************************************************************)
THEOREM SuccessIsFinal == Spec => []SuccessStands
<1>1. IndInv => SuccessStands
  BY DEF IndInv
<1>. QED BY <1>1, Inductive, PTL

(***************************************************************************)
(* The stored status follows the lifecycle contract, or is cancelled.      *)
(***************************************************************************)
THEOREM FollowsContract == Spec => ContractFollowed
<1>1. IndInv /\ [Next]_vars =>
        [task'.status # task.status =>
           task'.status \in Transitions[task.status] \cup {"cancelled"}]_task
  BY StatusMoves
<1>. QED BY <1>1, Inductive, PTL DEF Spec, ContractFollowed

(***************************************************************************)
(* A cancelled task stays cancelled, and members keep its reason (#1471).  *)
(***************************************************************************)
THEOREM StaysCancelled == Spec => CancelledForever
<1>. DEFINE A == /\ task.status = "cancelled" => task'.status = "cancelled"
                 /\ \A m \in Members :
                      PutTaskMeta(m) /\ task.status = "cancelled" /\ task.reason # NoOne =>
                        task'.reason = task.reason
<1>1. ASSUME IndInv, [Next]_vars PROVE A
  <2>1. ASSUME NEW m \in Members, PutTaskMeta(m), task.status = "cancelled",
               task.reason # NoOne
        PROVE  task'.reason = task.reason
    <3>1. CASE req[m].live
      <4>1. CancellationKept(task, req[m].meta) /\ task' = req[m].meta
        BY <1>1, <2>1, <3>1 DEF IndInv, VettedCommit, Guard, PutTaskMeta
      <4>. QED BY <2>1, <4>1 DEF CancellationKept
    <3>2. CASE ~req[m].live
      BY <2>1, <3>2 DEF PutTaskMeta
    <3>. QED BY <3>1, <3>2
  <2>. QED BY <1>1, <2>1, StatusMoves
<1>2. IndInv /\ [Next]_vars => [A]_vars
  BY <1>1
<1>. QED BY <1>2, Inductive, PTL DEF Spec, CancelledForever

-----------------------------------------------------------------------------
(***************************************************************************)
(* AtomicCommit's copy of the contract is the contract.                    *)
(***************************************************************************)
LEMMA SameContract ==
  /\ Atomic!Members = Members /\ Atomic!Metas = Metas
  /\ Atomic!InitMeta = InitMeta /\ Atomic!Answers = Answers
  /\ \A t, u : Atomic!Merge(t, u) = Merge(t, u)
  /\ \A m, t, u : Guard(Class(m), t, u) => Atomic!Guard(Atomic!Class(m), t, u)
<1>1. Atomic!Members = Members /\ Atomic!Answers = Answers /\ Atomic!InitMeta = InitMeta
  BY DEF Atomic!Members, Members, Atomic!Answers, Answers, Atomic!InitMeta, InitMeta
<1>2. Atomic!Metas = Metas
  BY DEF Atomic!Metas, Metas, Atomic!Status, Status, Atomic!Terminal, Terminal,
         Atomic!Reasons, Reasons, Atomic!Subs, Subs
<1>3. \A t, u : Atomic!Merge(t, u) = Merge(t, u)
  BY DEF Atomic!Merge, Merge
<1>4. Atomic!Transitions = Transitions
  BY DEF Atomic!Transitions, Transitions, Atomic!Status, Status, Atomic!Terminal, Terminal
<1>5. \A m, t, u : Guard(Class(m), t, u) => Atomic!Guard(Atomic!Class(m), t, u)
  BY <1>4 DEF Atomic!Guard, Guard, Atomic!Class, Class, Atomic!CancellationKept,
              CancellationKept, Atomic!StatusLane, StatusLane, Atomic!WorkerLane, WorkerLane
<1>. QED BY <1>1, <1>2, <1>3, <1>5

(***************************************************************************)
(* What a member's own step does to the abstract state.                    *)
(***************************************************************************)
StoredNow(m) == call[m].pc = "waitT" /\ req[m].st \in {"stat", "done"}

\* Only a call whose own body was stored answers ok, synced; no call writes the task itself.
LEMMA OwnAnswer ==
  ASSUME IndInv, NEW m \in Members,
         \/ \E op \in Ops, result \in Results \cup {"none"} : Begin(m, op, result)
         \/ MemberStep(m)
         \/ PushFailed(m) \/ NetworkError(m) \/ Crash(m)
  PROVE  /\ task' = task
         /\ ~StoredNow(m)'
         /\ \/ call'[m].res = "ok" => StoredNow(m)
            \/ call'[m].res = call[m].res /\ ~StoredNow(m)
<1>0. TypeOK /\ (call[m].res = "ok" => call[m].pc = "idle")
  BY DEF IndInv, LocalReached
<1>1. CASE \E op \in Ops, result \in Results \cup {"none"} : Begin(m, op, result)
  <2>. PICK op \in Ops, result \in Results \cup {"none"} : Begin(m, op, result)
    BY <1>1
  <2>1. /\ task' = task
        /\ call' = [call EXCEPT ![m] = [IdleCall EXCEPT !.pc = "load", !.op = op,
                                          !.result = result, !.want = task.sub, !.node = node]]
    BY DEF Begin
  <2>2. call'[m].pc = "load" /\ call'[m].res = "none"
    BY <1>0, <2>1 DEF TypeOK, IdleCall
  <2>. QED BY <2>1, <2>2 DEF StoredNow
<1>2. CASE Load(m)
  <2>1. task' = task
    BY <1>2 DEF Load
  <2>. QED BY <1>2, <2>1, LoadFacts DEF StoredNow
<1>3. CASE SendProject(m)
  <2>1. call'[m].res = call[m].res /\ call'[m].pc = "waitP" /\ task' = task
    BY <1>0, <1>3 DEF SendProject, TypeOK, Calls
  <2>. QED BY <1>3, <2>1 DEF SendProject, StoredNow
<1>4. CASE SendTask(m)
  <2>1. call'[m].res = call[m].res /\ req'[m].st = "sent" /\ task' = task
    BY <1>0, <1>4 DEF SendTask, TypeOK, Calls, NoReq
  <2>. QED BY <1>4, <2>1 DEF SendTask, StoredNow
<1>5. ASSUME Continues(m), call[m].pc # "idle" PROVE ~StoredNow(m)' /\ call'[m].res # "ok"
  <2>1. call[m].res # "ok"
    BY <1>0, <1>5
  <2>2. call'[m].res # "ok" /\ call'[m].pc # "waitT"
    BY <1>5, <2>1 DEF Continues
  <2>. QED BY <2>2 DEF StoredNow
<1>6. CASE ProjectAnswered(m)
  <2>1. ~StoredNow(m)' /\ call'[m].res # "ok"
    BY <1>0, <1>5, <1>6, RetryFacts, CallFacts DEF ProjectAnswered, StoredNow
  <2>. QED BY <1>6, <2>1 DEF ProjectAnswered
<1>7. CASE TaskAnswered(m)
  <2>1. CASE Return(m, "ok") /\ req[m].st = "done"
    BY <1>0, <1>7, <2>1, CallFacts DEF TaskAnswered, StoredNow
  <2>2. CASE Retry(m) \/ NotSynced(m)
    <3>1. ~StoredNow(m)' /\ call'[m].res # "ok"
      BY <1>0, <1>5, <1>7, <2>2, RetryFacts DEF TaskAnswered
    <3>. QED BY <1>7, <3>1 DEF TaskAnswered
  <2>. QED BY <1>7, <2>1, <2>2 DEF TaskAnswered
<1>8. CASE PushFailed(m) \/ NetworkError(m) \/ Crash(m)
  <2>1. ~StoredNow(m)' /\ call'[m].res # "ok"
    BY <1>0, <1>5, <1>8, RetryFacts DEF PushFailed, NetworkError, Crash
  <2>. QED BY <1>8, <2>1 DEF PushFailed, NetworkError, Crash
<1>. QED BY <1>1, <1>2, <1>3, <1>4, <1>6, <1>7, <1>8 DEF MemberStep

\* The Controller's steps for a member: nothing, or a commit that is merged and vetted.
LEMMA OwnServer ==
  ASSUME IndInv, NEW m \in Members, ServerStep(m)
  PROVE  /\ call' = call
         /\ \/ task' = task /\ (StoredNow(m)' <=> StoredNow(m))
            \/ /\ task' \in Metas
               /\ Merge(task', task) = task'
               /\ Guard(Class(m), task, task')
               /\ StoredNow(m)' \/ (StoredNow(m)' <=> StoredNow(m))
<1>0. TypeOK /\ call' = call
  BY DEF IndInv, ServerStep, PutProjectMeta, GuardTaskMeta, PutTaskMeta, StatMeta
<1>1. CASE PutProjectMeta(m)
  <2>1. call[m].pc # "waitT" /\ task' = task
    BY <1>1 DEF PutProjectMeta, IndInv, OwnRequest
  <2>. QED BY <1>0, <2>1 DEF StoredNow
<1>2. CASE GuardTaskMeta(m)
  BY <1>0, <1>2 DEF GuardTaskMeta, StoredNow, TypeOK, Reqs
<1>3. CASE PutTaskMeta(m) /\ req[m].live
  <2>1. task' = req[m].meta /\ InFlight(m)
    BY <1>3 DEF PutTaskMeta, InFlight
  <2>2. task' \in Metas /\ Merge(task', task) = task' /\ Guard(Class(m), task, task')
    BY <1>3, <2>1 DEF IndInv, TypeOK, Reqs, MergedCommit, VettedCommit, PutTaskMeta
  <2>3. req'[m].st = "stat"
    BY <1>0, <1>3, StaleTypes DEF PutTaskMeta, Reqs
  <2>. QED BY <1>0, <2>2, <2>3 DEF StoredNow
<1>4. CASE PutTaskMeta(m) /\ ~req[m].live
  BY <1>0, <1>4 DEF PutTaskMeta, StoredNow, TypeOK, Reqs
<1>5. CASE StatMeta(m)
  BY <1>0, <1>5 DEF StatMeta, StoredNow, TypeOK, NoReq
<1>. QED BY <1>1, <1>2, <1>3, <1>4, <1>5 DEF ServerStep

(***************************************************************************)
(* Every step of the protocol is a step of AtomicCommit, or a stutter.     *)
(***************************************************************************)
LEMMA AtomicStep ==
  ASSUME IndInv, [Next]_vars
  PROVE  [Atomic!Next]_<<task, StoredByCall, LastAnswer>>
<1>. DEFINE Same == StoredByCall' = StoredByCall /\ LastAnswer' = LastAnswer
            Goal == [Atomic!Next]_<<task, StoredByCall, LastAnswer>>
<1>. SUFFICES Goal
  OBVIOUS
<1>0. TypeOK
  BY DEF IndInv
<1>1. ASSUME \A m \in Members : Others(m) PROVE Same
  BY <1>1 DEF Others, StoredByCall, LastAnswer
<1>2. ASSUME NEW x \in Members, \A m \in Members \ {x} : Others(m)
      PROVE  /\ StoredByCall' = [StoredByCall EXCEPT ![x] = StoredNow(x)']
             /\ LastAnswer' = [LastAnswer EXCEPT ![x] = call'[x].res]
             /\ StoredByCall[x] = StoredNow(x) /\ LastAnswer[x] = call[x].res
  BY <1>2 DEF Others, StoredByCall, LastAnswer, StoredNow
<1>3. ASSUME NEW x \in Members,
             \/ \E op \in Ops, result \in Results \cup {"none"} : Begin(x, op, result)
             \/ MemberStep(x)
             \/ PushFailed(x) \/ NetworkError(x) \/ Crash(x)
      PROVE  Goal
  <2>1. \A m \in Members \ {x} : Others(m)
    BY <1>0, <1>3, MemberFrame
  <2>2. CASE call'[x].res = "ok" => StoredNow(x)
    <3>1. call'[x].res \in Answers
      BY <1>0, TypeStep DEF TypeOK, Calls
    <3>2. Atomic!Answer(x, call'[x].res)
      BY <1>2, <1>3, <2>1, <2>2, OwnAnswer DEF Atomic!Answer
    <3>. QED BY <3>1, <3>2, SameContract DEF Atomic!Next
  <2>3. CASE call'[x].res = call[x].res /\ ~StoredNow(x)
    <3>1. ~StoredNow(x)' /\ task' = task
      BY <1>3, OwnAnswer
    <3>2. StoredByCall' = StoredByCall
      <4>1. \A m \in Members : StoredNow(m)' <=> StoredNow(m)
        BY <2>1, <2>3, <3>1 DEF Others, StoredNow
      <4>. QED BY <4>1 DEF StoredByCall, StoredNow
    <3>3. LastAnswer' = LastAnswer
      BY <2>1, <2>3 DEF LastAnswer, Others
    <3>. QED BY <3>1, <3>2, <3>3
  <2>. QED BY <1>3, <2>2, <2>3, OwnAnswer
<1>4. ASSUME NEW x \in Members, ServerStep(x) PROVE Goal
  <2>1. \A m \in Members \ {x} : Others(m)
    BY <1>0, <1>4, MemberFrame
  <2>2. LastAnswer' = LastAnswer
    BY <1>4, OwnServer DEF LastAnswer
  <2>3. ASSUME StoredNow(x)' <=> StoredNow(x) PROVE StoredByCall' = StoredByCall
    BY <1>2, <2>1, <2>3 DEF StoredByCall, StoredNow
  <2>4. CASE task' = task /\ (StoredNow(x)' <=> StoredNow(x))
    BY <2>2, <2>3, <2>4
  <2>5. CASE /\ task' \in Metas /\ Merge(task', task) = task' /\ Guard(Class(x), task, task')
             /\ StoredNow(x)' \/ (StoredNow(x)' <=> StoredNow(x))
    <3>1. StoredByCall' = [StoredByCall EXCEPT ![x] = TRUE] \/ StoredByCall' = StoredByCall
      BY <1>2, <2>1, <2>3, <2>5
    <3>2. Atomic!Commit(x)
      BY <2>2, <2>5, <3>1, SameContract DEF Atomic!Commit
    <3>. QED BY <3>2, SameContract DEF Atomic!Next
  <2>. QED BY <1>4, <2>4, <2>5, OwnServer
<1>5. ASSUME NEW c \in Cancels, CancelBegin(c) \/ CancelStep(c) \/ CancelCrash(c) PROVE Goal
  <2>1. Same
    BY <1>0, <1>1, <1>5, ConsoleFrame
  <2>2. CASE CancelPut(c)
    <3>1. task' \in Metas /\ task'.status = "cancelled"
      BY <2>2 DEF CancelPut, IndInv, ReasonMeansCancelled, TypeOK, CancelRecs
    <3>2. Atomic!Cancel
      BY <2>1, <3>1, SameContract DEF Atomic!Cancel
    <3>. QED BY <3>2 DEF Atomic!Next
  <2>3. CASE ~CancelPut(c)
    <3>1. task' = task
      BY <1>5, <2>3 DEF CancelStep, CancelBegin, CancelLoad, CancelAudit, CancelNode, CancelCrash
    <3>. QED BY <2>1, <3>1
  <2>. QED BY <2>2, <2>3
<1>6. CASE UNCHANGED vars
  BY <1>6 DEF vars, StoredByCall, LastAnswer
<1>. HIDE DEF Goal
<1>. QED BY <1>3, <1>4, <1>5, <1>6 DEF Next

(***************************************************************************)
(* The commit protocol implements its abstract specification.              *)
(***************************************************************************)
THEOREM ImplementsAtomicCommit == Spec => CommitsAreAtomic
<1>1. Init => Atomic!Init
  <2>. SUFFICES ASSUME Init PROVE Atomic!Init
    OBVIOUS
  <2>1. \A m \in Members : call[m].pc = "idle" /\ call[m].res = "none"
    BY DEF Init, IdleCall
  <2>2. StoredByCall = [m \in Members |-> FALSE]
    BY <2>1 DEF StoredByCall
  <2>3. LastAnswer = [m \in Members |-> "none"]
    BY <2>1 DEF LastAnswer
  <2>4. task = InitMeta
    BY DEF Init
  <2>. QED BY <2>2, <2>3, <2>4, SameContract DEF Atomic!Init
<1>2. IndInv /\ [Next]_vars => [Atomic!Next]_<<task, StoredByCall, LastAnswer>>
  BY AtomicStep
<1>. QED BY <1>1, <1>2, Inductive, PTL DEF Spec, CommitsAreAtomic, Atomic!Spec, Atomic!vars


-----------------------------------------------------------------------------
(***************************************************************************)
(* delegate_task.  First the parts of the inductive invariant.             *)
(***************************************************************************)

(***************************************************************************)
(* Every announcement that is in the room or may still come there.         *)
(***************************************************************************)
Sent == wire \cup room

(***************************************************************************)
(* No transaction id is known anywhere before it has been made, so that    *)
(* the id of a new attempt differs from all of them.                       *)
(***************************************************************************)
DelegationBounded ==
  /\ stored.txn <= minted
  /\ draft.txn <= minted
  /\ put.body.txn <= minted
  /\ tool.txn <= minted
  /\ last.txn <= minted
  /\ \A m \in Sent : m.txn <= minted
  /\ \A c \in Cancels : stop[c].body.txn <= minted

(***************************************************************************)
(* What CancelTask is about to write is a cancellation of a task that      *)
(* exists.                                                                 *)
(***************************************************************************)
Stopping ==
  \A c \in Cancels : stop[c].pc # "idle" =>
    stop[c].body.status = "cancelled" /\ stored.status # "absent"

(***************************************************************************)
(* As long as the task is not in shared storage, nobody has been told of   *)
(* it and nothing but its preparation is on the way there.                 *)
(***************************************************************************)
Unborn ==
  stored.status = "absent" =>
    /\ stored = Blank
    /\ Sent = {}
    /\ draft.status \in {"absent", "prepared"}
    /\ put.st = "sent" => put.body.status = "prepared"

(***************************************************************************)
(* The stored task names the assignee and the transaction that were        *)
(* committed last, unless CancelTask has put back an older body.           *)
(***************************************************************************)
Recorded ==
  stored.status # "cancelled" =>
    /\ stored.to = last.to
    /\ stored.txn = last.txn
    /\ stored.status # "absent" => stored.txn # 0

(***************************************************************************)
(* A copy of the task that is past its preparation names an event of the   *)
(* room, its own transaction's, that mentions its assignee.                *)
(***************************************************************************)
Vouched(file) ==
  file.status \notin {"absent", "prepared", "cancelled"} =>
    /\ file.event = file.txn
    /\ \E m \in room : m.txn = file.event /\ m.to = file.to

(***************************************************************************)
(* Every copy that may come to be stored is vouched for: the stored one,   *)
(* the leader's, and the one in the PUT.                                   *)
(***************************************************************************)
Vouching == Vouched(stored) /\ Vouched(draft) /\ Vouched(put.body)

(***************************************************************************)
(* The announcements carry the numbers of their assignments: none is from  *)
(* the future, an assignment has one transaction, and the transaction that *)
(* was committed last has not been overtaken by another one.               *)
(***************************************************************************)
Numbered ==
  /\ \A m \in Sent :
       /\ m.attempt <= last.attempt
       /\ m.attempt = last.attempt => m.txn = last.txn
       /\ m.txn = last.txn => m.to = last.to
       /\ m.txn = last.txn => \A e \in Sent : m.attempt < e.attempt => e.txn = last.txn
  /\ \A m1, m2 \in Sent : m1.attempt = m2.attempt => m1.txn = m2.txn
  /\ \A m1, m2 \in room : m1.txn = m2.txn => m1 = m2

(***************************************************************************)
(* What may be said of a copy the leader offers for commit: either it      *)
(* begins another assignment, or it goes on with the one recorded, or that *)
(* one has not been announced; and its transaction, if announced before,   *)
(* was announced for the same worker and has not been overtaken.           *)
(***************************************************************************)
Offer(file) ==
  /\ file.txn # 0
  /\ \/ file.to # last.to
     \/ file.txn = last.txn
     \/ \A m \in Sent : m.attempt # last.attempt
  /\ \A m \in Sent : m.txn = file.txn =>
       /\ m.to = file.to
       /\ \A e \in Sent : m.attempt < e.attempt => e.txn = file.txn

(***************************************************************************)
(* The copy in the PUT and the copy of a call that has not published yet   *)
(* are such offers.                                                        *)
(***************************************************************************)
Offering ==
  /\ put.st = "sent" => Offer(put.body)
  /\ tool.pc \in {"sync", "wait"} => Offer(draft)

(***************************************************************************)
(* The steps between the publication of the files and the second commit.   *)
(***************************************************************************)
Late == {"recheck", "send", "sending", "node"}

(***************************************************************************)
(* What a call knows: its local copy is for its worker and carries its     *)
(* transaction; once its commit has succeeded, the assignment recorded     *)
(* last is its own until it ends.                                          *)
(***************************************************************************)
InCall ==
  /\ tool.pc # "idle" => tool.to \in Workers
  /\ tool.pc \in {"sync", "wait", "node"} =>
       /\ draft.status # "absent"
       /\ draft.to = tool.to
       /\ tool.sync # "reuse" => draft.txn = tool.txn
  /\ tool.pc = "wait" =>
       /\ put.body = draft
       /\ put.st \in {"stat", "ok"} => last.to = draft.to /\ last.txn = draft.txn
       /\ tool.sync = "publish" => spec = tool.txn
  /\ tool.pc \in Late =>
       /\ tool.sync = "publish"
       /\ tool.txn # 0
       /\ put = NoPut
       /\ spec = tool.txn
       /\ last.txn = tool.txn
       /\ last.to = tool.to

(***************************************************************************)
(* A call that is going to send was published when, or has been followed   *)
(* by a moment in which, nothing was paused.                               *)
(***************************************************************************)
Calmed ==
  /\ tool.pc = "send" => calm
  /\ tool.pc = "recheck" => calm \/ plan.paused

(***************************************************************************)
(* The inductive invariant of delegate_task.                               *)
(***************************************************************************)
DelegationInv ==
  /\ DelegationTypeOK
  /\ DelegationBounded
  /\ Stopping
  /\ Unborn
  /\ Recorded
  /\ Vouching
  /\ Numbered
  /\ Offering
  /\ InCall
  /\ Calmed

(***************************************************************************)
(* The constant records have their types.                                  *)
(***************************************************************************)
LEMMA DelegationIdleTypes ==
  /\ Blank \in Files
  /\ IdleTool \in Tools
  /\ NoPut \in Puts
  /\ IdleStop \in Stops
<1>1. Blank \in Files
  BY DEF Blank, Files, Reasons, Assignees
<1>2. IdleTool \in Tools
  BY DEF IdleTool, Tools, Steps, Syncs, Assignees, Status, Reasons
<1>3. NoPut \in Puts
  BY <1>1 DEF NoPut, Puts
<1>4. IdleStop \in Stops
  BY <1>1 DEF IdleStop, Stops
<1>. QED BY <1>1, <1>2, <1>3, <1>4

(***************************************************************************)
(* The merge of a stored cancellation changes nothing but the status and   *)
(* what was written with the cancellation.                                 *)
(***************************************************************************)
LEMMA MergeFacts ==
  ASSUME NEW local \in Files, NEW remote \in Files
  PROVE  /\ Merge(local, remote) \in Files
         /\ Merge(local, remote).to = local.to
         /\ Merge(local, remote).txn = local.txn
         /\ Merge(local, remote).event = local.event
         /\ Merge(local, remote).status \in {local.status, "cancelled"}
<1>1. CASE remote.status # "cancelled"
  BY <1>1 DEF Merge
<1>2. CASE remote.status = "cancelled"
  <2>1. PICK reason \in Reasons, cont \in {"none", "pending"} \cup Terminal :
          Merge(local, remote) =
            [local EXCEPT !.status = "cancelled", !.reason = reason, !.cont = cont]
    BY <1>2 DEF Merge, Files
  <2>2. "cancelled" \in Status \cup {"absent"}
    BY DEF Status, Terminal
  <2>. QED BY <2>1, <2>2 DEF Files
<1>. QED BY <1>1, <1>2

(***************************************************************************)
(* A prepared record has the type of a file.                               *)
(***************************************************************************)
LEMMA PreparedTyped ==
  ASSUME NEW w \in Assignees, NEW txn \in Nat
  PROVE  /\ Prepared(w, txn) \in Files
         /\ Prepared(w, txn).to = w
         /\ Prepared(w, txn).txn = txn
         /\ Prepared(w, txn).status = "prepared"
         /\ [Prepared(w, txn) EXCEPT !.status = "assigned", !.event = txn] \in Files
BY DelegationIdleTypes DEF Prepared, Blank, Files, Status

(***************************************************************************)
(* A write of the project types the plan and what its ETag holders keep.   *)
(***************************************************************************)
LEMMA WritePlanTyped ==
  ASSUME stop \in [Cancels -> Stops],
         NEW project \in [paused : BOOLEAN, node : Status, reason : Reasons],
         WritePlan(project)
  PROVE  /\ plan' \in [paused : BOOLEAN, node : Status, reason : Reasons]
         /\ nodePut' \subseteq Reasons
         /\ stop' \in [Cancels -> Stops]
BY DEF WritePlan, Stops

(***************************************************************************)
(* The task's files, messages and requests keep their types.               *)
(***************************************************************************)
LEMMA DelegationTypeStep ==
  ASSUME DelegationTypeOK, [DelegationNext]_delegationVars
  PROVE  DelegationTypeOK'
<1>. USE DelegationIdleTypes DEF DelegationTypeOK
<1>0. /\ draft \in Files /\ stored \in Files /\ Known \in Files
      /\ tool \in Tools /\ put \in Puts /\ stop \in [Cancels -> Stops]
  BY DEF Known
<1>1. ASSUME NEW w \in Workers, Delegate(w) PROVE DelegationTypeOK'
  <2>1. tool' \in Tools
    BY <1>1 DEF Delegate, Tools, Steps, Assignees, IdleTool, Syncs
  <2>. QED BY <1>1, <2>1 DEF Delegate
<1>2. CASE RefuseDelegation
  BY <1>0, <1>2 DEF RefuseDelegation
<1>3. CASE ReuseAssignment
  <2>1. tool' \in Tools
    BY <1>3 DEF ReuseAssignment, Tools, Steps, Syncs, Status
  <2>. QED BY <1>0, <1>3, <2>1 DEF ReuseAssignment
<1>4. CASE Prepare
  <2>1. PICK txn \in {IF KeepTxn THEN Known.txn ELSE minted + 1} :
          /\ draft' = Prepared(tool.to, txn)
          /\ tool' = [tool EXCEPT !.pc = "sync", !.sync = "publish", !.txn = txn,
                                  !.node = "planned"]
    BY <1>4 DEF Prepare
  <2>2. txn \in Nat
    BY <1>0, <2>1 DEF Files
  <2>3. draft' \in Files
    BY <2>1, <2>2, PreparedTyped DEF Tools
  <2>4. tool' \in Tools
    BY <2>1, <2>2 DEF Tools, Steps, Syncs, Status
  <2>. QED BY <1>4, <2>3, <2>4 DEF Prepare
<1>5. CASE SyncTask
  <2>1. PICK merged \in {IF stored.status = "absent" THEN draft ELSE Merge(draft, stored)} :
          /\ draft' = merged
          /\ put' = [st |-> "sent", live |-> TRUE, body |-> merged]
    BY <1>5 DEF SyncTask
  <2>2. merged \in Files
    BY <1>0, MergeFacts
  <2>3. put' \in Puts
    BY <2>1, <2>2 DEF Puts
  <2>4. tool' \in Tools /\ spec' \in Nat
    BY <1>5 DEF SyncTask, Tools, Steps
  <2>. QED BY <1>5, <2>1, <2>2, <2>3, <2>4 DEF SyncTask
<1>6. CASE SyncAgain
  <2>1. tool' \in Tools
    BY <1>6 DEF SyncAgain, Tools, Steps
  <2>. QED BY <1>6, <2>1 DEF SyncAgain
<1>7. CASE SyncDone
  <2>1. tool' \in Tools
    BY <1>7 DEF SyncDone, Tools, Steps
  <2>. QED BY <1>7, <2>1 DEF SyncDone
<1>8. CASE PutLands
  <2>1. put.body \in Files /\ put' \in Puts
    BY <1>8 DEF PutLands, Puts
  <2>2. last' \in [to : Assignees, txn : Nat, attempt : Nat]
    BY <1>8, <2>1 DEF PutLands, Files
  <2>. QED BY <1>8, <2>1, <2>2 DEF PutLands
<1>9. CASE PutRejected \/ PutAnswers
  <2>1. put' \in Puts
    BY <1>9 DEF PutRejected, PutAnswers, Puts
  <2>. QED BY <1>9, <2>1 DEF PutRejected, PutAnswers
<1>10. CASE Recheck
  <2>1. tool' \in Tools
    BY <1>10 DEF Recheck, Tools, Steps
  <2>. QED BY <1>10, <2>1 DEF Recheck
<1>11. CASE Announce
  <2>1. tool' \in Tools
    BY <1>11 DEF Announce, Tools, Steps
  <2>2. wire' \subseteq Messages
    BY <1>11 DEF Announce, Messages, Tools
  <2>. QED BY <1>11, <2>1, <2>2 DEF Announce
<1>12. CASE MarkAssigned
  <2>1. tool' \in Tools
    BY <1>12 DEF MarkAssigned, Tools, Steps
  <2>2. draft' \in Files
    BY <1>12, PreparedTyped DEF MarkAssigned, Tools
  <2>. QED BY <1>12, <2>1, <2>2 DEF MarkAssigned
<1>13. ASSUME NEW m \in wire, Post(m) \/ Lose(m) PROVE DelegationTypeOK'
  BY <1>13 DEF Post, Lose
<1>14. CASE SendNode
  BY <1>14 DEF SendNode, Tools
<1>15. CASE NodeLands
  <2>1. PICK reason \in nodePut : WritePlan([plan EXCEPT !.node = "assigned", !.reason = reason])
    BY <1>15 DEF NodeLands
  <2>2. [plan EXCEPT !.node = "assigned", !.reason = reason]
          \in [paused : BOOLEAN, node : Status, reason : Reasons]
    BY DEF Status
  <2>. QED BY <1>15, <2>1, <2>2, WritePlanTyped DEF NodeLands
<1>16. CASE NodeDone
  <2>1. tool' \in Tools
    BY <1>16 DEF NodeDone, Tools, Steps, Syncs
  <2>. QED BY <1>16, <2>1 DEF NodeDone
<1>17. CASE CallFails \/ Replaced
  <2>1. put' \in Puts
    BY <1>17 DEF CallFails, Replaced, Abandoned
  <2>. QED BY <1>17, <2>1 DEF CallFails, Replaced
<1>18. ASSUME NEW s \in Status, MemberNode(s) PROVE DelegationTypeOK'
  <2>1. [plan EXCEPT !.node = s] \in [paused : BOOLEAN, node : Status, reason : Reasons]
    OBVIOUS
  <2>. QED BY <1>18, <2>1, WritePlanTyped DEF MemberNode
<1>19. ASSUME NEW s \in Status, MemberTask(s) PROVE DelegationTypeOK'
  <2>1. Continuation(s) \in {"none", "pending"} \cup Terminal
    BY <1>0, <1>19 DEF Continuation, Files, Decision, Terminal
  <2>2. stored' \in Files
    BY <1>0, <1>19, <2>1 DEF MemberTask, WriteTask, Files
  <2>3. put' \in Puts
    BY <1>19 DEF MemberTask, WriteTask, Puts
  <2>. QED BY <1>19, <2>2, <2>3 DEF MemberTask, WriteTask
<1>20. CASE PauseProject \/ ResumeProject
  <2>1. PICK paused \in BOOLEAN : WritePlan([plan EXCEPT !.paused = paused])
    BY <1>20 DEF PauseProject, ResumeProject
  <2>2. [plan EXCEPT !.paused = paused] \in [paused : BOOLEAN, node : Status, reason : Reasons]
    OBVIOUS
  <2>3. spent' \in [{"calls", "pauses"} \cup Cancels -> Nat]
    BY <1>20 DEF PauseProject, ResumeProject
  <2>. QED BY <1>20, <2>1, <2>2, <2>3, WritePlanTyped DEF PauseProject, ResumeProject
<1>21. ASSUME NEW c \in Cancels, StopReads(c) PROVE DelegationTypeOK'
  <2>1. [stored EXCEPT !.status = "cancelled", !.reason = c,
                       !.cont = IF @ = "none" THEN @ ELSE "cancelled"] \in Files
    <3>1. (IF stored.cont = "none" THEN stored.cont ELSE "cancelled")
            \in {"none", "pending"} \cup Terminal
      BY <1>0 DEF Files, Terminal
    <3>2. "cancelled" \in Status \cup {"absent"} /\ c \in Reasons
      BY DEF Status, Terminal, Reasons
    <3>. QED BY <1>0, <3>1, <3>2 DEF Files
  <2>2. stop' \in [Cancels -> Stops]
    BY <1>21, <2>1 DEF StopReads, Stops
  <2>3. spent' \in [{"calls", "pauses"} \cup Cancels -> Nat]
    BY <1>21 DEF StopReads
  <2>. QED BY <1>21, <2>2, <2>3 DEF StopReads
<1>22. ASSUME NEW c \in Cancels, StopNode(c) PROVE DelegationTypeOK'
  <2>1. plan' \in [paused : BOOLEAN, node : Status, reason : Reasons]
    BY <1>22 DEF StopNode, Status, Terminal, Reasons
  <2>2. stop' \in [Cancels -> Stops]
    BY <1>22 DEF StopNode, Stops
  <2>. QED BY <1>22, <2>1, <2>2 DEF StopNode
<1>23. ASSUME NEW c \in Cancels, StopTask(c) PROVE DelegationTypeOK'
  <2>1. stored' \in Files
    BY <1>23 DEF StopTask, WriteTask, Stops
  <2>2. put' \in Puts
    BY <1>23 DEF StopTask, WriteTask, Puts
  <2>3. stop' \in [Cancels -> Stops]
    BY <1>23 DEF StopTask
  <2>. QED BY <1>23, <2>1, <2>2, <2>3 DEF StopTask, WriteTask
<1>24. ASSUME NEW c \in Cancels, StopFails(c) PROVE DelegationTypeOK'
  BY <1>24 DEF StopFails
<1>25. CASE UNCHANGED delegationVars
  BY <1>25 DEF delegationVars
<1>. QED
  BY <1>1, <1>2, <1>3, <1>4, <1>5, <1>6, <1>7, <1>8, <1>9, <1>10, <1>11, <1>12, <1>13, <1>14,
     <1>15, <1>16, <1>17, <1>18, <1>19, <1>20, <1>21, <1>22, <1>23, <1>24, <1>25
     DEF DelegationNext

(***************************************************************************)
(* Who changes what.                                                       *)
(***************************************************************************)
LEMMA StoredFrame ==
  ASSUME [DelegationNext]_delegationVars
  PROVE  \/ UNCHANGED <<stored, last>>
         \/ PutLands
         \/ \E s \in Status : MemberTask(s)
         \/ \E c \in Cancels : StopTask(c)
BY DEF DelegationNext, delegationVars, Delegate, RefuseDelegation, ReuseAssignment, Prepare,
       SyncTask, SyncAgain, SyncDone, PutRejected, PutAnswers, Recheck, Announce, MarkAssigned,
       Post, Lose, SendNode, NodeLands, NodeDone, CallFails, Replaced, MemberNode, PauseProject,
       ResumeProject, StopReads, StopNode, StopFails

(***************************************************************************)
(* The recorded assignment changes only when a commit lands.               *)
(***************************************************************************)
LEMMA LastFrame ==
  ASSUME [DelegationNext]_delegationVars
  PROVE  UNCHANGED last \/ PutLands
<1>. QED BY StoredFrame DEF MemberTask, StopTask

(***************************************************************************)
(* The steps that change the leader's local copy.                          *)
(***************************************************************************)
LEMMA DraftFrame ==
  ASSUME [DelegationNext]_delegationVars
  PROVE  \/ UNCHANGED draft
         \/ (RefuseDelegation \/ ReuseAssignment) /\ draft' = Known
         \/ Prepare
         \/ SyncTask
         \/ MarkAssigned
         \/ Replaced
BY DEF DelegationNext, delegationVars, Delegate, RefuseDelegation, ReuseAssignment, SyncAgain,
       SyncDone, PutLands, PutRejected, PutAnswers, Recheck, Announce, Post, Lose, SendNode,
       NodeLands, NodeDone, CallFails, MemberNode, MemberTask, PauseProject, ResumeProject,
       StopReads, StopNode, StopTask, StopFails

(***************************************************************************)
(* The steps that change what is announced.                                *)
(***************************************************************************)
LEMMA MessageFrame ==
  ASSUME [DelegationNext]_delegationVars
  PROVE  \/ Announce
         \/ UNCHANGED <<wire, room>>
         \/ \E m \in wire : Post(m) \/ Lose(m)
BY DEF DelegationNext, delegationVars, Delegate, RefuseDelegation, ReuseAssignment, Prepare,
       SyncTask, SyncAgain, SyncDone, PutLands, PutRejected, PutAnswers, Recheck, MarkAssigned,
       SendNode, NodeLands, NodeDone, CallFails, Replaced, MemberNode, MemberTask, PauseProject,
       ResumeProject, StopReads, StopNode, StopTask, StopFails

(***************************************************************************)
(* Only Announce adds an announcement, and the room forgets none.          *)
(***************************************************************************)
LEMMA SentFrame ==
  ASSUME [DelegationNext]_delegationVars
  PROVE  /\ Sent' \subseteq Sent \/ Announce
         /\ room \subseteq room'
         /\ room' \subseteq room \cup wire
BY MessageFrame DEF Sent, Announce, Post, Lose

(***************************************************************************)
(* The steps that change the project.                                      *)
(***************************************************************************)
LEMMA PlanFrame ==
  ASSUME [DelegationNext]_delegationVars
  PROVE  \/ UNCHANGED plan
         \/ NodeLands
         \/ \E s \in Status : MemberNode(s)
         \/ PauseProject
         \/ ResumeProject
         \/ \E c \in Cancels : StopNode(c)
BY DEF DelegationNext, delegationVars, Delegate, RefuseDelegation, ReuseAssignment, Prepare,
       SyncTask, SyncAgain, SyncDone, PutLands, PutRejected, PutAnswers, Recheck, Announce,
       MarkAssigned, Post, Lose, SendNode, NodeDone, CallFails, Replaced, MemberTask, StopReads,
       StopTask, StopFails

(***************************************************************************)
(* A CancelTask request keeps its body until it ends or reads again.       *)
(***************************************************************************)
LEMMA StopFrame ==
  ASSUME stop \in [Cancels -> Stops], stored \in Files, [DelegationNext]_delegationVars,
         NEW c \in Cancels
  PROVE  /\ \/ stop'[c].pc = "idle"
            \/ stop'[c].body = stop[c].body /\ stop[c].pc # "idle"
            \/ StopReads(c)
         /\ stop'[c].body.txn \in {stop[c].body.txn, stored.txn, 0}
<1>. DEFINE Moved == /\ \/ stop'[c].pc = "idle"
                        \/ stop'[c].body = stop[c].body /\ stop[c].pc # "idle"
                        \/ StopReads(c)
                     /\ stop'[c].body.txn \in {stop[c].body.txn, stored.txn, 0}
<1>1. ASSUME NEW d \in Cancels, StopReads(d) \/ StopTask(d) \/ StopFails(d) PROVE Moved
  <2>1. CASE d # c
    <3>1. stop'[c] = stop[c]
      BY <1>1, <2>1 DEF StopReads, StopTask, StopFails
    <3>. QED BY <3>1
  <2>2. CASE d = c /\ StopReads(c)
    <3>1. stop'[c].body.txn = stored.txn
      BY <2>2 DEF StopReads, Files
    <3>. QED BY <2>2, <3>1
  <2>3. CASE d = c /\ ~StopReads(c)
    <3>1. stop'[c] = IdleStop
      BY <1>1, <2>3 DEF StopTask, StopFails
    <3>. QED BY <3>1 DEF IdleStop, Blank
  <2>. QED BY <2>1, <2>2, <2>3
<1>2. ASSUME NEW d \in Cancels, StopNode(d) PROVE Moved
  <2>1. \/ stop'[c].pc = "idle"
        \/ stop'[c].pc = stop[c].pc
        \/ stop'[c].pc = "task" /\ stop[c].pc = "node"
    BY <1>2 DEF Stops, StopNode
  <2>2. stop'[c].body = stop[c].body
    BY <1>2 DEF Stops, StopNode
  <2>. QED BY <2>1, <2>2
<1>3. ASSUME NEW project, WritePlan(project) PROVE Moved
  <2>1. stop'[c].pc = stop[c].pc /\ stop'[c].body = stop[c].body
    BY <1>3 DEF Stops, WritePlan
  <2>. QED BY <2>1
<1>4. CASE stop' = stop
  <2>1. stop'[c] = stop[c]
    BY <1>4
  <2>. QED BY <2>1
<1>5. NodeLands \/ (\E s \in Status : MemberNode(s)) \/ PauseProject \/ ResumeProject => Moved
  <2>1. CASE NodeLands
    BY <1>3, <2>1 DEF NodeLands
  <2>2. ASSUME NEW s \in Status, MemberNode(s) PROVE Moved
    BY <1>3, <2>2 DEF MemberNode
  <2>3. CASE PauseProject
    BY <1>3, <2>3 DEF PauseProject
  <2>4. CASE ResumeProject
    BY <1>3, <2>4 DEF ResumeProject
  <2>. QED BY <2>1, <2>2, <2>3, <2>4
<1>6. \/ stop' = stop
      \/ NodeLands \/ (\E s \in Status : MemberNode(s)) \/ PauseProject \/ ResumeProject
      \/ \E d \in Cancels : StopReads(d) \/ StopNode(d) \/ StopTask(d) \/ StopFails(d)
  BY DEF DelegationNext, delegationVars, Delegate, RefuseDelegation, ReuseAssignment, Prepare,
         SyncTask, SyncAgain, SyncDone, PutLands, PutRejected, PutAnswers, Recheck, Announce,
         MarkAssigned, Post, Lose, SendNode, NodeDone, CallFails, Replaced, MemberTask
<1>7. CASE \E d \in Cancels : StopReads(d) \/ StopNode(d) \/ StopTask(d) \/ StopFails(d)
  <2>1. PICK d \in Cancels : StopReads(d) \/ StopNode(d) \/ StopTask(d) \/ StopFails(d)
    BY <1>7
  <2>. QED BY <1>1, <1>2, <2>1
<1>8. Moved
  BY <1>4, <1>5, <1>6, <1>7
<1>. QED BY <1>8

(***************************************************************************)
(* The PUT keeps its body until it is answered; only SyncTask sends one.   *)
(***************************************************************************)
LEMMA PutFrame ==
  ASSUME DelegationTypeOK, [DelegationNext]_delegationVars
  PROVE  \/ SyncTask
         \/ PutLands
         \/ put' = NoPut
         \/ /\ put'.body = put.body
            /\ put'.st = "sent" => put.st = "sent"
BY DEF DelegationTypeOK, Puts, DelegationNext, delegationVars, Delegate, RefuseDelegation,
       ReuseAssignment, Prepare, SyncAgain, SyncDone, PutRejected, PutAnswers, Recheck, Announce,
       MarkAssigned, Post, Lose, SendNode, NodeLands, NodeDone, CallFails, Replaced, Abandoned,
       MemberNode, MemberTask, WriteTask, PauseProject, ResumeProject, StopReads, StopNode,
       StopTask, StopFails

(***************************************************************************)
(* Only Prepare makes a transaction id.                                    *)
(***************************************************************************)
LEMMA MintedFrame ==
  ASSUME DelegationTypeOK, [DelegationNext]_delegationVars
  PROVE  minted' = minted \/ Prepare
BY DEF DelegationNext, delegationVars, Delegate, RefuseDelegation, ReuseAssignment,
       SyncTask, SyncAgain, SyncDone, PutLands, PutRejected, PutAnswers, Recheck, Announce,
       MarkAssigned, Post, Lose, SendNode, NodeLands, NodeDone, CallFails, Replaced, MemberNode,
       MemberTask, PauseProject, ResumeProject, StopReads, StopNode, StopTask, StopFails

(***************************************************************************)
(* A commit that lands makes the stored record the recorded assignment,    *)
(* and what is recorded changes only when the attempt has no announcement. *)
(***************************************************************************)
LEMMA LandedFacts ==
  ASSUME DelegationInv, PutLands
  PROVE  /\ stored' = put.body
         /\ put.body \in Files
         /\ last'.to = put.body.to
         /\ last'.txn = put.body.txn
         /\ last'.attempt \in {last.attempt, last.attempt + 1}
         /\ last' = last \/ \A m \in Sent : m.attempt # last'.attempt
         /\ Sent' = Sent
         /\ put'.body = put.body /\ put'.st = "stat"
<1>1. put.body \in Files
  BY DEF DelegationInv, DelegationTypeOK, Puts
<1>2. last \in [to : Assignees, txn : Nat, attempt : Nat] /\ Sent \subseteq Messages
  BY DEF DelegationInv, DelegationTypeOK, Sent
<1>3. last' = last \/ \A m \in Sent : m.attempt # last'.attempt
  <2>1. CASE put.body.to # last.to
    <3>1. last'.attempt = last.attempt + 1
      BY <2>1 DEF PutLands
    <3>2. \A m \in Sent : m.attempt <= last.attempt /\ m.attempt \in Nat
      BY <1>2 DEF DelegationInv, Numbered, Messages
    <3>. QED BY <1>2, <3>1, <3>2
  <2>2. CASE put.body.to = last.to
    <3>1. last' = [to |-> put.body.to, txn |-> put.body.txn, attempt |-> last.attempt]
      BY <2>2 DEF PutLands
    <3>2. put.body.txn = last.txn \/ \A m \in Sent : m.attempt # last.attempt
      BY <2>2 DEF PutLands, DelegationInv, Offering, Offer
    <3>. QED BY <1>2, <2>2, <3>1, <3>2
  <2>. QED BY <2>1, <2>2
<1>4. put'.body = put.body /\ put'.st = "stat"
  BY DEF PutLands, DelegationInv, DelegationTypeOK, Puts
<1>. QED BY <1>1, <1>3, <1>4 DEF PutLands, Sent

(***************************************************************************)
(* The parts of the inductive invariant, one by one.                       *)
(***************************************************************************)
LEMMA RecordedStep ==
  ASSUME DelegationInv, [DelegationNext]_delegationVars
  PROVE  Recorded'
<1>1. CASE UNCHANGED <<stored, last>>
  BY <1>1 DEF DelegationInv, Recorded
<1>2. CASE PutLands
  <2>1. put.body.txn # 0
    BY <1>2 DEF PutLands, DelegationInv, Offering, Offer
  <2>. QED BY <1>2, <2>1, LandedFacts DEF Recorded
<1>3. ASSUME NEW s \in Status, MemberTask(s) PROVE Recorded'
  BY <1>3 DEF DelegationInv, DelegationTypeOK, Files, Recorded, MemberTask, WriteTask, Working
<1>4. ASSUME NEW c \in Cancels, StopTask(c) PROVE Recorded'
  BY <1>4 DEF DelegationInv, Stopping, Recorded, StopTask, WriteTask
<1>. QED BY <1>1, <1>2, <1>3, <1>4, StoredFrame

(***************************************************************************)
(* A task that exists is never deleted, so a prepared cancellation stays   *)
(* one of an existing task.                                                *)
(***************************************************************************)
LEMMA StoppingStep ==
  ASSUME DelegationInv, [DelegationNext]_delegationVars
  PROVE  Stopping'
<1>1. stored.status # "absent" => stored'.status # "absent"
  <2>1. CASE PutLands
    <3>1. Accepts /\ stored' = put.body
      BY <2>1 DEF PutLands
    <3>2. \A s \in Status : "absent" \notin Transitions[s]
      BY DEF Transitions, Terminal
    <3>3. stored \in Files
      BY DEF DelegationInv, DelegationTypeOK
    <3>. QED BY <3>1, <3>2, <3>3 DEF Accepts, Guard, StatusLane, Files
  <2>2. ASSUME NEW s \in Status, MemberTask(s) PROVE stored'.status # "absent"
    BY <2>2 DEF MemberTask, WriteTask, DelegationInv, DelegationTypeOK, Files, Status, Terminal
  <2>3. ASSUME NEW c \in Cancels, StopTask(c) PROVE stored'.status # "absent"
    BY <2>3 DEF StopTask, WriteTask, DelegationInv, Stopping
  <2>. QED BY <2>1, <2>2, <2>3, StoredFrame
<1>2. ASSUME NEW c \in Cancels
      PROVE  \/ stop'[c].pc = "idle"
             \/ stop'[c].body = stop[c].body /\ stop[c].pc # "idle"
             \/ StopReads(c)
  BY <1>2, StopFrame DEF DelegationInv, DelegationTypeOK
<1>3. ASSUME NEW c \in Cancels, StopReads(c)
      PROVE  stop'[c].body.status = "cancelled" /\ stored.status # "absent"
  BY <1>3 DEF StopReads, DelegationInv, DelegationTypeOK, Files
<1>. QED BY <1>1, <1>2, <1>3 DEF DelegationInv, Stopping

(***************************************************************************)
(* Only MarkAssigned makes a copy that claims an assignment, after the     *)
(* homeserver has answered with the event; every other copy is taken from  *)
(* one that is vouched for already.                                        *)
(***************************************************************************)
LEMMA VouchingStep ==
  ASSUME DelegationInv, [DelegationNext]_delegationVars
  PROVE  Vouching'
<1>. DEFINE V(file) ==
       file.status \notin {"absent", "prepared", "cancelled"} =>
         /\ file.event = file.txn
         /\ \E m \in room' : m.txn = file.event /\ m.to = file.to
<1>1. V(stored) /\ V(draft) /\ V(put.body)
  BY SentFrame DEF DelegationInv, Vouching, Vouched
<1>2. V(Blank) /\ V(NoPut.body)
  BY DEF Blank, NoPut
<1>3. stored \in Files /\ draft \in Files /\ put.body \in Files
  BY DEF DelegationInv, DelegationTypeOK, Puts
<1>4. V(stored')
  <2>1. CASE PutLands
    BY <1>1, <2>1 DEF PutLands
  <2>2. ASSUME NEW s \in Status, MemberTask(s) PROVE V(stored')
    BY <1>1, <1>3, <2>2 DEF MemberTask, WriteTask, Working, Files
  <2>3. ASSUME NEW c \in Cancels, StopTask(c) PROVE V(stored')
    BY <2>3 DEF StopTask, WriteTask, DelegationInv, Stopping
  <2>. QED BY <1>1, <2>1, <2>2, <2>3, StoredFrame
<1>5. ASSUME SyncTask
      PROVE  draft' = put'.body /\ V(draft')
  <2>1. PICK merged \in {IF stored.status = "absent" THEN draft ELSE Merge(draft, stored)} :
          /\ draft' = merged
          /\ put' = [st |-> "sent", live |-> TRUE, body |-> merged]
    BY <1>5 DEF SyncTask
  <2>2. /\ merged.to = draft.to
        /\ merged.event = draft.event
        /\ merged.txn = draft.txn
        /\ merged.status \in {draft.status, "cancelled"}
    BY <1>3, MergeFacts
  <2>. QED BY <1>1, <2>1, <2>2
<1>6. V(draft')
  <2>1. CASE draft' = Known
    BY <1>1, <2>1 DEF Known
  <2>2. CASE Prepare
    <3>1. PICK txn : draft' = Prepared(tool.to, txn)
      BY <2>2 DEF Prepare
    <3>2. draft'.status = "prepared"
      BY <3>1 DEF Prepared, Blank
    <3>. QED BY <3>2
  <2>3. CASE MarkAssigned
    <3>1. PICK e \in room : e.txn = tool.txn
      BY <2>3 DEF MarkAssigned, Delivered
    <3>2. e.to = tool.to
      BY <2>3, <3>1 DEF MarkAssigned, DelegationInv, InCall, Late, Numbered, Sent
    <3>3. /\ draft'.to = tool.to /\ draft'.event = tool.txn /\ draft'.txn = tool.txn
          /\ room' = room
      BY <2>3 DEF MarkAssigned, Prepared, Blank
    <3>. QED BY <3>1, <3>2, <3>3
  <2>4. CASE Replaced
    BY <1>2, <2>4 DEF Replaced
  <2>. QED BY <1>1, <1>5, <2>1, <2>2, <2>3, <2>4, DraftFrame
<1>7. V(put'.body)
  <2>1. CASE PutLands
    BY <1>1, <2>1, LandedFacts
  <2>. QED BY <1>1, <1>2, <1>5, <2>1, PutFrame DEF DelegationInv
<1>. QED BY <1>4, <1>6, <1>7 DEF Vouching, Vouched

(***************************************************************************)
(* The pause is looked at between the publication and the send, and it     *)
(* takes a resume, a calm moment, to undo it.                              *)
(***************************************************************************)
LEMMA CalmedStep ==
  ASSUME DelegationInv, [DelegationNext]_delegationVars
  PROVE  Calmed'
<1>1. Calmed /\ tool \in Tools
  BY DEF DelegationInv, DelegationTypeOK
<1>2. CASE SyncDone
  <2>1. \/ tool'.pc = "recheck" /\ calm' = ~plan.paused
        \/ tool'.pc = "idle"
    BY <1>1, <1>2 DEF SyncDone, Tools, IdleTool
  <2>. QED BY <1>2, <2>1 DEF SyncDone, Calmed
<1>3. CASE Recheck
  <2>1. tool.pc = "recheck" /\ calm' = calm
    BY <1>3 DEF Recheck
  <2>2. \/ tool'.pc = "send" /\ ~plan.paused
        \/ tool'.pc = "idle"
    BY <1>1, <1>3 DEF Recheck, Clear, Tools, IdleTool
  <2>. QED BY <1>1, <2>1, <2>2 DEF Calmed
<1>4. CASE ResumeProject
  BY <1>1, <1>4 DEF Calmed, ResumeProject
<1>5. ASSUME plan'.paused = plan.paused \/ plan'.paused, calm' = calm,
             tool'.pc = tool.pc \/ tool'.pc \notin {"send", "recheck"}
      PROVE  Calmed'
  BY <1>1, <1>5 DEF Calmed
<1>6. CASE UNCHANGED <<calm, tool>>
  <2>1. plan \in [paused : BOOLEAN, node : Status, reason : Reasons]
    BY DEF DelegationInv, DelegationTypeOK
  <2>2. plan'.paused = plan.paused \/ plan'.paused \/ ResumeProject
    BY <2>1, PlanFrame DEF NodeLands, MemberNode, PauseProject, StopNode, WritePlan
  <2>. QED BY <1>4, <1>5, <1>6, <2>2
<1>7. CASE RefuseDelegation \/ ReuseAssignment \/ Prepare \/ SyncTask
           \/ SyncAgain \/ Announce \/ MarkAssigned \/ NodeDone \/ CallFails \/ Replaced
  <2>1. UNCHANGED <<calm, plan>>
    BY <1>7 DEF RefuseDelegation, ReuseAssignment, Prepare, SyncTask, SyncAgain,
         Announce, MarkAssigned, NodeDone, CallFails, Replaced
  <2>2. tool'.pc \notin {"send", "recheck"}
    <3>1. CASE RefuseDelegation \/ CallFails \/ Replaced
      BY <3>1 DEF IdleTool, RefuseDelegation, CallFails, Replaced
    <3>2. CASE Prepare
      BY <1>1, <3>2 DEF Tools, Prepare
    <3>3. CASE ReuseAssignment \/ SyncTask \/ SyncAgain \/ Announce \/ MarkAssigned \/ NodeDone
      BY <1>1, <3>3 DEF Tools, ReuseAssignment, SyncTask, SyncAgain, Announce, MarkAssigned,
           NodeDone
    <3>. QED BY <1>7, <3>1, <3>2, <3>3
  <2>. QED BY <1>5, <2>1, <2>2
<1>8. ASSUME NEW w \in Workers, Delegate(w) PROVE Calmed'
  <2>1. tool'.pc = "load" /\ UNCHANGED <<calm, plan>>
    BY <1>8 DEF Delegate, IdleTool
  <2>. QED BY <1>5, <2>1
<1>. QED
  BY <1>2, <1>3, <1>4, <1>6, <1>7, <1>8
     DEF DelegationNext, delegationVars, PutLands, PutRejected, PutAnswers, Post, Lose, SendNode,
         NodeLands, MemberNode, MemberTask, PauseProject, StopReads, StopNode, StopTask, StopFails

(***************************************************************************)
(* Nothing is announced before the task's meta.json is stored.             *)
(***************************************************************************)
LEMMA LateIsStored ==
  ASSUME DelegationInv, tool.pc \in Late
  PROVE  stored.status \notin {"absent"}
<1>1. tool.to \in Workers /\ last.to = tool.to
  BY DEF DelegationInv, InCall, Late
<1>2. ASSUME stored.status = "absent" PROVE FALSE
  <2>1. stored.to = NoOne /\ stored.to = last.to
    BY <1>2 DEF DelegationInv, Unborn, Recorded, Blank
  <2>. QED BY <1>1, <2>1, AssigneeAssumption
<1>. QED BY <1>2

(***************************************************************************)
(* The first thing stored is the preparation.                              *)
(***************************************************************************)
LEMMA UnbornStep ==
  ASSUME DelegationInv, [DelegationNext]_delegationVars
  PROVE  Unborn'
<1>. SUFFICES ASSUME stored'.status = "absent"
              PROVE  /\ stored' = Blank
                     /\ Sent' = {}
                     /\ draft'.status \in {"absent", "prepared"}
                     /\ put'.st = "sent" => put'.body.status = "prepared"
  BY DEF Unborn
<1>1. UNCHANGED stored /\ ~PutLands
  <2>1. ~PutLands
    <3>. SUFFICES ASSUME PutLands PROVE FALSE
      OBVIOUS
    <3>1. put.st = "sent" /\ Accepts /\ put.body.status = "absent"
      BY DEF PutLands
    <3>2. CASE stored.status = "absent"
      BY <3>1, <3>2 DEF DelegationInv, Unborn
    <3>3. CASE stored.status # "absent"
      <4>1. \A s \in Status : "absent" \notin Transitions[s]
        BY DEF Transitions, Terminal
      <4>. QED BY <3>1, <3>3, <4>1
               DEF Accepts, Guard, StatusLane, Files, DelegationInv, DelegationTypeOK
    <3>. QED BY <3>2, <3>3
  <2>2. ASSUME NEW s \in Status, MemberTask(s) PROVE FALSE
    BY <2>2 DEF MemberTask, WriteTask, DelegationInv, DelegationTypeOK, Files, Status, Terminal
  <2>3. ASSUME NEW c \in Cancels, StopTask(c) PROVE FALSE
    BY <2>3 DEF StopTask, WriteTask, DelegationInv, Stopping
  <2>. QED BY <2>1, <2>2, <2>3, StoredFrame
<1>2. /\ stored = Blank
      /\ Sent = {}
      /\ draft.status \in {"absent", "prepared"}
      /\ put.st = "sent" => put.body.status = "prepared"
      /\ stored.status = "absent"
  BY <1>1 DEF DelegationInv, Unborn
<1>3. tool.pc \notin Late
  BY <1>2, LateIsStored
<1>4. Sent' = {}
  BY <1>2, <1>3, SentFrame DEF Announce, Late
<1>5. ASSUME SyncTask PROVE draft' = draft /\ put'.body = draft /\ draft.status = "prepared"
  <2>1. draft' = draft /\ put' = [st |-> "sent", live |-> TRUE, body |-> draft]
    BY <1>2, <1>5 DEF SyncTask
  <2>2. draft.status # "absent"
    BY <1>5 DEF SyncTask, DelegationInv, InCall
  <2>. QED BY <1>2, <2>1, <2>2
<1>6. draft'.status \in {"absent", "prepared"}
  <2>1. CASE draft' = Known
    BY <1>2, <2>1 DEF Known
  <2>2. CASE Prepare
    BY <2>2 DEF Prepare, Prepared, Blank
  <2>3. CASE Replaced
    BY <2>3 DEF Replaced, Blank
  <2>4. ~MarkAssigned
    BY <1>3 DEF MarkAssigned, Late
  <2>. QED BY <1>2, <1>5, <2>1, <2>2, <2>3, <2>4, DraftFrame
<1>7. put'.st = "sent" => put'.body.status = "prepared"
  BY <1>1, <1>2, <1>5, PutFrame DEF DelegationInv, NoPut
<1>. QED BY <1>1, <1>2, <1>4, <1>6, <1>7

(***************************************************************************)
(* A commit that lands numbers a new assignment or keeps a number that     *)
(* fits; a send adds the number of the assignment recorded.                *)
(***************************************************************************)
LEMMA NumberedStep ==
  ASSUME DelegationInv, [DelegationNext]_delegationVars
  PROVE  Numbered'
<1>1. /\ last \in [to : Assignees, txn : Nat, attempt : Nat]
      /\ Sent \subseteq Messages
      /\ Numbered
  BY DEF DelegationInv, DelegationTypeOK, Sent
<1>2. CASE PutLands
  <2>1. \A m \in Sent : m.txn = last'.txn => m.to = last'.to
    BY <1>2, LandedFacts DEF PutLands, DelegationInv, Offering, Offer
  <2>2. Sent' = Sent /\ room' = room
    BY <1>2, LandedFacts DEF PutLands
  <2>3. \A m \in Sent : m.attempt <= last'.attempt
    BY <1>1, <1>2, LandedFacts DEF Numbered, Messages
  <2>4. \A m \in Sent : m.attempt = last'.attempt => m.txn = last'.txn
    BY <1>1, <1>2, LandedFacts DEF Numbered
  <2>5. \A m \in Sent : m.txn = last'.txn =>
          \A e \in Sent : m.attempt < e.attempt => e.txn = last'.txn
    BY <1>2, LandedFacts DEF PutLands, DelegationInv, Offering, Offer
  <2>6. /\ \A m1, m2 \in Sent : m1.attempt = m2.attempt => m1.txn = m2.txn
        /\ \A m1, m2 \in room : m1.txn = m2.txn => m1 = m2
    BY <1>1 DEF Numbered
  <2>. QED BY <2>1, <2>2, <2>3, <2>4, <2>5, <2>6 DEF Numbered
<1>3. CASE Announce
  <2>1. /\ last.txn = tool.txn
        /\ last.to = tool.to
        /\ last' = last
        /\ room' = room
        /\ Sent' = Sent \cup {[txn |-> tool.txn, to |-> tool.to, attempt |-> last.attempt]}
    BY <1>3 DEF Announce, DelegationInv, InCall, Late, Sent
  <2>2. /\ last.attempt \in Nat
        /\ \A m \in Sent : m.attempt \in Nat
    BY <1>1 DEF Messages
  <2>3. /\ \A m \in Sent :
             /\ m.attempt <= last.attempt
             /\ m.attempt = last.attempt => m.txn = last.txn
             /\ m.txn = last.txn => m.to = last.to
        /\ \A m1, m2 \in Sent : m1.attempt = m2.attempt => m1.txn = m2.txn
        /\ \A m1, m2 \in room : m1.txn = m2.txn => m1 = m2
    BY <1>1 DEF Numbered
  <2>4. \A m, e \in Sent : m.txn = last.txn /\ m.attempt < e.attempt => e.txn = last.txn
    BY <1>1 DEF Numbered
  <2>5. \A m \in Sent' :
          \/ m \in Sent
          \/ m = [txn |-> last.txn, to |-> last.to, attempt |-> last.attempt]
    BY <2>1
  <2>6. \A m \in Sent' :
          /\ m.attempt <= last.attempt
          /\ m.attempt = last.attempt => m.txn = last.txn
          /\ m.txn = last.txn => m.to = last.to
    BY <2>2, <2>3, <2>5
  <2>7. \A m, e \in Sent' : m.txn = last.txn /\ m.attempt < e.attempt => e.txn = last.txn
    <3>1. SUFFICES ASSUME NEW m \in Sent', NEW e \in Sent',
                          m.txn = last.txn, m.attempt < e.attempt
                   PROVE  e.txn = last.txn
      OBVIOUS
    <3>2. CASE e \in Sent /\ m \in Sent
      BY <2>4, <3>1, <3>2
    <3>3. CASE e \notin Sent
      BY <2>5, <3>3
    <3>4. CASE m \notin Sent /\ e \in Sent
      BY <2>2, <2>3, <2>5, <3>1, <3>4
    <3>. QED BY <3>2, <3>3, <3>4
  <2>8. \A m1, m2 \in Sent' : m1.attempt = m2.attempt => m1.txn = m2.txn
    BY <2>3, <2>5
  <2>. QED BY <2>1, <2>3, <2>6, <2>7, <2>8 DEF Numbered
<1>4. CASE UNCHANGED last /\ ~Announce
  <2>1. Sent' \subseteq Sent
    BY <1>4, SentFrame
  <2>2. \A m1, m2 \in room' : m1.txn = m2.txn => m1 = m2
    BY <1>1, <1>4, MessageFrame DEF Numbered, Post, Lose
  <2>. QED BY <1>1, <1>4, <2>1, <2>2 DEF Numbered
<1>. QED BY <1>2, <1>3, <1>4, LastFrame

(***************************************************************************)
(* Who moves the call on.                                                  *)
(***************************************************************************)
LEMMA ToolFrame ==
  ASSUME [DelegationNext]_delegationVars
  PROVE  \/ UNCHANGED <<tool, draft, spec>>
         \/ \E w \in Workers : Delegate(w)
         \/ RefuseDelegation \/ ReuseAssignment \/ Prepare
         \/ SyncTask \/ SyncAgain \/ SyncDone
         \/ Recheck \/ Announce \/ MarkAssigned \/ NodeDone
         \/ CallFails \/ Replaced
BY DEF DelegationNext, delegationVars, PutLands, PutRejected, PutAnswers, Post, Lose, SendNode,
       NodeLands, MemberNode, MemberTask, PauseProject, ResumeProject, StopReads, StopNode,
       StopTask, StopFails

(***************************************************************************)
(* What a call takes over from an earlier one may be announced.            *)
(***************************************************************************)
LEMMA PreparedOffer ==
  ASSUME DelegationInv, Prepare
  PROVE  Offer(draft')
<1>1. PICK txn \in {IF KeepTxn THEN Known.txn ELSE minted + 1} : draft' = Prepared(tool.to, txn)
  BY DEF Prepare
<1>2. draft'.to = tool.to /\ draft'.txn = txn
  BY <1>1 DEF Prepared, Blank
<1>3. minted \in Nat /\ \A m \in Sent : m.txn <= minted /\ m.txn \in Nat
  BY DEF DelegationInv, DelegationBounded, DelegationTypeOK, Messages, Sent
<1>4. CASE stored.status = "absent"
  <2>1. Sent = {}
    BY <1>4 DEF DelegationInv, Unborn
  <2>2. txn # 0
    BY <1>1, <1>3 DEF KeepTxn
  <2>. QED BY <1>2, <2>1, <2>2 DEF Offer
<1>5. CASE stored.status # "absent"
  <2>1. Known = stored /\ stored.status # "cancelled"
    BY <1>5 DEF Known, Prepare, Refused, Terminal
  <2>2. stored.to = last.to /\ stored.txn = last.txn /\ stored.txn # 0
    BY <1>5, <2>1 DEF DelegationInv, Recorded
  <2>3. CASE KeepTxn
    <3>1. txn = last.txn /\ tool.to = last.to
      BY <1>1, <2>1, <2>2, <2>3 DEF KeepTxn, Redelegate
    <3>. QED BY <1>2, <2>2, <3>1 DEF Offer, DelegationInv, Numbered
  <2>4. CASE ~KeepTxn
    <3>1. txn = minted + 1 /\ tool.to # last.to
      BY <1>1, <2>1, <2>2, <2>4 DEF KeepTxn, Redelegate
    <3>2. \A m \in Sent : m.txn # txn
      BY <1>3, <3>1
    <3>. QED BY <1>2, <1>3, <3>1, <3>2 DEF Offer
  <2>. QED BY <2>3, <2>4
<1>. QED BY <1>4, <1>5

(***************************************************************************)
(* The complete assignment that is offered again goes on with the recorded *)
(* one.                                                                    *)
(***************************************************************************)
LEMMA ReusedOffer ==
  ASSUME DelegationInv, ReuseAssignment
  PROVE  /\ Offer(draft')
         /\ draft' = stored
         /\ draft'.to = tool.to
         /\ draft'.status = "assigned"
<1>1. draft' = Known /\ Known.status = "assigned" /\ Known.to = tool.to
  BY DEF ReuseAssignment, Assigned, Redelegate
<1>2. Known = stored
  BY <1>1 DEF Known, DelegationInv, Unborn
<1>3. stored.to = last.to /\ stored.txn = last.txn /\ stored.txn # 0
  BY <1>1, <1>2 DEF DelegationInv, Recorded
<1>. QED BY <1>1, <1>2, <1>3 DEF Offer, DelegationInv, Numbered

(***************************************************************************)
(* What is offered stays an offer until it lands.                          *)
(***************************************************************************)
LEMMA OfferingStep ==
  ASSUME DelegationInv, [DelegationNext]_delegationVars
  PROVE  Offering'
<1>. DEFINE OfferThen(file) ==
       /\ file.txn # 0
       /\ \/ file.to # last'.to
          \/ file.txn = last'.txn
          \/ \A m \in Sent' : m.attempt # last'.attempt
       /\ \A m \in Sent' : m.txn = file.txn =>
            /\ m.to = file.to
            /\ \A e \in Sent' : m.attempt < e.attempt => e.txn = file.txn
<1>1. ASSUME NEW file, Offer(file), ~Announce PROVE OfferThen(file)
  <2>1. Sent' \subseteq Sent
    BY <1>1, SentFrame
  <2>2. last' = last \/ \A m \in Sent : m.attempt # last'.attempt
    BY LastFrame, LandedFacts
  <2>. QED BY <1>1, <2>1, <2>2 DEF Offer
<1>2. ASSUME SyncTask PROVE OfferThen(draft') /\ put'.body = draft'
  <2>1. PICK merged \in {IF stored.status = "absent" THEN draft ELSE Merge(draft, stored)} :
          /\ draft' = merged
          /\ put' = [st |-> "sent", live |-> TRUE, body |-> merged]
    BY <1>2 DEF SyncTask
  <2>2. stored \in Files /\ draft \in Files
    BY DEF DelegationInv, DelegationTypeOK
  <2>3. draft'.to = draft.to /\ draft'.txn = draft.txn
    BY <2>1, <2>2, MergeFacts
  <2>4. Offer(draft) /\ ~Announce
    BY <1>2 DEF SyncTask, Announce, DelegationInv, Offering
  <2>5. OfferThen(draft)
    BY <1>1, <2>4
  <2>. QED BY <2>1, <2>3, <2>5
<1>3. put'.st = "sent" => OfferThen(put'.body)
  <2>1. CASE SyncTask
    BY <1>2, <2>1
  <2>2. CASE PutLands
    BY <2>2, LandedFacts
  <2>3. CASE put' = NoPut
    BY <2>3 DEF NoPut
  <2>4. CASE put'.body = put.body /\ (put'.st = "sent" => put.st = "sent")
    <3>1. Announce => put.st # "sent"
      BY DEF Announce, DelegationInv, InCall, Late, NoPut
    <3>. QED BY <1>1, <2>4, <3>1 DEF DelegationInv, Offering
  <2>. QED BY <2>1, <2>2, <2>3, <2>4, PutFrame DEF DelegationInv
<1>4. tool \in Tools
  BY DEF DelegationInv, DelegationTypeOK
<1>5. tool'.pc \in {"sync", "wait"} => OfferThen(draft')
  <2>1. CASE SyncTask
    BY <1>2, <2>1
  <2>2. CASE Prepare
    <3>1. UNCHANGED <<wire, room, last>>
      BY <2>2 DEF Prepare
    <3>. QED BY <2>2, <3>1, PreparedOffer DEF Offer, Sent
  <2>3. CASE ReuseAssignment
    <3>1. UNCHANGED <<wire, room, last>>
      BY <2>3 DEF ReuseAssignment
    <3>. QED BY <2>3, <3>1, ReusedOffer DEF Offer, Sent
  <2>4. CASE NodeDone
    <3>1. /\ draft.txn = last.txn /\ draft.to = last.to /\ draft.txn # 0
          /\ draft' = draft /\ ~Announce
      BY <2>4 DEF NodeDone, Announce, DelegationInv, InCall, Late
    <3>2. Offer(draft)
      BY <3>1 DEF Offer, DelegationInv, Numbered
    <3>. QED BY <1>1, <3>1, <3>2
  <2>5. CASE UNCHANGED <<tool, draft>> \/ SyncAgain
    <3>1. draft' = draft /\ tool'.pc \in {"sync", "wait"} => tool.pc \in {"sync", "wait"}
      BY <1>4, <2>5 DEF SyncAgain, Tools
    <3>2. draft' = draft /\ (Announce => tool.pc = "send")
      BY <2>5 DEF SyncAgain, Announce
    <3>. QED BY <1>1, <3>1, <3>2 DEF DelegationInv, Offering
  <2>7. CASE SyncDone \/ Recheck \/ Announce \/ MarkAssigned
    <3>1. CASE SyncDone
      BY <1>4, <3>1 DEF SyncDone, IdleTool, Tools
    <3>2. CASE Recheck
      BY <1>4, <3>2 DEF Recheck, IdleTool, Tools
    <3>3. CASE Announce \/ MarkAssigned
      BY <1>4, <3>3 DEF Announce, MarkAssigned, Tools
    <3>. QED BY <2>7, <3>1, <3>2, <3>3
  <2>8. CASE CallFails \/ Replaced \/ RefuseDelegation \/ \E w \in Workers : Delegate(w)
    <3>1. CASE CallFails \/ Replaced \/ RefuseDelegation
      BY <3>1 DEF CallFails, Replaced, RefuseDelegation, IdleTool
    <3>2. ASSUME NEW w \in Workers, Delegate(w) PROVE tool'.pc = "load"
      BY <3>2 DEF Delegate, IdleTool
    <3>. QED BY <2>8, <3>1, <3>2
  <2>. QED BY <2>1, <2>2, <2>3, <2>4, <2>5, <2>7, <2>8, ToolFrame
<1>. QED BY <1>3, <1>5 DEF Offering, Offer

(***************************************************************************)
(* The PUT while nothing moves the call that sent it.                      *)
(***************************************************************************)
LEMMA PutWhenIdle ==
  ASSUME [DelegationNext]_delegationVars, UNCHANGED <<tool, draft, spec>>, tool.pc # "idle",
         tool \in Tools, put \in Puts
  PROVE  \/ PutLands
         \/ /\ put'.body = put.body
            /\ put'.st \in {"stat", "ok"} => put.st \in {"stat", "ok"}
            /\ put.st = "none" /\ put.live = FALSE => put' = put
<1>1. CASE PutRejected \/ PutAnswers
  BY <1>1 DEF Puts, PutRejected, PutAnswers
<1>2. ASSUME NEW file, WriteTask(file) PROVE put' = [put EXCEPT !.live = FALSE]
  BY <1>2 DEF WriteTask
<1>3. put' = [put EXCEPT !.live = FALSE] \/ put' = put \/ PutRejected \/ PutAnswers \/ PutLands
  <2>1. ~(\E w \in Workers : Delegate(w))
    BY DEF Delegate, IdleTool
  <2>2. ~RefuseDelegation /\ ~CallFails /\ ~Replaced
    BY DEF RefuseDelegation, CallFails, Replaced, IdleTool
  <2>3. ~SyncTask /\ ~SyncAgain /\ ~SyncDone
    BY DEF SyncTask, SyncAgain, SyncDone, Tools, IdleTool
  <2>. QED
    BY <1>2, <2>1, <2>2, <2>3
       DEF DelegationNext, delegationVars, ReuseAssignment, Prepare, Recheck, Announce,
           MarkAssigned, Post, Lose, SendNode, NodeLands, NodeDone, MemberNode, MemberTask,
           PauseProject, ResumeProject, StopReads, StopNode, StopTask, StopFails
<1>. QED BY <1>1, <1>3 DEF Puts

(***************************************************************************)
(* What a call knows stays true while the others take their steps.         *)
(***************************************************************************)
LEMMA InCallStep ==
  ASSUME DelegationInv, [DelegationNext]_delegationVars
  PROVE  InCall'
<1>1. /\ tool \in Tools /\ draft \in Files /\ stored \in Files /\ put \in Puts
      /\ InCall
  BY DEF DelegationInv, DelegationTypeOK
<1>2. tool.pc \in Late => put = NoPut
  BY <1>1 DEF InCall
<1>3. ASSUME NEW w \in Workers, Delegate(w) PROVE InCall'
  <2>1. tool'.pc = "load" /\ tool'.to = w
    BY <1>3 DEF Delegate, IdleTool
  <2>. QED BY <2>1 DEF InCall, Late
<1>4. CASE RefuseDelegation \/ CallFails \/ Replaced
  <2>1. tool'.pc = "idle"
    BY <1>4 DEF RefuseDelegation, CallFails, Replaced, IdleTool
  <2>. QED BY <2>1 DEF InCall, Late
<1>5. CASE ReuseAssignment
  <2>1. tool'.pc = "sync" /\ tool'.sync = "reuse" /\ tool'.to = tool.to /\ tool.to \in Workers
    BY <1>1, <1>5 DEF ReuseAssignment, Tools, InCall
  <2>. QED BY <1>5, <2>1, ReusedOffer DEF InCall, Late
<1>6. CASE Prepare
  <2>1. PICK txn \in {IF KeepTxn THEN Known.txn ELSE minted + 1} :
          /\ draft' = Prepared(tool.to, txn)
          /\ tool' = [tool EXCEPT !.pc = "sync", !.sync = "publish", !.txn = txn,
                                  !.node = "planned"]
    BY <1>6 DEF Prepare
  <2>2. /\ tool'.pc = "sync" /\ tool'.to = tool.to /\ tool'.txn = txn /\ tool.to \in Workers
        /\ draft'.status = "prepared" /\ draft'.to = tool.to /\ draft'.txn = txn
    BY <1>1, <1>6, <2>1 DEF Prepare, Tools, InCall, Prepared, Blank
  <2>. QED BY <2>2 DEF InCall, Late
<1>7. CASE SyncTask
  <2>1. PICK merged \in {IF stored.status = "absent" THEN draft ELSE Merge(draft, stored)} :
          /\ draft' = merged
          /\ put' = [st |-> "sent", live |-> TRUE, body |-> merged]
    BY <1>7 DEF SyncTask
  <2>2. /\ merged.to = draft.to /\ merged.txn = draft.txn
        /\ merged.status \in {draft.status, "cancelled"}
    BY <1>1, MergeFacts
  <2>3. /\ tool.pc = "sync" /\ tool'.pc = "wait" /\ tool'.to = tool.to /\ tool'.txn = tool.txn
        /\ tool'.sync = tool.sync /\ (tool.sync = "publish" => spec' = tool.txn)
    BY <1>1, <1>7 DEF SyncTask, Tools
  <2>. QED BY <1>1, <2>1, <2>2, <2>3 DEF InCall, Late
<1>8. CASE SyncAgain
  <2>1. /\ tool.pc = "wait" /\ tool'.pc = "sync" /\ tool'.to = tool.to /\ tool'.txn = tool.txn
        /\ tool'.sync = tool.sync /\ draft' = draft
    BY <1>1, <1>8 DEF SyncAgain, Tools
  <2>. QED BY <1>1, <2>1 DEF InCall, Late
<1>9. CASE SyncDone
  <2>1. CASE tool.sync # "publish"
    <3>1. tool'.pc = "idle"
      BY <1>9, <2>1 DEF SyncDone, IdleTool
    <3>. QED BY <3>1 DEF InCall, Late
  <2>2. CASE tool.sync = "publish"
    <3>1. /\ tool.pc = "wait" /\ put.st = "ok" /\ put' = NoPut
          /\ UNCHANGED <<last, spec, draft>>
          /\ tool'.pc = "recheck" /\ tool'.to = tool.to /\ tool'.txn = tool.txn
          /\ tool'.sync = "publish"
      BY <1>1, <1>9, <2>2 DEF SyncDone, Synced, Confirmed, Tools
    <3>2. draft.txn # 0
      BY <3>1 DEF DelegationInv, Offering, Offer
    <3>. QED BY <1>1, <2>2, <3>1, <3>2 DEF InCall, Late
  <2>. QED BY <2>1, <2>2
<1>10. CASE Recheck
  <2>1. \/ tool'.pc = "idle"
        \/ /\ tool'.pc = "send" /\ tool'.to = tool.to /\ tool'.txn = tool.txn
           /\ tool'.sync = tool.sync
    BY <1>1, <1>10 DEF Recheck, Tools, IdleTool
  <2>2. tool.pc = "recheck" /\ UNCHANGED <<put, spec, last>>
    BY <1>10 DEF Recheck
  <2>. QED BY <1>1, <2>1, <2>2 DEF InCall, Late
<1>11. CASE Announce
  <2>1. /\ tool.pc = "send" /\ tool'.pc = "sending" /\ tool'.to = tool.to /\ tool'.txn = tool.txn
        /\ tool'.sync = tool.sync /\ UNCHANGED <<put, spec, last>>
    BY <1>1, <1>11 DEF Announce, Tools
  <2>. QED BY <1>1, <2>1 DEF InCall, Late
<1>12. CASE MarkAssigned
  <2>1. /\ tool.pc = "sending" /\ tool'.pc = "node" /\ tool'.to = tool.to /\ tool'.txn = tool.txn
        /\ tool'.sync = tool.sync /\ UNCHANGED <<put, spec, last>>
    BY <1>1, <1>12 DEF MarkAssigned, Tools
  <2>2. draft'.status = "assigned" /\ draft'.to = tool.to /\ draft'.txn = tool.txn
    BY <1>12 DEF MarkAssigned, Prepared, Blank
  <2>. QED BY <1>1, <2>1, <2>2 DEF InCall, Late
<1>13. CASE NodeDone
  <2>1. /\ tool.pc = "node" /\ tool'.pc = "sync" /\ tool'.to = tool.to /\ tool'.txn = tool.txn
        /\ tool.sync = "publish" /\ draft' = draft
    BY <1>1, <1>13 DEF NodeDone, Tools, InCall, Late
  <2>. QED BY <1>1, <2>1 DEF InCall, Late
<1>14. CASE PutLands
  <2>1. tool.pc \notin Late
    BY <1>2, <1>14 DEF PutLands, NoPut
  <2>2. UNCHANGED <<tool, draft, spec>>
    BY <1>14 DEF PutLands
  <2>. QED BY <1>1, <1>14, <2>1, <2>2, LandedFacts DEF InCall
<1>15. CASE UNCHANGED <<tool, draft, spec>> /\ ~PutLands
  <2>1. UNCHANGED last
    BY <1>15, LastFrame
  <2>2. tool.pc \in Late => put' = put
    <3>. SUFFICES ASSUME tool.pc \in Late PROVE put' = put
      OBVIOUS
    <3>1. tool.pc # "idle" /\ put.st = "none" /\ put.live = FALSE
      BY <1>2 DEF Late, NoPut
    <3>. QED BY <1>1, <1>15, <3>1, PutWhenIdle
  <2>3. CASE tool.pc = "wait"
    <3>1. put'.body = put.body /\ (put'.st \in {"stat", "ok"} => put.st \in {"stat", "ok"})
      BY <1>1, <1>15, <2>3, PutWhenIdle
    <3>. QED BY <1>1, <1>15, <2>1, <2>3, <3>1 DEF InCall, Late
  <2>. QED BY <1>1, <1>15, <2>1, <2>2, <2>3 DEF InCall
<1>. QED
  BY <1>3, <1>4, <1>5, <1>6, <1>7, <1>8, <1>9, <1>10, <1>11, <1>12, <1>13, <1>14, <1>15, ToolFrame

(***************************************************************************)
(* A new id is greater than all the others.                                *)
(***************************************************************************)
LEMMA BoundedStep ==
  ASSUME DelegationInv, DelegationTypeOK', [DelegationNext]_delegationVars
  PROVE  DelegationBounded'
<1>1. /\ tool \in Tools /\ draft \in Files /\ stored \in Files /\ put \in Puts
      /\ minted \in Nat /\ last.txn \in Nat /\ Sent \subseteq Messages
      /\ stop \in [Cancels -> Stops]
      /\ DelegationBounded
  BY DEF DelegationInv, DelegationTypeOK, Sent
<1>2. Known.txn \in Nat /\ Known.txn <= minted
  BY <1>1 DEF Known, DelegationBounded, Files
<1>3. minted' \in Nat /\ minted <= minted'
  BY <1>1, MintedFrame DEF DelegationInv, Prepare
<1>4. ASSUME SyncTask PROVE draft'.txn = draft.txn /\ put'.body = draft'
  <2>1. PICK merged \in {IF stored.status = "absent" THEN draft ELSE Merge(draft, stored)} :
          /\ draft' = merged
          /\ put' = [st |-> "sent", live |-> TRUE, body |-> merged]
    BY <1>4 DEF SyncTask
  <2>. QED BY <1>1, <2>1, MergeFacts
<1>5. ASSUME Prepare PROVE draft'.txn <= minted' /\ tool'.txn <= minted'
  <2>1. PICK txn \in {IF KeepTxn THEN Known.txn ELSE minted + 1} :
          /\ draft' = Prepared(tool.to, txn)
          /\ tool' = [tool EXCEPT !.pc = "sync", !.sync = "publish", !.txn = txn,
                                  !.node = "planned"]
    BY <1>5 DEF Prepare
  <2>2. txn <= minted'
    BY <1>1, <1>2, <1>5, <2>1 DEF Prepare
  <2>. QED BY <1>1, <2>1, <2>2 DEF Prepared, Blank, Tools
<1>6. Blank.txn = 0 /\ NoPut.body.txn = 0
  BY DEF Blank, NoPut
<1>7. stored'.txn <= minted'
  <2>1. \/ stored'.txn \in {stored.txn, put.body.txn}
        \/ \E c \in Cancels : stored'.txn = stop[c].body.txn
    <3>1. ASSUME NEW s \in Status, MemberTask(s) PROVE stored'.txn = stored.txn
      BY <1>1, <3>1 DEF MemberTask, WriteTask, Files
    <3>2. ASSUME NEW c \in Cancels, StopTask(c) PROVE stored'.txn = stop[c].body.txn
      BY <3>2 DEF StopTask, WriteTask
    <3>. QED BY <3>1, <3>2, StoredFrame DEF PutLands
  <2>. QED BY <1>1, <1>3, <2>1 DEF DelegationBounded, Files, Puts, Stops
<1>8. draft'.txn <= minted'
  <2>1. CASE MarkAssigned
    <3>1. draft'.txn = tool.txn
      BY <2>1 DEF MarkAssigned, Prepared, Blank
    <3>. QED BY <1>1, <1>3, <3>1 DEF DelegationBounded, Tools
  <2>2. CASE draft'.txn \in {draft.txn, Known.txn, 0}
    BY <1>1, <1>2, <1>3, <2>2 DEF DelegationBounded, Files
  <2>. QED BY <1>4, <1>5, <1>6, <2>1, <2>2, DraftFrame DEF Replaced
<1>9. put'.body.txn <= minted'
  <2>1. put'.body.txn \in {put.body.txn, draft'.txn, 0}
    BY <1>4, <1>6, PutFrame, LandedFacts DEF DelegationInv
  <2>. QED BY <1>1, <1>3, <1>8, <2>1 DEF DelegationBounded, Files, Puts
<1>10. tool'.txn <= minted'
  <2>1. CASE tool'.txn \in {tool.txn, 0}
    BY <1>1, <1>3, <2>1 DEF DelegationBounded, Tools
  <2>2. ASSUME NEW w \in Workers, Delegate(w) PROVE tool'.txn = 0
    BY <2>2 DEF Delegate, IdleTool
  <2>3. RefuseDelegation \/ CallFails \/ Replaced => tool'.txn = 0
    BY DEF RefuseDelegation, CallFails, Replaced, IdleTool
  <2>4. ReuseAssignment \/ SyncTask \/ SyncAgain \/ Announce \/ MarkAssigned \/ NodeDone
          => tool'.txn = tool.txn
    BY <1>1 DEF ReuseAssignment, SyncTask, SyncAgain, Announce, MarkAssigned, NodeDone, Tools
  <2>5. SyncDone => tool'.txn \in {tool.txn, 0}
    BY <1>1 DEF SyncDone, Tools, IdleTool
  <2>6. Recheck => tool'.txn \in {tool.txn, 0}
    BY <1>1 DEF Recheck, Tools, IdleTool
  <2>. QED BY <1>5, <2>1, <2>2, <2>3, <2>4, <2>5, <2>6, ToolFrame
<1>11. last'.txn <= minted'
  <2>1. last'.txn \in {last.txn, put.body.txn}
    BY LastFrame, LandedFacts
  <2>. QED BY <1>1, <1>3, <2>1 DEF DelegationBounded, Files, Puts
<1>12. \A m \in Sent' : m.txn <= minted'
  <2>1. ASSUME NEW m \in Sent' PROVE m \in Sent \/ m.txn = tool.txn
    BY SentFrame DEF Announce, Sent
  <2>. QED BY <1>1, <1>3, <2>1 DEF DelegationBounded, Messages, Tools
<1>13. ASSUME NEW c \in Cancels PROVE stop'[c].body.txn <= minted'
  <2>1. stop'[c].body.txn \in {stop[c].body.txn, stored.txn, 0}
    BY <1>1, StopFrame
  <2>. QED BY <1>1, <1>3, <2>1 DEF DelegationBounded, Files, Stops
<1>. QED
  BY <1>7, <1>8, <1>9, <1>10, <1>11, <1>12, <1>13 DEF DelegationBounded

-----------------------------------------------------------------------------
(***************************************************************************)
(* Everything starts blank.                                                *)
(***************************************************************************)
LEMMA DelegationInitInv == DelegationInit => DelegationInv
<1>. SUFFICES ASSUME DelegationInit PROVE DelegationInv
  OBVIOUS
<1>. USE DelegationIdleTypes DEF DelegationInit
<1>1. DelegationTypeOK
  BY DEF DelegationTypeOK, Assignees, Status, Reasons
<1>2. DelegationBounded /\ Stopping /\ Unborn /\ Recorded
  BY DEF DelegationBounded, Stopping, Unborn, Recorded, Sent, Blank, IdleTool, NoPut, IdleStop
<1>3. Vouching /\ Numbered /\ Offering
  BY DEF Vouching, Vouched, Numbered, Offering, Sent, Blank, IdleTool, NoPut
<1>4. InCall /\ Calmed
  BY DEF InCall, Calmed, Late, IdleTool
<1>. QED BY <1>1, <1>2, <1>3, <1>4 DEF DelegationInv

(***************************************************************************)
(* Every step preserves the inductive invariant.                           *)
(***************************************************************************)
LEMMA DelegationInvStep ==
  DelegationInv /\ [DelegationNext]_delegationVars => DelegationInv'
<1>. SUFFICES ASSUME DelegationInv, [DelegationNext]_delegationVars PROVE DelegationInv'
  OBVIOUS
<1>1. DelegationTypeOK'
  BY DelegationTypeStep DEF DelegationInv
<1>. QED
  BY <1>1, BoundedStep, StoppingStep, UnbornStep, RecordedStep, VouchingStep, NumberedStep,
     OfferingStep, InCallStep, CalmedStep
     DEF DelegationInv

(***************************************************************************)
(* DelegationInv holds in every reachable state of delegate_task, for any  *)
(* number of workers, calls, pauses and CancelTask requests.               *)
(***************************************************************************)
THEOREM DelegationInvariant == DelegationSpec => []DelegationInv
BY DelegationInitInv, DelegationInvStep, PTL DEF DelegationSpec

(***************************************************************************)
(* The records keep their shape through every call, retry and late answer. *)
(***************************************************************************)
THEOREM DelegationTyped == DelegationSpec => []DelegationTypeOK
<1>1. DelegationInv => DelegationTypeOK
  BY DEF DelegationInv
<1>. QED BY <1>1, DelegationInvariant, PTL

(***************************************************************************)
(* The messages of one assignment are one message in the room.             *)
(***************************************************************************)
THEOREM OneAnnouncement == DelegationSpec => []AnnouncedOnce
<1>1. DelegationInv => AnnouncedOnce
  BY DEF DelegationInv, Numbered, Sent, AnnouncedOnce
<1>. QED BY <1>1, DelegationInvariant, PTL

(***************************************************************************)
(* A stored task is assigned, or beyond, only if its worker is the one the *)
(* room was told of last: the call vouches for it, and no later            *)
(* announcement has overtaken the recorded one.                            *)
(***************************************************************************)
THEOREM AnnouncedBeforeAssigned == DelegationSpec => []AssignedAnnounced
<1>1. DelegationInv => AssignedAnnounced
  <2>. SUFFICES ASSUME DelegationInv, stored.status \notin {"absent", "prepared", "cancelled"}
                PROVE  \E m \in room :
                         /\ m.txn = stored.event /\ m.to = stored.to
                         /\ \A e \in room : e.attempt <= m.attempt
    BY DEF AssignedAnnounced
  <2>1. PICK m \in room : m.txn = stored.event /\ m.to = stored.to
    BY DEF DelegationInv, Vouching, Vouched
  <2>2. m.txn = last.txn
    BY <2>1 DEF DelegationInv, Vouching, Vouched, Recorded
  <2>3. ASSUME NEW e \in room PROVE e.attempt <= m.attempt
    <3>1. m.attempt \in Nat /\ e.attempt \in Nat
      BY DEF DelegationInv, DelegationTypeOK, Messages
    <3>2. m.attempt < e.attempt => e.txn = m.txn
      BY <2>2 DEF DelegationInv, Numbered, Sent
    <3>3. e.txn = m.txn => e = m
      BY DEF DelegationInv, Numbered
    <3>. QED BY <3>1, <3>2, <3>3
  <2>. QED BY <2>1, <2>3
<1>. QED BY <1>1, DelegationInvariant, PTL

(***************************************************************************)
(* At the moment of the send the files of the attempt are published.       *)
(***************************************************************************)
THEOREM PublishedBeforeTold == DelegationSpec => ToldOfPublished
<1>1. DelegationInv /\ [DelegationNext]_delegationVars =>
        [\A m \in wire' \ wire :
           /\ spec = m.txn
           /\ stored.status # "cancelled" => stored.txn = m.txn /\ stored.to = m.to]_delegationVars
  <2>. SUFFICES ASSUME DelegationInv, [DelegationNext]_delegationVars, NEW m \in wire' \ wire
                PROVE  /\ spec = m.txn
                       /\ stored.status # "cancelled" => stored.txn = m.txn /\ stored.to = m.to
    OBVIOUS
  <2>1. Announce
    BY MessageFrame DEF Post, Lose
  <2>2. m.txn = tool.txn /\ m.to = tool.to
    BY <2>1 DEF Announce
  <2>3. spec = tool.txn /\ last.txn = tool.txn /\ last.to = tool.to
    BY <2>1 DEF Announce, DelegationInv, InCall, Late
  <2>. QED BY <2>2, <2>3 DEF DelegationInv, Recorded
<1>. QED BY <1>1, DelegationInvariant, PTL DEF DelegationSpec, ToldOfPublished

(***************************************************************************)
(* Nothing is sent in a pause that has lasted since the publication.       *)
(***************************************************************************)
THEOREM PauseKeepsQuiet == DelegationSpec => PauseHonoured
<1>1. DelegationInv /\ [DelegationNext]_delegationVars =>
        [\A m \in wire' \ wire : calm]_delegationVars
  <2>. SUFFICES ASSUME DelegationInv, [DelegationNext]_delegationVars, NEW m \in wire' \ wire
                PROVE  calm
    OBVIOUS
  <2>1. Announce
    BY MessageFrame DEF Post, Lose
  <2>. QED BY <2>1 DEF Announce, DelegationInv, Calmed
<1>. QED BY <1>1, DelegationInvariant, PTL DEF DelegationSpec, PauseHonoured

(***************************************************************************)
(* The Controller's guard and the ETag keep the lifecycle contract,        *)
(* whatever stale copy delegate_task or CancelTask writes.                 *)
(***************************************************************************)
THEOREM DelegationFollowsContract == DelegationSpec => DelegationInContract
<1>1. DelegationInv /\ [DelegationNext]_delegationVars =>
        [stored.status # stored'.status =>
           \/ stored.status = "absent" /\ stored'.status = "prepared"
           \/ stored'.status = "cancelled"
           \/ stored.status # "absent" /\ stored'.status \in Transitions[stored.status]
        ]_delegationVars
  <2>. SUFFICES ASSUME DelegationInv, [DelegationNext]_delegationVars,
                       stored.status # stored'.status
                PROVE  \/ stored.status = "absent" /\ stored'.status = "prepared"
                       \/ stored'.status = "cancelled"
                       \/ stored.status # "absent" /\ stored'.status \in Transitions[stored.status]
    OBVIOUS
  <2>1. CASE PutLands
    <3>1. put.st = "sent" /\ Accepts /\ stored' = put.body
      BY <2>1 DEF PutLands
    <3>2. CASE stored.status = "absent"
      BY <3>1, <3>2 DEF DelegationInv, Unborn
    <3>3. CASE stored.status # "absent"
      BY <3>1, <3>3 DEF Accepts, Guard, StatusLane
    <3>. QED BY <3>2, <3>3
  <2>2. ASSUME NEW s \in Status, MemberTask(s)
        PROVE  stored.status # "absent" /\ stored'.status \in Transitions[stored.status]
    BY <2>2 DEF MemberTask, WriteTask, Working, DelegationInv, DelegationTypeOK, Files
  <2>3. ASSUME NEW c \in Cancels, StopTask(c) PROVE stored'.status = "cancelled"
    BY <2>3 DEF StopTask, WriteTask, DelegationInv, Stopping
  <2>. QED BY <2>1, <2>2, <2>3, StoredFrame
<1>. QED BY <1>1, DelegationInvariant, PTL DEF DelegationSpec, DelegationInContract
=============================================================================
