------------------------ MODULE ProjectControlProofs ------------------------
(***************************************************************************)
(* Theorems about ProjectControl, for any members, requests, admins, tool  *)
(* actions, endpoints and numbers of attempts and calls.                   *)
(***************************************************************************)
EXTENDS ProjectControl, TLAPS

(***************************************************************************)
(* The constant records have their types.                                  *)
(***************************************************************************)
LEMMA IdleTypes ==
  /\ Fresh \in Projects /\ Absent \in Projects
  /\ IdleCall \in Calls
  /\ NoReq \in Reqs
  /\ IdleCtl \in Ctls
<1>1. Fresh \in Projects /\ Absent \in Projects
  BY DEF Fresh, Absent, Projects, Work, Sources
<1>2. 1 \in 1..MaxAttempts /\ 1 \in 1..MaxCas
  BY ProjectBounds
<1>3. IdleCall \in Calls
  BY <1>2 DEF IdleCall, Calls
<1>4. NoReq \in Reqs
  BY <1>1 DEF NoReq, Reqs, Authored
<1>5. IdleCtl \in Ctls
  BY <1>1, <1>2 DEF IdleCtl, Ctls
<1>. QED BY <1>1, <1>3, <1>4, <1>5

(***************************************************************************)
(* A write takes the ETags away and nothing else.                          *)
(***************************************************************************)
LEMMA StaleFacts ==
  ASSUME TypeOK
  PROVE  /\ StaleReqs \in [Members -> Reqs]
         /\ StaleCtls \in [Requests -> Ctls]
         /\ \A m \in Members : /\ ~StaleReqs[m].live
                               /\ StaleReqs[m].st = req[m].st
                               /\ StaleReqs[m].authored = req[m].authored
                               /\ StaleReqs[m].body = req[m].body
         /\ \A r \in Requests : /\ ~StaleCtls[r].live
                                /\ StaleCtls[r].pc = ctl[r].pc
                                /\ StaleCtls[r].op = ctl[r].op
                                /\ StaleCtls[r].source = ctl[r].source
<1>1. StaleReqs \in [Members -> Reqs]
  BY DEF TypeOK, StaleReqs, Reqs
<1>2. StaleCtls \in [Requests -> Ctls]
  BY ZenonT(60) DEF TypeOK, StaleCtls, Ctls
<1>3. ASSUME NEW m \in Members
      PROVE  /\ ~StaleReqs[m].live
             /\ StaleReqs[m].st = req[m].st
             /\ StaleReqs[m].authored = req[m].authored
             /\ StaleReqs[m].body = req[m].body
  BY DEF TypeOK, StaleReqs, Reqs
<1>4. ASSUME NEW r \in Requests
      PROVE  /\ ~StaleCtls[r].live
             /\ StaleCtls[r].pc = ctl[r].pc
             /\ StaleCtls[r].op = ctl[r].op
             /\ StaleCtls[r].source = ctl[r].source
  BY DEF TypeOK, StaleCtls, Ctls
<1>. QED BY <1>1, <1>2, <1>3, <1>4

(***************************************************************************)
(* A merged copy has its type and is fit to be committed: it is the local  *)
(* plan under the stored pause state.                                      *)
(***************************************************************************)
LEMMA MergeFacts ==
  ASSUME NEW l \in Projects, NEW p \in Projects, NEW a \in Authored
  PROVE  /\ Merge(l, p, a) \in Projects
         /\ Merge(l, p, a).exists = l.exists
         /\ CopyOK(l) /\ CopyOK(p) => CopyOK(Merge(l, p, a))
         /\ CopyOK(l) /\ Settled(l) => Settled(Merge(l, p, a))
         /\ KeepsPause(Merge(l, p, a), a, p)
<1>. DEFINE q == Merge(l, p, a)
<1>1. /\ q \in Projects /\ q.exists = l.exists /\ q.plan = l.plan /\ q.dag = l.dag
      /\ q.sources = p.sources /\ q.flag = p.flag
      /\ q.loop = (l.loop \/ p.loop)
      /\ q.iter = IF l.loop THEN l.iter ELSE p.iter
      /\ q.status = IF p.status = "paused" THEN "paused" ELSE IF a = "none" THEN p.status ELSE a
  BY ZenonT(60) DEF Merge, Projects, Authored
<1>. HIDE DEF q
<1>2. CopyOK(l) /\ CopyOK(p) => CopyOK(q)
  BY <1>1 DEF CopyOK
<1>3. CopyOK(l) /\ Settled(l) => Settled(q)
  BY <1>1 DEF CopyOK, Settled
<1>4. KeepsPause(q, a, p)
  BY <1>1 DEF KeepsPause
<1>. QED BY <1>1, <1>2, <1>3, <1>4 DEF q

(***************************************************************************)
(* What a lifecycle endpoint writes: the pause sources and the loop record *)
(* stay, and it is a completion only after the check of the plan.          *)
(***************************************************************************)
LEMMA ApplyFacts ==
  ASSUME NEW p \in Projects, NEW op
  PROVE  /\ Apply(op, p) \in Projects
         /\ Apply(op, p).exists = p.exists
         /\ Apply(op, p).sources = p.sources
         /\ CopyOK(p) => CopyOK(Apply(op, p))
         /\ ~Refused(op, p) /\ p.status # "completed" /\ Apply(op, p).status = "completed" =>
              Settled(Apply(op, p))
<1>. DEFINE audited == [p EXCEPT !.seq = @ + 1]
            Same(q) == /\ q.exists = p.exists /\ q.sources = p.sources /\ q.flag = p.flag
                       /\ q.loop = p.loop /\ q.plan = p.plan /\ q.iter = p.iter
<1>1. audited \in Projects /\ Same(audited) /\ audited.dag = p.dag /\ audited.status = p.status
  BY DEF Projects
<1>2. \A q : Same(q) /\ CopyOK(p) => CopyOK(q)
  BY DEF CopyOK
<1>. HIDE DEF audited
<1>3. CASE op = "PauseProject"
  <2>1. Apply(op, p) = [audited EXCEPT !.status = "paused"]
    BY <1>3 DEF Apply, audited
  <2>2. /\ Apply(op, p) \in Projects /\ Same(Apply(op, p))
        /\ Apply(op, p).status = "paused"
    BY <1>1, <2>1 DEF Projects
  <2>. QED BY <1>2, <2>2
<1>4. CASE op = "ResumeProject"
  <2>1. Apply(op, p) = [audited EXCEPT !.status = "active"]
    BY <1>4 DEF Apply, audited
  <2>2. /\ Apply(op, p) \in Projects /\ Same(Apply(op, p))
        /\ Apply(op, p).status = "active"
    BY <1>1, <2>1 DEF Projects
  <2>. QED BY <1>2, <2>2
<1>5. CASE op = "ReplanProject"
  <2>1. Apply(op, p) = [audited EXCEPT !.dag = "planned"]
    BY <1>5 DEF Apply, audited
  <2>2. /\ Apply(op, p) \in Projects /\ Same(Apply(op, p))
        /\ Apply(op, p).status = p.status
    BY <1>1, <2>1 DEF Projects, Work
  <2>. QED BY <1>2, <2>2
<1>6. CASE op = "CompleteProject"
  <2>1. Apply(op, p) = [audited EXCEPT !.status = "completed"]
    BY <1>6 DEF Apply, audited
  <2>2. /\ Apply(op, p) \in Projects /\ Same(Apply(op, p))
        /\ Apply(op, p).dag = p.dag
    BY <1>1, <2>1 DEF Projects
  <2>3. ~Refused(op, p) => Settled(p)
    BY <1>6 DEF Refused
  <2>4. Settled(p) => Settled(Apply(op, p))
    BY <2>2 DEF Settled
  <2>. QED BY <1>2, <2>2, <2>3, <2>4
<1>7. CASE op \notin Lifecycle
  <2>1. Apply(op, p) = p
    BY <1>7 DEF Apply, Lifecycle
  <2>. QED BY <2>1
<1>. QED BY <1>3, <1>4, <1>5, <1>6, <1>7 DEF Lifecycle

(***************************************************************************)
(* What a pause source does to the file.                                   *)
(***************************************************************************)
LEMMA SourceFacts ==
  ASSUME NEW p \in Projects, NEW op \in LoopControls, NEW s \in Sources
  PROVE  /\ WithSource(p, op, s) \in Projects
         /\ WithSource(p, op, s).exists = p.exists
         /\ WithSource(p, op, s).status = p.status
         /\ CopyOK(p) => CopyOK(WithSource(p, op, s))
         /\ op = "PauseLoop" => WithSource(p, op, s).sources = p.sources \cup {s}
         /\ op = "ResumeLoop" => WithSource(p, op, s).sources = p.sources \ {s}
<1>. DEFINE q == WithSource(p, op, s)
<1>1. /\ q \in Projects /\ q.exists = p.exists /\ q.status = p.status
      /\ q.loop = p.loop /\ q.plan = p.plan
      /\ q.sources = IF op = "PauseLoop" THEN p.sources \cup {s} ELSE p.sources \ {s}
      /\ q.flag = IF s = "project" THEN op = "PauseLoop" ELSE p.flag
  BY DEF WithSource, Projects
<1>. HIDE DEF q
<1>2. CopyOK(p) => CopyOK(q)
  BY <1>1 DEF CopyOK, Sources
<1>3. op # "ResumeLoop" \/ op # "PauseLoop"
  OBVIOUS
<1>. QED BY <1>1, <1>2, <1>3 DEF q

(***************************************************************************)
(* The transition a tool authors.                                          *)
(***************************************************************************)
LEMMA AuthoredFacts ==
  ASSUME NEW op
  PROVE  /\ AuthoredBy(op) \in Authored
         /\ AuthoredBy(op) = "completed" => op = "complete_project"
BY DEF AuthoredBy, Authored

(***************************************************************************)
(* The copies the tools work on.                                           *)
(***************************************************************************)
LEMMA CopyFacts ==
  ASSUME NEW p \in Projects
  PROVE  /\ OrFresh(p) \in Projects /\ OrFresh(p).exists
         /\ CopyOK(p) => CopyOK(OrFresh(p))
         /\ p.status = "active" => OrFresh(p).status = "active"
<1>1. Fresh \in Projects /\ Fresh.exists /\ CopyOK(Fresh) /\ Fresh.status = "active"
  BY IdleTypes DEF Fresh, CopyOK
<1>. QED BY <1>1 DEF OrFresh

(***************************************************************************)
(* A tool call starts: what its local copy becomes.                        *)
(***************************************************************************)
LEMMA ToolCallFacts ==
  ASSUME IndInv, NEW m \in Members, ToolCall(m)
  PROVE  \E op \in Ops, copy \in Projects :
           /\ Start(m, op, copy)
           /\ CopyOK(copy)
           /\ copy.exists
           /\ op = "complete_project" => Settled(copy)
           /\ ~proj.exists => copy.status = "active"
<1>. DEFINE Fit(op, copy) == /\ copy \in Projects /\ CopyOK(copy) /\ copy.exists
                             /\ op = "complete_project" => Settled(copy)
                             /\ ~proj.exists => copy.status = "active"
<1>1. SUFFICES \E op, copy : Start(m, op, copy) /\ Fit(op, copy)
  BY DEF Start
<1>2. /\ proj \in Projects /\ CopyOK(proj)
      /\ local[m] \in Projects /\ CopyOK(local[m])
      /\ ~proj.exists => local[m].status = "active"
  BY DEF IndInv, TypeOK, CopiesReady
<1>3. CASE CreateTool(m)
  <2>1. Fit("create_project", Fresh)
    BY IdleTypes DEF Fresh, CopyOK
  <2>. QED BY <1>3, <2>1 DEF CreateTool
<1>4. ASSUME NEW p \in {proj, local[m]}
      PROVE  /\ p \in Projects /\ CopyOK(p)
             /\ PulledOrLocal(m, p) /\ ~proj.exists => p.status = "active"
             /\ Pulled(p) => p.exists
  <2>1. CASE p = proj
    BY <1>2, <2>1 DEF Pulled, PulledOrLocal
  <2>2. CASE p = local[m]
    BY <1>2, <2>2 DEF Pulled, PulledOrLocal
  <2>. QED BY <2>1, <2>2
<1>5. ASSUME NEW p \in {proj, local[m]}, PlanDag(m, p)
      PROVE  \E op, copy : Start(m, op, copy) /\ Fit(op, copy)
  <2>. DEFINE o == OrFresh(p)
              c == [o EXCEPT !.plan = "dag", !.dag = "planned"]
  <2>1. o \in Projects /\ CopyOK(o) /\ o.exists /\ (~proj.exists => o.status = "active")
    BY <1>4, <1>5, CopyFacts DEF PlanDag
  <2>. HIDE DEF o
  <2>2. /\ c \in Projects /\ c.exists = o.exists /\ c.status = o.status
        /\ c.flag = o.flag /\ c.sources = o.sources /\ c.plan = "dag"
    BY <2>1 DEF Projects, Work
  <2>3. Start(m, "plan_dag", c)
    BY <1>5 DEF PlanDag, o
  <2>. HIDE DEF c
  <2>4. Fit("plan_dag", c)
    BY <2>1, <2>2 DEF CopyOK
  <2>. QED BY <2>3, <2>4
<1>6. ASSUME NEW p \in {proj, local[m]}, PlanLoop(m, p)
      PROVE  \E op, copy : Start(m, op, copy) /\ Fit(op, copy)
  <2>. DEFINE o == OrFresh(p)
              c == [o EXCEPT !.plan = "loop", !.loop = TRUE, !.iter = "planned",
                             !.sources = {}, !.flag = FALSE]
  <2>1. o \in Projects /\ CopyOK(o) /\ o.exists /\ (~proj.exists => o.status = "active")
    BY <1>4, <1>6, CopyFacts DEF PlanLoop
  <2>. HIDE DEF o
  <2>2. /\ c \in Projects /\ c.exists = o.exists /\ c.status = o.status
        /\ c.flag = FALSE /\ c.sources = {} /\ c.plan = "loop" /\ c.loop = TRUE
    BY <2>1 DEF Projects, Work
  <2>3. Start(m, "plan_loop", c)
    BY <1>6 DEF PlanLoop, o
  <2>. HIDE DEF c
  <2>4. Fit("plan_loop", c)
    BY <2>1, <2>2 DEF CopyOK
  <2>. QED BY <2>3, <2>4
<1>7. ASSUME NEW p \in {proj, local[m]}, NEW w \in Work, UpdateTask(m, p, w)
      PROVE  \E op, copy : Start(m, op, copy) /\ Fit(op, copy)
  <2>1. p.exists /\ p \in Projects /\ CopyOK(p) /\ proj.exists
    BY <1>2, <1>4, <1>7 DEF UpdateTask, Pulled
  <2>2. PICK c \in {[p EXCEPT !.iter = w], [p EXCEPT !.dag = w]} : Start(m, "update_task", c)
    BY <1>7 DEF UpdateTask
  <2>3. /\ c \in Projects /\ c.exists = p.exists /\ c.flag = p.flag /\ c.sources = p.sources
        /\ c.plan = p.plan /\ c.loop = p.loop
    BY <2>1 DEF Projects
  <2>4. Fit("update_task", c)
    BY <2>1, <2>3 DEF CopyOK
  <2>. QED BY <2>2, <2>4
<1>8. ASSUME NEW p \in {proj, local[m]}, RecordLoopIteration(m, p)
      PROVE  \E op, copy : Start(m, op, copy) /\ Fit(op, copy)
  <2>. DEFINE c == [p EXCEPT !.plan = "loop"]
  <2>1. p.exists /\ p \in Projects /\ CopyOK(p) /\ proj.exists /\ p.loop
    BY <1>2, <1>4, <1>8 DEF RecordLoopIteration, Pulled
  <2>2. Start(m, "record_loop_iteration", c)
    BY <1>8 DEF RecordLoopIteration
  <2>3. /\ c \in Projects /\ c.exists = p.exists /\ c.flag = p.flag /\ c.sources = p.sources
        /\ c.loop = p.loop
    BY <2>1 DEF Projects
  <2>. HIDE DEF c
  <2>4. Fit("record_loop_iteration", c)
    BY <2>1, <2>3 DEF CopyOK
  <2>. QED BY <2>2, <2>4
<1>9. ASSUME NEW p \in {proj, local[m]}, MarkRequesterReportSent(m, p)
      PROVE  \E op, copy : Start(m, op, copy) /\ Fit(op, copy)
  <2>1. p.exists /\ Start(m, "mark_requester_report_sent", p)
    BY <1>9 DEF MarkRequesterReportSent
  <2>2. Fit("mark_requester_report_sent", p)
    BY <1>4, <1>9, <2>1 DEF MarkRequesterReportSent
  <2>. QED BY <2>1, <2>2
<1>10. ASSUME NEW p \in {proj, local[m]}, NEW op, NEW s \in {"active", "paused", "completed"},
              Pulled(p), op = "complete_project" => Settled(p),
              Start(m, op, [p EXCEPT !.status = s])
       PROVE  \E o, copy : Start(m, o, copy) /\ Fit(o, copy)
  <2>. DEFINE c == [p EXCEPT !.status = s]
  <2>1. p.exists /\ p \in Projects /\ CopyOK(p) /\ proj.exists
    BY <1>2, <1>4, <1>10 DEF Pulled
  <2>2. /\ c \in Projects /\ c.exists = p.exists /\ c.flag = p.flag /\ c.sources = p.sources
        /\ c.plan = p.plan /\ c.loop = p.loop /\ c.dag = p.dag /\ c.iter = p.iter
    BY <2>1 DEF Projects
  <2>3. Start(m, op, c)
    BY <1>10
  <2>. HIDE DEF c
  <2>4. CopyOK(c) /\ (Settled(p) => Settled(c))
    BY <2>1, <2>2 DEF CopyOK, Settled
  <2>5. Fit(op, c)
    BY <1>10, <2>1, <2>2, <2>4
  <2>. QED BY <2>3, <2>5
<1>11. ASSUME NEW p \in {proj, local[m]}, PauseTool(m, p) \/ ResumeTool(m, p) \/ CompleteTool(m, p)
       PROVE  \E op, copy : Start(m, op, copy) /\ Fit(op, copy)
  <2>1. CASE PauseTool(m, p)
    BY <1>10, <2>1 DEF PauseTool
  <2>2. CASE ResumeTool(m, p)
    BY <1>10, <2>2 DEF ResumeTool
  <2>3. CASE CompleteTool(m, p)
    BY <1>10, <2>3 DEF CompleteTool
  <2>. QED BY <1>11, <2>1, <2>2, <2>3
<1>. HIDE DEF Fit
<1>. QED BY <1>3, <1>5, <1>6, <1>7, <1>8, <1>9, <1>11 DEF ToolCall

-----------------------------------------------------------------------------
(***************************************************************************)
(* The ways a call and a request go on keep their types.                   *)
(***************************************************************************)
LEMMA GoOnTypes ==
  ASSUME TypeOK
  PROVE  /\ \A m \in Members, synced \in BOOLEAN : Return(m, synced) => call' \in [Members -> Calls]
         /\ \A m \in Members : Retry(m) => call' \in [Members -> Calls]
         /\ \A r \in Requests, a \in {"ok", "rejected", "conflict", "ungated", "failed"} :
              /\ [IdleCtl EXCEPT !.op = ctl[r].op, !.res = a] \in Ctls
              /\ CtlReturn(r, a) => ctl' \in [Requests -> Ctls]
<1>. USE IdleTypes
<1>1. ASSUME NEW m \in Members, NEW synced \in BOOLEAN, Return(m, synced)
      PROVE  call' \in [Members -> Calls]
  BY <1>1 DEF TypeOK, Return, Calls
<1>2. ASSUME NEW m \in Members, Retry(m) PROVE call' \in [Members -> Calls]
  <2>1. CASE call[m].attempt = MaxAttempts
    BY <1>1, <1>2, <2>1 DEF Retry
  <2>2. CASE call[m].attempt # MaxAttempts
    <3>1. call[m].attempt + 1 \in 1..MaxAttempts
      BY <2>2, ProjectBounds DEF TypeOK, Calls
    <3>. QED BY <1>2, <2>2, <3>1 DEF TypeOK, Retry, Calls
  <2>. QED BY <2>1, <2>2
<1>3. ASSUME NEW r \in Requests, NEW a \in {"ok", "rejected", "conflict", "ungated", "failed"}
      PROVE  /\ [IdleCtl EXCEPT !.op = ctl[r].op, !.res = a] \in Ctls
             /\ CtlReturn(r, a) => ctl' \in [Requests -> Ctls]
  <2>1. [IdleCtl EXCEPT !.op = ctl[r].op, !.res = a] \in Ctls
    BY DEF TypeOK, Ctls
  <2>2. CtlReturn(r, a) => ctl' \in [Requests -> Ctls]
    BY <2>1 DEF TypeOK, CtlReturn
  <2>. QED BY <2>1, <2>2
<1>. QED BY <1>1, <1>2, <1>3

(***************************************************************************)
(* Every step keeps the types.                                             *)
(***************************************************************************)
LEMMA TypeStep ==
  ASSUME IndInv, [Next]_vars
  PROVE  TypeOK'
<1>. USE IdleTypes
<1>0. TypeOK /\ RequestsEntitled /\ ControlsVetted
  BY DEF IndInv
<1>1. ASSUME NEW m \in Members, ToolCall(m) PROVE TypeOK'
  <2>1. PICK op \in Ops, copy \in Projects : Start(m, op, copy)
    BY <1>1, ToolCallFacts
  <2>2. call' \in [Members -> Calls]
    BY <1>0, <2>1 DEF TypeOK, Start, Calls
  <2>3. used' \in [Members \cup Requests -> Nat]
    BY <1>0, <2>1 DEF TypeOK, Start
  <2>. QED BY <1>0, <2>1, <2>2, <2>3 DEF TypeOK, Start
<1>2. ASSUME NEW m \in Members, Refresh(m) PROVE TypeOK'
  BY <1>0, <1>2 DEF TypeOK, Refresh
<1>3. ASSUME NEW m \in Members, SyncRead(m) PROVE TypeOK'
  <2>. DEFINE a == AuthoredBy(call[m].op)
              merged == Merge(local[m], proj, a)
  <2>1. a \in Authored /\ merged \in Projects
    BY <1>0, AuthoredFacts, MergeFacts DEF TypeOK
  <2>2. [NoReq EXCEPT !.st = "sent", !.live = TRUE, !.authored = a, !.body = merged] \in Reqs
    <3>. HIDE DEF a, merged
    <3>. QED BY <2>1 DEF Reqs
  <2>. HIDE DEF a, merged
  <2>3. /\ local' = local \/ local' = [local EXCEPT ![m] = merged]
        /\ \/ req' = req
           \/ req' = [req EXCEPT ![m] = [NoReq EXCEPT !.st = "sent", !.live = TRUE,
                                                      !.authored = a, !.body = merged]]
        /\ call' = [call EXCEPT ![m].pc = "wait"] \/ call' = [call EXCEPT ![m].pc = "push"]
        /\ UNCHANGED <<proj, ctl, used>>
    BY <1>3 DEF SyncRead, a, merged
  <2>4. local' \in [Members -> Projects]
    BY <1>0, <2>1, <2>3 DEF TypeOK
  <2>5. req' \in [Members -> Reqs]
    BY <1>0, <2>2, <2>3 DEF TypeOK
  <2>6. call' \in [Members -> Calls]
    <3>1. ASSUME NEW s \in {"wait", "push"} PROVE [call EXCEPT ![m].pc = s] \in [Members -> Calls]
      BY <1>0 DEF TypeOK, Calls
    <3>. QED BY <2>3, <3>1
  <2>. QED BY <1>0, <2>3, <2>4, <2>5, <2>6 DEF TypeOK
<1>4. ASSUME NEW m \in Members, FirstPush(m) PROVE TypeOK'
  BY <1>0, <1>4, GoOnTypes, StaleFacts DEF TypeOK, FirstPush
<1>5. ASSUME NEW m \in Members, Answered(m) PROVE TypeOK'
  <2>1. call' \in [Members -> Calls]
    BY <1>0, <1>5, GoOnTypes DEF Answered
  <2>. QED BY <1>0, <1>5, <2>1 DEF TypeOK, Answered
<1>6. ASSUME NEW m \in Members, PushFailed(m) PROVE TypeOK'
  <2>1. call' \in [Members -> Calls]
    BY <1>0, <1>6, GoOnTypes DEF PushFailed
  <2>2. Merge(local[m], proj, AuthoredBy(call[m].op)) \in Projects
    BY <1>0, AuthoredFacts, MergeFacts DEF TypeOK
  <2>. QED BY <1>0, <1>6, <2>1, <2>2 DEF TypeOK, PushFailed
<1>7. ASSUME NEW m \in Members, GiveUp(m) PROVE TypeOK'
  <2>1. call' \in [Members -> Calls]
    BY <1>0, <1>7, GoOnTypes DEF GiveUp
  <2>2. req' \in [Members -> Reqs]
    BY <1>0, <1>7 DEF TypeOK, GiveUp
  <2>. QED BY <1>0, <1>7, <2>1, <2>2 DEF TypeOK, GiveUp
<1>8. ASSUME NEW m \in Members, ResolveCommit(m) PROVE TypeOK'
  <2>1. req' \in [Members -> Reqs]
    BY <1>0, <1>8 DEF TypeOK, ResolveCommit, Reqs
  <2>. QED BY <1>0, <1>8, <2>1 DEF TypeOK, ResolveCommit
<1>9. ASSUME NEW m \in Members, GuardCommit(m) PROVE TypeOK'
  <2>1. PICK s \in {"guarded", "conflict", "refused"} : req' = [req EXCEPT ![m].st = s]
    BY <1>9 DEF GuardCommit
  <2>2. req' \in [Members -> Reqs]
    BY <1>0, <2>1 DEF TypeOK, Reqs
  <2>. QED BY <1>0, <1>9, <2>2 DEF TypeOK, GuardCommit
<1>10. ASSUME NEW m \in Members, PutProjectMeta(m) PROVE TypeOK'
  <2>1. req' = [StaleReqs EXCEPT ![m].st = "stat"] \/ req' = [req EXCEPT ![m].st = "conflict"]
    BY <1>10 DEF PutProjectMeta
  <2>2. req' \in [Members -> Reqs]
    <3>1. ASSUME NEW f \in [Members -> Reqs], NEW s \in {"stat", "conflict"}
          PROVE  [f EXCEPT ![m].st = s] \in [Members -> Reqs]
      BY DEF Reqs
    <3>. QED BY <1>0, <2>1, <3>1, StaleFacts, ZenonT(60) DEF TypeOK
  <2>3. proj' \in Projects /\ ctl' \in [Requests -> Ctls]
    BY <1>0, <1>10, StaleFacts DEF TypeOK, PutProjectMeta, Reqs
  <2>. QED BY <1>0, <1>10, <2>2, <2>3 DEF TypeOK, PutProjectMeta
<1>11. ASSUME NEW m \in Members, StatMeta(m) PROVE TypeOK'
  <2>1. req' \in [Members -> Reqs]
    BY <1>0, <1>11 DEF TypeOK, StatMeta, Reqs
  <2>. QED BY <1>0, <1>11, <2>1 DEF TypeOK, StatMeta
<1>12. ASSUME NEW r \in Requests, NEW op, CtlBegin(r, op) PROVE TypeOK'
  <2>. DEFINE next == Apply(op, proj)
  <2>1. next \in Projects /\ proj \in Projects /\ op \in Controls
    BY <1>0, <1>12, ApplyFacts DEF TypeOK, CtlBegin
  <2>. HIDE DEF next
  <2>2. [IdleCtl EXCEPT !.pc = "audit", !.op = op, !.live = TRUE, !.meta = proj] \in Ctls
    BY <2>1 DEF Ctls
  <2>3. [IdleCtl EXCEPT !.pc = "write", !.op = op, !.live = TRUE, !.meta = next] \in Ctls
    BY <2>1 DEF Ctls
  <2>4. \/ ctl' = [ctl EXCEPT ![r] = [IdleCtl EXCEPT !.pc = "audit", !.op = op, !.live = TRUE,
                                                     !.meta = proj]]
        \/ ctl' = [ctl EXCEPT ![r] = [IdleCtl EXCEPT !.pc = "write", !.op = op, !.live = TRUE,
                                                     !.meta = next]]
    BY <1>12 DEF CtlBegin, next
  <2>5. ctl' \in [Requests -> Ctls]
    BY <1>0, <2>2, <2>3, <2>4 DEF TypeOK
  <2>6. used' \in [Members \cup Requests -> Nat]
    BY <1>0, <1>12 DEF TypeOK, CtlBegin
  <2>. QED BY <1>0, <1>12, <2>5, <2>6 DEF TypeOK, CtlBegin
<1>13. ASSUME NEW r \in Requests, CtlWrite(r) PROVE TypeOK'
  <2>1. proj' \in Projects /\ req' \in [Members -> Reqs]
    BY <1>0, <1>13, StaleFacts DEF TypeOK, CtlWrite, Ctls
  <2>2. ctl' \in [Requests -> Ctls]
    BY <1>0, <1>13, StaleFacts, GoOnTypes DEF CtlWrite
  <2>. QED BY <1>0, <1>13, <2>1, <2>2 DEF TypeOK, CtlWrite
<1>14. ASSUME NEW r \in Requests, CtlAudit(r) PROVE TypeOK'
  <2>1. proj' \in Projects /\ req' \in [Members -> Reqs]
    BY <1>0, <1>14, StaleFacts DEF TypeOK, CtlAudit, Ctls
  <2>2. ctl' \in [Requests -> Ctls]
    BY <1>0, <1>14, StaleFacts, GoOnTypes DEF CtlAudit
  <2>. QED BY <1>0, <1>14, <2>1, <2>2 DEF TypeOK, CtlAudit
<1>15. ASSUME NEW r \in Requests, CreateProject(r) PROVE TypeOK'
  <2>1. ctl' \in [Requests -> Ctls]
    BY <1>0, <1>15 DEF TypeOK, CreateProject, Ctls
  <2>2. used' \in [Members \cup Requests -> Nat]
    BY <1>0, <1>15 DEF TypeOK, CreateProject
  <2>. QED BY <1>0, <1>15, <2>1, <2>2 DEF TypeOK, CreateProject
<1>16. ASSUME NEW r \in Requests, CreatePut(r) PROVE TypeOK'
  BY <1>0, <1>16, StaleFacts, GoOnTypes DEF TypeOK, CreatePut
<1>17. ASSUME NEW r \in Requests, NEW op \in Controls, NEW s \in Sources, LoopBegin(r, op, s)
       PROVE  TypeOK'
  <2>1. ctl' \in [Requests -> Ctls]
    BY <1>0, <1>17 DEF TypeOK, LoopBegin, Ctls
  <2>2. used' \in [Members \cup Requests -> Nat]
    BY <1>0, <1>17 DEF TypeOK, LoopBegin
  <2>. QED BY <1>0, <1>17, <2>1, <2>2 DEF TypeOK, LoopBegin
<1>18. ASSUME NEW r \in Requests, LoopStat(r) PROVE TypeOK'
  <2>1. [ctl EXCEPT ![r].pc = "get", ![r].live = TRUE] \in [Requests -> Ctls]
    <3>1. [ctl[r] EXCEPT !.pc = "get", !.live = TRUE] \in Ctls
      BY <1>0 DEF TypeOK, Ctls
    <3>. QED BY <1>0, <3>1 DEF TypeOK
  <2>2. ctl' \in [Requests -> Ctls]
    BY <1>0, <1>18, <2>1, GoOnTypes DEF LoopStat
  <2>. QED BY <1>0, <1>18, <2>2 DEF TypeOK, LoopStat
<1>19. ASSUME NEW r \in Requests, LoopGet(r) PROVE TypeOK'
  <2>. DEFINE next == WithSource(proj, ctl[r].op, ctl[r].source)
  <2>1. next \in Projects
    BY <1>0, <1>19, SourceFacts DEF TypeOK, LoopGet, RequestsEntitled
  <2>. HIDE DEF next
  <2>2. [ctl EXCEPT ![r].pc = "cas", ![r].meta = next] \in [Requests -> Ctls]
    <3>1. [ctl[r] EXCEPT !.pc = "cas", !.meta = next] \in Ctls
      BY <1>0, <2>1 DEF TypeOK, Ctls
    <3>. QED BY <1>0, <3>1 DEF TypeOK
  <2>3. ctl' \in [Requests -> Ctls]
    BY <1>0, <1>19, <2>2, GoOnTypes DEF LoopGet, next
  <2>. QED BY <1>0, <1>19, <2>3 DEF TypeOK, LoopGet
<1>20. ASSUME NEW r \in Requests, LoopCas(r) PROVE TypeOK'
  <2>1. proj' \in Projects /\ req' \in [Members -> Reqs]
    BY <1>0, <1>20, StaleFacts DEF TypeOK, LoopCas, Ctls
  <2>2. CASE ctl[r].live
    <3>1. ctl' = [StaleCtls EXCEPT ![r].pc = "reread"]
      BY <1>20, <2>2 DEF LoopCas
    <3>2. ctl' \in [Requests -> Ctls]
      BY <1>0, <3>1, StaleFacts DEF Ctls
    <3>. QED BY <1>0, <1>20, <2>1, <3>2 DEF TypeOK, LoopCas
  <2>3. CASE ~ctl[r].live /\ ctl[r].attempt < MaxCas
    <3>1. ctl[r].attempt + 1 \in 1..MaxCas
      BY <1>0, <2>3, ProjectBounds DEF TypeOK, Ctls
    <3>2. ctl' = [ctl EXCEPT ![r].pc = "stat", ![r].attempt = @ + 1, ![r].meta = Absent]
      BY <1>20, <2>3 DEF LoopCas
    <3>3. ctl' \in [Requests -> Ctls]
      BY <1>0, <3>1, <3>2 DEF TypeOK, Ctls
    <3>. QED BY <1>0, <1>20, <2>1, <3>3 DEF TypeOK, LoopCas
  <2>4. CASE ~ctl[r].live /\ ~(ctl[r].attempt < MaxCas)
    <3>1. ctl' \in [Requests -> Ctls]
      BY <1>0, <1>20, <2>4, GoOnTypes DEF LoopCas
    <3>. QED BY <1>0, <1>20, <2>1, <3>1 DEF TypeOK, LoopCas
  <2>. QED BY <2>2, <2>3, <2>4
<1>21. ASSUME NEW r \in Requests, LoopReread(r) \/ CtlCrash(r) PROVE TypeOK'
  <2>1. ctl' \in [Requests -> Ctls]
    BY <1>0, <1>21, GoOnTypes DEF LoopReread, CtlCrash
  <2>. QED BY <1>0, <1>21, <2>1 DEF TypeOK, LoopReread, CtlCrash
<1>22. CASE UNCHANGED vars
  BY <1>0, <1>22 DEF vars, TypeOK
<1>. QED BY <1>1, <1>2, <1>3, <1>4, <1>5, <1>6, <1>7, <1>8, <1>9, <1>10, <1>11, <1>12, <1>13,
           <1>14, <1>15, <1>16, <1>17, <1>18, <1>19, <1>20, <1>21, <1>22
         DEF Next, MemberNext, RequestNext, LoopRead, PauseProject, ResumeProject, ReplanProject,
             CompleteProject

-----------------------------------------------------------------------------
(***************************************************************************)
(* A step that writes the file takes every ETag away, whatever it writes   *)
(* is a sound copy, and the project does not vanish.                       *)
(***************************************************************************)
LEMMA WriteStep ==
  ASSUME IndInv, [Next]_vars
  PROVE  /\ CopyOK(proj)'
         /\ proj.exists => proj'.exists
         /\ \/ proj' = proj
            \/ /\ \A m \in Members : ~req'[m].live
               /\ \A r \in Requests : ~ctl'[r].live
<1>0. TypeOK /\ CopyOK(proj) /\ ControlsVetted /\ CommitsMerged /\ CopiesReady /\ RequestsEntitled
  BY DEF IndInv
<1>. DEFINE Goal == /\ CopyOK(proj')
                    /\ proj.exists => proj'.exists
                    /\ \/ proj' = proj
                       \/ /\ \A m \in Members : ~req'[m].live
                          /\ \A r \in Requests : ~ctl'[r].live
<1>. SUFFICES Goal
  BY DEF CopyOK
<1>1. proj' = proj => Goal
  BY <1>0
<1>2. ASSUME NEW m \in Members, FirstPush(m) PROVE Goal
  <2>1. CopyOK(local[m]) /\ local[m].exists
    BY <1>0, <1>2 DEF CopiesReady, FirstPush
  <2>. QED BY <1>0, <1>2, <2>1, StaleFacts DEF FirstPush
<1>3. ASSUME NEW m \in Members, PutProjectMeta(m) PROVE Goal
  <2>1. CopyOK(req[m].body) /\ req[m].body.exists
    BY <1>0, <1>3 DEF CommitsMerged, PutProjectMeta, InFlight
  <2>2. CASE req[m].live
    <3>1. req' = [StaleReqs EXCEPT ![m].st = "stat"] /\ ctl' = StaleCtls /\ proj' = req[m].body
      BY <1>3, <2>2 DEF PutProjectMeta
    <3>2. \A n \in Members : ~req'[n].live
      BY <1>0, <3>1, StaleFacts DEF Reqs
    <3>. QED BY <1>0, <2>1, <3>1, <3>2, StaleFacts
  <2>3. CASE ~req[m].live
    BY <1>1, <1>3, <2>3 DEF PutProjectMeta
  <2>. QED BY <2>2, <2>3
<1>4. ASSUME NEW r \in Requests, NEW a, req' = StaleReqs,
             ctl' = [StaleCtls EXCEPT ![r] = [IdleCtl EXCEPT !.op = ctl[r].op, !.res = a]]
      PROVE  /\ \A m \in Members : ~req'[m].live
             /\ \A s \in Requests : ~ctl'[s].live
  BY <1>0, <1>4, StaleFacts DEF IdleCtl
<1>5. ASSUME NEW r \in Requests, CtlWrite(r) PROVE Goal
  <2>1. CASE ctl[r].live
    <3>1. proj' = Apply(ctl[r].op, proj)
      BY <1>0, <1>5, <2>1 DEF CtlWrite, ControlsVetted
    <3>2. CopyOK(proj') /\ (proj.exists => proj'.exists)
      BY <1>0, <3>1, ApplyFacts DEF TypeOK
    <3>. QED BY <1>4, <1>5, <2>1, <3>2 DEF CtlWrite
  <2>2. CASE ~ctl[r].live
    BY <1>1, <1>5, <2>2 DEF CtlWrite
  <2>. QED BY <2>1, <2>2
<1>6. ASSUME NEW r \in Requests, CtlAudit(r) PROVE Goal
  <2>1. proj' = proj
    BY <1>0, <1>6 DEF CtlAudit, ControlsVetted
  <2>. QED BY <1>1, <2>1
<1>7. ASSUME NEW r \in Requests, CreatePut(r) PROVE Goal
  <2>1. CopyOK(Fresh) /\ Fresh.exists
    BY DEF Fresh, CopyOK
  <2>. QED BY <1>4, <1>7, <2>1 DEF CreatePut
<1>8. ASSUME NEW r \in Requests, LoopCas(r) PROVE Goal
  <2>1. CASE ctl[r].live
    <3>1. proj' = WithSource(proj, ctl[r].op, ctl[r].source)
      BY <1>0, <1>8, <2>1 DEF LoopCas, ControlsVetted
    <3>2. ctl[r].op \in LoopControls /\ ctl[r].source \in Sources
      BY <1>0, <1>8 DEF LoopCas, RequestsEntitled
    <3>3. CopyOK(proj') /\ (proj.exists => proj'.exists)
      BY <1>0, <3>1, <3>2, SourceFacts DEF TypeOK
    <3>4. \A m \in Members : ~req'[m].live
      BY <1>0, <1>8, <2>1, StaleFacts DEF LoopCas
    <3>5. ctl' = [StaleCtls EXCEPT ![r].pc = "reread"]
      BY <1>8, <2>1 DEF LoopCas
    <3>6. \A s \in Requests : ~ctl'[s].live
      BY <1>0, <3>5, StaleFacts DEF Ctls
    <3>. QED BY <3>3, <3>4, <3>6
  <2>2. CASE ~ctl[r].live
    BY <1>1, <1>8, <2>2 DEF LoopCas
  <2>. QED BY <2>1, <2>2
<1>9. CASE UNCHANGED vars
  BY <1>1, <1>9 DEF vars
<1>10. ASSUME NEW m \in Members, ToolCall(m) PROVE Goal
  BY <1>1, <1>10, ToolCallFacts DEF Start
<1>11. ASSUME NEW m \in Members,
              \/ Refresh(m) \/ SyncRead(m) \/ Answered(m) \/ PushFailed(m) \/ GiveUp(m)
              \/ ResolveCommit(m) \/ GuardCommit(m) \/ StatMeta(m)
       PROVE  Goal
  BY <1>1, <1>11 DEF Refresh, SyncRead, Answered, PushFailed, GiveUp, ResolveCommit, GuardCommit,
                     StatMeta
<1>12. ASSUME NEW r \in Requests,
              \/ \E op : CtlBegin(r, op)
              \/ \E op, s : LoopBegin(r, op, s)
              \/ CreateProject(r) \/ LoopStat(r) \/ LoopGet(r) \/ LoopReread(r) \/ CtlCrash(r)
       PROVE  Goal
  BY <1>1, <1>12 DEF CtlBegin, LoopBegin, CreateProject, LoopStat, LoopGet, LoopReread, CtlCrash
<1>. HIDE DEF Goal
<1>. QED BY <1>2, <1>3, <1>5, <1>6, <1>7, <1>8, <1>9, <1>10, <1>11, <1>12
         DEF Next, MemberNext, RequestNext, LoopRead, PauseProject, ResumeProject, ReplanProject,
             CompleteProject

(***************************************************************************)
(* What the steps of the members do to the requests: nothing, or they take *)
(* the ETags away.                                                         *)
(***************************************************************************)
LEMMA MemberFrame ==
  ASSUME IndInv, NEW m \in Members, MemberNext(m)
  PROVE  /\ (ctl' = ctl /\ proj' = proj) \/ ctl' = StaleCtls
         /\ \A n \in Members \ {m} : /\ local'[n] = local[n] /\ call'[n] = call[n]
                                     /\ req'[n] = req[n] \/ req'[n] = StaleReqs[n]
<1>0. TypeOK
  BY DEF IndInv
<1>. DEFINE Frame == /\ (ctl' = ctl /\ proj' = proj) \/ ctl' = StaleCtls
                     /\ \A n \in Members \ {m} : /\ local'[n] = local[n] /\ call'[n] = call[n]
                                                 /\ req'[n] = req[n] \/ req'[n] = StaleReqs[n]
<1>1. CASE ToolCall(m)
  <2>1. PICK op \in Ops, copy \in Projects : Start(m, op, copy)
    BY <1>1, ToolCallFacts
  <2>. QED BY <1>0, <2>1 DEF Start, TypeOK
<1>2. CASE Refresh(m)
  BY <1>0, <1>2 DEF Refresh, TypeOK
<1>3. CASE SyncRead(m)
  BY <1>0, <1>3 DEF SyncRead, TypeOK
<1>4. CASE FirstPush(m)
  BY <1>0, <1>4 DEF FirstPush, Return, TypeOK
<1>5. CASE Answered(m)
  BY <1>0, <1>5 DEF Answered, Retry, Return, TypeOK
<1>6. CASE PushFailed(m)
  BY <1>0, <1>6 DEF PushFailed, Retry, Return, TypeOK
<1>7. CASE GiveUp(m)
  BY <1>0, <1>7 DEF GiveUp, Return, TypeOK
<1>8. CASE ResolveCommit(m) \/ GuardCommit(m) \/ StatMeta(m)
  BY <1>0, <1>8 DEF ResolveCommit, GuardCommit, StatMeta, TypeOK
<1>9. CASE PutProjectMeta(m)
  <2>1. StaleReqs \in [Members -> Reqs]
    BY <1>0, StaleFacts
  <2>. QED BY <1>0, <1>9, <2>1 DEF PutProjectMeta, TypeOK
<1>. QED BY <1>1, <1>2, <1>3, <1>4, <1>5, <1>6, <1>7, <1>8, <1>9 DEF MemberNext

(***************************************************************************)
(* The control actions stay vetted and entitled.  A request on its way is  *)
(* judged by the version it will replace: its own steps establish that,    *)
(* and whoever writes takes its ETag away.                                 *)
(***************************************************************************)
VettedCtl(c, p) ==
  c.live =>
    /\ c.pc = "write" => ~Refused(c.op, p) /\ c.meta = Apply(c.op, p)
    /\ c.pc = "audit" => c.meta = p
    /\ c.pc = "cas" => c.meta = WithSource(p, c.op, c.source)

EntitledCtl(c, r) ==
  /\ c.pc = "write" => c.op \in Lifecycle
  /\ c.pc \in {"stat", "get", "cas"} =>
       /\ c.op \in LoopControls
       /\ c.source \in Sources
       /\ c.op = "ResumeLoop" /\ c.source = "user" => r \in Admins

\* A step keeps what is known of the requests to the lifecycle and loop endpoints.
LEMMA ControlStep ==
  ASSUME IndInv, [Next]_vars
  PROVE  ControlsVetted' /\ RequestsEntitled'
<1>0. TypeOK /\ TypeOK' /\ ControlsVetted /\ RequestsEntitled
  BY TypeStep DEF IndInv
<1>. DEFINE Good(c, r) == VettedCtl(c, proj') /\ EntitledCtl(c, r)
<1>1. SUFFICES ASSUME NEW r \in Requests PROVE Good(ctl'[r], r)
  BY DEF ControlsVetted, RequestsEntitled, VettedCtl, EntitledCtl
<1>2. VettedCtl(ctl[r], proj) /\ EntitledCtl(ctl[r], r)
  BY <1>0 DEF ControlsVetted, RequestsEntitled, VettedCtl, EntitledCtl
<1>3. ctl'[r] = ctl[r] /\ proj' = proj => Good(ctl'[r], r)
  BY <1>2
<1>4. ctl'[r] = StaleCtls[r] => Good(ctl'[r], r)
  BY <1>0, <1>2, StaleFacts DEF VettedCtl, EntitledCtl
<1>5. ASSUME ctl'[r].pc \in {"idle", "create", "reread"} PROVE Good(ctl'[r], r)
  BY <1>5 DEF VettedCtl, EntitledCtl
<1>6. ASSUME NEW m \in Members, MemberNext(m) PROVE Good(ctl'[r], r)
  BY <1>3, <1>4, <1>6, MemberFrame
<1>7. ASSUME NEW q \in Requests, RequestNext(q), q # r PROVE Good(ctl'[r], r)
  <2>1. ASSUME NEW a, CtlReturn(q, a) PROVE ctl'[r] = ctl[r]
    BY <1>0, <1>7, <2>1 DEF CtlReturn, TypeOK
  <2>2. ASSUME NEW op, CtlBegin(q, op) PROVE ctl'[r] = ctl[r] /\ proj' = proj
    BY <1>0, <1>7, <2>2 DEF CtlBegin, TypeOK
  <2>3. ASSUME NEW op, NEW s, LoopBegin(q, op, s) PROVE ctl'[r] = ctl[r] /\ proj' = proj
    BY <1>0, <1>7, <2>3 DEF LoopBegin, TypeOK
  <2>4. CASE CreateProject(q)
    BY <1>0, <1>3, <1>7, <2>4 DEF CreateProject, TypeOK
  <2>5. CASE LoopStat(q) \/ LoopGet(q) \/ LoopReread(q) \/ CtlCrash(q)
    <3>1. ctl'[r] = ctl[r] /\ proj' = proj
      BY <1>0, <1>7, <2>1, <2>5 DEF LoopStat, LoopGet, LoopReread, CtlCrash, TypeOK
    <3>. QED BY <1>3, <3>1
  <2>6. CASE CtlWrite(q) \/ CtlAudit(q) \/ CreatePut(q) \/ LoopCas(q)
    <3>1. StaleCtls \in [Requests -> Ctls]
      BY <1>0, StaleFacts
    <3>2. (ctl'[r] = ctl[r] /\ proj' = proj) \/ ctl'[r] = StaleCtls[r]
      BY <1>0, <1>7, <2>1, <2>6, <3>1 DEF CtlWrite, CtlAudit, CreatePut, LoopCas, TypeOK
    <3>. QED BY <1>3, <1>4, <3>2
  <2>. HIDE DEF Good
  <2>. QED BY <1>3, <1>7, <2>2, <2>3, <2>4, <2>5, <2>6
           DEF RequestNext, LoopRead, PauseProject, ResumeProject, ReplanProject, CompleteProject
<1>8. CASE RequestNext(r)
  <2>1. ASSUME NEW a, CtlReturn(r, a) PROVE ctl'[r].pc = "idle"
    BY <1>0, <2>1 DEF CtlReturn, TypeOK, IdleCtl
  <2>2. ASSUME NEW op \in Lifecycle, CtlBegin(r, op) PROVE Good(ctl'[r], r)
    <3>. DEFINE next == Apply(op, proj)
    <3>. HIDE DEF next
    <3>0. proj' = proj
      BY <2>2 DEF CtlBegin
    <3>1. CASE Refused(op, proj)
      <4>1. ctl'[r] = [IdleCtl EXCEPT !.pc = "audit", !.op = op, !.live = TRUE, !.meta = proj]
        BY <1>0, <2>2, <3>1 DEF CtlBegin, TypeOK
      <4>2. ctl'[r].pc = "audit" /\ ctl'[r].meta = proj
        BY <4>1 DEF IdleCtl
      <4>. QED BY <3>0, <4>2 DEF VettedCtl, EntitledCtl
    <3>2. CASE ~Refused(op, proj)
      <4>1. ctl'[r] = [IdleCtl EXCEPT !.pc = "write", !.op = op, !.live = TRUE, !.meta = next]
        BY <1>0, <2>2, <3>2 DEF CtlBegin, TypeOK, next
      <4>2. ctl'[r].pc = "write" /\ ctl'[r].op = op /\ ctl'[r].meta = next
        BY <4>1 DEF IdleCtl
      <4>. QED BY <3>0, <3>2, <4>2 DEF VettedCtl, EntitledCtl, next
    <3>. QED BY <3>1, <3>2
  <2>3. ASSUME NEW op \in Controls, NEW s \in Sources, LoopBegin(r, op, s)
        PROVE  Good(ctl'[r], r)
    <3>1. CASE op = "ResumeLoop" /\ s = "user" /\ r \notin Admins
      <4>1. ctl'[r] = [IdleCtl EXCEPT !.op = op, !.source = s, !.res = "rejected"]
        BY <1>0, <2>3, <3>1 DEF LoopBegin, TypeOK
      <4>2. ctl'[r].pc = "idle"
        BY <4>1 DEF IdleCtl
      <4>. QED BY <1>5, <4>2
    <3>2. CASE ~(op = "ResumeLoop" /\ s = "user" /\ r \notin Admins)
      <4>1. ctl'[r] = [IdleCtl EXCEPT !.op = op, !.source = s, !.pc = "stat"]
        BY <1>0, <2>3, <3>2 DEF LoopBegin, TypeOK
      <4>2. ctl'[r].pc = "stat" /\ ctl'[r].op = op /\ ctl'[r].source = s
        BY <4>1 DEF IdleCtl
      <4>3. op \in LoopControls
        BY <2>3 DEF LoopBegin
      <4>. QED BY <3>2, <4>2, <4>3 DEF VettedCtl, EntitledCtl
    <3>. QED BY <3>1, <3>2
  <2>4. CASE CreateProject(r)
    BY <1>0, <1>5, <2>4 DEF CreateProject, TypeOK, IdleCtl
  <2>5. CASE LoopReread(r) \/ CtlCrash(r)
    BY <1>5, <2>1, <2>5 DEF LoopReread, CtlCrash
  <2>6. CASE CtlWrite(r) \/ CtlAudit(r) \/ CreatePut(r)
    <3>1. StaleCtls \in [Requests -> Ctls]
      BY <1>0, StaleFacts
    <3>2. ctl'[r].pc = "idle"
      BY <1>0, <2>1, <2>6, <3>1 DEF CtlWrite, CtlAudit, CreatePut, IdleCtl
    <3>. QED BY <1>5, <3>2
  <2>7. CASE LoopStat(r)
    <3>1. CASE proj.exists
      <4>1. ctl'[r] = [ctl[r] EXCEPT !.pc = "get", !.live = TRUE]
        BY <1>0, <2>7, <3>1 DEF LoopStat, TypeOK
      <4>2. ctl'[r].pc = "get" /\ ctl'[r].op = ctl[r].op /\ ctl'[r].source = ctl[r].source
        BY <1>0, <4>1 DEF TypeOK, Ctls
      <4>3. ctl[r].pc = "stat"
        BY <2>7 DEF LoopStat
      <4>. QED BY <1>2, <4>2, <4>3 DEF VettedCtl, EntitledCtl
    <3>2. CASE ~proj.exists
      BY <1>5, <2>1, <2>7, <3>2 DEF LoopStat
    <3>. QED BY <3>1, <3>2
  <2>8. CASE LoopGet(r)
    <3>1. CASE proj.loop
      <4>. DEFINE next == WithSource(proj, ctl[r].op, ctl[r].source)
      <4>. HIDE DEF next
      <4>1. ctl'[r] = [ctl[r] EXCEPT !.pc = "cas", !.meta = next] /\ proj' = proj
        BY <1>0, <2>8, <3>1 DEF LoopGet, TypeOK, next
      <4>2. /\ ctl'[r].pc = "cas" /\ ctl'[r].op = ctl[r].op /\ ctl'[r].source = ctl[r].source
            /\ ctl'[r].meta = next
        BY <1>0, <4>1 DEF TypeOK, Ctls
      <4>3. ctl[r].pc = "get"
        BY <2>8 DEF LoopGet
      <4>. QED BY <1>2, <4>1, <4>2, <4>3 DEF VettedCtl, EntitledCtl, next
    <3>2. CASE ~proj.loop
      BY <1>5, <2>1, <2>8, <3>2 DEF LoopGet
    <3>. QED BY <3>1, <3>2
  <2>9. CASE LoopCas(r)
    <3>1. CASE ctl[r].live
      <4>1. ctl' = [StaleCtls EXCEPT ![r].pc = "reread"]
        BY <2>9, <3>1 DEF LoopCas
      <4>2. ctl'[r].pc = "reread"
        BY <1>0, <4>1, StaleFacts DEF Ctls
      <4>. QED BY <1>5, <4>2
    <3>2. CASE ~ctl[r].live /\ ctl[r].attempt < MaxCas
      <4>1. ctl'[r] = [ctl[r] EXCEPT !.pc = "stat", !.attempt = @ + 1, !.meta = Absent]
        BY <1>0, <2>9, <3>2 DEF LoopCas, TypeOK
      <4>2. ctl'[r].pc = "stat" /\ ctl'[r].op = ctl[r].op /\ ctl'[r].source = ctl[r].source
        BY <1>0, <4>1 DEF TypeOK, Ctls
      <4>3. ctl[r].pc = "cas"
        BY <2>9 DEF LoopCas
      <4>. QED BY <1>2, <4>2, <4>3 DEF VettedCtl, EntitledCtl
    <3>3. CASE ~ctl[r].live /\ ~(ctl[r].attempt < MaxCas)
      BY <1>5, <2>1, <2>9, <3>3 DEF LoopCas
    <3>. QED BY <3>1, <3>2, <3>3
  <2>. HIDE DEF Good
  <2>. QED BY <1>8, <2>2, <2>3, <2>4, <2>5, <2>6, <2>7, <2>8, <2>9
           DEF RequestNext, LoopRead, PauseProject, ResumeProject, ReplanProject, CompleteProject,
               Lifecycle
<1>9. CASE UNCHANGED vars
  BY <1>3, <1>9 DEF vars
<1>. HIDE DEF Good
<1>. QED BY <1>6, <1>7, <1>8, <1>9 DEF Next

(***************************************************************************)
(* What the steps of the requests do to the members.                       *)
(***************************************************************************)
LEMMA RequestFrame ==
  ASSUME NEW r \in Requests, RequestNext(r)
  PROVE  /\ local' = local /\ call' = call
         /\ (req' = req /\ proj' = proj) \/ req' = StaleReqs
BY DEF RequestNext, PauseProject, ResumeProject, ReplanProject, CompleteProject, CtlBegin,
       CreateProject, LoopBegin, CtlWrite, CtlAudit, CreatePut, LoopRead, LoopStat, LoopGet,
       LoopCas, LoopReread, CtlCrash

(***************************************************************************)
(* The commits on their way stay merged, the local copies stay ready.      *)
(***************************************************************************)
ReadyCopy(l, c, p) ==
  /\ CopyOK(l)
  /\ c.pc # "idle" => l.exists
  /\ c.pc # "idle" /\ c.op = "complete_project" => Settled(l)
  /\ ~p.exists \/ c.pc = "push" => l.status = "active"

MergedReq(q, p) ==
  q.st \in {"sent", "resolved", "guarded"} =>
    /\ q.body.exists
    /\ CopyOK(q.body)
    /\ q.authored = "completed" => Settled(q.body)
    /\ q.live => KeepsPause(q.body, q.authored, p)

\* A step keeps what is known of the members' commits and of their copies.
LEMMA CommitStep ==
  ASSUME IndInv, [Next]_vars
  PROVE  CommitsMerged' /\ CopiesReady'
<1>0. /\ TypeOK /\ TypeOK' /\ CopyOK(proj) /\ CommitsMerged /\ CopiesReady
      /\ proj.exists => proj'.exists
  BY TypeStep, WriteStep DEF IndInv
<1>1. SUFFICES ASSUME NEW m \in Members
               PROVE  MergedReq(req'[m], proj') /\ ReadyCopy(local'[m], call'[m], proj')
  <2>1. CommitsMerged' <=> \A m \in Members : MergedReq(req'[m], proj')
    BY DEF CommitsMerged, MergedReq, InFlight, CopyOK, Settled, KeepsPause
  <2>2. CopiesReady' <=> \A m \in Members : ReadyCopy(local'[m], call'[m], proj')
    BY DEF CopiesReady, ReadyCopy, CopyOK, Settled
  <2>. QED BY <2>1, <2>2
<1>2. MergedReq(req[m], proj) /\ ReadyCopy(local[m], call[m], proj)
  BY <1>0 DEF CommitsMerged, MergedReq, InFlight, CopiesReady, ReadyCopy
<1>3. local'[m] = local[m] /\ call'[m] = call[m] => ReadyCopy(local'[m], call'[m], proj')
  BY <1>0, <1>2 DEF ReadyCopy
<1>4. ASSUME req'[m] = StaleReqs[m] PROVE MergedReq(req'[m], proj')
  BY <1>0, <1>2, <1>4, StaleFacts DEF MergedReq
<1>5. ASSUME req'[m] = req[m] PROVE MergedReq(req'[m], proj')
  <2>1. CASE proj' = proj
    BY <1>2, <1>5, <2>1
  <2>2. CASE ~req'[m].live
    BY <1>2, <1>5, <2>2 DEF MergedReq
  <2>. QED BY <2>1, <2>2, WriteStep
<1>6. ASSUME NEW r \in Requests, RequestNext(r)
      PROVE  MergedReq(req'[m], proj') /\ ReadyCopy(local'[m], call'[m], proj')
  BY <1>3, <1>4, <1>5, <1>6, RequestFrame
<1>7. ASSUME NEW n \in Members, n # m, MemberNext(n)
      PROVE  MergedReq(req'[m], proj') /\ ReadyCopy(local'[m], call'[m], proj')
  BY <1>3, <1>4, <1>5, <1>7, MemberFrame
<1>8. CASE MemberNext(m)
  <2>1. ASSUME NEW synced, Return(m, synced) PROVE call'[m].pc = "idle"
    BY <1>0, <2>1 DEF Return, TypeOK, IdleCall
  <2>2. ASSUME Retry(m)
        PROVE  \/ call'[m].pc = "idle"
               \/ (call'[m].pc = "read" /\ call'[m].op = call[m].op)
    <3>1. CASE call[m].attempt = MaxAttempts
      BY <2>1, <2>2, <3>1 DEF Retry
    <3>2. CASE call[m].attempt # MaxAttempts
      <4>1. call'[m] = [call[m] EXCEPT !.attempt = @ + 1, !.pc = "read"]
        BY <1>0, <2>2, <3>2 DEF Retry, TypeOK
      <4>2. call'[m].pc = "read" /\ call'[m].op = call[m].op
        BY <1>0, <4>1 DEF TypeOK, Calls
      <4>. QED BY <4>2
    <3>. QED BY <3>1, <3>2
  <2>3. ASSUME call'[m].pc = "idle" \/ (call'[m].pc \in {"read", "wait"} /\ call'[m].op = call[m].op),
               local'[m] = local[m], call[m].pc # "idle"
        PROVE  ReadyCopy(local'[m], call'[m], proj')
    BY <1>0, <1>2, <2>3 DEF ReadyCopy
  <2>4. req'[m] = NoReq => MergedReq(req'[m], proj')
    BY DEF MergedReq, NoReq
  <2>5. CASE ToolCall(m)
    <3>1. PICK op \in Ops, copy \in Projects :
            /\ Start(m, op, copy)
            /\ CopyOK(copy)
            /\ copy.exists
            /\ op = "complete_project" => Settled(copy)
            /\ ~proj.exists => copy.status = "active"
      BY <2>5, ToolCallFacts
    <3>2. local'[m] = copy /\ req'[m] = req[m] /\ proj' = proj
      BY <1>0, <3>1 DEF Start, TypeOK
    <3>3. call'[m].pc = "read" /\ call'[m].op = op
      BY <1>0, <3>1 DEF Start, TypeOK, IdleCall
    <3>4. ReadyCopy(local'[m], call'[m], proj')
      BY <3>1, <3>2, <3>3 DEF ReadyCopy
    <3>. QED BY <1>5, <3>2, <3>4
  <2>6. CASE Refresh(m)
    <3>1. local'[m] = proj /\ call'[m] = call[m] /\ req'[m] = req[m] /\ proj' = proj
      BY <1>0, <2>6 DEF Refresh, TypeOK
    <3>2. call[m].pc = "idle" /\ proj.exists
      BY <2>6 DEF Refresh
    <3>3. ReadyCopy(local'[m], call'[m], proj')
      BY <1>0, <3>1, <3>2 DEF ReadyCopy
    <3>. QED BY <1>5, <3>1, <3>3
  <2>. DEFINE a == AuthoredBy(call[m].op)
              merged == Merge(local[m], proj, a)
  <2>7. /\ a \in Authored /\ merged \in Projects
        /\ a = "completed" => call[m].op = "complete_project"
        /\ merged.exists = local[m].exists
        /\ CopyOK(merged)
        /\ Settled(local[m]) => Settled(merged)
        /\ KeepsPause(merged, a, proj)
    <3>1. local[m] \in Projects /\ proj \in Projects /\ CopyOK(local[m])
      BY <1>0, <1>2 DEF TypeOK, ReadyCopy
    <3>. QED BY <1>0, <3>1, AuthoredFacts, MergeFacts
  <2>. HIDE DEF a, merged
  <2>8. CASE SyncRead(m)
    <3>1. call[m].pc = "read" /\ proj' = proj
      BY <2>8 DEF SyncRead
    <3>2. CASE proj.exists
      <4>1. /\ local' = [local EXCEPT ![m] = merged]
            /\ req' = [req EXCEPT ![m] = [NoReq EXCEPT !.st = "sent", !.live = TRUE,
                                                       !.authored = a, !.body = merged]]
            /\ call' = [call EXCEPT ![m].pc = "wait"]
        BY <2>8, <3>2 DEF SyncRead, a, merged
      <4>2. local'[m] = merged
        BY <1>0, <4>1 DEF TypeOK
      <4>3. req'[m].authored = a /\ req'[m].body = merged
        BY <1>0, <4>1 DEF TypeOK, NoReq
      <4>4. call'[m].pc = "wait" /\ call'[m].op = call[m].op
        BY <1>0, <4>1 DEF TypeOK, Calls
      <4>5. MergedReq(req'[m], proj')
        BY <1>2, <2>7, <3>1, <4>3 DEF MergedReq, ReadyCopy
      <4>6. ReadyCopy(local'[m], call'[m], proj')
        BY <1>2, <2>7, <3>1, <3>2, <4>2, <4>4 DEF ReadyCopy
      <4>. QED BY <4>5, <4>6
    <3>3. CASE ~proj.exists
      <4>1. local' = local /\ req' = req /\ call' = [call EXCEPT ![m].pc = "push"]
        BY <2>8, <3>3 DEF SyncRead
      <4>2. call'[m].op = call[m].op
        BY <1>0, <4>1 DEF TypeOK, Calls
      <4>3. ReadyCopy(local'[m], call'[m], proj')
        BY <1>2, <3>1, <3>3, <4>1, <4>2 DEF ReadyCopy
      <4>. QED BY <1>5, <4>1, <4>3
    <3>. QED BY <3>2, <3>3
  <2>9. CASE FirstPush(m)
    <3>1. call[m].pc = "push" /\ local'[m] = local[m] /\ req'[m] = StaleReqs[m]
          /\ call'[m].pc = "idle"
      BY <2>1, <2>9 DEF FirstPush
    <3>. QED BY <1>4, <2>3, <3>1
  <2>10. CASE Answered(m)
    <3>1. call[m].pc = "wait" /\ local'[m] = local[m] /\ req'[m] = NoReq
      BY <1>0, <2>10 DEF Answered, TypeOK
    <3>2. call'[m].pc = "idle" \/ (call'[m].pc = "read" /\ call'[m].op = call[m].op)
      BY <2>1, <2>2, <2>10 DEF Answered
    <3>. QED BY <2>3, <2>4, <3>1, <3>2
  <2>11. CASE PushFailed(m)
    <3>1. /\ call[m].pc = "read" /\ local' = [local EXCEPT ![m] = merged] /\ req' = req
          /\ proj.exists /\ proj' = proj
      BY <2>11 DEF PushFailed, a, merged
    <3>2. local'[m] = merged
      BY <1>0, <3>1 DEF TypeOK
    <3>3. call'[m].pc = "idle" \/ (call'[m].pc = "read" /\ call'[m].op = call[m].op)
      BY <2>2, <2>11 DEF PushFailed
    <3>4. ReadyCopy(local'[m], call'[m], proj')
      BY <1>2, <2>7, <3>1, <3>2, <3>3 DEF ReadyCopy
    <3>. QED BY <1>5, <3>1, <3>4
  <2>12. CASE GiveUp(m)
    <3>1. call[m].pc # "idle" /\ local'[m] = local[m] /\ call'[m].pc = "idle"
      BY <2>1, <2>12 DEF GiveUp
    <3>2. req'[m] = req[m] \/ req'[m] = NoReq
      BY <1>0, <2>12 DEF GiveUp, TypeOK
    <3>. QED BY <1>5, <2>3, <2>4, <3>1, <3>2
  <2>13. CASE ResolveCommit(m)
    <3>1. /\ req[m].st = "sent" /\ local'[m] = local[m] /\ call'[m] = call[m] /\ proj' = proj
          /\ req' = [req EXCEPT ![m].st = "resolved", ![m].stale = ~req[m].live]
      BY <2>13 DEF ResolveCommit
    <3>2. /\ req'[m].body = req[m].body /\ req'[m].authored = req[m].authored
          /\ req'[m].live = req[m].live
      BY <1>0, <3>1 DEF TypeOK, Reqs
    <3>3. MergedReq(req'[m], proj')
      BY <1>2, <3>1, <3>2 DEF MergedReq
    <3>. QED BY <1>3, <3>1, <3>3
  <2>14. CASE GuardCommit(m)
    <3>1. PICK s \in {"guarded", "conflict", "refused"} : req' = [req EXCEPT ![m].st = s]
      BY <2>14 DEF GuardCommit
    <3>2. req[m].st = "resolved" /\ local'[m] = local[m] /\ call'[m] = call[m] /\ proj' = proj
      BY <2>14 DEF GuardCommit
    <3>3. /\ req'[m].body = req[m].body /\ req'[m].authored = req[m].authored
          /\ req'[m].live = req[m].live
      BY <1>0, <3>1 DEF TypeOK, Reqs
    <3>4. MergedReq(req'[m], proj')
      BY <1>2, <3>2, <3>3 DEF MergedReq
    <3>. QED BY <1>3, <3>2, <3>4
  <2>15. CASE PutProjectMeta(m)
    <3>1. local'[m] = local[m] /\ call'[m] = call[m]
      BY <2>15 DEF PutProjectMeta
    <3>2. req' = [StaleReqs EXCEPT ![m].st = "stat"] \/ req' = [req EXCEPT ![m].st = "conflict"]
      BY <2>15 DEF PutProjectMeta
    <3>3. req'[m].st \in {"stat", "conflict"}
      <4>1. ASSUME NEW f \in [Members -> Reqs], NEW s \in {"stat", "conflict"}
            PROVE  [f EXCEPT ![m].st = s][m].st = s
        BY DEF Reqs
      <4>2. StaleReqs \in [Members -> Reqs] /\ req \in [Members -> Reqs]
        BY <1>0, StaleFacts DEF TypeOK
      <4>3. CASE req' = [StaleReqs EXCEPT ![m].st = "stat"]
        BY <4>1, <4>2, <4>3
      <4>4. CASE req' = [req EXCEPT ![m].st = "conflict"]
        BY <4>1, <4>2, <4>4
      <4>. QED BY <3>2, <4>3, <4>4
    <3>. QED BY <1>3, <3>1, <3>3 DEF MergedReq
  <2>16. CASE StatMeta(m)
    <3>1. local'[m] = local[m] /\ call'[m] = call[m]
      BY <2>16 DEF StatMeta
    <3>2. req'[m].st = "done"
      BY <1>0, <2>16 DEF StatMeta, TypeOK, NoReq
    <3>. QED BY <1>3, <3>1, <3>2 DEF MergedReq
  <2>. QED BY <1>8, <2>5, <2>6, <2>8, <2>9, <2>10, <2>11, <2>12, <2>13, <2>14, <2>15, <2>16
           DEF MemberNext
<1>9. CASE UNCHANGED vars
  BY <1>3, <1>5, <1>9 DEF vars
<1>. QED BY <1>6, <1>7, <1>8, <1>9 DEF Next

-----------------------------------------------------------------------------
(***************************************************************************)
(* The inductive invariant holds.                                          *)
(***************************************************************************)
LEMMA IndInvInit == Init => IndInv
<1>. SUFFICES ASSUME Init PROVE IndInv
  OBVIOUS
<1>. USE DEF Init
<1>1. TypeOK
  BY IdleTypes DEF TypeOK
<1>2. /\ CopyOK(Fresh) /\ CopyOK(Absent) /\ Absent.status = "active" /\ Fresh.exists
  BY DEF CopyOK, Fresh, Absent
<1>3. CopyOK(proj)
  BY <1>2
<1>4. ControlsVetted /\ RequestsEntitled
  BY DEF ControlsVetted, RequestsEntitled, IdleCtl
<1>5. CommitsMerged
  BY DEF CommitsMerged, InFlight, NoReq
<1>6. CopiesReady
  BY <1>2 DEF CopiesReady, IdleCall
<1>. QED BY <1>1, <1>3, <1>4, <1>5, <1>6 DEF IndInv

\* The invariant is inductive.
LEMMA IndInvStep == IndInv /\ [Next]_vars => IndInv'
BY TypeStep, WriteStep, ControlStep, CommitStep DEF IndInv

(***************************************************************************)
(* Every reachable state satisfies the inductive invariant.                *)
(***************************************************************************)
THEOREM Inductive == Spec => []IndInv
BY IndInvInit, IndInvStep, PTL DEF Spec

(***************************************************************************)
(* Every reachable state is well typed.                                    *)
(***************************************************************************)
THEOREM TypeCorrect == Spec => []TypeOK
<1>1. IndInv => TypeOK
  BY DEF IndInv
<1>. QED BY <1>1, Inductive, PTL

(***************************************************************************)
(* setProjectPauseSource keeps the legacy flag and the source set together *)
(* and no merge, re-plan or creation takes them apart.                     *)
(***************************************************************************)
THEOREM FlagFollowsSources == Spec => []FlagMatchesSources
<1>1. IndInv => FlagMatchesSources
  BY DEF IndInv, CopyOK, FlagMatchesSources
<1>. QED BY <1>1, Inductive, PTL

(***************************************************************************)
(* A control action that can still land was decided on the version it will *)
(* replace (writeProjectMeta and the loop of setProjectPauseSource).       *)
(***************************************************************************)
THEOREM ControlsAreVetted == Spec => []ControlsVetted
<1>1. IndInv => ControlsVetted
  BY DEF IndInv
<1>. QED BY <1>1, Inductive, PTL

-----------------------------------------------------------------------------
(***************************************************************************)
(* What every write but the creation of a project does to the file.        *)
(***************************************************************************)
LEMMA Writers ==
  ASSUME IndInv, [Next]_vars, proj' # proj
  PROVE  \/ Creation
         \/ \E m \in Members : /\ PutProjectMeta(m)
                               /\ proj' = req[m].body
                               /\ KeepsPause(proj', req[m].authored, proj)
                               /\ req[m].authored = "completed" => Settled(proj')
         \/ \E r \in Requests : /\ CtlWrite(r)
                                /\ ctl[r].op \in Lifecycle
                                /\ ~Refused(ctl[r].op, proj)
                                /\ proj' = Apply(ctl[r].op, proj)
         \/ \E r \in Requests : /\ LoopCas(r)
                                /\ proj' = WithSource(proj, ctl[r].op, ctl[r].source)
                                /\ EntitledCtl(ctl[r], r)
                                /\ ctl[r].pc = "cas"
<1>0. ControlsVetted /\ CommitsMerged /\ RequestsEntitled
  BY DEF IndInv
<1>1. \/ Creation
      \/ \E m \in Members : PutProjectMeta(m) /\ req[m].live
      \/ \E r \in Requests : CtlWrite(r) /\ ctl[r].live
      \/ \E r \in Requests : CtlAudit(r) /\ ctl[r].live
      \/ \E r \in Requests : LoopCas(r) /\ ctl[r].live
  <2>1. ASSUME NEW m \in Members, ToolCall(m) PROVE FALSE
    BY <2>1, ToolCallFacts DEF Start
  <2>2. ASSUME NEW m \in Members, MemberNext(m)
        PROVE  Creation \/ (PutProjectMeta(m) /\ req[m].live)
    BY <2>1, <2>2 DEF MemberNext, Refresh, SyncRead, Answered, PushFailed, GiveUp, ResolveCommit,
                      GuardCommit, StatMeta, PutProjectMeta, Creation
  <2>3. ASSUME NEW r \in Requests, RequestNext(r)
        PROVE  \/ Creation
               \/ (CtlWrite(r) \/ CtlAudit(r) \/ LoopCas(r)) /\ ctl[r].live
    BY <2>3 DEF RequestNext, PauseProject, ResumeProject, ReplanProject, CompleteProject, CtlBegin,
                CreateProject, LoopBegin, LoopRead, LoopStat, LoopGet, LoopReread, CtlCrash,
                CtlWrite, CtlAudit, LoopCas, Creation
  <2>. QED BY <2>2, <2>3 DEF Next, vars
<1>2. ASSUME NEW m \in Members, PutProjectMeta(m), req[m].live
      PROVE  /\ proj' = req[m].body
             /\ KeepsPause(proj', req[m].authored, proj)
             /\ req[m].authored = "completed" => Settled(proj')
  <2>1. proj' = req[m].body
    BY <1>2 DEF PutProjectMeta
  <2>2. /\ KeepsPause(req[m].body, req[m].authored, proj)
        /\ req[m].authored = "completed" => Settled(req[m].body)
    BY <1>0, <1>2 DEF CommitsMerged, PutProjectMeta, InFlight
  <2>. QED BY <2>1, <2>2
<1>3. ASSUME NEW r \in Requests, CtlWrite(r), ctl[r].live
      PROVE  /\ ctl[r].op \in Lifecycle
             /\ ~Refused(ctl[r].op, proj)
             /\ proj' = Apply(ctl[r].op, proj)
  BY <1>0, <1>3 DEF CtlWrite, ControlsVetted, RequestsEntitled
<1>4. ASSUME NEW r \in Requests, CtlAudit(r), ctl[r].live PROVE FALSE
  BY <1>0, <1>4 DEF CtlAudit, ControlsVetted
<1>5. ASSUME NEW r \in Requests, LoopCas(r), ctl[r].live
      PROVE  /\ proj' = WithSource(proj, ctl[r].op, ctl[r].source)
             /\ EntitledCtl(ctl[r], r)
             /\ ctl[r].pc = "cas"
  BY <1>0, <1>5 DEF LoopCas, ControlsVetted, RequestsEntitled, EntitledCtl
<1>. QED BY <1>1, <1>2, <1>3, <1>4, <1>5

(***************************************************************************)
(* The pause state belongs to the Controller, for every interleaving of    *)
(* any number of tool calls and requests: only the creation of a project   *)
(* is excepted.                                                            *)
(***************************************************************************)
THEOREM PauseIsOwned == Spec => PauseOwned
<1>. DEFINE Removed == \A s \in Sources : s \in proj.sources /\ s \notin proj'.sources =>
              \E r \in Requests : /\ LoopCas(r)
                                  /\ ctl[r].op = "ResumeLoop" /\ ctl[r].source = s
                                  /\ s = "user" => r \in Admins
            Added == \A s \in Sources : s \notin proj.sources /\ s \in proj'.sources =>
              \E r \in Requests : LoopCas(r) /\ ctl[r].op = "PauseLoop" /\ ctl[r].source = s
            Status == proj'.status # proj.status =>
              \/ \E r \in Requests : CtlWrite(r) /\ ctl[r].op \in Lifecycle
              \/ \E m \in Members : /\ PutProjectMeta(m)
                                    /\ proj.status # "paused"
                                    /\ proj'.status = req[m].authored
            Owned == Creation \/ (Removed /\ Added /\ Status)
<1>1. ASSUME IndInv, [Next]_vars PROVE Owned
  <2>0. proj \in Projects
    BY <1>1 DEF IndInv, TypeOK
  <2>1. CASE proj' = proj
    BY <2>1
  <2>2. CASE Creation
    BY <2>2
  <2>3. ASSUME NEW m \in Members, PutProjectMeta(m), KeepsPause(proj', req[m].authored, proj)
        PROVE  Owned
    BY <2>3 DEF KeepsPause
  <2>4. ASSUME NEW r \in Requests, CtlWrite(r), ctl[r].op \in Lifecycle,
               proj' = Apply(ctl[r].op, proj)
        PROVE  Owned
    <3>1. proj'.sources = proj.sources
      BY <2>0, <2>4, ApplyFacts
    <3>. QED BY <2>4, <3>1
  <2>5. ASSUME NEW r \in Requests, LoopCas(r), EntitledCtl(ctl[r], r), ctl[r].pc = "cas",
               proj' = WithSource(proj, ctl[r].op, ctl[r].source)
        PROVE  Owned
    <3>1. /\ ctl[r].op \in LoopControls /\ ctl[r].source \in Sources
          /\ ctl[r].op = "ResumeLoop" /\ ctl[r].source = "user" => r \in Admins
      BY <2>5 DEF EntitledCtl
    <3>2. /\ proj'.status = proj.status
          /\ ctl[r].op = "PauseLoop" => proj'.sources = proj.sources \cup {ctl[r].source}
          /\ ctl[r].op = "ResumeLoop" => proj'.sources = proj.sources \ {ctl[r].source}
      BY <2>0, <2>5, <3>1, SourceFacts
    <3>3. CASE ctl[r].op = "PauseLoop"
      BY <2>5, <3>2, <3>3
    <3>4. CASE ctl[r].op = "ResumeLoop"
      BY <2>5, <3>1, <3>2, <3>4
    <3>. QED BY <3>1, <3>3, <3>4 DEF LoopControls
  <2>. HIDE DEF Owned
  <2>. QED BY <1>1, <2>1, <2>2, <2>3, <2>4, <2>5, Writers
<1>2. IndInv /\ [Next]_vars => [Owned]_vars
  BY <1>1
<1>. QED BY <1>2, Inductive, PTL DEF Spec, PauseOwned

(***************************************************************************)
(* complete_project and CompleteProject complete only a plan whose tasks   *)
(* are all terminal.                                                       *)
(***************************************************************************)
THEOREM CompletesSettled == Spec => CompletedSettled
<1>. DEFINE Completes == proj.status # "completed" /\ proj'.status = "completed" => Settled(proj')
<1>1. ASSUME IndInv, [Next]_vars PROVE Completes
  <2>0. proj \in Projects /\ CopiesReady
    BY <1>1 DEF IndInv, TypeOK
  <2>1. CASE proj' = proj
    BY <2>1
  <2>2. CASE Creation
    <3>1. ASSUME NEW m \in Members, FirstPush(m) PROVE proj'.status = "active"
      BY <2>0, <3>1 DEF FirstPush, CopiesReady
    <3>2. ASSUME NEW r \in Requests, CreatePut(r) PROVE proj'.status = "active"
      BY <3>2 DEF CreatePut, Fresh
    <3>. QED BY <2>2, <3>1, <3>2 DEF Creation
  <2>3. ASSUME NEW m \in Members, KeepsPause(proj', req[m].authored, proj),
               req[m].authored = "completed" => Settled(proj')
        PROVE  Completes
    BY <2>3 DEF KeepsPause
  <2>4. ASSUME NEW r \in Requests, ~Refused(ctl[r].op, proj), proj' = Apply(ctl[r].op, proj)
        PROVE  Completes
    BY <2>0, <2>4, ApplyFacts
  <2>5. ASSUME NEW r \in Requests, EntitledCtl(ctl[r], r), ctl[r].pc = "cas",
               proj' = WithSource(proj, ctl[r].op, ctl[r].source)
        PROVE  Completes
    <3>1. proj'.status = proj.status
      BY <2>0, <2>5, SourceFacts DEF EntitledCtl
    <3>. QED BY <3>1
  <2>. HIDE DEF Completes
  <2>. QED BY <1>1, <2>1, <2>2, <2>3, <2>4, <2>5, Writers
<1>2. IndInv /\ [Next]_vars => [Completes]_proj
  BY <1>1
<1>. QED BY <1>2, Inductive, PTL DEF Spec, CompletedSettled
=============================================================================
