------------------------- MODULE ManagerTasksProofs -------------------------
(***************************************************************************)
(* Theorems about ManagerTasks, for any tasks, dependencies, results and   *)
(* bounds: types, verdicts, decisions that stand and the order in which    *)
(* tasks are published.                                                    *)
(***************************************************************************)
EXTENDS ManagerTasks, FiniteSetTheorems, TLAPS

Copies == {"leader", "remote", "worker"}
Places == {"leader", "remote"}

TaskRec == [meta : TaskMeta, result : ResultStatuses \cup {"none"}, spec : {"none", "spec"}]
PlanRec == [type : {"none", "dag", "loop"}, nodes : [Tasks -> NodeStatuses]]
ProjRec == [meta : {"none", "active", "paused", "completed"}, plan : PlanRec]
SubmissionIdSet == (0..MaxSubmissions) \cup {LegacyId[r] : r \in ResultStatuses}
Submission == [task : Tasks, sid : SubmissionIdSet, result : ResultStatuses]

(***************************************************************************)
(* A worker submitted a result worth accepting for d.                      *)
(***************************************************************************)
Worthy(d) == \E s \in minted : s.task = d /\ s.result \in EFFECTIVE_RESULT_STATUSES

(***************************************************************************)
(* What a meta.json of t, wherever it was copied to, says that the         *)
(* submissions made so far vouch for: its submission, its verdict, and     *)
(* that the dependencies of t were met when it was first written.          *)
(***************************************************************************)
Submitted(t, m) == \E s \in minted : s.task = t /\ s.sid = m.sid /\ s.result = m.digest

Deserved(t, m) ==
  \E s \in minted : /\ s.task = t /\ s.sid = m.sid
                    /\ \E a \in BOOLEAN : m.st = Verdict(s.result, a)

Vouched(t, m) ==
  /\ m.sid # 0 => Submitted(t, m)
  /\ m.st \in TERMINAL_TASK_STATUSES \ {"cancelled"} => Deserved(t, m)
  /\ DelegatedHere(m) => \A d \in Deps[t] : Worthy(d)

DirOK ==
  /\ dir \in [Copies -> [Tasks -> TaskRec]]
  /\ \A c \in Copies, t \in Tasks : Vouched(t, dir[c][t].meta)

(***************************************************************************)
(* The leader's plan against the shared one: a decision that was shared is *)
(* in the leader's plan too, unless it planned the task anew.              *)
(***************************************************************************)
SharedStands ==
  \A t \in Tasks \ renewed :
     proj["remote"].plan.nodes[t] \in TERMINAL_TASK_STATUSES =>
        proj["leader"].plan.nodes[t] = proj["remote"].plan.nodes[t]

ProjOK ==
  /\ proj \in [Places -> ProjRec]
  /\ proj["leader"].meta = "none" => proj["leader"].plan = NoPlan /\ proj["remote"].plan = NoPlan
  /\ \A c \in Places, t \in Tasks : proj[c].plan.nodes[t] = "completed" => Worthy(t)

RestOK ==
  /\ calls \in [Tasks -> 0..MaxCalls]
  /\ told \subseteq Tasks /\ acking \subseteq Tasks /\ renewed \subseteq Tasks
  /\ spent \in [faults : 0..MaxFaults, controls : 0..MaxControls]
  /\ minted \subseteq Submission /\ IsFiniteSet(minted)

IndInv == DirOK /\ ProjOK /\ SharedStands /\ RestOK

-----------------------------------------------------------------------------
\* The files of a task that does not exist.
LEMMA EmptyFacts ==
  /\ NoMeta \in TaskMeta /\ NoTask \in TaskRec
  /\ NoTask.meta = NoMeta /\ NoTask.result = "none" /\ NoTask.spec = "none"
  /\ DOMAIN NoTask = TaskFiles
<1>1. 0 \in 0..MaxSubmissions
  BY ManagerBounds
<1>2. NoMeta \in TaskMeta
  BY <1>1 DEF NoMeta, TaskMeta
<1>. QED BY <1>2 DEF NoTask, TaskRec, TaskFiles

\* A project that does not exist.
LEMMA EmptyProject ==
  /\ NoPlan \in PlanRec /\ NoProject \in ProjRec
  /\ NoProject.meta = "none" /\ NoProject.plan = NoPlan
  /\ \A t \in Tasks : NoPlan.nodes[t] = "absent"
<1>1. NoPlan \in PlanRec /\ \A t \in Tasks : NoPlan.nodes[t] = "absent"
  BY DEF NoPlan, PlanRec, NodeStatuses
<1>. QED BY <1>1 DEF NoProject, ProjRec

\* What a copy of a task directory brings.
LEMMA MirrorTask ==
  ASSUME NEW from \in TaskRec, NEW to \in TaskRec, NEW S
  PROVE  /\ Mirror(from, to, NoTask, S) \in TaskRec
         /\ Mirror(from, to, NoTask, S).meta \in {from.meta, to.meta}
<1>. DEFINE m == Mirror(from, to, NoTask, S)
<1>1. DOMAIN to = {"meta", "result", "spec"}
  BY DEF TaskRec
<1>2. m = [f \in {"meta", "result", "spec"} |->
             IF f \in S /\ from[f] # NoTask[f] THEN from[f] ELSE to[f]]
  BY <1>1 DEF Mirror
<1>3. m["meta"] \in {from.meta, to.meta} /\ m["result"] \in {from.result, to.result}
      /\ m["spec"] \in {from.spec, to.spec}
  BY <1>2
<1>4. m = [meta |-> m["meta"], result |-> m["result"], spec |-> m["spec"]]
  BY <1>2
<1>5. m["meta"] \in TaskMeta /\ m["result"] \in ResultStatuses \cup {"none"}
      /\ m["spec"] \in {"none", "spec"}
  BY <1>3 DEF TaskRec
<1>. HIDE DEF m
<1>6. m \in TaskRec
  BY <1>4, <1>5 DEF TaskRec
<1>. QED BY <1>3, <1>6 DEF m

\* What a copy of a project directory brings.
LEMMA MirrorProject ==
  ASSUME NEW from \in ProjRec, NEW to \in ProjRec, NEW S
  PROVE  /\ Mirror(from, to, NoProject, S) \in ProjRec
         /\ \/ Mirror(from, to, NoProject, S).meta = to.meta
            \/ Mirror(from, to, NoProject, S).meta = from.meta /\ from.meta # "none"
         /\ \/ Mirror(from, to, NoProject, S).plan = to.plan
            \/ Mirror(from, to, NoProject, S).plan = from.plan /\ from.plan # NoPlan
<1>. DEFINE m == Mirror(from, to, NoProject, S)
<1>1. DOMAIN to = {"meta", "plan"}
  BY DEF ProjRec
<1>2. m = [f \in {"meta", "plan"} |->
             IF f \in S /\ from[f] # NoProject[f] THEN from[f] ELSE to[f]]
  BY <1>1 DEF Mirror
<1>3. /\ m["meta"] = to.meta \/ (m["meta"] = from.meta /\ from.meta # "none")
      /\ m["plan"] = to.plan \/ (m["plan"] = from.plan /\ from.plan # NoPlan)
  BY <1>2, EmptyProject
<1>4. m = [meta |-> m["meta"], plan |-> m["plan"]]
  BY <1>2
<1>5. m["meta"] \in {"none", "active", "paused", "completed"} /\ m["plan"] \in PlanRec
  BY <1>3 DEF ProjRec
<1>. HIDE DEF m
<1>6. m \in ProjRec
  BY <1>4, <1>5 DEF ProjRec
<1>. QED BY <1>3, <1>6 DEF m

\* What the submissions vouch for, more submissions vouch for.
LEMMA VouchedStays ==
  ASSUME NEW t, NEW m, Vouched(t, m), minted \subseteq minted'
  PROVE  Vouched(t, m)'
  BY DEF Vouched, Submitted, Deserved, Worthy

\* A writer's copy of one task is written and pushed to the shared storage.
LEMMA PushDir ==
  ASSUME DirOK, NEW c \in {"leader", "worker"}, NEW t \in Tasks, NEW files \in TaskRec, NEW S,
         minted \subseteq minted', Vouched(t, files.meta)',
         dir' = [dir EXCEPT ![c][t] = files,
                            !["remote"][t] = Mirror(files, dir["remote"][t], NoTask, S)]
  PROVE  DirOK'
<1>. DEFINE m == Mirror(files, dir["remote"][t], NoTask, S)
<1>1. m \in TaskRec /\ m.meta \in {files.meta, dir["remote"][t].meta}
  BY MirrorTask DEF DirOK, Copies
<1>2. dir' \in [Copies -> [Tasks -> TaskRec]]
  <2>. HIDE DEF m
  <2>. DEFINE own == [dir EXCEPT ![c] = [dir[c] EXCEPT ![t] = files]]
  <2>1. dir' = [own EXCEPT !["remote"] = [own["remote"] EXCEPT ![t] = m]]
    BY DEF m
  <2>2. own \in [Copies -> [Tasks -> TaskRec]]
    BY DEF DirOK, Copies
  <2>. HIDE DEF own
  <2>3. [own["remote"] EXCEPT ![t] = m] \in [Tasks -> TaskRec]
    BY <1>1, <2>2 DEF Copies
  <2>. DEFINE shared == [own["remote"] EXCEPT ![t] = m]
  <2>. HIDE DEF shared
  <2>4. [own EXCEPT !["remote"] = shared] \in [Copies -> [Tasks -> TaskRec]]
    BY <2>2, <2>3 DEF Copies, shared
  <2>. QED BY <2>1, <2>4, Zenon DEF shared
<1>3. \A e \in Copies, u \in Tasks :
        dir'[e][u] = dir[e][u] \/ (u = t /\ (dir'[e][u] = files \/ dir'[e][u] = m))
  <2>. HIDE DEF m
  <2>1. dir' = [dir EXCEPT ![c][t] = files, !["remote"][t] = m]
    BY DEF m
  <2>. QED BY <2>1 DEF DirOK, Copies
<1>4. ASSUME NEW e \in Copies, NEW u \in Tasks
      PROVE  Vouched(u, dir[e][u].meta)'
  <2>1. PICK v : v = dir'[e][u].meta
    OBVIOUS
  <2>2. v = dir[e][u].meta \/ (u = t /\ (v = files.meta \/ v = dir["remote"][u].meta))
    <3>. HIDE DEF m
    <3>. QED BY <1>1, <1>3, <2>1
  <2>3. ASSUME NEW w, Vouched(u, w) PROVE Vouched(u, w)'
    BY <2>3, VouchedStays
  <2>4. Vouched(u, v)'
    BY <2>2, <2>3 DEF DirOK, Copies
  <2>. QED BY <2>1, <2>4
<1>. HIDE DEF m
<1>. QED BY <1>2, <1>4 DEF DirOK

\* A copy of one task is pulled from the shared storage.
LEMMA PullDir ==
  ASSUME DirOK, NEW c \in {"leader", "worker"}, NEW t \in Tasks, NEW S, minted' = minted,
         dir' = [dir EXCEPT ![c][t] = Mirror(dir["remote"][t], dir[c][t], NoTask, S)]
  PROVE  DirOK'
<1>1. PICK m : m = Mirror(dir["remote"][t], dir[c][t], NoTask, S)
  OBVIOUS
<1>2. m \in TaskRec /\ m.meta \in {dir["remote"][t].meta, dir[c][t].meta}
  BY <1>1, MirrorTask DEF DirOK, Copies
<1>3. dir' = [dir EXCEPT ![c][t] = m]
  BY <1>1
<1>4. dir' \in [Copies -> [Tasks -> TaskRec]]
  BY <1>2, <1>3 DEF DirOK, Copies
<1>5. \A e \in Copies, u \in Tasks : dir'[e][u] = dir[e][u] \/ (u = t /\ dir'[e][u] = m)
  BY <1>3 DEF DirOK, Copies
<1>6. ASSUME NEW e \in Copies, NEW u \in Tasks
      PROVE  Vouched(u, dir[e][u].meta)'
  <2>1. PICK v : v = dir'[e][u].meta
    OBVIOUS
  <2>2. Vouched(u, v)
    BY <1>2, <1>5, <2>1 DEF DirOK, Copies
  <2>3. Vouched(u, v)'
    BY <2>2, VouchedStays
  <2>. QED BY <2>1, <2>3
<1>. QED BY <1>4, <1>6 DEF DirOK

\* A restart pulls every task.
LEMMA PullAll ==
  ASSUME DirOK, NEW c \in {"leader", "worker"}, NEW S, minted' = minted,
         dir' = [dir EXCEPT ![c] = [t \in Tasks |-> Mirror(dir["remote"][t], dir[c][t], NoTask, S)]]
  PROVE  DirOK'
<1>. DEFINE M(t) == Mirror(dir["remote"][t], dir[c][t], NoTask, S)
<1>2. \A t \in Tasks : M(t) \in TaskRec /\ M(t).meta \in {dir["remote"][t].meta, dir[c][t].meta}
  BY MirrorTask DEF DirOK, Copies
<1>3. dir' = [dir EXCEPT ![c] = [t \in Tasks |-> M(t)]]
  OBVIOUS
<1>5. \A e \in Copies, u \in Tasks : dir'[e][u] = dir[e][u] \/ dir'[e][u] = M(u)
  <2>. HIDE DEF M
  <2>. QED BY <1>3 DEF DirOK, Copies
<1>4. dir' \in [Copies -> [Tasks -> TaskRec]]
  <2>. HIDE DEF M
  <2>1. [t \in Tasks |-> M(t)] \in [Tasks -> TaskRec]
    BY <1>2
  <2>. QED BY <2>1, <1>3 DEF DirOK, Copies
<1>6. ASSUME NEW e \in Copies, NEW u \in Tasks
      PROVE  Vouched(u, dir[e][u].meta)'
  <2>1. PICK v : v = dir'[e][u].meta
    OBVIOUS
  <2>2. v \in {dir[e][u].meta, dir["remote"][u].meta, dir[c][u].meta}
    <3>. HIDE DEF M
    <3>. QED BY <1>2, <1>5, <2>1
  <2>3. Vouched(u, v)
    BY <2>2 DEF DirOK, Copies
  <2>4. Vouched(u, v)'
    BY <2>3, VouchedStays
  <2>. QED BY <2>1, <2>4
<1>. HIDE DEF M
<1>. QED BY <1>4, <1>6 DEF DirOK

\* Nothing is written in the task directories.
LEMMA SameDir ==
  ASSUME DirOK, dir' = dir, minted \subseteq minted'
  PROVE  DirOK'
<1>1. ASSUME NEW e \in Copies, NEW u \in Tasks
      PROVE  Vouched(u, dir[e][u].meta)'
  <2>1. PICK v : v = dir[e][u].meta
    OBVIOUS
  <2>2. Vouched(u, v)'
    BY <2>1, VouchedStays DEF DirOK
  <2>. QED BY <2>1, <2>2
<1>. QED BY <1>1 DEF DirOK

-----------------------------------------------------------------------------
(* What the leader and the worker write in the task directories *)

\* A push of the leader, by what it writes.
LEMMA LeaderPushes ==
  ASSUME DirOK, NEW t \in Tasks, NEW files \in TaskRec, NEW S, minted' = minted,
         Vouched(t, files.meta), LeaderPush(t, files, S)
  PROVE  DirOK'
<1>1. dir' = [dir EXCEPT !["leader"][t] = files,
                         !["remote"][t] = Mirror(files, dir["remote"][t], NoTask, S)]
  BY DEF LeaderPush
<1>2. Vouched(t, files.meta)'
  BY VouchedStays
<1>. QED BY <1>1, <1>2, PushDir

\* The leader's own files of a task.
LEMMA LeaderFiles ==
  ASSUME DirOK, NEW t \in Tasks
  PROVE  /\ dir.leader[t] \in TaskRec /\ Vouched(t, dir.leader[t].meta)
         /\ dir.worker[t] \in TaskRec /\ Vouched(t, dir.worker[t].meta)
         /\ Meta(t) = dir.leader[t].meta
  BY DEF DirOK, Copies, Meta

\* Files whose meta.json says the same of its submission, with a status that
\* is no verdict.
LEMMA Restated ==
  ASSUME NEW t, NEW m, NEW n, Vouched(t, m), DelegatedHere(m), n.sid = m.sid, n.digest = m.digest,
         n.st \notin TERMINAL_TASK_STATUSES \ {"cancelled"}
  PROVE  Vouched(t, n)
  BY DEF Vouched, Submitted

\* The publication of an assigned task, its retry, and check_task.
LEMMA RepublishDir ==
  ASSUME DirOK, NEW t \in Tasks, DelegateAssigned(t) \/ DelegateRetry(t) \/ CheckTask(t)
  PROVE  DirOK'
<1>1. CASE DelegateAssigned(t) \/ DelegateRetry(t)
  <2>1. PICK S : LeaderPush(t, dir.leader[t], S)
    BY <1>1 DEF DelegateAssigned, DelegateRetry
  <2>2. minted' = minted
    BY <1>1 DEF DelegateAssigned, DelegateRetry
  <2>. QED BY <2>1, <2>2, LeaderFiles, LeaderPushes
<1>2. CASE CheckTask(t)
  <2>1. PICK S : dir' = [dir EXCEPT !["leader"][t] = Mirror(dir["remote"][t], dir["leader"][t], NoTask, S)]
    BY <1>2 DEF CheckTask, DirOK, Copies
  <2>. QED BY <2>1, <1>2, PullDir DEF CheckTask
<1>. QED BY <1>1, <1>2

\* A pending task is published when its dependencies are met.
LEMMA FreshDir ==
  ASSUME DirOK, ProjOK, NEW t \in Tasks, DelegateFresh(t)
  PROVE  DirOK'
<1>1. PICK k \in 0..3, S \in SUBSET TaskFiles : LeaderPush(t, Prepared(dir.leader[t], k), S)
  BY DEF DelegateFresh
<1>. DEFINE old == dir.leader[t]
            new == Prepared(old, k)
<1>2. old \in TaskRec /\ Vouched(t, old.meta)
  BY LeaderFiles
<1>3. \A d \in Deps[t] : Worthy(d)
  BY ManagerGraph DEF DelegateFresh, Delegable, ProjOK, Places, Plan
<1>4. /\ new.meta = old.meta \/ (new.meta.st = "prepared" /\ new.meta.sid = 0)
      /\ new \in TaskRec
  <2>. DEFINE prep == [NoMeta EXCEPT !.st = "prepared"]
  <2>1. prep \in TaskMeta /\ prep.st = "prepared" /\ prep.sid = 0
    BY EmptyFacts DEF TaskMeta, NoMeta
  <2>. HIDE DEF prep
  <2>2. new = [old EXCEPT !.meta = IF k > 0 THEN prep ELSE @, !.spec = IF k > 1 THEN "spec" ELSE @]
    BY DEF Prepared, prep
  <2>. QED BY <1>2, <2>1, <2>2 DEF TaskRec
<1>5. Vouched(t, new.meta)
  <2>. HIDE DEF new
  <2>. QED BY <1>2, <1>3, <1>4 DEF Vouched, TERMINAL_TASK_STATUSES
<1>6. LeaderPush(t, new, S) /\ minted' = minted
  BY <1>1 DEF DelegateFresh
<1>. HIDE DEF new
<1>. QED BY <1>4, <1>5, <1>6, LeaderPushes

\* An assignment that reached the room.
LEMMA NotifyDir ==
  ASSUME DirOK, NEW t \in Tasks, NotifyDone(t)
  PROVE  DirOK'
<1>0. minted' = minted
  BY DEF NotifyDone
<1>1. CASE Meta(t).st \notin Committable
  BY <1>0, <1>1, SameDir DEF NotifyDone
<1>2. CASE Meta(t).st \in Committable
  <2>1. PICK S : LeaderPush(t, Assigned(dir.leader[t]), S)
    BY <1>2 DEF NotifyDone
  <2>. DEFINE old == dir.leader[t]
              new == Assigned(old)
  <2>2. old \in TaskRec /\ Vouched(t, old.meta) /\ old.meta.st \in Committable
    BY <1>2, LeaderFiles
  <2>3. /\ new.meta.st = "assigned" /\ new.meta.sid = old.meta.sid /\ new.meta.digest = old.meta.digest
        /\ new \in TaskRec
    <3>1. old.meta \in TaskMeta
      BY <2>2 DEF TaskRec
    <3>2. new = [old EXCEPT !.meta = [old.meta EXCEPT !.st = "assigned"]]
      BY DEF Assigned
    <3>. QED BY <2>2, <3>1, <3>2 DEF TaskRec, TaskMeta
  <2>4. Vouched(t, new.meta)
    <3>. HIDE DEF new
    <3>. QED BY <2>2, <2>3, Restated DEF Committable, DelegatedHere, TERMINAL_TASK_STATUSES
  <2>5. LeaderPush(t, new, S)
    BY <2>1
  <2>. HIDE DEF new
  <2>. QED BY <1>0, <2>3, <2>4, <2>5, LeaderPushes
<1>. QED BY <1>1, <1>2

(***************************************************************************)
(* A decision names a submission of the task, and a verdict is the one the *)
(* submission deserves.                                                    *)
(***************************************************************************)
Decides(t, status) ==
  /\ Plan.nodes[t] # "absent" /\ Undisputed(t, status) /\ Commit(t, status)
  /\ Meta(t).st \in {"submitted"} \cup TERMINAL_TASK_STATUSES
  /\ \/ status = "cancelled"
     \/ \E s \in minted, a \in BOOLEAN : /\ s.task = t /\ s.sid = Meta(t).sid
                                         /\ s.result \in ResultStatuses
                                         /\ status = Verdict(s.result, a)

\* What accept_task_result and cancel_task decide.
LEMMA Decisions ==
  ASSUME DirOK, RestOK, NEW t \in Tasks, NEW sid,
         CancelTask(t, sid) \/ (\E a \in BOOLEAN : AcceptTaskResult(t, sid, a))
  PROVE  \E status \in TERMINAL_TASK_STATUSES : Decides(t, status)
<1>1. CASE CancelTask(t, sid)
  BY <1>1 DEF CancelTask, Identified, Decides, TERMINAL_TASK_STATUSES
<1>2. CASE \E a \in BOOLEAN : AcceptTaskResult(t, sid, a)
  <2>1. PICK a \in BOOLEAN : AcceptTaskResult(t, sid, a)
    BY <1>2
  <2>2. PICK r : r = dir.leader[t].result
    OBVIOUS
  <2>3. Meta(t).sid # 0 /\ Meta(t).digest = r
    BY <2>1, <2>2 DEF AcceptTaskResult, Identified, ResultIsSubmitted
  <2>4. PICK s \in minted : s.task = t /\ s.sid = Meta(t).sid /\ s.result = r
    BY <2>3, LeaderFiles DEF Vouched, Submitted
  <2>5. s.result \in ResultStatuses
    BY <2>4 DEF RestOK, Submission
  <2>6. Verdict(r, a) \in TERMINAL_TASK_STATUSES
    BY DEF Verdict, TERMINAL_TASK_STATUSES, EFFECTIVE_RESULT_STATUSES
  <2>. QED BY <2>1, <2>2, <2>4, <2>5, <2>6 DEF AcceptTaskResult, Identified, Decides
<1>. QED BY <1>1, <1>2

\* A decision in the task directory.
LEMMA DecideDir ==
  ASSUME DirOK, NEW t \in Tasks, NEW status \in TERMINAL_TASK_STATUSES, Decides(t, status)
  PROVE  DirOK'
<1>1. PICK w \in 0..2, S \in SUBSET (TaskFiles \ {"spec"}) : LeaderPush(t, DecidedTask(t, status, w), S)
  BY DEF Decides, Commit
<1>. DEFINE old == dir.leader[t]
            new == DecidedTask(t, status, w)
<1>2. old \in TaskRec /\ Vouched(t, old.meta) /\ old.meta = Meta(t)
  BY LeaderFiles
<1>3. /\ new.meta = old.meta
         \/ (new.meta.st = status /\ new.meta.sid = old.meta.sid /\ new.meta.digest = old.meta.digest)
      /\ new \in TaskRec
  <2>1. old.meta \in TaskMeta
    BY <1>2 DEF TaskRec
  <2>2. CASE w = 2
    <3>1. new = [old EXCEPT !.meta = [old.meta EXCEPT !.st = status]]
      BY <2>2, <2>1, <1>2 DEF DecidedTask, TaskRec, TaskMeta
    <3>. QED BY <1>2, <2>1, <3>1 DEF TaskRec, TaskMeta
  <2>3. CASE w # 2
    <3>1. new = [old EXCEPT !.meta = [old.meta EXCEPT !.st = old.meta.st]]
      BY <2>3, <2>1, <1>2 DEF DecidedTask, TaskRec, TaskMeta
    <3>2. [old.meta EXCEPT !.st = old.meta.st] = old.meta
      BY <2>1 DEF TaskMeta
    <3>3. new = old
      BY <1>2, <3>1, <3>2 DEF TaskRec
    <3>. QED BY <1>2, <3>3
  <2>. QED BY <2>2, <2>3
<1>4. Vouched(t, new.meta)
  <2>1. CASE new.meta = old.meta
    BY <1>2, <2>1
  <2>2. CASE new.meta.st = status /\ new.meta.sid = old.meta.sid /\ new.meta.digest = old.meta.digest
    <3>1. new.meta.sid # 0 => Submitted(t, new.meta)
      <4>. HIDE DEF new
      <4>. QED BY <1>2, <2>2 DEF Vouched, Submitted
    <3>2. status # "cancelled" => Deserved(t, new.meta)
      <4>. HIDE DEF new
      <4>. QED BY <1>2, <2>2 DEF Decides, Deserved
    <3>3. DelegatedHere(new.meta) => DelegatedHere(old.meta)
      <4>. HIDE DEF new
      <4>. QED BY <2>2 DEF DelegatedHere, TERMINAL_TASK_STATUSES
    <3>. HIDE DEF new
    <3>. QED BY <1>2, <2>2, <3>1, <3>2, <3>3 DEF Vouched
  <2>. HIDE DEF new
  <2>. QED BY <1>3, <2>1, <2>2
<1>5. LeaderPush(t, new, S) /\ minted' = minted
  BY <1>1 DEF Decides, Commit
<1>. HIDE DEF new
<1>. QED BY <1>3, <1>4, <1>5, LeaderPushes

-----------------------------------------------------------------------------
\* A push of the worker, by what it writes.
LEMMA WorkerPushes ==
  ASSUME DirOK, NEW t \in Tasks, NEW files \in TaskRec, NEW S, minted \subseteq minted',
         Vouched(t, files.meta)',
         dir' = [dir EXCEPT !.worker[t] = files, !.remote[t] = Mirror(files, @, NoTask, S)]
  PROVE  DirOK'
<1>1. dir' = [dir EXCEPT !["worker"][t] = files,
                         !["remote"][t] = Mirror(files, dir["remote"][t], NoTask, S)]
  BY DEF DirOK, Copies
<1>. QED BY <1>1, PushDir

\* ack_task.
LEMMA AckDir ==
  ASSUME DirOK, NEW t \in Tasks, AckPull(t) \/ AckPush(t)
  PROVE  DirOK'
<1>1. CASE AckPull(t)
  <2>1. PICK S : dir' = [dir EXCEPT !["worker"][t] = Mirror(dir["remote"][t], dir["worker"][t], NoTask, S)]
    BY <1>1 DEF AckPull, DirOK, Copies
  <2>. QED BY <1>1, <2>1, PullDir DEF AckPull
<1>2. CASE AckPush(t) /\ ~(dir.worker[t].spec # "none" /\ dir.worker[t].meta.st \in AckableStatuses)
  BY <1>2, SameDir DEF AckPush
<1>3. CASE AckPush(t) /\ dir.worker[t].spec # "none" /\ dir.worker[t].meta.st \in AckableStatuses
  <2>. DEFINE old == dir.worker[t]
  <2>0. PICK new : new = [old EXCEPT !.meta.st = "in_progress"]
    OBVIOUS
  <2>1. PICK S : dir' = [dir EXCEPT !.worker[t] = new, !.remote[t] = Mirror(new, @, NoTask, S)]
    BY <1>3, <2>0 DEF AckPush
  <2>2. old \in TaskRec /\ Vouched(t, old.meta) /\ DelegatedHere(old.meta)
    BY <1>3, LeaderFiles DEF AckableStatuses, DelegatedHere
  <2>3. /\ new.meta.st = "in_progress" /\ new.meta.sid = old.meta.sid
        /\ new.meta.digest = old.meta.digest /\ new \in TaskRec
    <3>1. old.meta \in TaskMeta
      BY <2>2 DEF TaskRec
    <3>2. new = [old EXCEPT !.meta = [old.meta EXCEPT !.st = "in_progress"]]
      BY <2>0
    <3>. QED BY <2>2, <3>1, <3>2 DEF TaskRec, TaskMeta
  <2>4. Vouched(t, new.meta)
    BY <2>2, <2>3, Restated DEF TERMINAL_TASK_STATUSES
  <2>5. minted' = minted
    BY <1>3 DEF AckPush
  <2>6. Vouched(t, new.meta)'
    BY <2>4, <2>5, VouchedStays
  <2>. QED BY <2>1, <2>3, <2>5, <2>6, WorkerPushes
<1>. QED BY <1>1, <1>2, <1>3

\* The id of a new submission.
LEMMA NextIdType == RestOK => NextId \in Nat \ {0}
<1>. SUFFICES ASSUME RestOK PROVE NextId \in Nat \ {0}
  OBVIOUS
<1>1. IsFiniteSet({m \in minted : m.sid > 0})
  BY FS_Subset DEF RestOK
<1>2. Cardinality({m \in minted : m.sid > 0}) \in Nat
  BY <1>1, FS_CardinalityType
<1>. QED BY <1>2 DEF NextId

Mints(t, sid, r) == minted' = minted \cup {[task |-> t, sid |-> sid, result |-> r]}

\* A submission that is made is remembered.
LEMMA MintFacts ==
  ASSUME RestOK, NEW t \in Tasks, NEW sid \in SubmissionIdSet, NEW r \in ResultStatuses,
         Mints(t, sid, r)
  PROVE  minted' \subseteq Submission /\ IsFiniteSet(minted')
<1>1. [task |-> t, sid |-> sid, result |-> r] \in Submission
  BY DEF Submission
<1>2. IsFiniteSet(minted \cup {[task |-> t, sid |-> sid, result |-> r]})
  BY FS_AddElement DEF RestOK
<1>. QED BY <1>1, <1>2 DEF RestOK, Mints

\* The meta.json of a submission that was just made.
LEMMA MintVouches ==
  ASSUME NEW t \in Tasks, NEW sid, NEW r, NEW old, NEW new, Mints(t, sid, r),
         Vouched(t, old), DelegatedHere(new) => DelegatedHere(old),
         new.st = "submitted", new.sid = sid, new.digest = r
  PROVE  Vouched(t, new)'
<1>1. PICK s : s = [task |-> t, sid |-> sid, result |-> r]
  OBVIOUS
<1>2. s \in minted' /\ s.task = t /\ s.sid = new.sid /\ s.result = new.digest
  BY <1>1 DEF Mints
<1>3. Submitted(t, new)'
  BY <1>2 DEF Submitted
<1>4. \A d : Worthy(d) => Worthy(d)'
  BY DEF Mints, Worthy
<1>. QED BY <1>3, <1>4 DEF Vouched, TERMINAL_TASK_STATUSES, DelegatedHere

\* submit_task: the files it leaves and what it minted.
LEMMA SubmitDir ==
  ASSUME DirOK, RestOK, NEW t \in Tasks, NEW r \in ResultStatuses \cup {"none"},
         SubmitNew(t, r) \/ SubmitAgain(t, r) \/ SubmitLegacy(t, r)
  PROVE  /\ DirOK'
         /\ minted \subseteq minted' /\ minted' \subseteq Submission /\ IsFiniteSet(minted')
<1>. DEFINE old == dir.worker[t]
<1>0. old \in TaskRec /\ Vouched(t, old.meta)
  BY LeaderFiles
<1>1. ASSUME NEW files \in TaskRec, NEW k, Publish(t, files, k), minted \subseteq minted',
             Vouched(t, files.meta)'
      PROVE  DirOK'
  BY <1>1, WorkerPushes DEF Publish
<1>2. ASSUME SubmitNew(t, r)
      PROVE  DirOK' /\ minted \subseteq minted' /\ minted' \subseteq Submission /\ IsFiniteSet(minted')
  <2>0. PICK result : result = IF r = "none" THEN old.result ELSE r
    OBVIOUS
  <2>1. result \in ResultStatuses /\ DelegatedHere(old.meta) /\ NextId \in SubmissionIdSet
    <3>1. NextId \in 0..MaxSubmissions
      BY <1>2, NextIdType, ManagerBounds DEF SubmitNew
    <3>. QED BY <1>0, <1>2, <2>0, <3>1 DEF SubmitNew, TaskRec, SubmissionIdSet, DelegatedHere
  <2>2. PICK sid : sid = NextId
    OBVIOUS
  <2>3. PICK m : m = [st |-> "submitted", sid |-> sid, digest |-> result]
    OBVIOUS
  <2>4. m \in TaskMeta /\ m.st = "submitted" /\ m.sid = sid /\ m.digest = result
    BY <2>1, <2>2, <2>3 DEF TaskMeta, SubmissionIdSet
  <2>5. PICK new : new = [meta |-> m, result |-> result, spec |-> old.spec]
    OBVIOUS
  <2>6. new \in TaskRec /\ new.meta = m
    BY <1>0, <2>1, <2>4, <2>5 DEF TaskRec
  <2>7. PICK part : part = [old EXCEPT !.result = result]
    OBVIOUS
  <2>8. part \in TaskRec /\ part.meta = old.meta
    BY <1>0, <2>1, <2>7 DEF TaskRec
  <2>9. PICK w \in 0..2, k \in 0..2 :
          /\ Publish(t, IF w = 2 THEN new ELSE IF w = 1 THEN part ELSE old, k)
          /\ minted' = IF w = 2 THEN minted \cup {[task |-> t, sid |-> sid, result |-> result]}
                       ELSE minted
    BY <1>2, <2>0, <2>2, <2>3, <2>5, <2>7 DEF SubmitNew
  <2>10. CASE w = 2
    <3>1. Mints(t, sid, result) /\ Publish(t, new, k)
      BY <2>9, <2>10 DEF Mints
    <3>2. Vouched(t, m)'
      BY <1>0, <2>1, <2>4, <3>1, MintVouches
    <3>3. Vouched(t, new.meta)'
      BY <2>6, <3>2
    <3>4. minted \subseteq minted' /\ minted' \subseteq Submission /\ IsFiniteSet(minted')
      BY <2>1, <2>2, <3>1, MintFacts DEF Mints
    <3>. QED BY <1>1, <2>6, <3>1, <3>3, <3>4
  <2>11. CASE w # 2
    <3>1. PICK files : files = IF w = 1 THEN part ELSE old
      OBVIOUS
    <3>2. files \in TaskRec /\ Vouched(t, files.meta)
      BY <1>0, <2>8, <3>1
    <3>3. minted' = minted /\ Publish(t, files, k)
      BY <2>9, <2>11, <3>1
    <3>4. Vouched(t, files.meta)'
      BY <3>2, <3>3, VouchedStays
    <3>. QED BY <1>1, <3>2, <3>3, <3>4 DEF RestOK
  <2>. QED BY <2>10, <2>11
<1>3. ASSUME SubmitAgain(t, r)
      PROVE  DirOK' /\ minted \subseteq minted' /\ minted' \subseteq Submission /\ IsFiniteSet(minted')
  <2>1. PICK files : files = [old EXCEPT !.result = old.meta.digest]
    OBVIOUS
  <2>2. files \in TaskRec /\ files.meta = old.meta
    <3>1. old.meta.digest \in ResultStatuses \cup {"none"}
      BY <1>0 DEF TaskRec, TaskMeta
    <3>. QED BY <1>0, <2>1, <3>1 DEF TaskRec
  <2>3. minted' = minted /\ \E k \in 0..2 : Publish(t, files, k)
    BY <1>3, <2>1 DEF SubmitAgain
  <2>4. Vouched(t, files.meta)'
    BY <1>0, <2>2, <2>3, VouchedStays
  <2>. QED BY <1>1, <2>2, <2>3, <2>4 DEF RestOK
<1>4. ASSUME SubmitLegacy(t, r)
      PROVE  DirOK' /\ minted \subseteq minted' /\ minted' \subseteq Submission /\ IsFiniteSet(minted')
  <2>1. PICK m : m = [st |-> "submitted", sid |-> LegacyId[r], digest |-> r]
    OBVIOUS
  <2>2. /\ r \in ResultStatuses /\ Mints(t, LegacyId[r], r)
        /\ LegacyId[r] \in SubmissionIdSet
    BY <1>4 DEF SubmitLegacy, Mints, SubmissionIdSet
  <2>10. LegacyId[r] \in {-1, -2, -3, -4, -5}
    BY <2>2 DEF LegacyId
  <2>3. m \in TaskMeta /\ m.st = "submitted" /\ m.sid = LegacyId[r] /\ m.digest = r
    BY <2>1, <2>2 DEF TaskMeta, SubmissionIdSet
  <2>4. PICK files : files = [old EXCEPT !.meta = m]
    OBVIOUS
  <2>5. files \in TaskRec /\ files.meta = m
    BY <1>0, <2>3, <2>4 DEF TaskRec
  <2>6. \E k \in 0..2 : Publish(t, files, k)
    BY <1>4, <2>1, <2>4 DEF SubmitLegacy
  <2>11. ~DelegatedHere(m)
    BY <2>3, <2>10 DEF DelegatedHere
  <2>7. Vouched(t, m)'
    BY <1>0, <2>2, <2>3, <2>11, MintVouches
  <2>8. Vouched(t, files.meta)'
    BY <2>5, <2>7
  <2>9. minted \subseteq minted' /\ minted' \subseteq Submission /\ IsFiniteSet(minted')
    BY <2>2, MintFacts DEF Mints
  <2>. QED BY <1>1, <2>5, <2>6, <2>8, <2>9
<1>. QED BY <1>2, <1>3, <1>4

\* Restarts.
LEMMA RestartDir ==
  ASSUME DirOK, LeaderRestart \/ WorkerRestart
  PROVE  DirOK'
<1>1. PICK c \in {"leader", "worker"}, S \in SUBSET TaskFiles :
        dir' = [dir EXCEPT ![c] = [t \in Tasks |-> Mirror(dir["remote"][t], dir[c][t], NoTask, S)]]
  BY DEF LeaderRestart, WorkerRestart, DirOK, Copies
<1>2. minted' = minted
  BY DEF LeaderRestart, WorkerRestart
<1>. QED BY <1>1, <1>2, PullAll

-----------------------------------------------------------------------------
(***************************************************************************)
(* What the steps do to the two copies of the project.                     *)
(***************************************************************************)
PlansStand ==
  \A t \in Tasks \ renewed' :
     /\ proj["remote"].plan.nodes[t] \in TERMINAL_TASK_STATUSES =>
          /\ proj'["remote"].plan.nodes[t] = proj["remote"].plan.nodes[t]
          /\ proj'["leader"].plan.nodes[t] = proj["remote"].plan.nodes[t]
     /\ /\ proj["leader"].plan.nodes[t] \in TERMINAL_TASK_STATUSES
        /\ proj'["leader"].plan.nodes[t] # proj["leader"].plan.nodes[t]
        => LeaderRestart /\ proj["remote"].plan.nodes[t] \notin TERMINAL_TASK_STATUSES

\* The project is not touched.
LEMMA SameProj ==
  ASSUME ProjOK, SharedStands, UNCHANGED <<proj, renewed>>, minted \subseteq minted'
  PROVE  ProjOK' /\ SharedStands' /\ PlansStand
BY DEF ProjOK, SharedStands, PlansStand, Worthy

\* The leader's copy becomes p: a status it shared is kept, a decided node is
\* kept or planned anew.
LEMMA LeaderWrites ==
  ASSUME ProjOK, SharedStands, NEW p \in ProjRec, minted' = minted,
         proj' = [proj EXCEPT !["leader"] = p],
         p.meta = "none" => p.plan = NoPlan /\ proj["remote"].plan = NoPlan,
         \A t \in Tasks : p.plan.nodes[t] = "completed" => proj["leader"].plan.nodes[t] = "completed",
         renewed \subseteq renewed',
         \A t \in Tasks : proj["leader"].plan.nodes[t] \in TERMINAL_TASK_STATUSES =>
            p.plan.nodes[t] = proj["leader"].plan.nodes[t]
              \/ (t \in renewed' /\ p.plan.nodes[t] \notin TERMINAL_TASK_STATUSES)
  PROVE  ProjOK' /\ SharedStands' /\ PlansStand
<1>1. /\ proj' \in [Places -> ProjRec] /\ proj'["leader"] = p /\ proj'["remote"] = proj["remote"]
  BY DEF ProjOK, Places
<1>2. ProjOK'
  BY <1>1 DEF ProjOK, Places, Worthy
<1>3. SharedStands'
  BY <1>1 DEF SharedStands
<1>4. ASSUME NEW t \in Tasks, t \notin renewed'
      PROVE  proj["leader"].plan.nodes[t] \in TERMINAL_TASK_STATUSES =>
               proj'["leader"].plan.nodes[t] = proj["leader"].plan.nodes[t]
  BY <1>1, <1>4
<1>5. PlansStand
  BY <1>1, <1>4 DEF PlansStand, SharedStands
<1>. QED BY <1>2, <1>3, <1>5

\* The leader's own project, as a record.
LEMMA LeaderProject ==
  ASSUME ProjOK
  PROVE  /\ proj["leader"] \in ProjRec /\ proj["leader"].plan \in PlanRec
         /\ proj["leader"].plan.nodes \in [Tasks -> NodeStatuses] /\ Plan = proj["leader"].plan
  BY DEF ProjOK, Places, ProjRec, PlanRec, Plan

\* create_project.
LEMMA CreateProj ==
  ASSUME ProjOK, SharedStands, CreateProject
  PROVE  ProjOK' /\ SharedStands' /\ PlansStand
<1>0. PICK dag : dag = [NoPlan EXCEPT !.type = "dag"]
  OBVIOUS
<1>1. PICK done \in BOOLEAN :
        proj' = [proj EXCEPT !.leader = [meta |-> "active", plan |-> IF done THEN dag ELSE NoPlan]]
  BY <1>0 DEF CreateProject
<1>2. PICK p : p = [meta |-> "active", plan |-> IF done THEN dag ELSE NoPlan]
  OBVIOUS
<1>3. dag \in PlanRec /\ dag.nodes = NoPlan.nodes
  BY <1>0, EmptyProject DEF PlanRec
<1>4. p \in ProjRec /\ p.meta = "active" /\ p.plan.nodes = NoPlan.nodes
  BY <1>2, <1>3, EmptyProject DEF ProjRec
<1>5. proj' = [proj EXCEPT !["leader"] = p]
  BY <1>1, <1>2
<1>6. proj["leader"].plan = NoPlan
  BY DEF CreateProject, ProjOK
<1>7. \A t \in Tasks : p.plan.nodes[t] = "absent" /\ proj["leader"].plan.nodes[t] = "absent"
  BY <1>4, <1>6, EmptyProject
<1>8. minted' = minted /\ renewed' = renewed
  BY DEF CreateProject
<1>. QED BY <1>4, <1>5, <1>7, <1>8, LeaderWrites DEF TERMINAL_TASK_STATUSES

\* plan_dag and plan_loop.
LEMMA PlanProj ==
  ASSUME ProjOK, SharedStands, NEW type \in {"dag", "loop"}, NEW N, NEW known, PlanWith(type, N, known)
  PROVE  ProjOK' /\ SharedStands' /\ PlansStand
<1>1. PICK nodes : nodes = Replan(N, known)
  OBVIOUS
<1>2. /\ nodes \in [Tasks -> NodeStatuses]
      /\ \A t \in Tasks : nodes[t] \in {"absent", "pending", Plan.nodes[t]}
  BY <1>1, LeaderProject DEF Replan, NodeStatuses
<1>3. PICK plan : plan = [type |-> type, nodes |-> nodes]
  OBVIOUS
<1>4. plan \in PlanRec /\ plan.nodes = nodes
  BY <1>2, <1>3 DEF PlanRec
<1>5. PICK p : p = [proj["leader"] EXCEPT !.plan = plan]
  OBVIOUS
<1>6. p \in ProjRec /\ p.meta = proj["leader"].meta /\ p.plan = plan
  BY <1>4, <1>5, LeaderProject DEF ProjRec
<1>7. proj' = [proj EXCEPT !["leader"] = p]
  BY <1>1, <1>3, <1>5 DEF PlanWith
<1>8. proj["leader"].meta # "none"
  BY DEF PlanWith, ProjOK, Plan
<1>9. \A t \in Tasks : nodes[t] = "completed" => Plan.nodes[t] = "completed"
  BY <1>2
<1>10. minted' = minted /\ renewed \subseteq renewed'
  BY DEF PlanWith
<1>11. \A t \in Tasks : Plan.nodes[t] \in TERMINAL_TASK_STATUSES =>
         nodes[t] = Plan.nodes[t] \/ (t \in renewed' /\ nodes[t] \notin TERMINAL_TASK_STATUSES)
  BY <1>1, <1>2 DEF PlanWith, TERMINAL_TASK_STATUSES
<1>. QED BY <1>4, <1>6, <1>7, <1>8, <1>9, <1>10, <1>11, LeaderProject, LeaderWrites

\* pause_project, resume_project and complete_project.
LEMMA SetProj ==
  ASSUME ProjOK, SharedStands, NEW st \in {"active", "paused", "completed"}, SetProject(st)
  PROVE  ProjOK' /\ SharedStands' /\ PlansStand
<1>1. PICK p : p = [proj["leader"] EXCEPT !.meta = st]
  OBVIOUS
<1>2. p \in ProjRec /\ p.meta = st /\ p.plan = proj["leader"].plan
  BY <1>1, LeaderProject DEF ProjRec
<1>3. proj' = [proj EXCEPT !["leader"] = p]
  BY <1>1 DEF SetProject
<1>4. minted' = minted /\ renewed' = renewed
  BY DEF SetProject
<1>. QED BY <1>2, <1>3, <1>4, LeaderWrites

NodeSet(t, st) == [proj["leader"] EXCEPT !.plan.nodes[t] = st]

\* The leader's copy when one node of its plan changes.
LEMMA NodeSetFacts ==
  ASSUME ProjOK, NEW t \in Tasks, NEW st \in NodeStatuses
  PROVE  /\ NodeSet(t, st) \in ProjRec /\ NodeSet(t, st).meta = proj["leader"].meta
         /\ NodeSet(t, st).plan.nodes = [proj["leader"].plan.nodes EXCEPT ![t] = st]
<1>1. PICK nodes : nodes = [proj["leader"].plan.nodes EXCEPT ![t] = st]
  OBVIOUS
<1>2. nodes \in [Tasks -> NodeStatuses]
  BY <1>1, LeaderProject
<1>3. PICK plan : plan = [proj["leader"].plan EXCEPT !.nodes = nodes]
  OBVIOUS
<1>4. plan \in PlanRec /\ plan.nodes = nodes
  BY <1>2, <1>3, LeaderProject DEF PlanRec
<1>5. NodeSet(t, st) = [proj["leader"] EXCEPT !.plan = plan]
  BY <1>1, <1>3 DEF NodeSet
<1>. QED BY <1>1, <1>4, <1>5, LeaderProject DEF ProjRec

\* A task is delegated.
LEMMA FreshProj ==
  ASSUME ProjOK, SharedStands, NEW t \in Tasks, DelegateFresh(t)
  PROVE  ProjOK' /\ SharedStands' /\ PlansStand
<1>1. minted' = minted /\ renewed' = renewed /\ Plan.nodes[t] = "pending" /\ proj["leader"].meta # "none"
  BY DEF DelegateFresh, Delegable, Plan
<1>2. CASE proj' = proj
  BY <1>1, <1>2, SameProj
<1>3. CASE proj' = [proj EXCEPT !.leader.plan.nodes[t] = "delegated"]
  <2>1. PICK p : p = NodeSet(t, "delegated")
    OBVIOUS
  <2>2. /\ p \in ProjRec /\ p.meta = proj["leader"].meta
        /\ p.plan.nodes = [proj["leader"].plan.nodes EXCEPT ![t] = "delegated"]
    BY <2>1, NodeSetFacts DEF NodeStatuses
  <2>3. proj' = [proj EXCEPT !["leader"] = p]
    BY <1>3, <2>1 DEF NodeSet
  <2>. QED BY <1>1, <2>2, <2>3, LeaderProject, LeaderWrites DEF TERMINAL_TASK_STATUSES
<1>. QED BY <1>2, <1>3 DEF DelegateFresh

\* A decision in the plans: the leader's, then the shared one.
LEMMA DecideProj ==
  ASSUME ProjOK, SharedStands, NEW t \in Tasks, NEW status \in TERMINAL_TASK_STATUSES, Decides(t, status)
  PROVE  ProjOK' /\ SharedStands' /\ PlansStand
<1>1. PICK w \in 0..2, P \in SUBSET ProjectFiles :
        proj' = [leader |-> DecidedProject(t, status, w),
                 remote |-> Mirror(DecidedProject(t, status, w), proj.remote, NoProject, P)]
  BY DEF Decides, Commit
<1>2. minted' = minted /\ renewed' = renewed
  BY DEF Decides, Commit
<1>3. PICK st : st = IF w > 0 /\ ~Decided(t) THEN status ELSE Plan.nodes[t]
  OBVIOUS
<1>4. PICK here : here = DecidedProject(t, status, w)
  OBVIOUS
<1>5. st \in NodeStatuses
  BY <1>3, LeaderProject DEF NodeStatuses
<1>6. here = NodeSet(t, st)
  <2>1. CASE w > 0 /\ ~Decided(t)
    BY <2>1, <1>3, <1>4 DEF DecidedProject, NodeSet
  <2>2. CASE ~(w > 0 /\ ~Decided(t))
    BY <2>2, <1>3, <1>4, LeaderProject DEF DecidedProject, NodeSet
  <2>. QED BY <2>1, <2>2
<1>7. /\ here \in ProjRec /\ here.meta = proj["leader"].meta
      /\ here.plan.nodes = [proj["leader"].plan.nodes EXCEPT ![t] = st]
  BY <1>5, <1>6, NodeSetFacts
<1>8. PICK there : there = Mirror(here, proj["remote"], NoProject, P)
  OBVIOUS
<1>9. /\ there \in ProjRec
      /\ there.plan \in {proj["remote"].plan, here.plan}
  BY <1>7, <1>8, MirrorProject DEF ProjOK, Places
<1>10. proj' = [leader |-> here, remote |-> there]
  BY <1>1, <1>4, <1>8
<1>11. proj' \in [Places -> ProjRec] /\ proj'["leader"] = here /\ proj'["remote"] = there
  BY <1>7, <1>9, <1>10 DEF Places
<1>12. Plan.nodes[t] \in TERMINAL_TASK_STATUSES => st = Plan.nodes[t]
  BY <1>3 DEF Decides, Undisputed, Decided
<1>13. proj["leader"].meta # "none"
  <2>1. Plan.nodes[t] # "absent"
    BY DEF Decides
  <2>. QED BY <2>1, EmptyProject, LeaderProject DEF ProjOK
<1>14. st = "completed" => Worthy(t)
  <2>1. CASE st = Plan.nodes[t]
    BY <2>1, LeaderProject DEF ProjOK, Places
  <2>2. CASE st = status
    BY <2>2 DEF Decides, Worthy, Verdict
  <2>. QED BY <1>3, <2>1, <2>2
<1>15. \A u \in Tasks : /\ here.plan.nodes[u] = "completed" => Worthy(u)
                        /\ Plan.nodes[u] \in TERMINAL_TASK_STATUSES =>
                             here.plan.nodes[u] = Plan.nodes[u]
  BY <1>7, <1>12, <1>14, LeaderProject DEF ProjOK, Places
<1>16. \A u \in Tasks : there.plan.nodes[u] = "completed" => Worthy(u)
  BY <1>9, <1>15 DEF ProjOK, Places
<1>17. ProjOK'
  <2>1. proj'["leader"].meta # "none"
    BY <1>7, <1>11, <1>13
  <2>2. \A u \in Tasks : Worthy(u)' <=> Worthy(u)
    BY <1>2 DEF Worthy
  <2>3. \A c \in Places, u \in Tasks : proj'[c].plan.nodes[u] = "completed" => Worthy(u)'
    BY <1>11, <1>15, <1>16, <2>2 DEF Places
  <2>. QED BY <1>11, <2>1, <2>3 DEF ProjOK
<1>18. SharedStands'
  BY <1>2, <1>9, <1>11, <1>15, LeaderProject DEF SharedStands
<1>19. ASSUME NEW u \in Tasks, u \notin renewed'
       PROVE  /\ Plan.nodes[u] \in TERMINAL_TASK_STATUSES =>
                   proj'["leader"].plan.nodes[u] = Plan.nodes[u]
              /\ proj'["remote"].plan.nodes[u] \in
                   {proj["remote"].plan.nodes[u], proj'["leader"].plan.nodes[u]}
  BY <1>9, <1>11, <1>15
<1>20. ASSUME NEW u \in Tasks, u \notin renewed',
              proj["remote"].plan.nodes[u] \in TERMINAL_TASK_STATUSES
       PROVE  Plan.nodes[u] = proj["remote"].plan.nodes[u]
  BY <1>2, <1>20, LeaderProject DEF SharedStands
<1>21. PlansStand
  BY <1>19, <1>20, LeaderProject DEF PlansStand
<1>. QED BY <1>17, <1>18, <1>21

\* A restart of the leader brings the shared project back.
LEMMA RestartProj ==
  ASSUME ProjOK, SharedStands, LeaderRestart
  PROVE  ProjOK' /\ SharedStands' /\ PlansStand
<1>1. PICK P : proj' = [proj EXCEPT !["leader"] = Mirror(proj["remote"], proj["leader"], NoProject, P)]
  BY DEF LeaderRestart, ProjOK, Places
<1>2. PICK p : p = Mirror(proj["remote"], proj["leader"], NoProject, P)
  OBVIOUS
<1>3. /\ p \in ProjRec
      /\ p.meta = proj["leader"].meta \/ p.meta # "none"
      /\ \/ p.plan = proj["leader"].plan
         \/ p.plan = proj["remote"].plan /\ proj["remote"].plan # NoPlan
  BY <1>2, MirrorProject DEF ProjOK, Places
<1>4. /\ proj' \in [Places -> ProjRec] /\ proj'["leader"] = p /\ proj'["remote"] = proj["remote"]
  BY <1>1, <1>2, <1>3 DEF ProjOK, Places
<1>5. minted' = minted /\ renewed' = renewed
  BY DEF LeaderRestart
<1>6. ProjOK'
  <2>1. \A t \in Tasks : p.plan.nodes[t] = "completed" => Worthy(t)
    BY <1>3 DEF ProjOK, Places
  <2>2. p.meta = "none" => p.plan = NoPlan /\ proj["remote"].plan = NoPlan
    BY <1>3 DEF ProjOK
  <2>. QED BY <1>4, <1>5, <2>1, <2>2 DEF ProjOK, Places, Worthy
<1>7. SharedStands'
  BY <1>3, <1>4, <1>5 DEF SharedStands
<1>8. ASSUME NEW t \in Tasks, t \notin renewed'
      PROVE  /\ proj["remote"].plan.nodes[t] \in TERMINAL_TASK_STATUSES =>
                  proj["leader"].plan.nodes[t] = proj["remote"].plan.nodes[t]
             /\ proj'["leader"].plan.nodes[t] \in
                  {proj["leader"].plan.nodes[t], proj["remote"].plan.nodes[t]}
  BY <1>3, <1>4, <1>5, <1>8 DEF SharedStands
<1>9. PlansStand
  BY <1>4, <1>8 DEF PlansStand
<1>. QED BY <1>6, <1>7, <1>9

-----------------------------------------------------------------------------
\* A call of submit_task.
Submits == \E t \in Tasks, r \in ResultStatuses \cup {"none"} :
             SubmitNew(t, r) \/ SubmitAgain(t, r) \/ SubmitLegacy(t, r)

\* Every step keeps the task directories vouched for, the plans and the rest.
LEMMA StepDir ==
  ASSUME IndInv, Next
  PROVE  DirOK' /\ ProjOK' /\ SharedStands' /\ PlansStand
         /\ minted' \subseteq Submission /\ IsFiniteSet(minted')
<1>0. DirOK /\ ProjOK /\ SharedStands /\ RestOK
  BY DEF IndInv
<1>1. ASSUME minted' = minted, DirOK', ProjOK' /\ SharedStands' /\ PlansStand
      PROVE  DirOK' /\ ProjOK' /\ SharedStands' /\ PlansStand
             /\ minted' \subseteq Submission /\ IsFiniteSet(minted')
  BY <1>0, <1>1 DEF RestOK
<1>2. CASE CreateProject
  BY <1>0, <1>1, <1>2, CreateProj, SameDir DEF CreateProject
<1>3. CASE PauseProject \/ ResumeProject \/ CompleteProject
  <2>1. PICK st \in {"active", "paused", "completed"} : SetProject(st)
    BY <1>3 DEF PauseProject, ResumeProject, CompleteProject
  <2>. QED BY <1>0, <1>1, <2>1, SetProj, SameDir DEF SetProject
<1>4. CASE \E N \in SUBSET Tasks : PlanDag(N) \/ PlanLoop(N)
  <2>1. PICK type \in {"dag", "loop"}, N \in SUBSET Tasks, known \in SUBSET Tasks :
           PlanWith(type, N, known)
    BY <1>4 DEF PlanDag, PlanLoop
  <2>. QED BY <1>0, <1>1, <2>1, PlanProj, SameDir DEF PlanWith
<1>5. ASSUME NEW t \in Tasks, DelegateAssigned(t) \/ DelegateRetry(t) \/ CheckTask(t)
      PROVE  DirOK' /\ ProjOK' /\ SharedStands' /\ PlansStand
             /\ minted' \subseteq Submission /\ IsFiniteSet(minted')
  <2>1. UNCHANGED <<proj, renewed, minted>>
    BY <1>5 DEF DelegateAssigned, DelegateRetry, CheckTask
  <2>. QED BY <1>0, <1>1, <1>5, <2>1, RepublishDir, SameProj
<1>6. ASSUME NEW t \in Tasks, DelegateFresh(t)
      PROVE  DirOK' /\ ProjOK' /\ SharedStands' /\ PlansStand
             /\ minted' \subseteq Submission /\ IsFiniteSet(minted')
  BY <1>0, <1>1, <1>6, FreshDir, FreshProj DEF DelegateFresh
<1>7. ASSUME NEW t \in Tasks, NotifyFails(t) \/ NotifyDone(t)
      PROVE  DirOK' /\ ProjOK' /\ SharedStands' /\ PlansStand
             /\ minted' \subseteq Submission /\ IsFiniteSet(minted')
  <2>1. UNCHANGED <<proj, renewed, minted>>
    BY <1>7 DEF NotifyFails, NotifyDone
  <2>2. DirOK'
    BY <1>0, <1>7, <2>1, NotifyDir, SameDir DEF NotifyFails
  <2>. QED BY <1>0, <1>1, <2>1, <2>2, SameProj
<1>8. ASSUME NEW t \in Tasks, NEW sid,
             CancelTask(t, sid) \/ (\E a \in BOOLEAN : AcceptTaskResult(t, sid, a))
      PROVE  DirOK' /\ ProjOK' /\ SharedStands' /\ PlansStand
             /\ minted' \subseteq Submission /\ IsFiniteSet(minted')
  <2>1. PICK status \in TERMINAL_TASK_STATUSES : Decides(t, status)
    BY <1>0, <1>8, Decisions
  <2>2. minted' = minted
    BY <2>1 DEF Decides, Commit
  <2>. QED BY <1>0, <1>1, <2>1, <2>2, DecideDir, DecideProj
<1>9. CASE LeaderRestart
  BY <1>0, <1>1, <1>9, RestartDir, RestartProj DEF LeaderRestart
<1>10. ASSUME NEW t \in Tasks, AckPull(t) \/ AckPush(t)
      PROVE  DirOK' /\ ProjOK' /\ SharedStands' /\ PlansStand
             /\ minted' \subseteq Submission /\ IsFiniteSet(minted')
  <2>1. UNCHANGED <<proj, renewed, minted>>
    BY <1>10 DEF AckPull, AckPush
  <2>. QED BY <1>0, <1>1, <1>10, <2>1, AckDir, SameProj
<1>11. CASE Submits
  <2>1. PICK t \in Tasks, r \in ResultStatuses \cup {"none"} :
          SubmitNew(t, r) \/ SubmitAgain(t, r) \/ SubmitLegacy(t, r)
    BY <1>11 DEF Submits
  <2>2. UNCHANGED <<proj, renewed>>
    BY <2>1 DEF SubmitNew, SubmitAgain, SubmitLegacy
  <2>3. /\ DirOK' /\ minted \subseteq minted' /\ minted' \subseteq Submission
        /\ IsFiniteSet(minted')
    BY <1>0, <2>1, SubmitDir
  <2>. QED BY <1>0, <2>2, <2>3, SameProj
<1>12. CASE WorkerRestart
  <2>1. UNCHANGED <<proj, renewed, minted>>
    BY <1>12 DEF WorkerRestart
  <2>. QED BY <1>0, <1>1, <1>12, <2>1, RestartDir, SameProj
<1>. QED BY <1>2, <1>3, <1>4, <1>5, <1>6, <1>7, <1>8, <1>9, <1>10, <1>11, <1>12
     DEF Next, LeaderStep, WorkerStep, Submits

(***************************************************************************)
(* The bounds and the bookkeeping of the calls.                            *)
(***************************************************************************)
SpentOK == spent \in [faults : 0..MaxFaults, controls : 0..MaxControls]

CallsOK == /\ calls \in [Tasks -> 0..MaxCalls]
           /\ told \subseteq Tasks /\ acking \subseteq Tasks /\ renewed \subseteq Tasks

\* A fault or a control call within the bounds.
LEMMA SpentStays ==
  ASSUME SpentOK, (\E done : Finished(done)) \/ Controlled \/ spent' = spent
  PROVE  SpentOK'
BY ManagerBounds DEF SpentOK, Finished, Controlled

\* A notification begins, or ends.
LEMMA CallsCount ==
  ASSUME CallsOK, NEW t \in Tasks
  PROVE  /\ calls[t] < MaxCalls => [calls EXCEPT ![t] = calls[t] + 1] \in [Tasks -> 0..MaxCalls]
         /\ calls[t] > 0 => [calls EXCEPT ![t] = calls[t] - 1] \in [Tasks -> 0..MaxCalls]
BY ManagerBounds DEF CallsOK

\* The leader's calls on the project.
LEMMA ControlSteps ==
  ASSUME CallsOK, SpentOK,
         \/ CreateProject \/ PauseProject \/ ResumeProject \/ CompleteProject
         \/ \E N \in SUBSET Tasks : PlanDag(N) \/ PlanLoop(N)
  PROVE  CallsOK' /\ SpentOK'
<1>1. CASE CreateProject
  <2>1. \E done : Finished(done)
    BY <1>1 DEF CreateProject
  <2>. QED BY <1>1, <2>1, SpentStays DEF CreateProject, CallsOK
<1>2. CASE PauseProject \/ ResumeProject \/ CompleteProject
  <2>1. Controlled /\ UNCHANGED <<calls, told, acking, renewed>>
    BY <1>2 DEF PauseProject, ResumeProject, CompleteProject, SetProject
  <2>. QED BY <2>1, SpentStays DEF CallsOK
<1>3. CASE \E N \in SUBSET Tasks : PlanDag(N) \/ PlanLoop(N)
  <2>1. PICK type, N, known : PlanWith(type, N, known)
    BY <1>3 DEF PlanDag, PlanLoop
  <2>2. Controlled /\ UNCHANGED <<calls, told, acking>> /\ renewed' \subseteq renewed \cup Tasks
    BY <2>1 DEF PlanWith
  <2>. QED BY <2>2, SpentStays DEF CallsOK
<1>. QED BY <1>1, <1>2, <1>3

\* The leader's calls on a task, and its restart.
LEMMA TaskSteps ==
  ASSUME CallsOK, SpentOK, NEW t \in Tasks,
         \/ DelegateAssigned(t) \/ DelegateFresh(t) \/ DelegateRetry(t)
         \/ NotifyFails(t) \/ NotifyDone(t) \/ CheckTask(t)
  PROVE  CallsOK' /\ SpentOK'
<1>1. CASE DelegateAssigned(t) \/ CheckTask(t)
  <2>1. (\E done : Finished(done)) /\ UNCHANGED <<calls, told, acking, renewed>>
    BY <1>1 DEF DelegateAssigned, CheckTask
  <2>. QED BY <2>1, SpentStays DEF CallsOK
<1>2. CASE DelegateFresh(t) \/ DelegateRetry(t)
  <2>1. (\E done : Finished(done)) /\ UNCHANGED <<told, acking, renewed>> /\ calls[t] < MaxCalls
    BY <1>2 DEF DelegateFresh, DelegateRetry
  <2>2. calls' = calls \/ calls' = [calls EXCEPT ![t] = calls[t] + 1]
    <3>1. [calls EXCEPT ![t] = calls[t]] = calls
      BY DEF CallsOK
    <3>. QED BY <1>2, <3>1 DEF DelegateFresh, DelegateRetry
  <2>. QED BY <2>1, <2>2, SpentStays, CallsCount DEF CallsOK
<1>3. CASE NotifyFails(t) \/ NotifyDone(t)
  <2>1. /\ (\E done : Finished(done)) \/ spent' = spent
        /\ UNCHANGED <<acking, renewed>>
    BY <1>3 DEF NotifyFails, NotifyDone
  <2>2. /\ calls' = [calls EXCEPT ![t] = calls[t] - 1] /\ calls[t] > 0
        /\ told' \subseteq told \cup {t}
    BY <1>3 DEF NotifyFails, NotifyDone
  <2>. QED BY <2>1, <2>2, SpentStays, CallsCount DEF CallsOK
<1>. QED BY <1>1, <1>2, <1>3

\* Decisions, restarts and the worker.
LEMMA OtherSteps ==
  ASSUME CallsOK, SpentOK,
         \/ \E t \in Tasks : \E status : Decides(t, status)
         \/ LeaderRestart \/ WorkerRestart
         \/ \E t \in Tasks : AckPull(t) \/ AckPush(t)
         \/ Submits
  PROVE  CallsOK' /\ SpentOK'
<1>1. CASE \E t \in Tasks : \E status : Decides(t, status)
  <2>1. (\E done : Finished(done)) /\ UNCHANGED <<calls, told, acking, renewed>>
    BY <1>1 DEF Decides, Commit
  <2>. QED BY <2>1, SpentStays DEF CallsOK
<1>2. CASE LeaderRestart \/ WorkerRestart
  <2>1. /\ \E done : Finished(done)
        /\ UNCHANGED <<told, renewed>> /\ (acking' = acking \/ acking' = {})
        /\ calls' = calls \/ calls' = [t \in Tasks |-> 0]
    BY <1>2 DEF LeaderRestart, WorkerRestart
  <2>2. [t \in Tasks |-> 0] \in [Tasks -> 0..MaxCalls]
    BY ManagerBounds
  <2>. QED BY <2>1, <2>2, SpentStays DEF CallsOK
<1>3. CASE \E t \in Tasks : AckPull(t) \/ AckPush(t)
  <2>1. /\ (\E done : Finished(done)) \/ spent' = spent
        /\ UNCHANGED <<calls, told, renewed>> /\ acking' \subseteq acking \cup Tasks
    BY <1>3 DEF AckPull, AckPush
  <2>. QED BY <2>1, SpentStays DEF CallsOK
<1>4. CASE Submits
  <2>1. (\E done : Finished(done)) /\ UNCHANGED <<calls, told, acking, renewed>>
    <3>1. PICK t \in Tasks, r \in ResultStatuses \cup {"none"} :
            SubmitNew(t, r) \/ SubmitAgain(t, r) \/ SubmitLegacy(t, r)
      BY <1>4 DEF Submits
    <3>2. CASE SubmitNew(t, r)
      BY <3>2 DEF SubmitNew
    <3>3. CASE SubmitAgain(t, r)
      BY <3>3 DEF SubmitAgain
    <3>4. CASE SubmitLegacy(t, r)
      BY <3>4 DEF SubmitLegacy
    <3>. QED BY <3>1, <3>2, <3>3, <3>4
  <2>. QED BY <2>1, SpentStays DEF CallsOK
<1>. QED BY <1>1, <1>2, <1>3, <1>4

\* Every step keeps the bookkeeping.
LEMMA StepRest ==
  ASSUME IndInv, Next
  PROVE  CallsOK' /\ SpentOK'
<1>0. DirOK /\ RestOK /\ CallsOK /\ SpentOK
  BY DEF IndInv, RestOK, CallsOK, SpentOK
<1>1. ASSUME NEW t \in Tasks, NEW sid,
             CancelTask(t, sid) \/ (\E a \in BOOLEAN : AcceptTaskResult(t, sid, a))
      PROVE  CallsOK' /\ SpentOK'
  <2>1. PICK status : Decides(t, status)
    BY <1>0, <1>1, Decisions
  <2>. QED BY <1>0, <2>1, OtherSteps
<1>2. CASE Submits
  BY <1>0, <1>2, OtherSteps
<1>. QED BY <1>0, <1>1, <1>2, ControlSteps, TaskSteps, OtherSteps
            DEF Next, LeaderStep, WorkerStep, Submits

-----------------------------------------------------------------------------
\* The files of a task that an older runtime left.
LEMMA LegacyFacts ==
  ASSUME NEW r \in ResultStatuses, NEW t \in Tasks
  PROVE  /\ LegacyDir(r)[t] \in TaskRec /\ LegacyDir(r)[t].meta.sid = 0
         /\ LegacyDir(r)[t].meta.st \in {"none", "submitted"}
<1>1. PICK m : m = [NoMeta EXCEPT !.st = "submitted"]
  OBVIOUS
<1>2. m \in TaskMeta /\ m.st = "submitted" /\ m.sid = 0
  BY <1>1, EmptyFacts DEF TaskMeta, NoMeta
<1>3. PICK f : f = [meta |-> m, result |-> r, spec |-> "spec"]
  OBVIOUS
<1>4. f \in TaskRec /\ f.meta = m
  BY <1>2, <1>3 DEF TaskRec
<1>5. LegacyDir(r)[t] = IF t \in LegacyTasks THEN f ELSE NoTask
  BY <1>1, <1>3 DEF LegacyDir
<1>6. NoTask \in TaskRec /\ NoTask.meta.sid = 0 /\ NoTask.meta.st = "none"
  BY EmptyFacts DEF NoMeta
<1>. QED BY <1>2, <1>4, <1>5, <1>6

\* The project an older runtime left.
LEMMA LegacyPlan ==
  /\ LegacyProject \in ProjRec /\ LegacyProject.meta = "active"
  /\ \A t \in Tasks : LegacyProject.plan.nodes[t] \in {"delegated", "absent"}
<1>1. PICK nodes : nodes = [t \in Tasks |-> IF t \in LegacyTasks THEN "delegated" ELSE "absent"]
  OBVIOUS
<1>2. nodes \in [Tasks -> NodeStatuses] /\ \A t \in Tasks : nodes[t] \in {"delegated", "absent"}
  BY <1>1 DEF NodeStatuses
<1>3. PICK plan : plan = [type |-> "dag", nodes |-> nodes]
  OBVIOUS
<1>4. plan \in PlanRec /\ plan.nodes = nodes
  BY <1>2, <1>3 DEF PlanRec
<1>5. LegacyProject = [meta |-> "active", plan |-> plan]
  BY <1>1, <1>3 DEF LegacyProject
<1>. QED BY <1>2, <1>4, <1>5 DEF ProjRec

\* The invariant holds at the start.
LEMMA InitInv == Init => IndInv
<1>. SUFFICES ASSUME Init PROVE IndInv
  OBVIOUS
<1>1. RestOK
  <2>1. spent \in [faults : 0..MaxFaults, controls : 0..MaxControls]
    BY ManagerBounds DEF Init
  <2>2. calls \in [Tasks -> 0..MaxCalls] /\ acking = {} /\ minted = {} /\ renewed = {}
    BY ManagerBounds DEF Init
  <2>3. told \subseteq Tasks
    BY ManagerGraph DEF Init
  <2>. QED BY <2>1, <2>2, <2>3, FS_EmptySet DEF RestOK
<1>2. DirOK
  <2>1. /\ dir \in [Copies -> [Tasks -> TaskRec]]
        /\ \A c \in Copies, t \in Tasks :
             dir[c][t].meta.sid = 0 /\ dir[c][t].meta.st \in {"none", "submitted"}
    <3>1. CASE dir = [c \in {"leader", "remote", "worker"} |-> [t \in Tasks |-> NoTask]]
      <4>1. NoTask \in TaskRec /\ NoTask.meta.sid = 0 /\ NoTask.meta.st = "none"
        BY EmptyFacts DEF NoMeta
      <4>. QED BY <3>1, <4>1 DEF Copies
    <3>2. ASSUME NEW r \in ResultStatuses, dir = [c \in {"leader", "remote", "worker"} |-> LegacyDir(r)]
          PROVE  /\ dir \in [Copies -> [Tasks -> TaskRec]]
                 /\ \A c \in Copies, t \in Tasks :
                      dir[c][t].meta.sid = 0 /\ dir[c][t].meta.st \in {"none", "submitted"}
      <4>1. PICK L : L = LegacyDir(r)
        OBVIOUS
      <4>2. L \in [Tasks -> TaskRec]
        <5>1. L = [t \in Tasks |-> L[t]]
          BY <4>1 DEF LegacyDir
        <5>2. \A t \in Tasks : L[t] \in TaskRec
          BY <4>1, LegacyFacts
        <5>. QED BY <5>1, <5>2
      <4>3. \A t \in Tasks : L[t].meta.sid = 0 /\ L[t].meta.st \in {"none", "submitted"}
        BY <4>1, LegacyFacts
      <4>4. dir = [c \in Copies |-> L]
        BY <3>2, <4>1 DEF Copies
      <4>5. dir \in [Copies -> [Tasks -> TaskRec]] /\ \A c \in Copies : dir[c] = L
        BY <4>2, <4>4
      <4>6. ASSUME NEW c \in Copies, NEW t \in Tasks
            PROVE  dir[c][t].meta.sid = 0 /\ dir[c][t].meta.st \in {"none", "submitted"}
        <5>1. dir[c][t] = L[t]
          BY <4>5
        <5>. QED BY <4>3, <5>1
      <4>. QED BY <4>5, <4>6
    <3>. QED BY <3>1, <3>2 DEF Init
  <2>. QED BY <2>1 DEF DirOK, Vouched, TERMINAL_TASK_STATUSES, DelegatedHere
<1>3. ProjOK /\ SharedStands
  <2>1. /\ proj \in [Places -> ProjRec] /\ proj["remote"] = NoProject
        /\ proj["leader"] \in {NoProject, LegacyProject}
    BY EmptyProject, LegacyPlan DEF Init, Places
  <2>2. \A c \in Places, t \in Tasks : proj[c].plan.nodes[t] \in {"delegated", "absent"}
    BY <2>1, EmptyProject, LegacyPlan DEF Places
  <2>. QED BY <2>1, <2>2, EmptyProject, LegacyPlan DEF ProjOK, SharedStands,
              TERMINAL_TASK_STATUSES, Places
<1>. QED BY <1>1, <1>2, <1>3 DEF IndInv

\* The invariant is inductive.
LEMMA Inductive == IndInv /\ [Next]_vars => IndInv'
<1>. SUFFICES ASSUME IndInv, [Next]_vars PROVE IndInv'
  OBVIOUS
<1>1. CASE Next
  BY <1>1, StepDir, StepRest DEF IndInv, RestOK, CallsOK, SpentOK
<1>2. CASE UNCHANGED vars
  <2>1. DirOK'
    BY <1>2, SameDir DEF IndInv, vars
  <2>2. ProjOK' /\ SharedStands'
    BY <1>2, SameProj DEF IndInv, vars
  <2>3. RestOK'
    BY <1>2 DEF IndInv, RestOK, vars
  <2>. QED BY <2>1, <2>2, <2>3 DEF IndInv
<1>. QED BY <1>1, <1>2

-----------------------------------------------------------------------------
(***************************************************************************)
(* In every reachable state every meta.json, wherever it was copied to, is *)
(* vouched for by a submission, and the shared plan holds no decision that *)
(* the leader's plan does not hold.                                        *)
(***************************************************************************)
THEOREM TasksInvariant == Spec => []IndInv
  BY InitInv, Inductive, PTL DEF Spec

(***************************************************************************)
(* Every file the tools of task.py write is well formed, at every copy;    *)
(* faults, control calls and notifications stay within their bounds.       *)
(***************************************************************************)
THEOREM TypeCorrect == Spec => []TypeOK
<1>1. IndInv => TypeOK
  BY DEF IndInv, DirOK, ProjOK, RestOK, TypeOK, Copies, Places, TaskRec, ProjRec, PlanRec
<1>. QED BY <1>1, TasksInvariant, PTL

(***************************************************************************)
(* accept_task_result: a verdict names a submission that was made and that *)
(* deserves it, at every copy, whichever files a pull or a push reached.   *)
(***************************************************************************)
THEOREM VerdictsDeserved == Spec => []VerdictOnSubmission
<1>1. IndInv => VerdictOnSubmission
  BY DEF IndInv, DirOK, VerdictOnSubmission, Vouched, Deserved, Copies
<1>. QED BY <1>1, TasksInvariant, PTL

(***************************************************************************)
(* delegate_task: a task is published only after its dependencies had a    *)
(* submission worth accepting, whatever restarts, half-done commits and    *)
(* pulls bring back.                                                       *)
(***************************************************************************)
THEOREM DependenciesFirst == Spec => []DependencySubmitted
<1>1. IndInv => DependencySubmitted
  BY DEF IndInv, DirOK, DependencySubmitted, Vouched, Worthy, Copies
<1>. QED BY <1>1, TasksInvariant, PTL

(***************************************************************************)
(* _commit_task_decision and mirror_all: a decision in the shared plan     *)
(* stands, there and at the leader; one that was not shared is lost only   *)
(* in a restart, to a shared plan without it.                              *)
(***************************************************************************)
THEOREM DecisionsStand == Spec => DecisionStands
<1>1. IndInv /\ [Next]_vars => [PlansStand]_vars
  BY StepDir
<1>2. IndInv /\ [PlansStand]_vars =>
        [\A t \in Tasks \ renewed' :
          LET shared == proj.remote.plan.nodes[t]
              own == proj.leader.plan.nodes[t]
          IN /\ shared \in TERMINAL_TASK_STATUSES =>
                   proj'.remote.plan.nodes[t] = shared /\ proj'.leader.plan.nodes[t] = shared
             /\ own \in TERMINAL_TASK_STATUSES /\ proj'.leader.plan.nodes[t] # own =>
                   LeaderRestart /\ shared \notin TERMINAL_TASK_STATUSES]_vars
  BY DEF PlansStand
<1>. QED BY <1>1, <1>2, TasksInvariant, PTL DEF Spec, DecisionStands
=============================================================================
