------------------------ MODULE CodingDispatchProofs ------------------------
(***************************************************************************)
(* Theorems about CodingDispatch, for any runs, names, listeners, rules    *)
(* and bounds, with or without reuse of process ids.                       *)
(***************************************************************************)
EXTENDS CodingDispatch, TLAPS

(***************************************************************************)
(* Types.  A coroutine that tells a session an outcome has one to tell.    *)
(***************************************************************************)
DogSet == [pc : {"none", "poll", "probe", "reap", "tell", "send"}, killed : BOOLEAN,
           ext : 0..MaxExtensions, grace : BOOLEAN, status : TerminalStates \cup {"none"},
           was : WakeStates, landed : BOOLEAN]
ReapSet == [pc : {"off", "idle", "next", "tell", "send"},
            todo : SUBSET (Tasks \X TerminalStates),
            job : (Tasks \X TerminalStates) \cup {NoId}, landed : BOOLEAN]
DrainSet == [pc : {"idle", "next", "probe", "send"}, due : SUBSET (Ids \X WakeRecord),
             id : Ids \cup {NoId}, rec : WakeRecord \cup {NoRecord}, landed : BOOLEAN]
ChildSet == [proc : Procs, reused : BOOLEAN, struck : BOOLEAN]
ClockSet == [budget : {"left", "spent", "over"}, silent : BOOLEAN]
StarterSet == {"idle", "probe", "ready", "spawn", "spawned", "done"}
QuestSet == [st : {"none", "human", "agent", "allowed", "denied"}, ans : BOOLEAN]
QueueSet == {NoRecord} \cup WakeRecord

DogOK(w) == w \in DogSet /\ (w.pc \in {"tell", "send"} => w.status \in TerminalStates)
ReapOK(r) == r \in ReapSet /\ (r.pc \in {"tell", "send"} => r.job \in Tasks \X TerminalStates)
DrainOK(d) ==
  /\ d \in DrainSet
  /\ d.pc \in {"probe", "send"} => d.id \in Ids /\ d.rec \in WakeRecord /\ d.rec.att < MaxAttempts

TypeInv ==
  /\ file \in [Tasks -> FileRecord]
  /\ child \in [Tasks -> ChildSet]
  /\ clock \in [Tasks -> ClockSet]
  /\ starter \in [Tasks -> StarterSet]
  /\ esc \subseteq Tasks
  /\ wd \in [Tasks -> DogSet] /\ \A t \in Tasks : DogOK(wd[t])
  /\ quest \in [Tasks -> QuestSet]
  /\ hooks \in [Tasks -> SUBSET Rules]
  /\ queue \in [Ids -> QueueSet]
  /\ ReapOK(reap)
  /\ DrainOK(drain)
  /\ heard \subseteq Tasks \X (TerminalStates \cup Rules)
  /\ host \in [up : BOOLEAN, crashes : 0..MaxCrashes]

(***************************************************************************)
(* One run, by its file, child, clock, start() call and watchdog: there is *)
(* no child before the spawn, the budget cannot run out before it, nobody  *)
(* closes the file of a live child, and a dead child stays dead.           *)
(***************************************************************************)
RunOK(f, c, k, s, w) ==
  /\ s \in {"idle", "probe"} => f.state = "absent"
  /\ f.state = "absent" => ~f.pid
  /\ s = "ready" => f.state \in {"running", "cancelled"}
  /\ s = "spawn" => f.state = "running"
  /\ s \in {"idle", "probe", "ready", "spawn"} =>
       ~f.pid /\ k.budget = "left" /\ c.proc = "none" /\ w.pc = "none"
  /\ s = "spawned" => f.pid
  /\ w.pc # "none" => s = "done" /\ f.pid
  /\ c.reused => c.proc \in ExitedProcs
  /\ w.pc \in {"reap", "tell", "send"} => c.proc \notin AliveProcs
  /\ f.pid /\ f.state \in TerminalStates => c.proc \notin AliveProcs
  /\ f.cancel => f.state \in {"cancelling", "cancelled"}
  /\ ~c.struck

RunInv == \A t \in Tasks : RunOK(file[t], child[t], clock[t], starter[t], wd[t])

\* A plugin that is down has no start() call and no watchdog.
DownInv == ~host.up => \A t \in Tasks : starter[t] \in {"idle", "done"} /\ wd[t].pc = "none"

(***************************************************************************)
(* The wakes.  The outcome of a run is reported by its watchdog or by the  *)
(* reaper; neither comes back once it is past the run.                     *)
(***************************************************************************)
Past(t) == file[t].state \notin {"absent", "running"}
DogOpen(t) == starter[t] # "done" \/ wd[t].pc # "none"
Jobs == reap.todo \cup {j \in {reap.job} : reap.pc \in {"tell", "send"}}
ReapOpen(t) == ~Past(t) \/ \E j \in Jobs : j[1] = t
BothOpen(t) == DogOpen(t) /\ ReapOpen(t)

\* The reaper has one job a run, of a run that is closed.
ReapInv ==
  /\ \A j \in Jobs : Past(j[1])
  /\ \A i, j \in Jobs : i[1] = j[1] => i = j
  /\ reap.pc \in {"tell", "send"} => reap.job \notin reap.todo

\* What a sender was told by a session, the session has heard.
LandedInv ==
  /\ \A t \in Tasks : wd[t].landed => <<t, wd[t].status>> \in heard
  /\ reap.landed => reap.pc = "send" /\ reap.job \in heard
  /\ drain.landed => drain.pc = "send" /\ <<drain.id[1], drain.rec.text>> \in heard
  /\ \A t \in Tasks : file[t].wake = "sent" => \E s \in TerminalStates : <<t, s>> \in heard

\* The text of a record fits its kind.
TextOK(id, rec) ==
  /\ id[2] = "terminal" => rec.text \in TerminalStates
  /\ id[2] \in Rules => rec.text = id[2]

TextInv ==
  /\ \A id \in Ids : queue[id] # NoRecord => TextOK(id, queue[id])
  /\ \A d \in drain.due : TextOK(d[1], d[2])
  /\ drain.pc \in {"probe", "send"} => TextOK(drain.id, drain.rec)

\* The drain has one copy of a record.
CopyInv ==
  /\ \A d, e \in drain.due : d[1] = e[1] => d = e
  /\ drain.pc \in {"probe", "send"} => \A d \in drain.due : d[1] # drain.id
  /\ drain.pc = "idle" => drain.due = {}

\* While the outcome of a run is in the queue, or copied from it, one of its
\* two reporters is past it.
OnceInv ==
  /\ \A t \in Tasks : queue[<<t, "terminal">>] # NoRecord => ~BothOpen(t)
  /\ \A d \in drain.due : d[1][2] = "terminal" => ~BothOpen(d[1][1])
  /\ drain.pc \in {"probe", "send"} /\ drain.id[2] = "terminal" => ~BothOpen(drain.id[1])

\* A copy is no older than its record, unless both reporters are past the run
\* and the record is gone for good.
Covered(copy, rec) == rec # NoRecord /\ (copy.aged => rec.aged) /\ copy.att <= rec.att
GoneForGood(id) ==
  id[2] = "terminal" /\ ~DogOpen(id[1]) /\ ~ReapOpen(id[1]) /\ queue[id] = NoRecord

AgeInv == \A d \in drain.due : Covered(d[2], queue[d[1]]) \/ GoneForGood(d[1])

WakeInv == ReapInv /\ LandedInv /\ TextInv /\ CopyInv /\ OnceInv /\ AgeInv

IndInv == TypeInv /\ RunInv /\ DownInv /\ WakeInv
-----------------------------------------------------------------------------
(* What the operators of the model make of a record *)

\* No reader, reaper or sweep does more to a file than to close it.
LEMMA MarkStaleType ==
  ASSUME TypeInv, NEW t \in Tasks
  PROVE  MarkStale(t) \in FileRecord
<1>1. file[t] \in FileRecord
  BY DEF TypeInv
<1>2. \A s \in TerminalStates : Closed(file[t], s) \in FileRecord
  BY <1>1 DEF Closed, FileRecord, TaskStates
<1>. QED
  BY <1>1, <1>2 DEF MarkStale, TerminalStates

\* _scan_once keeps a task file one.
LEMMA ScanOnceType ==
  ASSUME TypeInv, NEW t \in Tasks
  PROVE  /\ ScanOnce(t) \in FileRecord
         /\ ScanOnce(t) # file[t] => ScanOnce(t).state \in TerminalStates
<1>1. file[t] \in FileRecord
  BY DEF TypeInv
<1>2. \A s \in TerminalStates : Closed(file[t], s) \in FileRecord /\ Closed(file[t], s).state = s
  BY <1>1 DEF Closed, FileRecord, TaskStates
<1>3. MarkStale(t) = file[t] \/ \E s \in TerminalStates : MarkStale(t) = Closed(file[t], s)
  BY DEF MarkStale, TerminalStates
<1>4. ScanOnce(t) = file[t] \/ \E s \in TerminalStates : ScanOnce(t) = Closed(file[t], s)
  BY <1>3 DEF ScanOnce, TerminalStates
<1>. QED
  BY <1>1, <1>2, <1>4

\* orphan_cleanup keeps a task file one.
LEMMA OrphanCleanupType ==
  ASSUME TypeInv, NEW t \in Tasks
  PROVE  OrphanCleanup(t) \in FileRecord
<1>1. file[t] \in FileRecord
  BY DEF TypeInv
<1>2. \A s \in TerminalStates : Closed(file[t], s) \in FileRecord
  BY <1>1 DEF Closed, FileRecord, TaskStates
<1>. QED
  BY <1>1, <1>2 DEF OrphanCleanup, TerminalStates

\* A signal keeps the record of a child.
LEMMA SignalledType ==
  ASSUME NEW c \in ChildSet, NEW how \in Procs
  PROVE  Signalled(c, how) \in ChildSet
BY DEF Signalled, ChildSet

\* A record with a new text is a record.
LEMMA NewTextType ==
  ASSUME DispatchBounds, NEW r \in QueueSet, NEW x \in TerminalStates \cup Rules
  PROVE  [r EXCEPT !.text = x] \in WakeRecord
<1>1. CASE r = NoRecord
  <2>1. 0 \in 0..MaxAttempts
    BY DEF DispatchBounds
  <2>2. r \in [text : {"none"}, att : 0..MaxAttempts, aged : BOOLEAN]
    BY <1>1, <2>1 DEF NoRecord
  <2>. QED
    BY <2>2 DEF WakeRecord
<1>2. CASE r \in WakeRecord
  BY <1>2 DEF WakeRecord
<1>. QED
  BY <1>1, <1>2 DEF QueueSet

\* The denials put into the queue are records of it.
LEMMA WithDenialsType ==
  ASSUME DispatchBounds, NEW q \in [Ids -> QueueSet], NEW noted \in [Tasks -> SUBSET Rules]
  PROVE  WithDenials(q, noted) \in [Ids -> QueueSet]
<1>. SUFFICES ASSUME NEW id \in Ids
              PROVE  (IF id[2] \in noted[id[1]] THEN QueueWake(q, id, id[2], "none")[id]
                      ELSE q[id]) \in QueueSet
  BY DEF WithDenials
<1>1. q[id] \in QueueSet /\ id[1] \in Tasks
  BY DEF Ids
<1>2. CASE id[2] \in noted[id[1]]
  <2>1. id[2] \in Rules
    BY <1>1, <1>2
  <2>2. QueueWake(q, id, id[2], "none")[id] = [q[id] EXCEPT !.text = id[2]]
    BY <1>1 DEF QueueWake, Enqueue
  <2>3. [q[id] EXCEPT !.text = id[2]] \in WakeRecord
    BY <1>1, <2>1, NewTextType
  <2>. QED
    BY <1>2, <2>2, <2>3 DEF QueueSet
<1>3. CASE id[2] \notin noted[id[1]]
  BY <1>1, <1>3
<1>. QED
  BY <1>2, <1>3

\* The outcome of a run in the queue is a record of it.
LEMMA QueueWakeType ==
  ASSUME DispatchBounds, NEW q \in [Ids -> QueueSet], NEW t \in Tasks, NEW s \in TerminalStates,
         NEW copy
  PROVE  QueueWake(q, <<t, "terminal">>, s, copy) \in [Ids -> QueueSet]
<1>1. <<t, "terminal">> \in Ids
  BY DEF Ids, Kinds
<1>2. [q[<<t, "terminal">>] EXCEPT !.text = s] \in WakeRecord
  BY <1>1, NewTextType
<1>. QED
  BY <1>1, <1>2 DEF QueueWake, Enqueue, QueueSet

\* The reaper that is ensured has its work.
LEMMA EnsureReaperType ==
  ASSUME ReapOK(reap)
  PROVE  ReapOK(EnsureReaper(reap))
BY DEF ReapOK, ReapSet, EnsureReaper

\* The rules that are noted are rules.
LEMMA NotedSetsType ==
  ASSUME NEW t \in Tasks, NEW rules \in SUBSET Rules, NEW s \in NotedSets(t, rules)
  PROVE  s \subseteq Rules
BY DEF NotedSets, DueRules

\* No watchdog, and one that begins.
LEMMA NoDogType ==
  ASSUME DispatchBounds
  PROVE  /\ DogOK(NoDog)
         /\ DogOK([NoDog EXCEPT !.pc = "poll"])
         /\ \A s \in TerminalStates, w \in WakeStates :
               DogOK([NoDog EXCEPT !.pc = "tell", !.status = s, !.was = w])
<1>1. 0 \in 0..MaxExtensions
  BY DEF DispatchBounds
<1>2. NoDog \in DogSet
  BY <1>1 DEF NoDog, DogSet, WakeStates
<1>3. NoDog.pc = "none"
  BY DEF NoDog
<1>. QED
  BY <1>2, <1>3 DEF DogOK, DogSet

\* No reaper and no drain.
LEMMA NothingType ==
  /\ ReapOK(NoReap)
  /\ DrainOK(NoDrain)
BY DEF NoReap, ReapOK, ReapSet, NoDrain, DrainOK, DrainSet

\* The reaper goes on with its next task.
LEMMA NextJobType ==
  ASSUME ReapOK(reap)
  PROVE  ReapOK(NextJob)
BY DEF ReapOK, ReapSet, NextJob

\* The drain goes on with its next record.
LEMMA NextRecordType ==
  ASSUME DrainOK(drain)
  PROVE  DrainOK(NextRecord)
BY DEF DrainOK, DrainSet, NextRecord
\* A task file with one field written anew.
LEMMA FileFields ==
  ASSUME NEW f \in [Tasks -> FileRecord], NEW t \in Tasks
  PROVE  /\ \A b \in BOOLEAN : [f EXCEPT ![t].fresh = b] \in [Tasks -> FileRecord]
         /\ \A b \in BOOLEAN : [f EXCEPT ![t].term = b] \in [Tasks -> FileRecord]
         /\ \A w \in WakeStates : [f EXCEPT ![t].wake = w] \in [Tasks -> FileRecord]
         /\ \A n \in SUBSET Rules : [f EXCEPT ![t].noted = @ \cup n] \in [Tasks -> FileRecord]
BY DEF FileRecord

\* A closed task file.
LEMMA ClosedType ==
  ASSUME NEW f \in FileRecord, NEW s \in TaskStates
  PROVE  /\ Closed(f, s) \in FileRecord
         /\ [Closed(f, s) EXCEPT !.cancel = TRUE] \in FileRecord
         /\ \A w \in WakeStates : [Closed(f, s) EXCEPT !.term = FALSE, !.wake = w] \in FileRecord
<1>1. Closed(f, s) \in FileRecord
  BY DEF Closed, FileRecord
<1>. QED
  BY <1>1 DEF FileRecord
-----------------------------------------------------------------------------
(* Types are kept *)

\* Each step of start(), of the child, of the clock and of a question keeps the
\* types.
LEMMA RunTypes ==
  ASSUME TypeInv, DispatchBounds, NEW t \in Tasks,
         \/ Starting(t) \/ World(t) \/ Ask(t) \/ HoldEnds(t) \/ Resolve(t)
         \/ WatchBudget(t) \/ WatchReapFinished(t) \/ WatchExit(t)
         \/ \E r \in Rules : HookDeny(t, r)
  PROVE  TypeInv'
<1>. DEFINE D == \A u \in Tasks : DogOK(wd[u])
<1>1. file \in [Tasks -> FileRecord]
  BY DEF TypeInv
<1>2. child \in [Tasks -> ChildSet]
  BY DEF TypeInv
<1>3. clock \in [Tasks -> ClockSet]
  BY DEF TypeInv
<1>4. starter \in [Tasks -> StarterSet]
  BY DEF TypeInv
<1>5. esc \subseteq Tasks
  BY DEF TypeInv
<1>6. wd \in [Tasks -> DogSet]
  BY DEF TypeInv
<1>7. quest \in [Tasks -> QuestSet]
  BY DEF TypeInv
<1>8. hooks \in [Tasks -> SUBSET Rules]
  BY DEF TypeInv
<1>9. queue \in [Ids -> QueueSet]
  BY DEF TypeInv
<1>10. ReapOK(reap)
  BY DEF TypeInv
<1>11. DrainOK(drain)
  BY DEF TypeInv
<1>12. D
  BY DEF TypeInv
<1>13. CASE StartClaim(t)
  <2>1. starter' \in [Tasks -> StarterSet]
    BY <1>13, <1>4 DEF StartClaim, StarterSet
  <2>. QED
    BY <1>13, <2>1 DEF TypeInv, StartClaim, startVars, tellVars
<1>14. CASE StartWrite(t)
  <2>1. file' \in [Tasks -> FileRecord]
    BY <1>14, <1>1 DEF StartWrite, NewFile, NoFile, FileRecord, TaskStates, WakeStates
  <2>2. starter' \in [Tasks -> StarterSet]
    BY <1>14, <1>4 DEF StartWrite, StarterSet
  <2>. QED
    BY <1>14, <2>1, <2>2 DEF TypeInv, StartWrite, startVars, tellVars
<1>15. CASE StartLock(t)
  <2>1. starter' \in [Tasks -> StarterSet]
    BY <1>15, <1>4 DEF StartLock, StarterSet
  <2>. QED
    BY <1>15, <2>1 DEF TypeInv, StartLock, startVars, tellVars
<1>16. CASE SpawnOk(t)
  <2>1. file' \in [Tasks -> FileRecord]
    BY <1>16, <1>1 DEF SpawnOk, FileRecord
  <2>2. child' \in [Tasks -> ChildSet]
    BY <1>16, <1>2 DEF SpawnOk, ChildSet, Procs, AliveProcs
  <2>3. starter' \in [Tasks -> StarterSet]
    BY <1>16, <1>4 DEF SpawnOk, StarterSet
  <2>4. ReapOK(reap')
    BY <1>16, <1>10, EnsureReaperType DEF SpawnOk
  <2>. QED
    BY <1>16, <2>1, <2>2, <2>3, <2>4 DEF TypeInv, SpawnOk, startVars, tellVars
<1>17. CASE SpawnFail(t)
  <2>1. file' \in [Tasks -> FileRecord]
    BY <1>17, <1>1, ZenonT(60) DEF SpawnFail, Closed, FileRecord, TaskStates, TerminalStates
  <2>2. starter' \in [Tasks -> StarterSet]
    BY <1>17, <1>4 DEF SpawnFail, StarterSet
  <2>. QED
    BY <1>17, <2>1, <2>2 DEF TypeInv, SpawnFail, startVars, tellVars
<1>18. CASE WatchStart(t)
  <2>1. file' \in [Tasks -> FileRecord]
    BY <1>18, <1>1 DEF WatchStart, FileRecord
  <2>2. starter' \in [Tasks -> StarterSet]
    BY <1>18, <1>4 DEF WatchStart, StarterSet
  <2>3. wd' \in [Tasks -> DogSet]
    BY <1>18, <1>6, NoDogType DEF WatchStart, DogOK
  <2>4. D'
    BY <1>18, <1>12, <1>6, NoDogType DEF WatchStart
  <2>. QED
    BY <1>18, <2>1, <2>2, <2>3, <2>4 DEF TypeInv, WatchStart, startVars, tellVars
<1>19. ASSUME NEW p \in {"run", "fin"}, ChildSpeaks(t, p) PROVE TypeInv'
  <2>1. file' \in [Tasks -> FileRecord]
    BY <1>19, <1>1 DEF ChildSpeaks, FileRecord
  <2>2. child' \in [Tasks -> ChildSet]
    BY <1>19, <1>2 DEF ChildSpeaks, ChildSet, Procs, AliveProcs
  <2>3. clock' \in [Tasks -> ClockSet]
    BY <1>19, <1>3 DEF ChildSpeaks, ClockSet
  <2>. QED
    BY <1>19, <2>1, <2>2, <2>3 DEF TypeInv, ChildSpeaks, startVars, tellVars
<1>20. CASE ChildExit(t)
  <2>1. child' \in [Tasks -> ChildSet]
    BY <1>20, <1>2 DEF ChildExit, ChildSet, Procs
  <2>. QED
    BY <1>20, <2>1 DEF TypeInv, ChildExit, startVars, tellVars
<1>21. CASE ReusePid(t)
  <2>1. child' \in [Tasks -> ChildSet]
    BY <1>21, <1>2 DEF ReusePid, ChildSet
  <2>. QED
    BY <1>21, <2>1 DEF TypeInv, ReusePid, startVars, tellVars
<1>22. CASE Spend(t)
  <2>1. clock' \in [Tasks -> ClockSet]
    BY <1>22, <1>3 DEF Spend, ClockSet
  <2>. QED
    BY <1>22, <2>1 DEF TypeInv, Spend, startVars, tellVars
<1>23. CASE Silence(t)
  <2>1. clock' \in [Tasks -> ClockSet]
    BY <1>23, <1>3 DEF Silence, ClockSet
  <2>. QED
    BY <1>23, <2>1 DEF TypeInv, Silence, startVars, tellVars
<1>24. CASE Quiet(t)
  <2>1. file' \in [Tasks -> FileRecord]
    BY <1>24, <1>1 DEF Quiet, FileRecord
  <2>. QED
    BY <1>24, <2>1 DEF TypeInv, Quiet, startVars, tellVars
<1>25. ASSUME NEW r \in Rules, HookDeny(t, r) PROVE TypeInv'
  <2>1. hooks' \in [Tasks -> SUBSET Rules]
    BY <1>25, <1>8 DEF HookDeny
  <2>. QED
    BY <1>25, <2>1 DEF TypeInv, HookDeny, startVars, tellVars
<1>26. CASE WatchBudget(t)
  <2>1. wd' \in [Tasks -> DogSet]
    BY <1>26, <1>6 DEF WatchBudget, DogSet
  <2>2. D'
    BY <1>26, <1>12, <1>6 DEF WatchBudget, DogOK, DogSet
  <2>. QED
    BY <1>26, <2>1, <2>2 DEF TypeInv, WatchBudget, startVars, tellVars
<1>27. CASE WatchReapFinished(t)
  <2>1. child' \in [Tasks -> ChildSet]
    BY <1>27, <1>2 DEF WatchReapFinished, ChildSet, Procs, ExitedProcs
  <2>2. wd' \in [Tasks -> DogSet]
    BY <1>27, <1>6 DEF WatchReapFinished, DogSet
  <2>3. D'
    BY <1>27, <1>12, <1>6 DEF WatchReapFinished, DogOK, DogSet
  <2>. QED
    BY <1>27, <2>1, <2>2, <2>3 DEF TypeInv, WatchReapFinished, startVars, tellVars
<1>28. CASE WatchExit(t)
  <2>1. wd' \in [Tasks -> DogSet]
    BY <1>28, <1>6 DEF WatchExit, DogSet
  <2>2. D'
    BY <1>28, <1>12, <1>6 DEF WatchExit, DogOK, DogSet
  <2>. QED
    BY <1>28, <2>1, <2>2 DEF TypeInv, WatchExit, startVars, tellVars
<1>29. CASE Ask(t)
  <2>1. file' \in [Tasks -> FileRecord]
    BY <1>29, <1>1 DEF Ask, FileRecord
  <2>2. quest' \in [Tasks -> QuestSet]
    BY <1>29, <1>7 DEF Ask, QuestSet
  <2>. QED
    BY <1>29, <2>1, <2>2 DEF TypeInv, Ask, startVars, tellVars
<1>30. CASE HoldEnds(t)
  <2>1. quest' \in [Tasks -> QuestSet]
    BY <1>30, <1>7 DEF HoldEnds, QuestSet
  <2>. QED
    BY <1>30, <2>1 DEF TypeInv, HoldEnds, startVars, tellVars
<1>31. CASE Resolve(t)
  <2>1. quest' \in [Tasks -> QuestSet]
    BY <1>31, <1>7 DEF Resolve, QuestSet
  <2>. QED
    BY <1>31, <2>1 DEF TypeInv, Resolve, startVars, tellVars
<1>. QED
  BY <1>13, <1>14, <1>15, <1>16, <1>17, <1>18, <1>19, <1>20, <1>21, <1>22, <1>23, <1>24, <1>25,
     <1>26, <1>27, <1>28, <1>29, <1>30, <1>31 DEF Starting, World
\* Each step of the watchdog, of a denial, of a cancel and of a reader keeps the
\* types.
LEMMA WatchTypes ==
  ASSUME TypeInv, DispatchBounds, NEW t \in Tasks,
         \/ WatchKeep(t) \/ WatchKill(t) \/ WatchFinish(t) \/ WatchTell(t) \/ WatchSent(t)
         \/ Cancel(t) \/ Escalate(t) \/ Read(t) \/ Answer(t)
         \/ \E r \in Rules : DenyTool(t, r)
  PROVE  TypeInv'
<1>. DEFINE D == \A u \in Tasks : DogOK(wd[u])
<1>1. file \in [Tasks -> FileRecord]
  BY DEF TypeInv
<1>2. child \in [Tasks -> ChildSet]
  BY DEF TypeInv
<1>3. clock \in [Tasks -> ClockSet]
  BY DEF TypeInv
<1>4. starter \in [Tasks -> StarterSet]
  BY DEF TypeInv
<1>5. esc \subseteq Tasks
  BY DEF TypeInv
<1>6. wd \in [Tasks -> DogSet]
  BY DEF TypeInv
<1>7. quest \in [Tasks -> QuestSet]
  BY DEF TypeInv
<1>8. hooks \in [Tasks -> SUBSET Rules]
  BY DEF TypeInv
<1>9. queue \in [Ids -> QueueSet]
  BY DEF TypeInv
<1>10. ReapOK(reap)
  BY DEF TypeInv
<1>11. DrainOK(drain)
  BY DEF TypeInv
<1>12. D
  BY DEF TypeInv
<1>13. CASE WatchKeep(t)
  <2>1. clock' \in [Tasks -> ClockSet]
    BY <1>13, <1>3 DEF WatchKeep, ClockSet
  <2>2. wd' \in [Tasks -> DogSet]
    BY <1>13, <1>6, <1>3, DispatchBounds DEF WatchKeep, DogSet, Decisions, DecideLiveness, ClockSet
  <2>3. D'
    BY <1>13, <1>12, <1>6 DEF WatchKeep, DogOK, DogSet
  <2>. QED
    BY <1>13, <2>1, <2>2, <2>3 DEF TypeInv, WatchKeep, startVars, tellVars
<1>14. CASE WatchKill(t)
  <2>1. file' \in [Tasks -> FileRecord]
    <3>1. file' = [[file EXCEPT ![t].term = TRUE] EXCEPT ![t].fresh = TRUE]
      BY <1>14 DEF WatchKill
    <3>. QED
      BY <3>1, <1>1, FileFields
  <2>2. child' \in [Tasks -> ChildSet]
    BY <1>14, <1>2 DEF WatchKill, ChildSet, Procs, ExitedProcs, Alive
  <2>3. wd' \in [Tasks -> DogSet] /\ D'
    <3>1. CASE wd' = [wd EXCEPT ![t] = NoDog]
      BY <3>1, <1>6, <1>12, NoDogType DEF DogOK
    <3>2. CASE wd' = [wd EXCEPT ![t].pc = "reap", ![t].killed = TRUE]
      <4>. DEFINE w == [wd EXCEPT ![t].pc = "reap"]
      <4>1. w \in [Tasks -> DogSet] /\ w[t].pc = "reap" /\ \A u \in Tasks \ {t} : w[u] = wd[u]
        BY <1>6 DEF DogSet
      <4>2. wd' = [w EXCEPT ![t].killed = TRUE]
        BY <3>2
      <4>. HIDE DEF w
      <4>3. wd' \in [Tasks -> DogSet] /\ wd'[t].pc = "reap" /\ \A u \in Tasks \ {t} : wd'[u] = wd[u]
        BY <4>1, <4>2, ZenonT(60) DEF DogSet
      <4>. QED
        BY <4>3, <1>12 DEF DogOK
    <3>. QED
      BY <1>14, <3>1, <3>2 DEF WatchKill
  <2>. QED
    BY <1>14, <2>1, <2>2, <2>3 DEF TypeInv, WatchKill, startVars, tellVars
<1>15. CASE WatchFinish(t)
  <2>1. file[t] \in FileRecord /\ FinalStatus(t) \in TerminalStates
    BY <1>1 DEF FinalStatus, TerminalStates
  <2>2. file' \in [Tasks -> FileRecord]
    <3>1. PICK w \in WakeStates : file' = [file EXCEPT ![t] = [Closed(file[t], FinalStatus(t)) EXCEPT
                                                        !.term = FALSE, !.wake = w]]
      BY <1>15 DEF WatchFinish, WakeStates
    <3>2. [Closed(file[t], FinalStatus(t)) EXCEPT !.term = FALSE, !.wake = w] \in FileRecord
      BY <2>1, ClosedType DEF TaskStates
    <3>. QED
      BY <1>1, <3>1, <3>2
  <2>3. wd' \in [Tasks -> DogSet] /\ D'
    <3>1. file[t].wake \in WakeStates
      BY <2>1 DEF FileRecord
    <3>2. PICK v : v \in DogSet /\ DogOK(v) /\ wd' = [wd EXCEPT ![t] = v]
      BY <1>15, <2>1, <3>1, NoDogType DEF WatchFinish, DogOK
    <3>. QED
      BY <3>2, <1>6, <1>12
  <2>. QED
    BY <1>15, <2>2, <2>3 DEF TypeInv, WatchFinish, startVars, tellVars
<1>16. CASE WatchTell(t)
  <2>1. file' \in [Tasks -> FileRecord]
    BY <1>16, <1>1 DEF WatchTell, FileRecord, WakeStates, WakeQueued
  <2>2. wd' \in [Tasks -> DogSet] /\ D'
    <3>1. CASE wd' = [wd EXCEPT ![t] = NoDog]
      BY <3>1, <1>6, <1>12, NoDogType DEF DogOK
    <3>2. CASE wd' = [wd EXCEPT ![t].pc = "send"]
      BY <3>2, <1>16, <1>6, <1>12 DEF DogOK, DogSet, WatchTell
    <3>. QED
      BY <1>16, <3>1, <3>2 DEF WatchTell
  <2>3. queue' \in [Ids -> QueueSet]
    <3>1. wd[t].status \in TerminalStates
      BY <1>16, <1>12 DEF WatchTell, DogOK
    <3>. QED
      BY <1>16, <1>9, <3>1, QueueWakeType DEF WatchTell, WakeQueued
  <2>. QED
    BY <1>16, <2>1, <2>2, <2>3 DEF TypeInv, WatchTell, startVars, tellVars
<1>17. CASE WatchSent(t)
  <2>1. file' \in [Tasks -> FileRecord]
    BY <1>17, <1>1 DEF WatchSent, FileRecord, WakeStates, WakeQueued, WakeSent
  <2>2. wd' \in [Tasks -> DogSet] /\ D'
    BY <1>17, <1>6, <1>12, NoDogType DEF DogOK, WatchSent
  <2>3. queue' \in [Ids -> QueueSet]
    <3>1. wd[t].status \in TerminalStates
      BY <1>17, <1>12 DEF WatchSent, DogOK
    <3>2. CASE WakeSent(t)
      BY <3>2, <1>9 DEF WakeSent, QueueSet
    <3>3. CASE WakeQueued(t, wd[t].status, wd[t].was)
      BY <3>3, <1>9, <3>1, QueueWakeType DEF WakeQueued
    <3>. QED
      BY <1>17, <3>2, <3>3 DEF WatchSent
  <2>. QED
    BY <1>17, <2>1, <2>2, <2>3 DEF TypeInv, WatchSent, startVars, tellVars
<1>18. ASSUME NEW r \in Rules, DenyTool(t, r) PROVE TypeInv'
  <2>1. PICK n \in NotedSets(t, {r}) :
          /\ file' = [file EXCEPT ![t].noted = @ \cup n, ![t].fresh = TRUE]
          /\ queue' = WithDenials(queue, [u \in Tasks |-> IF u = t THEN n ELSE {}])
    BY <1>18 DEF DenyTool
  <2>2. n \in SUBSET Rules
    BY NotedSetsType
  <2>3. file' \in [Tasks -> FileRecord]
    <3>1. file' = [[file EXCEPT ![t].noted = @ \cup n] EXCEPT ![t].fresh = TRUE]
      BY <2>1
    <3>. QED
      BY <1>1, <2>2, <3>1, FileFields
  <2>4. queue' \in [Ids -> QueueSet]
    BY <1>9, <2>1, <2>2, WithDenialsType
  <2>. QED
    BY <1>18, <2>3, <2>4 DEF TypeInv, DenyTool, startVars, tellVars
<1>19. CASE Cancel(t)
  <2>1. file' \in [Tasks -> FileRecord]
    <3>1. PICK s \in {"cancelled", "cancelling"} :
            file' = [file EXCEPT ![t] = [Closed(@, s) EXCEPT !.cancel = TRUE]]
      BY <1>19 DEF Cancel
    <3>2. [Closed(file[t], s) EXCEPT !.cancel = TRUE] \in FileRecord
      BY <1>1, ClosedType DEF TaskStates, TerminalStates
    <3>. QED
      BY <1>1, <3>1, <3>2
  <2>2. child' \in [Tasks -> ChildSet]
    BY <1>19, <1>2, SignalledType DEF Cancel, Procs, AliveProcs
  <2>3. esc' \subseteq Tasks
    BY <1>19, <1>5 DEF Cancel
  <2>. QED
    BY <1>19, <2>1, <2>2, <2>3 DEF TypeInv, Cancel, startVars, tellVars
<1>20. CASE Escalate(t)
  <2>1. file' \in [Tasks -> FileRecord]
    BY <1>20, <1>1 DEF Escalate, FileRecord, PidAlive
  <2>2. child' \in [Tasks -> ChildSet]
    BY <1>20, <1>2, SignalledType DEF Escalate, Procs, ExitedProcs
  <2>3. esc' \subseteq Tasks
    BY <1>20, <1>5 DEF Escalate
  <2>. QED
    BY <1>20, <2>1, <2>2, <2>3 DEF TypeInv, Escalate, startVars, tellVars
<1>21. CASE Read(t)
  <2>1. file' \in [Tasks -> FileRecord]
    BY <1>21, <1>1, MarkStaleType DEF Read
  <2>2. ReapOK(reap')
    BY <1>21, <1>10, EnsureReaperType DEF Read
  <2>. QED
    BY <1>21, <2>1, <2>2 DEF TypeInv, Read, startVars, tellVars
<1>22. CASE Answer(t)
  <2>1. file' \in [Tasks -> FileRecord]
    BY <1>22, <1>1, MarkStaleType DEF Answer
  <2>2. ReapOK(reap')
    BY <1>22, <1>10, EnsureReaperType DEF Answer
  <2>3. quest' \in [Tasks -> QuestSet]
    BY <1>22, <1>7 DEF Answer, QuestSet
  <2>. QED
    BY <1>22, <2>1, <2>2, <2>3 DEF TypeInv, Answer, startVars, tellVars
<1>. QED
  BY <1>13, <1>14, <1>15, <1>16, <1>17, <1>18, <1>19, <1>20, <1>21, <1>22

\* Each step of the reaper keeps the types.
LEMMA ReaperTypes ==
  ASSUME TypeInv, DispatchBounds, Reaping \/ ReadAll \/ Cleanup
  PROVE  TypeInv'
<1>1. file \in [Tasks -> FileRecord]
  BY DEF TypeInv
<1>2. child \in [Tasks -> ChildSet]
  BY DEF TypeInv
<1>3. queue \in [Ids -> QueueSet]
  BY DEF TypeInv
<1>4. ReapOK(reap)
  BY DEF TypeInv
<1>5. CASE ReadAll
  BY <1>1, <1>4, <1>5, MarkStaleType, EnsureReaperType DEF TypeInv, ReadAll, startVars
<1>6. CASE Cleanup
  <2>1. file' \in [Tasks -> FileRecord]
    BY <1>1, <1>6, MarkStaleType DEF Cleanup
  <2>. QED
    BY <1>4, <1>6, <2>1, EnsureReaperType DEF TypeInv, Cleanup, startVars
<1>7. CASE ReaperScan
  <2>. DEFINE running == {t \in Tasks : file[t].state = "running"}
              closed == {t \in running : ScanOnce(t) # file[t]}
  <2>1. PICK noted \in [Tasks -> SUBSET Rules] :
          /\ file' = [t \in Tasks |-> IF t \in closed THEN ScanOnce(t)
                                      ELSE [file[t] EXCEPT !.noted = @ \cup noted[t]]]
          /\ queue' = WithDenials(queue, noted)
          /\ hooks' = [t \in Tasks |-> IF t \in running THEN {} ELSE hooks[t]]
          /\ child' = [t \in Tasks |-> IF ReaperEnds(t) /\ VerifyKillTarget(t)
                                       THEN Signalled(child[t], "err") ELSE child[t]]
          /\ reap' = IF closed = {} THEN reap
                     ELSE [reap EXCEPT !.pc = "next",
                                       !.todo = {<<t, ScanOnce(t).state>> : t \in closed}]
    BY <1>7 DEF ReaperScan
  <2>2. closed \subseteq Tasks /\ \A t \in closed : ScanOnce(t).state \in TerminalStates
    BY ScanOnceType
  <2>. HIDE DEF running, closed
  <2>3. file' \in [Tasks -> FileRecord]
    <3>. SUFFICES ASSUME NEW t \in Tasks
                  PROVE  (IF t \in closed THEN ScanOnce(t)
                          ELSE [file[t] EXCEPT !.noted = @ \cup noted[t]]) \in FileRecord
      BY <2>1
    <3>1. ScanOnce(t) \in FileRecord
      BY ScanOnceType
    <3>2. [file[t] EXCEPT !.noted = @ \cup noted[t]] \in FileRecord
      BY <1>1 DEF FileRecord
    <3>. QED
      BY <3>1, <3>2
  <2>4. queue' \in [Ids -> QueueSet]
    BY <1>3, <2>1, WithDenialsType
  <2>5. child' \in [Tasks -> ChildSet]
    BY <1>2, <2>1, SignalledType DEF Procs, ExitedProcs
  <2>6. hooks' \in [Tasks -> SUBSET Rules]
    BY <2>1 DEF TypeInv
  <2>7. ReapOK(reap')
    <3>1. {<<t, ScanOnce(t).state>> : t \in closed} \in SUBSET (Tasks \X TerminalStates)
      BY <2>2
    <3>. QED
      BY <1>4, <2>1, <3>1 DEF ReapOK, ReapSet
  <2>. QED
    BY <1>7, <2>3, <2>4, <2>5, <2>6, <2>7 DEF TypeInv, ReaperScan, startVars
<1>8. ASSUME NEW job \in reap.todo, NotifyBegin(job)
      PROVE  TypeInv'
  <2>1. reap \in ReapSet /\ job \in Tasks \X TerminalStates /\ job[1] \in Tasks
    BY <1>4, <1>8 DEF ReapOK, ReapSet
  <2>2. file' \in [Tasks -> FileRecord]
    <3>1. CASE file' = file
      BY <1>1, <3>1
    <3>2. CASE file' = [file EXCEPT ![job[1]].wake = "pending", ![job[1]].fresh = TRUE]
      <4>1. file' = [[file EXCEPT ![job[1]].wake = "pending"] EXCEPT ![job[1]].fresh = TRUE]
        BY <3>2
      <4>. QED
        BY <1>1, <2>1, <4>1, FileFields DEF WakeStates
    <3>. QED
      BY <1>8, <3>1, <3>2 DEF NotifyBegin
  <2>3. ReapOK(reap')
    <3>. DEFINE r == [reap EXCEPT !.todo = @ \ {job}]
    <3>1. r \in ReapSet
      BY <2>1 DEF ReapSet
    <3>2. \/ reap' = [r EXCEPT !.job = job, !.pc = "tell"]
          \/ \E pc \in {"idle", "next"} : reap' = [r EXCEPT !.job = NoId, !.pc = pc]
      BY <1>8 DEF NotifyBegin
    <3>. HIDE DEF r
    <3>3. CASE reap' = [r EXCEPT !.job = job, !.pc = "tell"]
      BY <2>1, <3>1, <3>3 DEF ReapOK, ReapSet
    <3>4. ASSUME NEW pc \in {"idle", "next"}, reap' = [r EXCEPT !.job = NoId, !.pc = pc]
          PROVE  ReapOK(reap')
      BY <3>1, <3>4 DEF ReapOK, ReapSet
    <3>. QED
      BY <3>2, <3>3, <3>4
  <2>. QED
    BY <1>8, <2>2, <2>3 DEF TypeInv, NotifyBegin, startVars
<1>9. CASE NotifyTell \/ NotifySent
  <2>1. reap.job[1] \in Tasks /\ reap.job[2] \in TerminalStates
    BY <1>4, <1>9 DEF ReapOK, NotifyTell, NotifySent
  <2>2. ReapOK(reap')
    <3>1. \/ reap' = NextJob
          \/ reap' = [reap EXCEPT !.pc = "send"] /\ reap.pc = "tell"
      BY <1>9 DEF NotifyTell, NotifySent
    <3>. QED
      BY <1>4, <3>1, NextJobType DEF ReapOK, ReapSet
  <2>3. CASE UNCHANGED <<file, queue>>
    BY <1>9, <2>2, <2>3 DEF TypeInv, NotifyTell, NotifySent, startVars
  <2>4. CASE WakeQueued(reap.job[1], reap.job[2], "none")
    <3>1. file' \in [Tasks -> FileRecord]
      BY <1>1, <2>1, <2>4 DEF WakeQueued, FileRecord, WakeStates
    <3>2. queue' \in [Ids -> QueueSet]
      BY <1>3, <2>1, <2>4, QueueWakeType DEF WakeQueued
    <3>. QED
      BY <1>9, <2>2, <3>1, <3>2 DEF TypeInv, NotifyTell, NotifySent, startVars
  <2>5. CASE WakeSent(reap.job[1])
    <3>1. file' \in [Tasks -> FileRecord]
      BY <1>1, <2>1, <2>5 DEF WakeSent, FileRecord, WakeStates
    <3>2. queue' \in [Ids -> QueueSet]
      BY <1>3, <2>1, <2>5 DEF WakeSent, QueueSet
    <3>. QED
      BY <1>9, <2>2, <3>1, <3>2 DEF TypeInv, NotifyTell, NotifySent, startVars
  <2>. QED
    BY <1>9, <2>3, <2>4, <2>5 DEF NotifyTell, NotifySent
<1>. QED
  BY <1>5, <1>6, <1>7, <1>8, <1>9 DEF Reaping

\* A copy written back is a record, and is no longer empty.
LEMMA BackType ==
  ASSUME DispatchBounds, NEW r \in WakeRecord, NEW q \in QueueSet, NEW att \in 0..MaxAttempts
  PROVE  [r EXCEPT !.att = att, !.aged = @ \/ q.aged] \in WakeRecord
<1>1. q.aged \in BOOLEAN
  <2>1. NoRecord.aged = FALSE
    BY DEF NoRecord
  <2>2. q \in WakeRecord => q.aged \in BOOLEAN
    BY DEF WakeRecord
  <2>. QED
    BY <2>1, <2>2 DEF QueueSet
<1>2. r.aged \in BOOLEAN
  BY DEF WakeRecord
<1>3. (r.aged \/ q.aged) \in BOOLEAN
  OBVIOUS
<1>4. [r EXCEPT !.att = att] \in WakeRecord /\ [r EXCEPT !.att = att].aged = r.aged
  BY DEF WakeRecord
<1>5. [r EXCEPT !.att = att, !.aged = @ \/ q.aged]
        = [[r EXCEPT !.att = att] EXCEPT !.aged = r.aged \/ q.aged]
  BY DEF WakeRecord
<1>. QED
  BY <1>3, <1>4, <1>5 DEF WakeRecord

\* Each step of the drain keeps the types.
LEMMA DrainTypes ==
  ASSUME TypeInv, DispatchBounds, Draining \/ \E id \in Ids : AgeRecord(id)
  PROVE  TypeInv'
<1>1. file \in [Tasks -> FileRecord]
  BY DEF TypeInv
<1>2. queue \in [Ids -> QueueSet]
  BY DEF TypeInv
<1>3. DrainOK(drain) /\ drain \in DrainSet
  BY DEF TypeInv, DrainOK
<1>4. ASSUME NEW id \in Ids, AgeRecord(id)
      PROVE  TypeInv'
  <2>1. queue[id] \in WakeRecord
    BY <1>2, <1>4 DEF AgeRecord, QueueSet
  <2>2. [queue[id] EXCEPT !.aged = TRUE] \in WakeRecord
    BY <2>1 DEF WakeRecord
  <2>3. queue' \in [Ids -> QueueSet]
    BY <1>2, <1>4, <2>2 DEF AgeRecord, QueueSet
  <2>. QED
    BY <1>4, <2>3 DEF TypeInv, AgeRecord, startVars, tellVars
<1>5. ASSUME NEW ids \in SUBSET Ids, DrainStart(ids)
      PROVE  TypeInv'
  <2>1. {<<id, queue[id]>> : id \in ids} \in SUBSET (Ids \X WakeRecord)
    BY <1>2, <1>5 DEF DrainStart, QueueSet
  <2>2. NoDrain \in DrainSet
    BY NothingType DEF DrainOK
  <2>3. DrainOK(drain')
    BY <1>5, <2>1, <2>2 DEF DrainStart, DrainOK, DrainSet
  <2>. QED
    BY <1>5, <2>3 DEF TypeInv, DrainStart, startVars, tellVars
<1>6. ASSUME NEW due \in drain.due, DrainNext(due)
      PROVE  TypeInv'
  <2>. DEFINE rest == [drain EXCEPT !.due = @ \ {due}]
  <2>1. due \in Ids \X WakeRecord /\ due[1] \in Ids /\ due[2] \in WakeRecord
    BY <1>3 DEF DrainSet
  <2>2. rest \in DrainSet
    BY <1>3 DEF DrainSet
  <2>3. \/ /\ Ended(due[1], due[2])
           /\ queue' = [queue EXCEPT ![due[1]] = NoRecord]
           /\ \E pc \in {"idle", "next"} : drain' = [rest EXCEPT !.pc = pc]
        \/ /\ ~Ended(due[1], due[2])
           /\ drain' = [rest EXCEPT !.pc = "probe", !.id = due[1], !.rec = due[2]]
           /\ queue' = queue
    BY <1>6 DEF DrainNext
  <2>. HIDE DEF rest
  <2>4. CASE Ended(due[1], due[2])
    <3>1. queue' \in [Ids -> QueueSet]
      BY <1>2, <2>3, <2>4 DEF QueueSet
    <3>2. DrainOK(drain')
      BY <2>2, <2>3, <2>4 DEF DrainOK, DrainSet
    <3>. QED
      BY <1>6, <3>1, <3>2 DEF TypeInv, DrainNext, startVars
  <2>5. CASE ~Ended(due[1], due[2])
    <3>1. due[2].att < MaxAttempts
      BY <2>1, <2>5 DEF Ended, WakeRecord, DispatchBounds
    <3>2. drain' \in DrainSet
      BY <2>1, <2>2, <2>3, <2>5 DEF DrainSet
    <3>3. drain'.id = due[1] /\ drain'.rec = due[2]
      BY <2>1, <2>2, <2>3, <2>5 DEF DrainSet
    <3>4. DrainOK(drain')
      BY <2>1, <3>1, <3>2, <3>3 DEF DrainOK
    <3>. QED
      BY <1>6, <2>3, <2>5, <3>4 DEF TypeInv, DrainNext, startVars
  <2>. QED
    BY <2>4, <2>5
<1>7. CASE DrainProbe \/ DrainSent
  <2>1. drain.id \in Ids /\ drain.rec \in WakeRecord /\ drain.rec.att < MaxAttempts /\ drain.id[1] \in Tasks
    BY <1>3, <1>7 DEF DrainOK, DrainProbe, DrainSent, Ids
  <2>2. DrainOK(drain')
    <3>1. \/ drain' = NextRecord
          \/ drain' = [drain EXCEPT !.pc = "send"] /\ drain.pc = "probe"
      BY <1>7 DEF DrainProbe, DrainSent
    <3>2. CASE drain' = [drain EXCEPT !.pc = "send"] /\ drain.pc = "probe"
      <4>1. drain' \in DrainSet /\ drain'.id = drain.id /\ drain'.rec = drain.rec
        BY <1>3, <3>2 DEF DrainSet
      <4>. QED
        BY <2>1, <4>1 DEF DrainOK
    <3>. QED
      BY <1>3, <3>1, <3>2, NextRecordType
  <2>3. file' \in [Tasks -> FileRecord]
    <3>1. CASE file' = file
      BY <1>1, <3>1
    <3>2. CASE file' = [file EXCEPT ![drain.id[1]].wake =
                           IF drain.id[2] = "terminal" THEN "sent" ELSE @]
      BY <1>1, <2>1, <3>2 DEF FileRecord, WakeStates
    <3>. QED
      BY <1>7, <3>1, <3>2 DEF DrainProbe, DrainSent
  <2>4. queue' \in [Ids -> QueueSet]
    <3>1. CASE queue' = queue
      BY <1>2, <3>1
    <3>2. CASE queue' = [queue EXCEPT ![drain.id] = NoRecord]
      BY <1>2, <3>2 DEF QueueSet
    <3>3. ASSUME NEW att \in {drain.rec.att, drain.rec.att + 1}, WrittenBack(att)
          PROVE  queue' \in [Ids -> QueueSet]
      <4>1. att \in 0..MaxAttempts
        BY <2>1, <3>3 DEF WakeRecord, DispatchBounds
      <4>2. [drain.rec EXCEPT !.att = att, !.aged = @ \/ queue[drain.id].aged] \in QueueSet
        BY <1>2, <2>1, <4>1, BackType DEF QueueSet
      <4>. QED
        BY <1>2, <3>3, <4>2 DEF WrittenBack
    <3>. QED
      BY <1>7, <3>1, <3>2, <3>3 DEF DrainProbe, DrainSent
  <2>. QED
    BY <1>7, <2>2, <2>3, <2>4 DEF TypeInv, DrainProbe, DrainSent, startVars
<1>. QED
  BY <1>4, <1>5, <1>6, <1>7 DEF Draining

\* A session that takes a wake, a crash and a restart keep the types.
LEMMA HostTypes ==
  ASSUME TypeInv, DispatchBounds,
         \/ \E t \in Tasks : SessionTakesFromWatchdog(t)
         \/ SessionTakesFromReaper \/ SessionTakesFromQueue \/ Crash \/ Restart
  PROVE  TypeInv'
<1>1. file \in [Tasks -> FileRecord] /\ heard \subseteq Tasks \X (TerminalStates \cup Rules)
  BY DEF TypeInv
<1>2. wd \in [Tasks -> DogSet] /\ \A t \in Tasks : DogOK(wd[t])
  BY DEF TypeInv
<1>3. ASSUME NEW t \in Tasks, SessionTakesFromWatchdog(t)
      PROVE  TypeInv'
  <2>1. wd' \in [Tasks -> DogSet] /\ \A u \in Tasks : DogOK(wd'[u])
    BY <1>2, <1>3, ZenonT(60) DEF SessionTakesFromWatchdog, DogOK, DogSet
  <2>2. heard' \subseteq Tasks \X (TerminalStates \cup Rules)
    BY <1>1, <1>2, <1>3 DEF SessionTakesFromWatchdog, DogOK, Told
  <2>. QED
    BY <1>3, <2>1, <2>2 DEF TypeInv, SessionTakesFromWatchdog, startVars
<1>4. CASE SessionTakesFromReaper
  <2>1. ReapOK(reap')
    BY <1>4 DEF TypeInv, SessionTakesFromReaper, ReapOK, ReapSet
  <2>2. reap.job \in Tasks \X TerminalStates
    BY <1>4 DEF TypeInv, SessionTakesFromReaper, ReapOK
  <2>3. heard' \subseteq Tasks \X (TerminalStates \cup Rules)
    BY <1>1, <1>4, <2>2 DEF SessionTakesFromReaper, Told
  <2>. QED
    BY <1>4, <2>1, <2>3 DEF TypeInv, SessionTakesFromReaper, startVars
<1>5. CASE SessionTakesFromQueue
  <2>1. DrainOK(drain')
    BY <1>5 DEF TypeInv, SessionTakesFromQueue, DrainOK, DrainSet
  <2>2. drain.id \in Ids /\ drain.rec \in WakeRecord
    BY <1>5 DEF TypeInv, SessionTakesFromQueue, DrainOK
  <2>3. drain.id[1] \in Tasks /\ drain.rec.text \in TerminalStates \cup Rules
    BY <2>2 DEF Ids, WakeRecord
  <2>4. heard' \subseteq Tasks \X (TerminalStates \cup Rules)
    BY <1>1, <1>5, <2>3 DEF SessionTakesFromQueue, Told
  <2>. QED
    BY <1>5, <2>1, <2>4 DEF TypeInv, SessionTakesFromQueue, startVars
<1>6. CASE Crash
  <2>1. child' \in [Tasks -> ChildSet]
    <3>1. PICK made \in SUBSET Tasks :
            child' = [t \in Tasks |-> IF t \in made THEN [child[t] EXCEPT !.proc = "run"]
                                      ELSE child[t]]
      BY <1>6 DEF Crash
    <3>. QED
      BY <3>1 DEF TypeInv, ChildSet, Procs, AliveProcs
  <2>2. host' \in [up : BOOLEAN, crashes : 0..MaxCrashes]
    BY <1>6 DEF TypeInv, Crash, DispatchBounds
  <2>3. starter' \in [Tasks -> StarterSet]
    BY <1>6 DEF Crash, StarterSet
  <2>4. wd' \in [Tasks -> DogSet] /\ \A t \in Tasks : DogOK(wd'[t])
    BY <1>6, NoDogType DEF Crash, DogOK
  <2>5. quest' \in [Tasks -> QuestSet]
    BY <1>6 DEF Crash, QuestSet, NoQuestion
  <2>. QED
    BY <1>6, <2>1, <2>2, <2>3, <2>4, <2>5, NothingType DEF TypeInv, Crash
<1>7. CASE Restart
  <2>1. PICK gone \in SUBSET Tasks :
          file' = [t \in Tasks |-> [OrphanCleanup(t) EXCEPT !.dog = @ /\ t \notin gone]]
    BY <1>7 DEF Restart
  <2>2. file' \in [Tasks -> FileRecord]
    <3>. SUFFICES ASSUME NEW t \in Tasks
                  PROVE  [OrphanCleanup(t) EXCEPT !.dog = @ /\ t \notin gone] \in FileRecord
      BY <2>1
    <3>1. OrphanCleanup(t) \in FileRecord
      BY OrphanCleanupType
    <3>. QED
      BY <3>1 DEF FileRecord
  <2>3. host' \in [up : BOOLEAN, crashes : 0..MaxCrashes]
    BY <1>7 DEF TypeInv, Restart
  <2>. QED
    BY <1>7, <2>2, <2>3 DEF TypeInv, Restart, startVars, tellVars
<1>. QED
  BY <1>3, <1>4, <1>5, <1>6, <1>7

\* Every step keeps the types.
LEMMA TypeStep ==
  ASSUME TypeInv, DispatchBounds, [Next]_vars
  PROVE  TypeInv'
<1>1. CASE UNCHANGED vars
  BY <1>1 DEF TypeInv, vars, startVars, tellVars
<1>2. CASE Next
  BY <1>2, RunTypes, WatchTypes, ReaperTypes, DrainTypes, HostTypes DEF Next, Watching
<1>. QED
  BY <1>1, <1>2
-----------------------------------------------------------------------------
(* A run and its child *)

\* When a file may be closed without a look at the child: the run is open, a
\* run that is being cancelled ends as cancelled, no recorded child is alive,
\* and the start() call is not on its way to the spawn.
CanClose(t, x) ==
  /\ x \in TerminalStates /\ Open(t)
  /\ file[t].state = "cancelling" => x = "cancelled"
  /\ file[t].pid => ~Alive(t)
  /\ starter[t] \notin {"ready", "spawn"}

\* _mark_stale closes only what may be closed.
LEMMA MarkStaleCloses ==
  ASSUME TypeInv, RunInv, NEW t \in Tasks
  PROVE  MarkStale(t) = file[t] \/ \E x \in TerminalStates : CanClose(t, x) /\ MarkStale(t) = Closed(file[t], x)
<1>1. starter[t] \in {"ready", "spawn"} => ~file[t].pid /\ ~TimeoutEvidence(t)
  BY DEF RunInv, RunOK, TimeoutEvidence
<1>2. file[t].pid /\ ~PidAlive(t) => ~Alive(t)
  BY DEF PidAlive
<1>. QED
  BY <1>1, <1>2 DEF MarkStale, CanClose, Open, TerminalStates

\* _scan_once closes only what may be closed, or kills the child it closes.
LEMMA ScanOnceCloses ==
  ASSUME TypeInv, RunInv, NEW t \in Tasks
  PROVE  \/ ScanOnce(t) = file[t]
         \/ \E x \in TerminalStates : CanClose(t, x) /\ ScanOnce(t) = Closed(file[t], x)
         \/ /\ ReaperEnds(t) /\ VerifyKillTarget(t)
            /\ ScanOnce(t) = Closed(file[t], "timeout")
<1>1. starter[t] \in {"ready", "spawn"} => ~file[t].pid /\ ~TimeoutEvidence(t)
  BY DEF RunInv, RunOK, TimeoutEvidence
<1>2. CASE file[t].state # "running"
  <2>1. ScanOnce(t) = file[t]
    BY <1>2 DEF ScanOnce
  <2>. QED
    BY <2>1
<1>3. CASE file[t].state = "running" /\ ~file[t].pid
  BY <1>1, <1>3 DEF ScanOnce, CanClose, Open, TerminalStates
<1>4. CASE file[t].state = "running" /\ file[t].pid /\ ~PidAlive(t)
  BY <1>4, MarkStaleCloses DEF ScanOnce
<1>5. CASE file[t].state = "running" /\ file[t].pid /\ PidAlive(t)
  <2>1. CASE ReaperEnds(t) /\ VerifyKillTarget(t)
    BY <1>5, <2>1 DEF ScanOnce
  <2>2. CASE ReaperEnds(t) /\ ~VerifyKillTarget(t)
    <3>1. ~Alive(t)
      BY <2>2 DEF VerifyKillTarget, RunInv, RunOK, Alive, AliveProcs, ExitedProcs
    <3>2. ScanOnce(t) = Closed(file[t], "stale")
      BY <1>5, <2>2 DEF ScanOnce
    <3>. QED
      BY <1>1, <1>5, <3>1, <3>2 DEF CanClose, Open, TerminalStates
  <2>3. CASE ~ReaperEnds(t)
    BY <1>5, <2>3 DEF ScanOnce
  <2>. QED
    BY <2>1, <2>2, <2>3
<1>. QED
  BY <1>2, <1>3, <1>4, <1>5

\* orphan_cleanup closes only what may be closed.
LEMMA OrphanCleanupCloses ==
  ASSUME TypeInv, RunInv, NEW t \in Tasks, starter[t] \in {"idle", "done"}
  PROVE  OrphanCleanup(t) = file[t] \/ \E x \in TerminalStates : CanClose(t, x) /\ OrphanCleanup(t) = Closed(file[t], x)
<1>1. file[t].pid /\ ~PidAlive(t) => ~Alive(t)
  BY DEF PidAlive
<1>. QED
  BY <1>1 DEF OrphanCleanup, CanClose, Open, TerminalStates

\* What Closed writes.
LEMMA ClosedFields ==
  ASSUME NEW f \in FileRecord, NEW x
  PROVE  /\ Closed(f, x).state = x /\ Closed(f, x).pid = f.pid
         /\ Closed(f, x).cancel = f.cancel /\ Closed(f, x).wake = f.wake
BY DEF Closed, FileRecord

\* A file that is closed so keeps the run in order.
LEMMA CloseRun ==
  ASSUME TypeInv, RunInv, NEW t \in Tasks, NEW x, CanClose(t, x)
  PROVE  RunOK(Closed(file[t], x), child[t], clock[t], starter[t], wd[t])
<1>1. file[t] \in FileRecord /\ RunOK(file[t], child[t], clock[t], starter[t], wd[t])
  BY DEF TypeInv, RunInv
<1>. DEFINE g == Closed(file[t], x)
<1>2. /\ g.state = x /\ x \in TerminalStates /\ x # "absent"
      /\ g.pid = file[t].pid /\ g.cancel = file[t].cancel
  BY <1>1, ClosedFields DEF CanClose, TerminalStates
<1>3. file[t].cancel => x = "cancelled"
  BY <1>1 DEF RunOK, CanClose, Open
<1>4. starter[t] \notin {"idle", "probe", "ready", "spawn"}
  BY <1>1 DEF RunOK, CanClose, Open
<1>. HIDE DEF g
<1>5. RunOK(g, child[t], clock[t], starter[t], wd[t])
  BY <1>1, <1>2, <1>3, <1>4 DEF RunOK, CanClose, Alive
<1>. QED
  BY <1>5 DEF g

\* A write that leaves state, pid and cancel request of a file alone.
LEMMA SameRun ==
  ASSUME NEW f, NEW g, NEW c, NEW k, NEW s, NEW w, RunOK(f, c, k, s, w),
         g.state = f.state, g.pid = f.pid, g.cancel = f.cancel
  PROVE  RunOK(g, c, k, s, w)
BY DEF RunOK

\* A step on one run t: the others are as they were.
LEMMA OneRunStep ==
  ASSUME RunInv, NEW t \in Tasks,
         \A u \in Tasks \ {t} : /\ file'[u] = file[u] /\ child'[u] = child[u]
                                /\ clock'[u] = clock[u] /\ starter'[u] = starter[u] /\ wd'[u] = wd[u],
         RunOK(file'[t], child'[t], clock'[t], starter'[t], wd'[t])
  PROVE  RunInv'
BY DEF RunInv

\* Each step of start(), the child and the clock keeps the runs in order.
LEMMA StartRun ==
  ASSUME TypeInv, RunInv, NEW t \in Tasks,
         \/ StartClaim(t) \/ StartWrite(t) \/ StartLock(t) \/ SpawnOk(t) \/ SpawnFail(t)
         \/ WatchStart(t) \/ ChildExit(t) \/ ReusePid(t) \/ Spend(t) \/ Silence(t) \/ Quiet(t)
  PROVE  RunInv'
<1>1. file \in [Tasks -> FileRecord] /\ child \in [Tasks -> ChildSet] /\ clock \in [Tasks -> ClockSet]
  BY DEF TypeInv
<1>2. starter \in [Tasks -> StarterSet] /\ wd \in [Tasks -> DogSet]
  BY DEF TypeInv
<1>3. RunOK(file[t], child[t], clock[t], starter[t], wd[t])
  BY DEF RunInv
<1>4. CASE StartClaim(t)
  <2>1. RunOK(file'[t], child'[t], clock'[t], starter'[t], wd'[t])
    BY <1>1, <1>2, <1>3, <1>4 DEF StartClaim, startVars, RunOK, FileRecord, ChildSet, ClockSet,
       DogSet, AliveProcs, ExitedProcs, StarterSet
  <2>. QED
    BY <1>1, <1>2, <1>4, <2>1, OneRunStep DEF StartClaim, startVars
<1>5. CASE StartWrite(t)
  <2>1. RunOK(file'[t], child'[t], clock'[t], starter'[t], wd'[t])
    BY <1>1, <1>2, <1>3, <1>5 DEF StartWrite, startVars, RunOK, FileRecord, ChildSet, ClockSet,
       DogSet, AliveProcs, ExitedProcs, StarterSet, NewFile, NoFile
  <2>. QED
    BY <1>1, <1>2, <1>5, <2>1, OneRunStep DEF StartWrite, startVars
<1>6. CASE StartLock(t)
  <2>1. RunOK(file'[t], child'[t], clock'[t], starter'[t], wd'[t])
    BY <1>1, <1>2, <1>3, <1>6 DEF StartLock, startVars, RunOK, FileRecord, ChildSet, ClockSet,
       DogSet, AliveProcs, ExitedProcs, StarterSet, Terminal, TerminalStates
  <2>. QED
    BY <1>1, <1>2, <1>6, <2>1, OneRunStep DEF StartLock, startVars
<1>7. CASE SpawnOk(t)
  <2>1. starter[t] = "spawn" /\ file[t].state = "running" /\ ~file[t].cancel
    BY <1>3, <1>7 DEF SpawnOk, RunOK
  <2>2. file'[t] = [file[t] EXCEPT !.pid = TRUE] /\ child'[t] = [child[t] EXCEPT !.proc = "run"]
    BY <1>1, <1>7 DEF SpawnOk
  <2>3. file'[t].state = "running" /\ file'[t].pid /\ file'[t].cancel = file[t].cancel
    BY <1>1, <2>1, <2>2 DEF FileRecord
  <2>4. child'[t].proc = "run" /\ child'[t].reused = child[t].reused /\ child'[t].struck = child[t].struck
    BY <1>1, <2>2 DEF ChildSet
  <2>5. starter'[t] = "spawned" /\ wd'[t] = wd[t]
    BY <1>2, <1>7 DEF SpawnOk
  <2>6. wd[t].pc = "none" /\ ~child[t].reused /\ ~child[t].struck
    BY <1>3, <2>1 DEF RunOK, ExitedProcs
  <2>9. RunOK(file'[t], child'[t], clock'[t], starter'[t], wd'[t])
    BY <2>1, <2>3, <2>4, <2>5, <2>6 DEF RunOK, TerminalStates
  <2>. QED
    BY <1>1, <1>2, <1>7, <2>9, OneRunStep DEF SpawnOk, startVars
<1>8. CASE SpawnFail(t)
  <2>1. RunOK(file'[t], child'[t], clock'[t], starter'[t], wd'[t])
    BY <1>1, <1>2, <1>3, <1>8 DEF SpawnFail, startVars, RunOK, FileRecord, ChildSet, ClockSet,
       DogSet, AliveProcs, ExitedProcs, StarterSet, Closed, TerminalStates
  <2>. QED
    BY <1>1, <1>2, <1>8, <2>1, OneRunStep DEF SpawnFail, startVars
<1>9. CASE WatchStart(t)
  <2>1. file'[t] = [file[t] EXCEPT !.dog = TRUE] /\ wd'[t] = [NoDog EXCEPT !.pc = "poll"]
    BY <1>1, <1>2, <1>9 DEF WatchStart
  <2>2. /\ file'[t].state = file[t].state /\ file'[t].pid = file[t].pid
        /\ file'[t].cancel = file[t].cancel /\ wd'[t].pc = "poll"
    BY <1>1, <2>1 DEF FileRecord, NoDog
  <2>3. starter[t] = "spawned" /\ starter'[t] = "done" /\ child' = child
    BY <1>2, <1>9 DEF WatchStart
  <2>4. file[t].pid /\ file[t].state # "absent"
    BY <1>3, <2>3 DEF RunOK, NoFile
  <2>9. RunOK(file'[t], child'[t], clock'[t], starter'[t], wd'[t])
    BY <1>3, <2>2, <2>3, <2>4 DEF RunOK
  <2>. QED
    BY <1>1, <1>2, <1>9, <2>9, OneRunStep DEF WatchStart, startVars
<1>10. CASE ChildExit(t)
  <2>1. RunOK(file'[t], child'[t], clock'[t], starter'[t], wd'[t])
    BY <1>1, <1>2, <1>3, <1>10 DEF ChildExit, startVars, RunOK, FileRecord, ChildSet, ClockSet,
       DogSet, AliveProcs, ExitedProcs, StarterSet, Alive
  <2>. QED
    BY <1>1, <1>2, <1>10, <2>1, OneRunStep DEF ChildExit, startVars
<1>11. CASE ReusePid(t)
  <2>1. RunOK(file'[t], child'[t], clock'[t], starter'[t], wd'[t])
    BY <1>1, <1>2, <1>3, <1>11 DEF ReusePid, startVars, RunOK, FileRecord, ChildSet, ClockSet,
       DogSet, AliveProcs, ExitedProcs, StarterSet
  <2>. QED
    BY <1>1, <1>2, <1>11, <2>1, OneRunStep DEF ReusePid, startVars
<1>12. CASE Spend(t)
  <2>1. RunOK(file'[t], child'[t], clock'[t], starter'[t], wd'[t])
    BY <1>1, <1>2, <1>3, <1>12 DEF Spend, startVars, RunOK, FileRecord, ChildSet, ClockSet, DogSet,
       AliveProcs, ExitedProcs, StarterSet, Open
  <2>. QED
    BY <1>1, <1>2, <1>12, <2>1, OneRunStep DEF Spend, startVars
<1>13. CASE Silence(t)
  <2>1. RunOK(file'[t], child'[t], clock'[t], starter'[t], wd'[t])
    BY <1>1, <1>2, <1>3, <1>13 DEF Silence, startVars, RunOK, FileRecord, ChildSet, ClockSet,
       DogSet, AliveProcs, ExitedProcs, StarterSet
  <2>. QED
    BY <1>1, <1>2, <1>13, <2>1, OneRunStep DEF Silence, startVars
<1>14. CASE Quiet(t)
  <2>1. RunOK(file'[t], child'[t], clock'[t], starter'[t], wd'[t])
    BY <1>1, <1>2, <1>3, <1>14 DEF Quiet, startVars, RunOK, FileRecord, ChildSet, ClockSet, DogSet,
       AliveProcs, ExitedProcs, StarterSet, Open
  <2>. QED
    BY <1>1, <1>2, <1>14, <2>1, OneRunStep DEF Quiet, startVars
<1>. QED
  BY <1>4, <1>5, <1>6, <1>7, <1>8, <1>9, <1>10, <1>11, <1>12, <1>13, <1>14
\* Each step of the watchdog, of a cancel and of a child that speaks keeps the
\* runs in order.
LEMMA WatchRun ==
  ASSUME TypeInv, RunInv, NEW t \in Tasks,
         \/ Watching(t) \/ SessionTakesFromWatchdog(t) \/ Cancel(t) \/ Escalate(t) \/ Ask(t)
         \/ \E p \in {"run", "fin"} : ChildSpeaks(t, p)
         \/ \E r \in Rules : DenyTool(t, r)
  PROVE  RunInv'
<1>1. file \in [Tasks -> FileRecord] /\ child \in [Tasks -> ChildSet] /\ clock \in [Tasks -> ClockSet]
  BY DEF TypeInv
<1>2. starter \in [Tasks -> StarterSet] /\ wd \in [Tasks -> DogSet]
  BY DEF TypeInv
<1>3. RunOK(file[t], child[t], clock[t], starter[t], wd[t])
  BY DEF RunInv
<1>4. CASE WatchBudget(t)
  <2>1. RunOK(file'[t], child'[t], clock'[t], starter'[t], wd'[t])
    BY <1>1, <1>2, <1>3, <1>4 DEF WatchBudget, startVars, RunOK, FileRecord, ChildSet, ClockSet,
       DogSet, AliveProcs, ExitedProcs, StarterSet
  <2>. QED
    BY <1>1, <1>2, <1>4, <2>1, OneRunStep DEF WatchBudget, startVars
<1>5. CASE WatchKeep(t)
  <2>1. RunOK(file'[t], child'[t], clock'[t], starter'[t], wd'[t])
    BY <1>1, <1>2, <1>3, <1>5 DEF WatchKeep, startVars, RunOK, FileRecord, ChildSet, ClockSet,
       DogSet, AliveProcs, ExitedProcs, StarterSet
  <2>. QED
    BY <1>1, <1>2, <1>5, <2>1, OneRunStep DEF WatchKeep, startVars
<1>6. CASE WatchKill(t)
  <2>1. file'[t].state = file[t].state /\ file'[t].pid = file[t].pid /\ file'[t].cancel = file[t].cancel
    BY <1>1, <1>6 DEF WatchKill, FileRecord
  <2>2. wd[t].pc = "probe" /\ starter' = starter
    BY <1>6 DEF WatchKill, startVars
  <2>3. \/ wd'[t].pc = "reap" /\ child'[t].proc \notin AliveProcs
        \/ wd'[t].pc = "none" /\ child'[t].proc \notin AliveProcs
    BY <1>1, <1>2, <1>6 DEF WatchKill, NoDog, DogSet, ChildSet, Alive, AliveProcs
  <2>4. child'[t].reused = child[t].reused /\ child'[t].struck = child[t].struck
    BY <1>1, <1>6 DEF WatchKill, ChildSet
  <2>5. child'[t].reused => child'[t].proc \in ExitedProcs
    BY <1>1, <1>3, <1>6 DEF WatchKill, RunOK, ChildSet, Alive, ExitedProcs
  <2>9. RunOK(file'[t], child'[t], clock'[t], starter'[t], wd'[t])
    BY <1>3, <2>1, <2>2, <2>3, <2>4, <2>5 DEF RunOK
  <2>. QED
    BY <1>1, <1>2, <1>6, <2>9, OneRunStep DEF WatchKill, startVars
<1>7. CASE WatchReapFinished(t)
  <2>1. RunOK(file'[t], child'[t], clock'[t], starter'[t], wd'[t])
    BY <1>1, <1>2, <1>3, <1>7 DEF WatchReapFinished, startVars, RunOK, FileRecord, ChildSet,
       ClockSet, DogSet, AliveProcs, ExitedProcs, StarterSet
  <2>. QED
    BY <1>1, <1>2, <1>7, <2>1, OneRunStep DEF WatchReapFinished, startVars
<1>8. CASE WatchExit(t)
  <2>1. RunOK(file'[t], child'[t], clock'[t], starter'[t], wd'[t])
    BY <1>1, <1>2, <1>3, <1>8 DEF WatchExit, startVars, RunOK, FileRecord, ChildSet, ClockSet,
       DogSet, AliveProcs, ExitedProcs, StarterSet, Alive
  <2>. QED
    BY <1>1, <1>2, <1>8, <2>1, OneRunStep DEF WatchExit, startVars
<1>9. CASE WatchFinish(t)
  <2>1. RunOK(file'[t], child'[t], clock'[t], starter'[t], wd'[t])
    BY <1>1, <1>2, <1>3, <1>9 DEF WatchFinish, startVars, RunOK, FileRecord, ChildSet, ClockSet,
       DogSet, AliveProcs, ExitedProcs, StarterSet, FinalStatus, Closed, TerminalStates, NoDog
  <2>. QED
    BY <1>1, <1>2, <1>9, <2>1, OneRunStep DEF WatchFinish, startVars
<1>10. CASE WatchTell(t)
  <2>1. file'[t].state = file[t].state /\ file'[t].pid = file[t].pid /\ file'[t].cancel = file[t].cancel
    BY <1>1, <1>10 DEF WatchTell, WakeQueued, WakeSent, FileRecord
  <2>2. wd'[t].pc \in {"send", "none"} /\ wd[t].pc \in {"tell", "send"}
    BY <1>2, <1>10 DEF WatchTell, NoDog, DogSet
  <2>9. RunOK(file'[t], child'[t], clock'[t], starter'[t], wd'[t])
    BY <1>3, <1>10, <2>1, <2>2 DEF WatchTell, startVars, RunOK
  <2>. QED
    BY <1>1, <1>2, <1>10, <2>9, OneRunStep DEF WatchTell, startVars, WakeQueued
<1>11. CASE WatchSent(t)
  <2>1. file'[t].state = file[t].state /\ file'[t].pid = file[t].pid /\ file'[t].cancel = file[t].cancel
    BY <1>1, <1>11 DEF WatchSent, WakeQueued, WakeSent, FileRecord
  <2>2. wd'[t].pc \in {"send", "none"} /\ wd[t].pc \in {"tell", "send"}
    BY <1>2, <1>11 DEF WatchSent, NoDog, DogSet
  <2>9. RunOK(file'[t], child'[t], clock'[t], starter'[t], wd'[t])
    BY <1>3, <1>11, <2>1, <2>2 DEF WatchSent, startVars, RunOK
  <2>. QED
    BY <1>1, <1>2, <1>11, <2>9, OneRunStep DEF WatchSent, startVars, WakeQueued, WakeSent
<1>12. CASE SessionTakesFromWatchdog(t)
  <2>1. RunOK(file'[t], child'[t], clock'[t], starter'[t], wd'[t])
    BY <1>1, <1>2, <1>3, <1>12 DEF SessionTakesFromWatchdog, startVars, RunOK, FileRecord,
       ChildSet, ClockSet, DogSet, AliveProcs, ExitedProcs, StarterSet
  <2>. QED
    BY <1>1, <1>2, <1>12, <2>1, OneRunStep DEF SessionTakesFromWatchdog, startVars
<1>13. ASSUME NEW p \in {"run", "fin"}, ChildSpeaks(t, p)
      PROVE  RunInv'
  <2>1. file'[t].state = file[t].state /\ file'[t].pid = file[t].pid /\ file'[t].cancel = file[t].cancel
    BY <1>1, <1>13 DEF ChildSpeaks, FileRecord
  <2>2. child'[t].reused = child[t].reused /\ child'[t].struck = child[t].struck /\ child'[t].proc \in AliveProcs
    BY <1>1, <1>13 DEF ChildSpeaks, ChildSet, AliveProcs
  <2>3. child[t].proc = "run" /\ wd[t].pc \in {"poll", "probe"} /\ wd' = wd /\ starter' = starter
    BY <1>13 DEF ChildSpeaks, Pumping, startVars
  <2>4. starter[t] = "done" /\ ~child[t].reused
    BY <1>3, <2>3 DEF RunOK, ExitedProcs
  <2>9. RunOK(file'[t], child'[t], clock'[t], starter'[t], wd'[t])
    BY <1>3, <2>1, <2>2, <2>3, <2>4 DEF RunOK, AliveProcs
  <2>. QED
    BY <1>1, <1>2, <1>13, <2>9, OneRunStep DEF ChildSpeaks, startVars
<1>14. CASE Cancel(t)
  <2>1. /\ file[t].state = "running" /\ starter[t] # "spawn"
        /\ starter' = starter /\ wd' = wd /\ clock' = clock
    BY <1>14 DEF Cancel
  <2>2. starter[t] \notin {"idle", "probe"} /\ file[t].state \notin TerminalStates
    BY <1>3, <2>1 DEF RunOK, TerminalStates
  <2>3. ASSUME ~file[t].pid
        PROVE  RunOK(file'[t], child'[t], clock'[t], starter'[t], wd'[t])
    <3>1. file'[t].state = "cancelled" /\ ~file'[t].pid
      <4>1. file'[t] = [Closed(file[t], "cancelled") EXCEPT !.cancel = TRUE]
        BY <1>1, <1>14, <2>3 DEF Cancel
      <4>. QED
        BY <1>1, <2>3, <4>1 DEF Closed, FileRecord
    <3>2. child' = child
      BY <1>14, <2>3 DEF Cancel
    <3>. QED
      BY <1>3, <2>1, <2>2, <2>3, <3>1, <3>2 DEF RunOK, AliveProcs
  <2>4. ASSUME file[t].pid
        PROVE  RunOK(file'[t], child'[t], clock'[t], starter'[t], wd'[t])
    <3>1. file'[t].state = "cancelling" /\ file'[t].pid
      <4>1. file'[t] = [Closed(file[t], "cancelling") EXCEPT !.cancel = TRUE]
        BY <1>1, <1>14, <2>4 DEF Cancel
      <4>. QED
        BY <1>1, <2>4, <4>1 DEF Closed, FileRecord
    <3>2. ~child[t].reused /\ child'[t] = Signalled(child[t], "term")
      BY <1>1, <1>14, <2>4 DEF Cancel, VerifyKillTarget
    <3>3. /\ child'[t].reused = child[t].reused /\ child'[t].struck = child[t].struck
          /\ child'[t].proc \in AliveProcs <=> child[t].proc \in AliveProcs
      BY <1>1, <3>2 DEF Signalled, ChildSet, AliveProcs
    <3>. QED
      BY <1>3, <2>1, <2>2, <2>4, <3>1, <3>2, <3>3 DEF RunOK, TerminalStates
  <2>9. RunOK(file'[t], child'[t], clock'[t], starter'[t], wd'[t])
    BY <2>3, <2>4
  <2>. QED
    BY <1>1, <1>2, <1>14, <2>9, OneRunStep DEF Cancel, startVars
<1>15. CASE Escalate(t)
  <2>1. file'[t].state = file[t].state /\ file'[t].pid = file[t].pid /\ file'[t].cancel = file[t].cancel
    BY <1>1, <1>15 DEF Escalate, FileRecord
  <2>2. starter' = starter /\ wd' = wd /\ clock' = clock
    BY <1>15 DEF Escalate
  <2>3. \/ child'[t] = child[t]
        \/ /\ ~child[t].reused /\ file[t].pid
           /\ child'[t] = Signalled(child[t], "err")
    BY <1>1, <1>15 DEF Escalate, VerifyKillTarget, PidAlive
  <2>4. \/ child'[t] = child[t]
        \/ /\ ~child'[t].reused /\ file[t].pid /\ child'[t].proc = "err"
           /\ child'[t].struck = child[t].struck
    BY <1>1, <2>3 DEF Signalled, ChildSet
  <2>9. RunOK(file'[t], child'[t], clock'[t], starter'[t], wd'[t])
    BY <1>3, <2>1, <2>2, <2>4 DEF RunOK, AliveProcs
  <2>. QED
    BY <1>1, <1>2, <1>15, <2>9, OneRunStep DEF Escalate, startVars
<1>16. CASE Ask(t)
  <2>1. file'[t].state = file[t].state /\ file'[t].pid = file[t].pid /\ file'[t].cancel = file[t].cancel
    BY <1>1, <1>16 DEF Ask, FileRecord
  <2>9. RunOK(file'[t], child'[t], clock'[t], starter'[t], wd'[t])
    BY <1>3, <1>16, <2>1, SameRun DEF Ask, startVars
  <2>. QED
    BY <1>1, <1>2, <1>16, <2>9, OneRunStep DEF Ask, startVars
<1>17. ASSUME NEW r \in Rules, DenyTool(t, r)
      PROVE  RunInv'
  <2>1. PICK n : file' = [file EXCEPT ![t].noted = @ \cup n, ![t].fresh = TRUE]
    BY <1>17 DEF DenyTool
  <2>2. file'[t].state = file[t].state /\ file'[t].pid = file[t].pid /\ file'[t].cancel = file[t].cancel
    BY <1>1, <2>1 DEF FileRecord
  <2>9. RunOK(file'[t], child'[t], clock'[t], starter'[t], wd'[t])
    BY <1>3, <1>17, <2>2, SameRun DEF DenyTool, startVars
  <2>. QED
    BY <1>1, <1>2, <1>17, <2>9, OneRunStep DEF DenyTool, startVars
<1>. QED
  BY <1>4, <1>5, <1>6, <1>7, <1>8, <1>9, <1>10, <1>11, <1>12, <1>13, <1>14, <1>15, <1>16,
     <1>17 DEF Watching

\* Who reads, tells or wakes keeps the runs in order: a file is closed only
\* where it may be, and the wake state is no part of the run.
LEMMA ReadRun ==
  ASSUME TypeInv, RunInv, NEW t \in Tasks, Read(t) \/ Answer(t)
  PROVE  RunInv'
<1>1. file'[t] = MarkStale(t) /\ \A u \in Tasks \ {t} : file'[u] = file[u]
  BY DEF TypeInv, Read, Answer
<1>2. UNCHANGED <<child, clock, starter, wd>>
  BY DEF Read, Answer, startVars
<1>3. RunOK(file'[t], child[t], clock[t], starter[t], wd[t])
  BY <1>1, MarkStaleCloses, CloseRun DEF RunInv
<1>. QED
  BY <1>1, <1>2, <1>3, OneRunStep

\* A list, the cleanup and a round of the reaper keep the runs in order.
LEMMA ReaderRun ==
  ASSUME TypeInv, RunInv, ReadAll \/ Cleanup \/ ReaperScan
  PROVE  RunInv'
<1>1. CASE ReadAll \/ Cleanup
  <2>1. UNCHANGED <<child, clock, starter, wd>>
    BY <1>1 DEF ReadAll, Cleanup, startVars
  <2>2. \A t \in Tasks : file'[t] = file[t] \/ file'[t] = MarkStale(t)
    BY <1>1 DEF ReadAll, Cleanup
  <2>3. \A t \in Tasks : RunOK(file'[t], child[t], clock[t], starter[t], wd[t])
    BY <2>2, MarkStaleCloses, CloseRun DEF RunInv
  <2>. QED
    BY <2>1, <2>3 DEF RunInv
<1>2. CASE ReaperScan
  <2>1. UNCHANGED <<clock, starter, wd>>
    BY <1>2 DEF ReaperScan, startVars
  <2>. SUFFICES ASSUME NEW t \in Tasks
                PROVE  RunOK(file'[t], child'[t], clock[t], starter[t], wd[t])
    BY <2>1 DEF RunInv
  <2>2. /\ RunOK(file[t], child[t], clock[t], starter[t], wd[t])
        /\ file[t] \in FileRecord /\ child[t] \in ChildSet
    BY DEF RunInv, TypeInv
  <2>3. /\ \/ file'[t] = ScanOnce(t)
           \/ ScanOnce(t) = file[t] /\ \E n : file'[t] = [file[t] EXCEPT !.noted = @ \cup n]
           \/ /\ file[t].state # "running"
              /\ \E n : file'[t] = [file[t] EXCEPT !.noted = @ \cup n]
        /\ child'[t] = IF ReaperEnds(t) /\ VerifyKillTarget(t) THEN Signalled(child[t], "err") ELSE child[t]
    <3>. DEFINE closed == {u \in {v \in Tasks : file[v].state = "running"} : ScanOnce(u) # file[u]}
    <3>1. PICK noted :
            /\ file' = [u \in Tasks |-> IF u \in closed THEN ScanOnce(u)
                                        ELSE [file[u] EXCEPT !.noted = @ \cup noted[u]]]
            /\ child' = [u \in Tasks |-> IF ReaperEnds(u) /\ VerifyKillTarget(u)
                                         THEN Signalled(child[u], "err") ELSE child[u]]
      BY <1>2 DEF ReaperScan
    <3>2. file'[t] = IF t \in closed THEN ScanOnce(t)
                     ELSE [file[t] EXCEPT !.noted = @ \cup noted[t]]
      BY <3>1
    <3>3. t \notin closed => file[t].state # "running" \/ ScanOnce(t) = file[t]
      OBVIOUS
    <3>. HIDE DEF closed
    <3>. QED
      BY <3>1, <3>2, <3>3
  <2>4. \A n, g : g = [file[t] EXCEPT !.noted = @ \cup n] =>
           g.state = file[t].state /\ g.pid = file[t].pid /\ g.cancel = file[t].cancel
    BY <2>2 DEF FileRecord
  <2>5. CASE ReaperEnds(t) /\ VerifyKillTarget(t)
    <3>1. file[t].state = "running" /\ PidAlive(t) /\ file[t].pid /\ ~child[t].reused
      BY <2>5 DEF ReaperEnds, VerifyKillTarget, PidAlive
    <3>2. ScanOnce(t) = Closed(file[t], "timeout")
      BY <2>5, <3>1 DEF ScanOnce
    <3>3. ScanOnce(t) # file[t]
      BY <2>2, <3>1, <3>2, ClosedFields
    <3>4. file'[t] = Closed(file[t], "timeout")
      BY <2>3, <3>1, <3>2, <3>3
    <3>5. child'[t].proc = "err" /\ ~child'[t].reused /\ child'[t].struck = child[t].struck
      BY <2>2, <2>3, <2>5, <3>1 DEF Signalled, ChildSet, PidAlive, Alive
    <3>6. file'[t].state = "timeout" /\ file'[t].pid /\ file'[t].cancel = file[t].cancel
      BY <2>2, <3>1, <3>4, ClosedFields
    <3>. QED
      BY <2>2, <3>1, <3>5, <3>6 DEF RunOK, AliveProcs
  <2>6. CASE ~(ReaperEnds(t) /\ VerifyKillTarget(t))
    <3>1. child'[t] = child[t]
      BY <2>3, <2>6
    <3>2. CASE file'[t] = ScanOnce(t)
      BY <2>2, <2>6, <3>1, <3>2, ScanOnceCloses, CloseRun
    <3>3. ASSUME NEW n, file'[t] = [file[t] EXCEPT !.noted = @ \cup n]
          PROVE  RunOK(file'[t], child'[t], clock[t], starter[t], wd[t])
      BY <2>2, <2>4, <3>1, <3>3, SameRun
    <3>. QED
      BY <2>3, <3>2, <3>3
  <2>. QED
    BY <2>5, <2>6
<1>. QED
  BY <1>1, <1>2

\* The reports of the reaper and of the drain keep the runs in order.
LEMMA TellRun ==
  ASSUME TypeInv, RunInv,
         \/ NotifyTell \/ NotifySent \/ \E job \in reap.todo : NotifyBegin(job)
         \/ DrainSent
  PROVE  RunInv'
<1>1. UNCHANGED <<child, clock, starter, wd>>
  BY DEF NotifyTell, NotifySent, NotifyBegin, DrainSent, startVars
<1>. SUFFICES ASSUME NEW t \in Tasks
              PROVE  RunOK(file'[t], child[t], clock[t], starter[t], wd[t])
  BY <1>1 DEF RunInv
<1>2. file \in [Tasks -> FileRecord] /\ RunOK(file[t], child[t], clock[t], starter[t], wd[t])
  BY DEF TypeInv, RunInv
<1>3. file'[t].state = file[t].state /\ file'[t].pid = file[t].pid /\ file'[t].cancel = file[t].cancel
  <2>1. CASE NotifyTell \/ NotifySent
    BY <1>2, <2>1 DEF NotifyTell, NotifySent, WakeQueued, WakeSent, FileRecord
  <2>2. CASE DrainSent
    BY <1>2, <2>2 DEF DrainSent, FileRecord
  <2>3. ASSUME NEW job \in reap.todo, NotifyBegin(job)
        PROVE  file'[t].state = file[t].state /\ file'[t].pid = file[t].pid /\ file'[t].cancel = file[t].cancel
    <3>1. CASE file' = file
      BY <3>1
    <3>2. CASE file' = [file EXCEPT ![job[1]].wake = "pending", ![job[1]].fresh = TRUE]
      BY <1>2, <3>2 DEF FileRecord
    <3>. QED
      BY <2>3, <3>1, <3>2 DEF NotifyBegin
  <2>. QED
    BY <2>1, <2>2, <2>3
<1>. QED
  BY <1>2, <1>3, SameRun

\* A crash and a restart keep the runs in order.
LEMMA HostRun ==
  ASSUME TypeInv, RunInv, DownInv, Crash \/ Restart
  PROVE  RunInv'
<1>1. CASE Crash
  <2>. SUFFICES ASSUME NEW t \in Tasks
                PROVE  RunOK(file[t], child'[t], clock[t], starter'[t], wd'[t])
    BY <1>1 DEF Crash, RunInv
  <2>1. RunOK(file[t], child[t], clock[t], starter[t], wd[t]) /\ child[t] \in ChildSet
    BY DEF RunInv, TypeInv
  <2>2. starter'[t] = (IF starter[t] = "idle" THEN "idle" ELSE "done") /\ wd'[t].pc = "none"
    BY <1>1 DEF Crash, NoDog
  <2>3. \/ child'[t] = child[t]
        \/ starter[t] = "spawn" /\ child'[t] = [child[t] EXCEPT !.proc = "run"]
    BY <1>1 DEF Crash
  <2>4. CASE child'[t] = child[t]
    BY <2>1, <2>2, <2>4 DEF RunOK
  <2>5. CASE starter[t] = "spawn" /\ child'[t] = [child[t] EXCEPT !.proc = "run"]
    <3>1. child'[t].proc = "run" /\ child'[t].reused = child[t].reused /\ child'[t].struck = child[t].struck
      BY <2>1, <2>5 DEF ChildSet
    <3>2. ~file[t].pid /\ ~child[t].reused /\ file[t].state = "running"
      BY <2>1, <2>5 DEF RunOK, ExitedProcs
    <3>. QED
      BY <2>1, <2>2, <2>5, <3>1, <3>2 DEF RunOK
  <2>. QED
    BY <2>3, <2>4, <2>5
<1>2. CASE Restart
  <2>1. UNCHANGED <<child, clock, starter, wd>>
    BY <1>2 DEF Restart, startVars
  <2>. SUFFICES ASSUME NEW t \in Tasks
                PROVE  RunOK(file'[t], child[t], clock[t], starter[t], wd[t])
    BY <2>1 DEF RunInv
  <2>2. PICK b : file'[t] = [OrphanCleanup(t) EXCEPT !.dog = b]
    BY <1>2 DEF Restart
  <2>3. OrphanCleanup(t) \in FileRecord
    BY OrphanCleanupType
  <2>. DEFINE g == OrphanCleanup(t)
  <2>4. RunOK(g, child[t], clock[t], starter[t], wd[t])
    BY <1>2, OrphanCleanupCloses, CloseRun DEF Restart, DownInv, RunInv
  <2>. HIDE DEF g
  <2>5. file'[t].state = g.state /\ file'[t].pid = g.pid /\ file'[t].cancel = g.cancel
    BY <2>2, <2>3 DEF FileRecord, g
  <2>. QED
    BY <2>4, <2>5, SameRun
<1>. QED
  BY <1>1, <1>2

\* A plugin that is down starts and watches nothing.
LEMMA DownStep ==
  ASSUME TypeInv, DownInv, Next
  PROVE  DownInv'
<1>1. CASE Crash
  BY <1>1 DEF Crash, DownInv, NoDog
<1>2. CASE Restart
  BY <1>2 DEF Restart, DownInv, TypeInv
<1>3. CASE UNCHANGED <<host, starter, wd>>
  BY <1>3 DEF DownInv
<1>4. CASE host.up /\ UNCHANGED host
  BY <1>4 DEF DownInv
<1>5. ASSUME NEW t \in Tasks,
             \/ Starting(t) \/ Watching(t) \/ World(t) \/ Cancel(t) \/ Escalate(t) \/ Read(t)
             \/ Ask(t) \/ Answer(t) \/ HoldEnds(t) \/ Resolve(t) \/ SessionTakesFromWatchdog(t)
             \/ \E r \in Rules : DenyTool(t, r) \/ HookDeny(t, r)
      PROVE  (host.up /\ UNCHANGED host) \/ UNCHANGED <<host, starter, wd>>
  <2>1. CASE Starting(t) \/ Watching(t)
    BY <2>1 DEF Starting, StartClaim, StartWrite, StartLock, SpawnOk, SpawnFail, WatchStart,
                Watching, WatchBudget, WatchKeep, WatchKill, WatchReapFinished, WatchExit,
                WatchFinish, WatchTell, WatchSent
  <2>2. CASE World(t)
    BY <2>2 DEF World, ChildExit, ReusePid, Spend, Silence, Quiet, ChildSpeaks, Pumping, startVars
  <2>. QED
    BY <1>5, <2>1, <2>2 DEF Cancel, Escalate, Read, Ask, Pumping, Answer, HoldEnds, Resolve,
                SessionTakesFromWatchdog, DenyTool, HookDeny, startVars
<1>6. ASSUME \/ ReadAll \/ Cleanup \/ Reaping \/ Draining \/ SessionTakesFromReaper
             \/ SessionTakesFromQueue \/ \E id \in Ids : AgeRecord(id)
      PROVE  (host.up /\ UNCHANGED host) \/ UNCHANGED <<host, starter, wd>>
  BY <1>6 DEF ReadAll, Cleanup, Reaping, ReaperScan, NotifyTell, NotifySent, NotifyBegin, Draining,
              DrainProbe, DrainSent, DrainStart, DrainNext, SessionTakesFromReaper,
              SessionTakesFromQueue, AgeRecord, startVars
<1>. QED
  BY <1>1, <1>2, <1>3, <1>4, <1>5, <1>6 DEF Next

\* Every step keeps the runs in order.
LEMMA RunStep ==
  ASSUME TypeInv, RunInv, DownInv, [Next]_vars
  PROVE  RunInv' /\ DownInv'
<1>1. CASE UNCHANGED vars
  BY <1>1 DEF RunInv, DownInv, vars, startVars
<1>2. ASSUME UNCHANGED <<file, child, clock, starter, wd>>
      PROVE  RunInv'
  BY <1>2 DEF RunInv
<1>3. CASE Next
  <2>1. DownInv'
    BY <1>3, DownStep
  <2>2. ASSUME NEW t \in Tasks,
               \/ Starting(t) \/ Watching(t) \/ World(t) \/ Cancel(t) \/ Escalate(t) \/ Read(t)
               \/ Ask(t) \/ Answer(t) \/ HoldEnds(t) \/ Resolve(t) \/ SessionTakesFromWatchdog(t)
               \/ \E r \in Rules : DenyTool(t, r) \/ HookDeny(t, r)
        PROVE  RunInv'
    <3>1. CASE HoldEnds(t) \/ Resolve(t) \/ \E r \in Rules : HookDeny(t, r)
      BY <1>2, <3>1 DEF HoldEnds, Resolve, HookDeny, startVars
    <3>2. CASE Starting(t) \/ World(t)
      BY <3>2, StartRun, WatchRun DEF Starting, World
    <3>. QED
      BY <2>2, <3>1, <3>2, WatchRun, ReadRun
  <2>3. ASSUME Reaping \/ Draining
        PROVE  RunInv'
    <3>1. CASE DrainProbe \/ (\E ids \in SUBSET Ids : DrainStart(ids)) \/ \E due \in drain.due : DrainNext(due)
      BY <1>2, <3>1 DEF DrainProbe, DrainStart, DrainNext, startVars
    <3>. QED
      BY <2>3, <3>1, ReaderRun, TellRun DEF Reaping, Draining
  <2>4. ASSUME \/ SessionTakesFromReaper \/ SessionTakesFromQueue
               \/ \E id \in Ids : AgeRecord(id)
        PROVE  RunInv'
    BY <1>2, <2>4 DEF SessionTakesFromReaper, SessionTakesFromQueue, AgeRecord, startVars
  <2>. QED
    BY <1>3, <2>1, <2>2, <2>3, <2>4, ReaderRun, HostRun DEF Next
<1>. QED
  BY <1>1, <1>3
-----------------------------------------------------------------------------
(* What a step does to a file and to the reporters of a run *)

\* What a round of the reaper makes of a file.
LEMMA ScanFile ==
  ASSUME ReaperScan, NEW t \in Tasks
  PROVE  \/ file[t].state = "running" /\ file'[t] = ScanOnce(t)
         \/ \E n : file'[t] = [file[t] EXCEPT !.noted = @ \cup n]
<1>. DEFINE closed == {u \in {v \in Tasks : file[v].state = "running"} : ScanOnce(u) # file[u]}
<1>1. PICK noted :
        file' = [u \in Tasks |-> IF u \in closed THEN ScanOnce(u)
                                ELSE [file[u] EXCEPT !.noted = @ \cup noted[u]]]
  BY DEF ReaperScan
<1>2. t \in closed => file[t].state = "running"
  OBVIOUS
<1>. HIDE DEF closed
<1>3. file'[t] = IF t \in closed THEN ScanOnce(t) ELSE [file[t] EXCEPT !.noted = @ \cup noted[t]]
  BY <1>1
<1>. QED
  BY <1>2, <1>3

\* A file that is past running stays so, and a cancel request is not taken
\* back.
LEMMA FileStep ==
  ASSUME TypeInv, RunInv, DownInv, Next, NEW u \in Tasks
  PROVE  /\ Past(u) => Past(u)'
         /\ file[u].cancel => file'[u].cancel
<1>. DEFINE Keeps == file'[u].state = file[u].state /\ file'[u].cancel = file[u].cancel
            Ends == file'[u].state \in TerminalStates \cup {"cancelling"} /\ (file[u].cancel => file'[u].cancel)
            Goal == (Past(u) => Past(u)') /\ (file[u].cancel => file'[u].cancel)
<1>1. file \in [Tasks -> FileRecord] /\ file[u] \in FileRecord
  BY DEF TypeInv
<1>2. RunOK(file[u], child[u], clock[u], starter[u], wd[u])
  BY DEF RunInv
<1>3. Keeps \/ Ends => Goal
  BY DEF Past, TerminalStates
<1>4. \A x \in TerminalStates : file'[u] = Closed(file[u], x) => Ends
  BY <1>1, ClosedFields
<1>5. file'[u] = file[u] \/ file'[u] = MarkStale(u) => Goal
  <2>1. file'[u] = file[u] => Keeps
    OBVIOUS
  <2>2. file'[u] = MarkStale(u) => Keeps \/ Ends
    BY <1>4, MarkStaleCloses
  <2>. HIDE DEF Keeps, Ends, Goal
  <2>. QED
    BY <1>3, <2>1, <2>2
<1>6. ASSUME NEW t \in Tasks, Starting(t) PROVE Goal
  <2>1. CASE StartWrite(t)
    <3>1. t = u => ~file[u].cancel /\ ~Past(u)
      BY <1>2, <2>1 DEF StartWrite, RunOK, Past
    <3>2. t # u => Keeps
      BY <1>1, <2>1 DEF StartWrite
    <3>. QED
      BY <1>3, <3>1, <3>2
  <2>2. CASE StartClaim(t) \/ StartLock(t)
    BY <1>5, <2>2 DEF StartClaim, StartLock
  <2>3. CASE SpawnOk(t)
    <3>1. Keeps
      BY <1>1, <2>3 DEF SpawnOk, FileRecord
    <3>. QED
      BY <1>3, <3>1
  <2>4. CASE WatchStart(t)
    <3>1. Keeps
      BY <1>1, <2>4 DEF WatchStart, FileRecord
    <3>. QED
      BY <1>3, <3>1
  <2>5. CASE SpawnFail(t)
    <3>1. file'[u] = file[u] \/ file'[u] = Closed(file[u], "failed")
      BY <1>1, <2>5 DEF SpawnFail
    <3>2. Keeps \/ Ends
      BY <1>4, <3>1 DEF TerminalStates
    <3>. QED
      BY <1>3, <3>2
  <2>. QED
    BY <1>6, <2>1, <2>2, <2>3, <2>4, <2>5 DEF Starting
<1>7. ASSUME NEW t \in Tasks, Watching(t) PROVE Goal
  <2>1. CASE WatchBudget(t) \/ WatchKeep(t) \/ WatchReapFinished(t) \/ WatchExit(t)
    BY <1>5, <2>1 DEF WatchBudget, WatchKeep, WatchReapFinished, WatchExit
  <2>2. CASE WatchKill(t)
    <3>1. Keeps
      BY <1>1, <2>2 DEF WatchKill, FileRecord
    <3>. QED
      BY <1>3, <3>1
  <2>3. CASE WatchFinish(t)
    <3>1. \/ file'[u] = file[u]
          \/ \E w : file'[u] = [Closed(file[u], FinalStatus(u)) EXCEPT !.term = FALSE, !.wake = w]
      BY <1>1, <2>3 DEF WatchFinish
    <3>2. FinalStatus(u) \in TerminalStates
      BY DEF FinalStatus, TerminalStates
    <3>3. ASSUME NEW w, file'[u] = [Closed(file[u], FinalStatus(u)) EXCEPT !.term = FALSE, !.wake = w]
          PROVE  Ends
      <4>1. file'[u].state = FinalStatus(u) /\ file'[u].cancel = file[u].cancel
        BY <1>1, <3>3 DEF Closed, FileRecord
      <4>. QED
        BY <3>2, <4>1
    <3>. QED
      BY <1>3, <3>1, <3>3
  <2>4. CASE WatchTell(t)
    <3>1. Keeps
      BY <1>1, <2>4 DEF WatchTell, WakeQueued, FileRecord
    <3>. QED
      BY <1>3, <3>1
  <2>5. CASE WatchSent(t)
    <3>1. \E w : file' = [file EXCEPT ![t].wake = w]
      BY <2>5 DEF WatchSent, WakeQueued, WakeSent
    <3>2. Keeps
      BY <1>1, <3>1 DEF FileRecord
    <3>. QED
      BY <1>3, <3>2
  <2>. QED
    BY <1>7, <2>1, <2>2, <2>3, <2>4, <2>5 DEF Watching
<1>8. ASSUME NEW t \in Tasks,
             \/ World(t) \/ Cancel(t) \/ Escalate(t) \/ Read(t) \/ Ask(t) \/ Answer(t)
             \/ HoldEnds(t) \/ Resolve(t) \/ SessionTakesFromWatchdog(t)
             \/ \E r \in Rules : DenyTool(t, r) \/ HookDeny(t, r)
      PROVE  Goal
  <2>1. CASE World(t)
    <3>1. Keeps
      BY <1>1, <2>1 DEF World, ChildExit, ReusePid, Spend, Silence, Quiet, ChildSpeaks, FileRecord
    <3>. QED
      BY <1>3, <3>1
  <2>2. CASE Cancel(t)
    <3>1. \/ file'[u] = file[u]
          \/ \E x \in {"cancelled", "cancelling"} : file'[u] = [Closed(file[u], x) EXCEPT !.cancel = TRUE]
      BY <1>1, <2>2 DEF Cancel
    <3>2. ASSUME NEW x \in {"cancelled", "cancelling"}, file'[u] = [Closed(file[u], x) EXCEPT !.cancel = TRUE]
          PROVE  Ends
      <4>1. file'[u].state = x /\ file'[u].cancel
        BY <1>1, <3>2 DEF Closed, FileRecord
      <4>. QED
        BY <4>1 DEF TerminalStates
    <3>. QED
      BY <1>3, <3>1, <3>2
  <2>3. CASE Escalate(t)
    <3>1. Keeps
      BY <1>1, <2>3 DEF Escalate, FileRecord
    <3>. QED
      BY <1>3, <3>1
  <2>4. CASE Read(t) \/ Answer(t)
    <3>1. file'[u] = file[u] \/ file'[u] = MarkStale(u)
      BY <1>1, <2>4 DEF Read, Answer
    <3>. QED
      BY <1>5, <3>1
  <2>5. CASE Ask(t)
    <3>1. Keeps
      BY <1>1, <2>5 DEF Ask, FileRecord
    <3>. QED
      BY <1>3, <3>1
  <2>6. ASSUME NEW r \in Rules, DenyTool(t, r) PROVE Goal
    <3>1. PICK n : file' = [file EXCEPT ![t].noted = @ \cup n, ![t].fresh = TRUE]
      BY <2>6 DEF DenyTool
    <3>2. Keeps
      BY <1>1, <3>1 DEF FileRecord
    <3>. QED
      BY <1>3, <3>2
  <2>7. CASE HoldEnds(t) \/ Resolve(t) \/ SessionTakesFromWatchdog(t) \/ \E r \in Rules : HookDeny(t, r)
    BY <1>5, <2>7 DEF HoldEnds, Resolve, SessionTakesFromWatchdog, HookDeny
  <2>. QED
    BY <1>8, <2>1, <2>2, <2>3, <2>4, <2>5, <2>6, <2>7
<1>9. CASE ReadAll \/ Cleanup
  <2>1. file'[u] = file[u] \/ file'[u] = MarkStale(u)
    BY <1>9 DEF ReadAll, Cleanup
  <2>. QED
    BY <1>5, <2>1
<1>10. CASE Reaping
  <2>1. CASE ReaperScan
    <3>1. file'[u] = ScanOnce(u) \/ \E n : file'[u] = [file[u] EXCEPT !.noted = @ \cup n]
      BY <2>1, ScanFile
    <3>2. ASSUME file'[u] = ScanOnce(u) PROVE Keeps \/ Ends
      BY <1>4, <3>2, ScanOnceCloses DEF TerminalStates
    <3>3. ASSUME NEW n, file'[u] = [file[u] EXCEPT !.noted = @ \cup n] PROVE Keeps
      BY <1>1, <3>3 DEF FileRecord
    <3>. HIDE DEF Keeps, Ends
    <3>. QED
      BY <1>3, <3>1, <3>2, <3>3
  <2>2. CASE NotifyTell \/ NotifySent
    <3>1. Keeps
      BY <1>1, <2>2 DEF NotifyTell, NotifySent, WakeQueued, WakeSent, FileRecord
    <3>. QED
      BY <1>3, <3>1
  <2>3. ASSUME NEW job \in reap.todo, NotifyBegin(job) PROVE Goal
    <3>1. CASE file' = file
      BY <1>5, <3>1
    <3>2. CASE file' = [file EXCEPT ![job[1]].wake = "pending", ![job[1]].fresh = TRUE]
      <4>1. Keeps
        BY <1>1, <3>2 DEF FileRecord
      <4>. QED
        BY <1>3, <4>1
    <3>. QED
      BY <2>3, <3>1, <3>2 DEF NotifyBegin
  <2>. QED
    BY <1>10, <2>1, <2>2, <2>3 DEF Reaping
<1>11. CASE Draining
  <2>1. CASE DrainSent
    <3>1. Keeps
      BY <1>1, <2>1 DEF DrainSent, FileRecord
    <3>. QED
      BY <1>3, <3>1
  <2>2. CASE DrainProbe \/ (\E ids \in SUBSET Ids : DrainStart(ids)) \/ \E due \in drain.due : DrainNext(due)
    BY <1>5, <2>2 DEF DrainProbe, DrainStart, DrainNext
  <2>. QED
    BY <1>11, <2>1, <2>2 DEF Draining
<1>12. CASE Restart
  <2>1. PICK b : file'[u] = [OrphanCleanup(u) EXCEPT !.dog = b]
    BY <1>12 DEF Restart
  <2>2. OrphanCleanup(u) \in FileRecord
    BY OrphanCleanupType
  <2>3. file'[u].state = OrphanCleanup(u).state /\ file'[u].cancel = OrphanCleanup(u).cancel
    BY <2>1, <2>2 DEF FileRecord
  <2>4. OrphanCleanup(u) = file[u] \/ \E x \in TerminalStates : OrphanCleanup(u) = Closed(file[u], x)
    BY <1>12, OrphanCleanupCloses DEF Restart, DownInv
  <2>5. Keeps \/ Ends
    BY <1>1, <2>3, <2>4, ClosedFields
  <2>. QED
    BY <1>3, <2>5
<1>13. CASE SessionTakesFromReaper \/ SessionTakesFromQueue \/ (\E id \in Ids : AgeRecord(id)) \/ Crash
  BY <1>5, <1>13 DEF SessionTakesFromReaper, SessionTakesFromQueue, AgeRecord, Crash
<1>. QED
  BY <1>6, <1>7, <1>8, <1>9, <1>10, <1>11, <1>12, <1>13 DEF Next

\* The start() call and the watchdog of a run end once.
LEMMA DogStep ==
  ASSUME TypeInv, RunInv, Next, NEW u \in Tasks, ~DogOpen(u)
  PROVE  ~DogOpen(u)'
<1>1. starter \in [Tasks -> StarterSet] /\ wd \in [Tasks -> DogSet]
  BY DEF TypeInv
<1>2. starter[u] = "done" /\ wd[u].pc = "none"
  BY DEF DogOpen
<1>3. UNCHANGED <<starter, wd>> => ~DogOpen(u)'
  BY DEF DogOpen
<1>4. ASSUME NEW t \in Tasks, t # u,
             \A v \in Tasks \ {t} : starter'[v] = starter[v] /\ wd'[v] = wd[v]
      PROVE  ~DogOpen(u)'
  BY <1>2, <1>4 DEF DogOpen
<1>5. ASSUME NEW t \in Tasks,
             \/ Starting(t) \/ Watching(t) \/ SessionTakesFromWatchdog(t)
      PROVE  ~DogOpen(u)'
  <2>1. t # u
    BY <1>2, <1>5 DEF Starting, StartClaim, StartWrite, StartLock, SpawnOk, SpawnFail, WatchStart,
                Watching, WatchBudget, WatchKeep, WatchKill, WatchReapFinished, WatchExit,
                WatchFinish, WatchTell, WatchSent, SessionTakesFromWatchdog
  <2>2. \A v \in Tasks \ {t} : starter'[v] = starter[v] /\ wd'[v] = wd[v]
    <3>1. CASE Starting(t)
      BY <1>1, <3>1 DEF Starting, StartClaim, StartWrite, StartLock, SpawnOk, SpawnFail, WatchStart
    <3>2. CASE Watching(t) \/ SessionTakesFromWatchdog(t)
      BY <1>1, <3>2 DEF Watching, WatchBudget, WatchKeep, WatchKill, WatchReapFinished, WatchExit,
                WatchFinish, WatchTell, WatchSent, SessionTakesFromWatchdog, startVars
    <3>. QED
      BY <1>5, <3>1, <3>2
  <2>. QED
    BY <1>4, <2>1, <2>2
<1>6. ASSUME NEW t \in Tasks,
             \/ World(t) \/ Cancel(t) \/ Escalate(t) \/ Read(t) \/ Ask(t) \/ Answer(t)
             \/ HoldEnds(t) \/ Resolve(t)
             \/ \E r \in Rules : DenyTool(t, r) \/ HookDeny(t, r)
      PROVE  ~DogOpen(u)'
  BY <1>3, <1>6 DEF World, ChildExit, ReusePid, Spend, Silence, Quiet, ChildSpeaks, Cancel,
     Escalate,
              Read, Ask, Answer, HoldEnds, Resolve, DenyTool, HookDeny, startVars
<1>7. CASE \/ ReadAll \/ Cleanup \/ Reaping \/ Draining \/ SessionTakesFromReaper
           \/ SessionTakesFromQueue \/ (\E id \in Ids : AgeRecord(id)) \/ Restart
  BY <1>3, <1>7 DEF ReadAll, Cleanup, Reaping, ReaperScan, NotifyTell, NotifySent, NotifyBegin,
              Draining, DrainProbe, DrainSent, DrainStart, DrainNext, SessionTakesFromReaper,
              SessionTakesFromQueue, AgeRecord, Restart, startVars
<1>8. CASE Crash
  BY <1>2, <1>8 DEF Crash, DogOpen, NoDog
<1>. QED
  BY <1>5, <1>6, <1>7, <1>8 DEF Next

\* The jobs of the reaper that is ensured are its jobs.
LEMMA EnsuredJobs ==
  ASSUME ReapOK(reap), reap' = EnsureReaper(reap)
  PROVE  /\ Jobs' = Jobs
         /\ reap'.pc \in {"tell", "send"} <=> reap.pc \in {"tell", "send"}
         /\ reap'.job = reap.job /\ reap'.todo = reap.todo /\ reap'.landed = reap.landed
         /\ reap'.pc = "send" <=> reap.pc = "send"
<1>1. /\ reap'.job = reap.job /\ reap'.todo = reap.todo /\ reap'.landed = reap.landed
      /\ reap'.pc = IF reap.pc = "off" THEN "idle" ELSE reap.pc
  BY DEF ReapOK, ReapSet, EnsureReaper
<1>. QED
  BY <1>1 DEF Jobs

\* No more jobs than before, of runs that are past running still.
LEMMA FewerJobs ==
  ASSUME ReapInv, ReapOK(reap), Jobs' \subseteq Jobs,
         reap'.pc \in {"tell", "send"} => reap'.job \notin reap'.todo,
         \A t \in Tasks : Past(t) => Past(t)'
  PROVE  /\ ReapInv'
         /\ \A t \in Tasks : ~ReapOpen(t) => ~ReapOpen(t)'
<1>1. \A j \in Jobs : j[1] \in Tasks
  BY DEF Jobs, ReapOK, ReapSet
<1>2. \A j \in Jobs' : j \in Jobs
  OBVIOUS
<1>3. ReapInv'
  BY <1>1, <1>2 DEF ReapInv
<1>4. ASSUME NEW t \in Tasks, ~ReapOpen(t)
      PROVE  ~ReapOpen(t)'
  <2>1. Past(t)' /\ \A j \in Jobs' : j[1] # t
    BY <1>2, <1>4 DEF ReapOpen
  <2>. QED
    BY <2>1 DEF ReapOpen
<1>. QED
  BY <1>3, <1>4

\* The reaper has one job a run, and a run it is past does not come back.
LEMMA ReapStep ==
  ASSUME TypeInv, RunInv, DownInv, ReapInv, Next
  PROVE  /\ ReapInv'
         /\ \A t \in Tasks : ~ReapOpen(t) => ~ReapOpen(t)'
<1>1. ReapOK(reap) /\ reap \in ReapSet
  BY DEF TypeInv, ReapOK
<1>2. \A t \in Tasks : Past(t) => Past(t)'
  BY FileStep
<1>. DEFINE Goal == ReapInv' /\ \A t \in Tasks : ~ReapOpen(t) => ~ReapOpen(t)'
<1>3. CASE reap' = reap \/ reap' = EnsureReaper(reap)
  <2>1. Jobs' = Jobs
    BY <1>1, <1>3, EnsuredJobs DEF Jobs
  <2>2. reap'.pc \in {"tell", "send"} => reap'.job \notin reap'.todo
    BY <1>1, <1>3, EnsuredJobs DEF ReapInv
  <2>. QED
    BY <1>1, <1>2, <2>1, <2>2, FewerJobs
<1>4. CASE SessionTakesFromReaper
  <2>1. reap'.pc = reap.pc /\ reap'.job = reap.job /\ reap'.todo = reap.todo
    BY <1>1, <1>4 DEF SessionTakesFromReaper, ReapSet
  <2>2. Jobs' = Jobs
    BY <2>1 DEF Jobs
  <2>. QED
    BY <1>1, <1>2, <2>1, <2>2, FewerJobs DEF ReapInv
<1>5. CASE Crash
  <2>1. Jobs' = {} /\ reap'.pc = "off"
    BY <1>5 DEF Crash, NoReap, Jobs
  <2>. QED
    BY <1>1, <1>2, <2>1, FewerJobs
<1>6. ASSUME NEW job \in reap.todo, NotifyBegin(job)
      PROVE  Goal
  <2>1. reap.pc = "next" /\ Jobs = reap.todo
    BY <1>6 DEF NotifyBegin, Jobs
  <2>2. /\ reap'.todo = reap.todo \ {job}
        /\ \/ reap'.pc = "tell" /\ reap'.job = job
           \/ reap'.pc \in {"idle", "next"}
    BY <1>1, <1>6 DEF NotifyBegin, ReapSet
  <2>3. Jobs' \subseteq Jobs
    BY <1>6, <2>1, <2>2 DEF Jobs
  <2>4. reap'.pc \in {"tell", "send"} => reap'.job \notin reap'.todo
    BY <2>2
  <2>. QED
    BY <1>1, <1>2, <2>3, <2>4, FewerJobs
<1>7. CASE NotifyTell \/ NotifySent
  <2>1. reap.pc \in {"tell", "send"}
    BY <1>7 DEF NotifyTell, NotifySent
  <2>2. \/ reap'.pc = "send" /\ reap'.job = reap.job /\ reap'.todo = reap.todo
        \/ reap'.pc \in {"idle", "next"} /\ reap'.todo = reap.todo
    BY <1>1, <1>7 DEF NotifyTell, NotifySent, NextJob, ReapSet
  <2>3. Jobs' \subseteq Jobs
    BY <2>1, <2>2 DEF Jobs
  <2>4. reap'.pc \in {"tell", "send"} => reap'.job \notin reap'.todo
    BY <2>1, <2>2 DEF ReapInv
  <2>. QED
    BY <1>1, <1>2, <2>3, <2>4, FewerJobs
<1>8. CASE ReaperScan
  <2>. DEFINE closed == {u \in {v \in Tasks : file[v].state = "running"} : ScanOnce(u) # file[u]}
  <2>1. PICK noted \in [Tasks -> SUBSET Rules] :
          /\ file' = [u \in Tasks |-> IF u \in closed THEN ScanOnce(u)
                                      ELSE [file[u] EXCEPT !.noted = @ \cup noted[u]]]
          /\ reap' = IF closed = {} THEN reap
                     ELSE [reap EXCEPT !.pc = "next",
                                       !.todo = {<<u, ScanOnce(u).state>> : u \in closed}]
    BY <1>8 DEF ReaperScan
  <2>2. \A u \in closed : u \in Tasks /\ ~Past(u) /\ ScanOnce(u).state \in TerminalStates
    BY ScanOnceType DEF Past
  <2>3. CASE closed = {}
    BY <1>3, <2>1, <2>3
  <2>4. CASE closed # {}
    <3>1. Jobs' = {<<u, ScanOnce(u).state>> : u \in closed} /\ reap'.pc = "next"
      BY <1>1, <2>1, <2>4 DEF Jobs, ReapSet
    <3>2. \A u \in closed : Past(u)'
      <4>1. \A u \in closed : file'[u] = ScanOnce(u)
        BY <2>1
      <4>. QED
        BY <2>2, <4>1 DEF Past, TerminalStates
    <3>. HIDE DEF closed
    <3>3. ReapInv'
      BY <3>1, <3>2 DEF ReapInv
    <3>4. ASSUME NEW t \in Tasks, ~ReapOpen(t)
          PROVE  ~ReapOpen(t)'
      <4>1. Past(t) /\ t \notin closed /\ Past(t)'
        BY <1>2, <2>2, <3>4 DEF ReapOpen
      <4>. QED
        BY <3>1, <4>1 DEF ReapOpen
    <3>. QED
      BY <3>3, <3>4
  <2>. QED
    BY <2>3, <2>4
<1>9. ASSUME NEW t \in Tasks,
             \/ Starting(t) \/ Watching(t) \/ World(t) \/ Cancel(t) \/ Escalate(t) \/ Read(t)
             \/ Ask(t) \/ Answer(t) \/ HoldEnds(t) \/ Resolve(t) \/ SessionTakesFromWatchdog(t)
             \/ \E r \in Rules : DenyTool(t, r) \/ HookDeny(t, r)
      PROVE  reap' = reap \/ reap' = EnsureReaper(reap)
  <2>1. CASE Starting(t) \/ Watching(t)
    BY <2>1 DEF Starting, StartClaim, StartWrite, StartLock, SpawnOk, SpawnFail, WatchStart,
                Watching, WatchBudget, WatchKeep, WatchKill, WatchReapFinished, WatchExit,
                WatchFinish, WatchTell, WatchSent, tellVars
  <2>2. CASE World(t)
    BY <2>2 DEF World, ChildExit, ReusePid, Spend, Silence, Quiet, ChildSpeaks, tellVars
  <2>. QED
    BY <1>9, <2>1, <2>2 DEF Cancel, Escalate, Read, Ask, Answer, HoldEnds, Resolve,
                SessionTakesFromWatchdog, DenyTool, HookDeny, tellVars
<1>10. ASSUME \/ ReadAll \/ Cleanup \/ Draining \/ SessionTakesFromQueue
              \/ (\E id \in Ids : AgeRecord(id)) \/ Restart
       PROVE  reap' = reap \/ reap' = EnsureReaper(reap)
  BY <1>10 DEF ReadAll, Cleanup, Draining, DrainProbe, DrainSent, DrainStart, DrainNext,
               SessionTakesFromQueue, AgeRecord, Restart, tellVars
<1>. QED
  BY <1>3, <1>4, <1>5, <1>6, <1>7, <1>8, <1>9, <1>10 DEF Next, Reaping
-----------------------------------------------------------------------------
(* What was heard *)

\* A session forgets nothing.
LEMMA HeardStep ==
  ASSUME Next
  PROVE  heard \subseteq heard'
<1>1. ASSUME NEW t \in Tasks,
             \/ Starting(t) \/ Watching(t) \/ World(t) \/ Cancel(t) \/ Escalate(t) \/ Read(t)
             \/ Ask(t) \/ Answer(t) \/ HoldEnds(t) \/ Resolve(t) \/ SessionTakesFromWatchdog(t)
             \/ \E r \in Rules : DenyTool(t, r) \/ HookDeny(t, r)
      PROVE  heard \subseteq heard'
  <2>1. CASE Starting(t) \/ Watching(t)
    BY <2>1 DEF Starting, StartClaim, StartWrite, StartLock, SpawnOk, SpawnFail, WatchStart,
                Watching, WatchBudget, WatchKeep, WatchKill, WatchReapFinished, WatchExit,
                WatchFinish, WatchTell, WatchSent, tellVars
  <2>2. CASE World(t)
    BY <2>2 DEF World, ChildExit, ReusePid, Spend, Silence, Quiet, ChildSpeaks, tellVars
  <2>. QED
    BY <1>1, <2>1, <2>2 DEF Cancel, Escalate, Read, Ask, Answer, HoldEnds, Resolve,
                SessionTakesFromWatchdog, Told, DenyTool, HookDeny, tellVars
<1>2. CASE \/ ReadAll \/ Cleanup \/ Reaping \/ Draining \/ SessionTakesFromQueue
           \/ SessionTakesFromReaper \/ (\E id \in Ids : AgeRecord(id)) \/ Crash \/ Restart
  BY <1>2 DEF ReadAll, Cleanup, Reaping, ReaperScan, NotifyTell, NotifySent, NotifyBegin,
              Draining, DrainProbe, DrainSent, DrainStart, DrainNext, SessionTakesFromReaper,
              SessionTakesFromQueue, Told, AgeRecord, Crash, Restart, tellVars
<1>. QED
  BY <1>1, <1>2 DEF Next

\* The sent state is written where an outcome was heard.
LEMMA SentStep ==
  ASSUME TypeInv, RunInv, DownInv, LandedInv, TextInv, Next, NEW u \in Tasks,
         file'[u].wake = "sent"
  PROVE  \E s \in TerminalStates : <<u, s>> \in heard
<1>. DEFINE Heard == \E s \in TerminalStates : <<u, s>> \in heard
<1>1. file \in [Tasks -> FileRecord] /\ file[u] \in FileRecord
  BY DEF TypeInv
<1>2. file'[u].wake = file[u].wake => Heard
  BY DEF LandedInv
<1>3. \A x : Closed(file[u], x).wake = file[u].wake
  BY <1>1, ClosedFields
<1>4. file'[u] = file[u] \/ file'[u] = MarkStale(u) => file'[u].wake = file[u].wake
  BY <1>3, MarkStaleCloses
<1>. HIDE DEF Heard
<1>5. ASSUME NEW t \in Tasks, Starting(t) PROVE Heard
  <2>1. CASE StartWrite(t)
    <3>1. file'[u].wake = file[u].wake \/ file'[u].wake = "none"
      BY <1>1, <2>1 DEF StartWrite, NewFile, NoFile
    <3>. QED
      BY <1>2, <3>1
  <2>2. CASE StartClaim(t) \/ StartLock(t)
    BY <1>2, <2>2 DEF StartClaim, StartLock
  <2>3. CASE SpawnOk(t)
    BY <1>1, <1>2, <2>3 DEF SpawnOk, FileRecord
  <2>4. CASE WatchStart(t)
    BY <1>1, <1>2, <2>4 DEF WatchStart, FileRecord
  <2>5. CASE SpawnFail(t)
    <3>1. file'[u] = file[u] \/ file'[u] = Closed(file[u], "failed")
      BY <1>1, <2>5 DEF SpawnFail
    <3>. QED
      BY <1>2, <1>3, <3>1
  <2>. QED
    BY <1>5, <2>1, <2>2, <2>3, <2>4, <2>5 DEF Starting
<1>6. ASSUME NEW t \in Tasks, Watching(t) PROVE Heard
  <2>1. CASE WatchBudget(t) \/ WatchKeep(t) \/ WatchReapFinished(t) \/ WatchExit(t)
    BY <1>2, <2>1 DEF WatchBudget, WatchKeep, WatchReapFinished, WatchExit
  <2>2. CASE WatchKill(t)
    BY <1>1, <1>2, <2>2 DEF WatchKill, FileRecord
  <2>3. CASE WatchFinish(t)
    <3>1. \/ file'[u] = file[u]
          \/ \E w \in {"pending", "skipped"} :
               file'[u] = [Closed(file[u], FinalStatus(u)) EXCEPT !.term = FALSE, !.wake = w]
      BY <1>1, <2>3 DEF WatchFinish
    <3>2. ASSUME NEW w \in {"pending", "skipped"},
                 file'[u] = [Closed(file[u], FinalStatus(u)) EXCEPT !.term = FALSE, !.wake = w]
          PROVE  file'[u].wake # "sent"
      BY <1>1, <3>2 DEF Closed, FileRecord
    <3>. QED
      BY <1>2, <3>1, <3>2
  <2>4. ASSUME t = u, wd[u].landed, wd[u].pc = "send"
        PROVE  Heard
    BY <2>4 DEF TypeInv, DogOK, LandedInv, Heard
  <2>5. ASSUME NEW w, file' = [file EXCEPT ![t].wake = w]
        PROVE  Heard \/ (t = u /\ w = "sent")
    BY <1>1, <1>2, <2>5 DEF FileRecord
  <2>6. CASE WatchTell(t)
    BY <1>2, <2>5, <2>6 DEF WatchTell, WakeQueued
  <2>7. CASE WatchSent(t)
    BY <1>2, <2>4, <2>5, <2>7 DEF WatchSent, WakeQueued, WakeSent
  <2>. QED
    BY <1>6, <2>1, <2>2, <2>3, <2>6, <2>7 DEF Watching
<1>7. ASSUME NEW t \in Tasks,
             \/ World(t) \/ Cancel(t) \/ Escalate(t) \/ Read(t) \/ Ask(t) \/ Answer(t)
             \/ HoldEnds(t) \/ Resolve(t) \/ SessionTakesFromWatchdog(t)
             \/ \E r \in Rules : DenyTool(t, r) \/ HookDeny(t, r)
      PROVE  Heard
  <2>1. CASE World(t)
    BY <1>1, <1>2, <2>1 DEF World, ChildExit, ReusePid, Spend, Silence, Quiet, ChildSpeaks,
       FileRecord
  <2>2. CASE Cancel(t)
    <3>1. file'[u] = file[u] \/ \E x : file'[u] = [Closed(file[u], x) EXCEPT !.cancel = TRUE]
      BY <1>1, <2>2 DEF Cancel
    <3>2. ASSUME NEW x, file'[u] = [Closed(file[u], x) EXCEPT !.cancel = TRUE]
          PROVE  file'[u].wake = file[u].wake
      BY <1>1, <3>2 DEF Closed, FileRecord
    <3>. QED
      BY <1>2, <3>1, <3>2
  <2>3. CASE Escalate(t)
    BY <1>1, <1>2, <2>3 DEF Escalate, FileRecord
  <2>4. CASE Read(t) \/ Answer(t)
    <3>1. file'[u] = file[u] \/ file'[u] = MarkStale(u)
      BY <1>1, <2>4 DEF Read, Answer
    <3>. QED
      BY <1>2, <1>4, <3>1
  <2>5. CASE Ask(t)
    BY <1>1, <1>2, <2>5 DEF Ask, FileRecord
  <2>6. ASSUME NEW r \in Rules, DenyTool(t, r) PROVE Heard
    <3>1. PICK n : file' = [file EXCEPT ![t].noted = @ \cup n, ![t].fresh = TRUE]
      BY <2>6 DEF DenyTool
    <3>. QED
      BY <1>1, <1>2, <3>1 DEF FileRecord
  <2>7. CASE HoldEnds(t) \/ Resolve(t) \/ SessionTakesFromWatchdog(t) \/ \E r \in Rules : HookDeny(t, r)
    BY <1>2, <2>7 DEF HoldEnds, Resolve, SessionTakesFromWatchdog, HookDeny
  <2>. QED
    BY <1>7, <2>1, <2>2, <2>3, <2>4, <2>5, <2>6, <2>7
<1>8. ASSUME ReadAll \/ Cleanup PROVE Heard
  <2>1. file'[u] = file[u] \/ file'[u] = MarkStale(u)
    BY <1>8 DEF ReadAll, Cleanup
  <2>. QED
    BY <1>2, <1>4, <2>1
<1>9. ASSUME ReaperScan PROVE Heard
  <2>1. file'[u] = ScanOnce(u) \/ \E n : file'[u] = [file[u] EXCEPT !.noted = @ \cup n]
    BY <1>9, ScanFile
  <2>2. ScanOnce(u).wake = file[u].wake
    BY <1>3, ScanOnceCloses
  <2>3. ASSUME NEW n, file'[u] = [file[u] EXCEPT !.noted = @ \cup n]
        PROVE  file'[u].wake = file[u].wake
    BY <1>1, <2>3 DEF FileRecord
  <2>. QED
    BY <1>2, <2>1, <2>2, <2>3
<1>10. ASSUME NotifyTell \/ NotifySent PROVE Heard
  <2>1. ASSUME reap.pc = "send", reap.landed, reap.job[1] = u
        PROVE  Heard
    <3>1. reap.job \in Tasks \X TerminalStates /\ reap.job \in heard
      BY <2>1 DEF TypeInv, ReapOK, LandedInv
    <3>2. reap.job = <<u, reap.job[2]>> /\ reap.job[2] \in TerminalStates
      BY <2>1, <3>1
    <3>. QED
      BY <3>1, <3>2 DEF Heard
  <2>2. ASSUME NEW w, file' = [file EXCEPT ![reap.job[1]].wake = w]
        PROVE  Heard \/ (reap.job[1] = u /\ w = "sent")
    BY <1>1, <1>2, <2>2 DEF FileRecord
  <2>3. CASE NotifyTell
    BY <1>2, <2>2, <2>3 DEF NotifyTell, WakeQueued
  <2>4. CASE NotifySent
    BY <2>1, <2>2, <2>4 DEF NotifySent, WakeQueued, WakeSent
  <2>. QED
    BY <1>10, <2>3, <2>4
<1>11. ASSUME NEW job \in reap.todo, NotifyBegin(job) PROVE Heard
  <2>1. CASE file' = file
    BY <1>2, <2>1
  <2>2. CASE file' = [file EXCEPT ![job[1]].wake = "pending", ![job[1]].fresh = TRUE]
    BY <1>1, <1>2, <2>2 DEF FileRecord
  <2>. QED
    BY <1>11, <2>1, <2>2 DEF NotifyBegin
<1>12. ASSUME Draining PROVE Heard
  <2>1. CASE file' = file
    BY <1>2, <2>1
  <2>2. CASE /\ DrainSent /\ drain.landed
             /\ file' = [file EXCEPT ![drain.id[1]].wake =
                            IF drain.id[2] = "terminal" THEN "sent" ELSE @]
    <3>1. CASE drain.id[1] = u /\ drain.id[2] = "terminal"
      <4>1. TextOK(drain.id, drain.rec) /\ <<u, drain.rec.text>> \in heard
        BY <2>2, <3>1 DEF TextInv, LandedInv, DrainSent
      <4>. QED
        BY <3>1, <4>1 DEF TextOK, Heard
    <3>2. CASE drain.id[1] # u \/ drain.id[2] # "terminal"
      <4>1. file'[u].wake = file[u].wake
        BY <1>1, <2>2, <3>2 DEF FileRecord
      <4>. QED
        BY <1>2, <4>1
    <3>. QED
      BY <3>1, <3>2
  <2>. QED
    BY <1>12, <2>1, <2>2 DEF Draining, DrainProbe, DrainStart, DrainNext, DrainSent
<1>13. ASSUME Restart PROVE Heard
  <2>1. PICK b : file'[u] = [OrphanCleanup(u) EXCEPT !.dog = b]
    BY <1>13 DEF Restart
  <2>2. OrphanCleanup(u) \in FileRecord
    BY OrphanCleanupType
  <2>3. file'[u].wake = OrphanCleanup(u).wake
    BY <2>1, <2>2 DEF FileRecord
  <2>4. OrphanCleanup(u) = file[u] \/ \E x \in TerminalStates : OrphanCleanup(u) = Closed(file[u], x)
    BY <1>13, OrphanCleanupCloses DEF Restart, DownInv
  <2>. QED
    BY <1>2, <1>3, <2>3, <2>4
<1>14. ASSUME SessionTakesFromReaper \/ SessionTakesFromQueue \/ (\E id \in Ids : AgeRecord(id)) \/ Crash
       PROVE  Heard
  BY <1>2, <1>14 DEF SessionTakesFromReaper, SessionTakesFromQueue, AgeRecord, Crash
<1>15. Heard
  BY <1>5, <1>6, <1>7, <1>8, <1>9, <1>10, <1>11, <1>12, <1>13, <1>14 DEF Next, Reaping
<1>. QED
  BY <1>15 DEF Heard

\* A watchdog whose wake landed has told its outcome.
LEMMA DogLanded ==
  ASSUME TypeInv, LandedInv, Next, NEW u \in Tasks, wd'[u].landed
  PROVE  <<u, wd'[u].status>> \in heard'
<1>1. wd \in [Tasks -> DogSet] /\ heard \subseteq heard'
  BY HeardStep DEF TypeInv
<1>2. wd'[u].landed = wd[u].landed /\ wd'[u].status = wd[u].status => <<u, wd'[u].status>> \in heard'
  BY <1>1 DEF LandedInv
<1>3. wd'[u] # NoDog
  BY DEF NoDog
<1>4. ASSUME NEW t \in Tasks, Watching(t) \/ WatchStart(t)
      PROVE  <<u, wd'[u].status>> \in heard'
  <2>1. CASE WatchStart(t)
    <3>1. wd'[u] = wd[u] \/ ~wd'[u].landed
      BY <1>1, <2>1 DEF WatchStart, NoDog
    <3>. QED
      BY <1>2, <3>1
  <2>2. CASE WatchFinish(t)
    <3>1. wd'[u] = wd[u] \/ ~wd'[u].landed
      BY <1>1, <2>2 DEF WatchFinish, NoDog
    <3>. QED
      BY <1>2, <3>1
  <2>3. CASE WatchTell(t) \/ WatchSent(t) \/ WatchBudget(t) \/ WatchReapFinished(t) \/ WatchExit(t)
    <3>1. \/ \E pc : wd' = [wd EXCEPT ![t].pc = pc]
          \/ wd' = [wd EXCEPT ![t] = NoDog]
      BY <2>3 DEF WatchTell, WatchSent, WatchBudget, WatchReapFinished, WatchExit
    <3>2. wd'[u] = NoDog \/ (wd'[u].landed = wd[u].landed /\ wd'[u].status = wd[u].status)
      <4>1. CASE wd' = [wd EXCEPT ![t] = NoDog]
        BY <1>1, <4>1
      <4>2. ASSUME NEW pc, wd' = [wd EXCEPT ![t].pc = pc]
            PROVE  wd'[u].landed = wd[u].landed /\ wd'[u].status = wd[u].status
        BY <1>1, <4>2 DEF DogSet
      <4>. QED
        BY <3>1, <4>1, <4>2
    <3>. QED
      BY <1>2, <1>3, <3>2
  <2>4. CASE WatchKeep(t) \/ WatchKill(t)
    <3>1. wd'[u] = NoDog \/ (wd'[u].landed = wd[u].landed /\ wd'[u].status = wd[u].status)
      <4>1. CASE wd' = [wd EXCEPT ![t] = NoDog]
        BY <1>1, <4>1
      <4>2. CASE wd' = [wd EXCEPT ![t].pc = "reap", ![t].killed = TRUE]
        BY <1>1, <4>2 DEF DogSet
      <4>3. CASE wd' = [wd EXCEPT ![t].pc = "poll", ![t].ext = @ + 1, ![t].grace = @ \/ clock[t].silent]
        BY <1>1, <4>3 DEF DogSet
      <4>. QED
        BY <2>4, <4>1, <4>2, <4>3 DEF WatchKeep, WatchKill
    <3>. QED
      BY <1>2, <1>3, <3>1
  <2>. QED
    BY <1>4, <2>1, <2>2, <2>3, <2>4 DEF Watching
<1>5. ASSUME NEW t \in Tasks, SessionTakesFromWatchdog(t)
      PROVE  <<u, wd'[u].status>> \in heard'
  <2>1. CASE u = t
    BY <1>1, <1>5, <2>1 DEF SessionTakesFromWatchdog, Told, DogSet
  <2>2. CASE u # t
    BY <1>1, <1>2, <1>5, <2>2 DEF SessionTakesFromWatchdog
  <2>. QED
    BY <2>1, <2>2
<1>6. CASE Crash
  BY <1>3, <1>6 DEF Crash
<1>7. ASSUME NEW t \in Tasks,
             \/ StartClaim(t) \/ StartWrite(t) \/ StartLock(t) \/ SpawnOk(t) \/ SpawnFail(t)
             \/ World(t) \/ Cancel(t) \/ Escalate(t) \/ Read(t) \/ Ask(t) \/ Answer(t)
             \/ HoldEnds(t) \/ Resolve(t)
             \/ \E r \in Rules : DenyTool(t, r) \/ HookDeny(t, r)
      PROVE  wd' = wd
  BY <1>7 DEF StartClaim, StartWrite, StartLock, SpawnOk, SpawnFail, World, ChildExit, ReusePid,
     Spend,
              Silence, Quiet, ChildSpeaks, Cancel, Escalate, Read, Ask, Answer, HoldEnds, Resolve,
              DenyTool, HookDeny
<1>8. ASSUME \/ ReadAll \/ Cleanup \/ Reaping \/ Draining \/ SessionTakesFromReaper
             \/ SessionTakesFromQueue \/ (\E id \in Ids : AgeRecord(id)) \/ Restart
      PROVE  wd' = wd
  BY <1>8 DEF ReadAll, Cleanup, Reaping, ReaperScan, NotifyTell, NotifySent, NotifyBegin,
              Draining, DrainProbe, DrainSent, DrainStart, DrainNext, SessionTakesFromReaper,
              SessionTakesFromQueue, AgeRecord, Restart
<1>. QED
  BY <1>2, <1>4, <1>5, <1>6, <1>7, <1>8 DEF Next, Starting

\* The reaper and the drain, once their wake landed, have told it.
LEMMA TellersLanded ==
  ASSUME TypeInv, LandedInv, Next
  PROVE  /\ reap'.landed => reap'.pc = "send" /\ reap'.job \in heard'
         /\ drain'.landed => drain'.pc = "send" /\ <<drain'.id[1], drain'.rec.text>> \in heard'
<1>1. /\ ReapOK(reap) /\ reap \in ReapSet /\ DrainOK(drain) /\ drain \in DrainSet
      /\ heard \subseteq heard'
  BY HeardStep DEF TypeInv, ReapOK, DrainOK
<1>. DEFINE RG == reap'.landed => reap'.pc = "send" /\ reap'.job \in heard'
            DG == drain'.landed => drain'.pc = "send" /\ <<drain'.id[1], drain'.rec.text>> \in heard'
<1>2. reap' = reap \/ reap' = EnsureReaper(reap) => RG
  BY <1>1, EnsuredJobs DEF LandedInv
<1>3. drain' = drain => DG
  BY <1>1 DEF LandedInv
<1>. HIDE DEF RG, DG
<1>4. ASSUME NEW t \in Tasks,
             \/ Starting(t) \/ Watching(t) \/ World(t) \/ Cancel(t) \/ Escalate(t) \/ Read(t)
             \/ Ask(t) \/ Answer(t) \/ HoldEnds(t) \/ Resolve(t) \/ SessionTakesFromWatchdog(t)
             \/ \E r \in Rules : DenyTool(t, r) \/ HookDeny(t, r)
      PROVE  (reap' = reap \/ reap' = EnsureReaper(reap)) /\ drain' = drain
  <2>1. CASE Starting(t) \/ Watching(t)
    BY <2>1 DEF Starting, StartClaim, StartWrite, StartLock, SpawnOk, SpawnFail, WatchStart,
                Watching, WatchBudget, WatchKeep, WatchKill, WatchReapFinished, WatchExit,
                WatchFinish, WatchTell, WatchSent, tellVars
  <2>2. CASE World(t)
    BY <2>2 DEF World, ChildExit, ReusePid, Spend, Silence, Quiet, ChildSpeaks, tellVars
  <2>. QED
    BY <1>4, <2>1, <2>2 DEF Cancel, Escalate, Read, Ask, Answer, HoldEnds, Resolve,
                SessionTakesFromWatchdog, DenyTool, HookDeny, tellVars
<1>5. ASSUME ReadAll \/ Cleanup \/ (\E id \in Ids : AgeRecord(id)) \/ Restart
      PROVE  (reap' = reap \/ reap' = EnsureReaper(reap)) /\ drain' = drain
  BY <1>5 DEF ReadAll, Cleanup, AgeRecord, Restart, tellVars
<1>6. ASSUME Reaping
      PROVE  RG /\ DG
  <2>1. drain' = drain
    BY <1>6 DEF Reaping, ReaperScan, NotifyTell, NotifySent, NotifyBegin
  <2>2. CASE ReaperScan
    <3>1. ~reap.landed
      BY <2>2 DEF ReaperScan, LandedInv
    <3>2. ~reap'.landed
      <4>1. reap' = reap \/ \E todo : reap' = [reap EXCEPT !.pc = "next", !.todo = todo]
        BY <2>2 DEF ReaperScan
      <4>. QED
        BY <1>1, <3>1, <4>1 DEF ReapSet
    <3>. QED
      BY <1>3, <2>1, <3>2 DEF RG
  <2>3. ASSUME NEW job \in reap.todo, NotifyBegin(job)
        PROVE  RG
    <3>1. ~reap.landed
      BY <2>3 DEF NotifyBegin, LandedInv
    <3>2. ~reap'.landed
      BY <1>1, <2>3, <3>1 DEF NotifyBegin, ReapSet
    <3>. QED
      BY <3>2 DEF RG
  <2>4. CASE NotifyTell
    <3>1. ~reap.landed
      BY <2>4 DEF NotifyTell, LandedInv
    <3>2. ~reap'.landed
      BY <1>1, <2>4, <3>1 DEF NotifyTell, NextJob, ReapSet
    <3>. QED
      BY <1>3, <2>1, <3>2 DEF RG
  <2>5. CASE NotifySent
    <3>1. ~reap'.landed
      BY <1>1, <2>5 DEF NotifySent, NextJob, ReapSet
    <3>. QED
      BY <1>3, <2>1, <3>1 DEF RG
  <2>. QED
    BY <1>3, <1>6, <2>1, <2>2, <2>3, <2>4, <2>5 DEF Reaping
<1>7. ASSUME Draining
      PROVE  RG /\ DG
  <2>1. reap' = reap
    BY <1>7 DEF Draining, DrainProbe, DrainSent, DrainStart, DrainNext
  <2>2. ~drain'.landed
    <3>1. CASE DrainSent
      BY <1>1, <3>1 DEF DrainSent, NextRecord, DrainSet
    <3>2. CASE DrainProbe
      <4>1. ~drain.landed
        BY <3>2 DEF DrainProbe, LandedInv
      <4>. QED
        BY <1>1, <3>2, <4>1 DEF DrainProbe, NextRecord, DrainSet
    <3>3. ASSUME NEW ids \in SUBSET Ids, DrainStart(ids) PROVE ~drain'.landed
      BY <3>3 DEF DrainStart, NoDrain
    <3>4. ASSUME NEW due \in drain.due, DrainNext(due) PROVE ~drain'.landed
      <4>1. ~drain.landed
        BY <3>4 DEF DrainNext, LandedInv
      <4>. DEFINE rest == [drain EXCEPT !.due = @ \ {due}]
      <4>2. rest \in DrainSet /\ ~rest.landed
        BY <1>1, <4>1 DEF DrainSet
      <4>3. \/ \E pc : drain' = [rest EXCEPT !.pc = pc]
            \/ drain' = [rest EXCEPT !.pc = "probe", !.id = due[1], !.rec = due[2]]
        BY <3>4 DEF DrainNext
      <4>. HIDE DEF rest
      <4>. QED
        BY <4>2, <4>3 DEF DrainSet
    <3>. QED
      BY <1>7, <3>1, <3>2, <3>3, <3>4 DEF Draining
  <2>. QED
    BY <1>2, <2>1, <2>2 DEF DG
<1>8. ASSUME SessionTakesFromReaper
      PROVE  RG /\ DG
  <2>1. reap'.pc = "send" /\ reap'.job = reap.job /\ reap.job \in Tasks \X TerminalStates /\ drain' = drain
    BY <1>1, <1>8 DEF SessionTakesFromReaper, ReapSet, ReapOK
  <2>2. reap.job \in heard'
    BY <1>8, <2>1 DEF SessionTakesFromReaper, Told
  <2>. QED
    BY <1>3, <2>1, <2>2 DEF RG
<1>9. ASSUME SessionTakesFromQueue
      PROVE  RG /\ DG
  <2>1. drain'.pc = "send" /\ drain'.id = drain.id /\ drain'.rec = drain.rec /\ reap' = reap
    BY <1>1, <1>9 DEF SessionTakesFromQueue, DrainSet
  <2>2. <<drain.id[1], drain.rec.text>> \in heard'
    BY <1>9 DEF SessionTakesFromQueue, Told
  <2>. QED
    BY <1>2, <2>1, <2>2 DEF DG
<1>10. ASSUME Crash
       PROVE  RG /\ DG
  BY <1>10 DEF Crash, NoReap, NoDrain, RG, DG
<1>11. RG /\ DG
  BY <1>2, <1>3, <1>4, <1>5, <1>6, <1>7, <1>8, <1>9, <1>10 DEF Next
<1>. QED
  BY <1>11 DEF RG, DG

\* What landed, and what is marked as sent, was heard.
LEMMA LandedStep ==
  ASSUME TypeInv, RunInv, DownInv, LandedInv, TextInv, Next
  PROVE  LandedInv'
<1>1. heard \subseteq heard'
  BY HeardStep
<1>2. \A t \in Tasks : wd'[t].landed => <<t, wd'[t].status>> \in heard'
  BY DogLanded
<1>3. \A t \in Tasks : file'[t].wake = "sent" => \E s \in TerminalStates : <<t, s>> \in heard'
  BY <1>1, SentStep
<1>. QED
  BY <1>2, <1>3, TellersLanded DEF LandedInv
-----------------------------------------------------------------------------
(* What the queue holds *)

\* What a step that is not the drain's does to a record: nothing, a new text,
\* a day of age, or it is dropped by a reporter that leaves with it.
Kept(id) == queue'[id] = queue[id]
Retold(id) ==
  /\ queue'[id] # NoRecord /\ TextOK(id, queue'[id])
  /\ queue'[id].att = queue[id].att /\ queue'[id].aged = queue[id].aged
  /\ id[2] = "terminal" => /\ DogOpen(id[1]) \/ ReapOpen(id[1])
                           /\ ~BothOpen(id[1])'
Grown(id) ==
  /\ queue[id] # NoRecord /\ queue'[id] # NoRecord /\ queue'[id].aged
  /\ queue'[id].att = queue[id].att /\ queue'[id].text = queue[id].text
Dropped(id) ==
  /\ id[2] = "terminal" /\ queue'[id] = NoRecord
  /\ ~BothOpen(id[1]) => ~DogOpen(id[1])' /\ ~ReapOpen(id[1])'

\* The drain is where it was.
DrainKept ==
  /\ drain'.due = drain.due /\ drain'.id = drain.id /\ drain'.rec = drain.rec
  /\ drain'.pc = drain.pc

\* A reporter that is past a run does not come back.
NobodyBack ==
  \A t \in Tasks : /\ ~DogOpen(t) => ~DogOpen(t)'
                   /\ ~ReapOpen(t) => ~ReapOpen(t)'

QueueInv == TextInv /\ CopyInv /\ OnceInv /\ AgeInv

\* The two reporters never come back.
LEMMA BackStep ==
  ASSUME TypeInv, RunInv, DownInv, ReapInv, Next
  PROVE  NobodyBack
BY DogStep, ReapStep DEF NobodyBack

\* A step beside the drain keeps the order of the queue.
LEMMA BesideDrain ==
  ASSUME TypeInv, QueueInv, NobodyBack, DrainKept,
         \A id \in Ids : Kept(id) \/ Retold(id) \/ Grown(id) \/ Dropped(id)
  PROVE  QueueInv'
<1>1. \A d \in drain.due : d[1] \in Ids /\ d[2] \in WakeRecord /\ d[1][1] \in Tasks
  BY DEF TypeInv, DrainOK, DrainSet, Ids
<1>2. drain.pc \in {"probe", "send"} => drain.id \in Ids /\ drain.id[1] \in Tasks
  BY DEF TypeInv, DrainOK, Ids
<1>3. \A t \in Tasks : ~BothOpen(t) => ~BothOpen(t)'
  BY DEF NobodyBack, BothOpen
<1>4. \A t \in Tasks : <<t, "terminal">> \in Ids
  BY DEF Ids, Kinds
<1>5. TextInv'
  <2>1. ASSUME NEW id \in Ids, queue'[id] # NoRecord
        PROVE  TextOK(id, queue'[id])
    BY <2>1 DEF QueueInv, TextInv, TextOK, Kept, Retold, Grown, Dropped
  <2>. QED
    BY <2>1 DEF QueueInv, TextInv, TextOK, DrainKept
<1>6. CopyInv'
  BY DEF QueueInv, CopyInv, DrainKept
<1>7. OnceInv'
  <2>1. ASSUME NEW t \in Tasks, queue'[<<t, "terminal">>] # NoRecord
        PROVE  ~BothOpen(t)'
    <3>. DEFINE id == <<t, "terminal">>
    <3>1. id \in Ids /\ id[1] = t /\ id[2] = "terminal"
      BY <1>4
    <3>2. CASE Kept(id) \/ Grown(id)
      BY <1>3, <2>1, <3>2 DEF QueueInv, OnceInv, Kept, Grown
    <3>3. CASE Retold(id)
      BY <3>1, <3>3 DEF Retold
    <3>4. CASE Dropped(id)
      BY <2>1, <3>4 DEF Dropped
    <3>. QED
      BY <3>1, <3>2, <3>3, <3>4
  <2>2. \A d \in drain'.due : d[1][2] = "terminal" => ~BothOpen(d[1][1])'
    BY <1>1, <1>3 DEF QueueInv, OnceInv, DrainKept
  <2>3. (drain.pc \in {"probe", "send"} /\ drain.id[2] = "terminal" => ~BothOpen(drain.id[1]))'
    <3>1. ASSUME drain.pc \in {"probe", "send"}, drain.id[2] = "terminal"
          PROVE  \A t \in Tasks : t = drain.id[1] => ~BothOpen(t)'
      BY <1>3, <3>1 DEF QueueInv, OnceInv
    <3>. QED
      BY <1>2, <3>1 DEF DrainKept, BothOpen, DogOpen, ReapOpen, Past, Jobs
  <2>. QED
    BY <2>1, <2>2, <2>3 DEF OnceInv
<1>8. AgeInv'
  <2>. SUFFICES ASSUME NEW d \in drain.due
                PROVE  (Covered(d[2], queue[d[1]]) \/ GoneForGood(d[1]))'
    BY DEF AgeInv, DrainKept
  <2>. DEFINE id == d[1]
              t == d[1][1]
  <2>1. id \in Ids /\ t \in Tasks
    BY <1>1
  <2>2. Covered(d[2], queue[id]) \/ GoneForGood(id)
    BY DEF QueueInv, AgeInv
  <2>3. id[2] = "terminal" => ~BothOpen(t)
    BY DEF QueueInv, OnceInv
  <2>4. (~DogOpen(t) => ~DogOpen(t)') /\ (~ReapOpen(t) => ~ReapOpen(t)')
    BY <2>1 DEF NobodyBack
  <2>5. CASE Kept(id)
    <3>1. CASE Covered(d[2], queue[id])
      BY <2>5, <3>1 DEF Kept, Covered
    <3>2. CASE GoneForGood(id)
      BY <2>4, <2>5, <3>2 DEF Kept, GoneForGood
    <3>. QED
      BY <2>2, <3>1, <3>2
  <2>6. CASE Retold(id)
    BY <2>2, <2>6 DEF Retold, Covered, GoneForGood
  <2>7. CASE Grown(id)
    BY <2>2, <2>7 DEF Grown, Covered, GoneForGood
  <2>8. CASE Dropped(id)
    BY <2>3, <2>8 DEF Dropped, GoneForGood
  <2>. QED
    BY <2>1, <2>5, <2>6, <2>7, <2>8
<1>. QED
  BY <1>5, <1>6, <1>7, <1>8 DEF QueueInv

\* A denial that is put into the queue is told anew; nothing else changes.
LEMMA DenialsRetold ==
  ASSUME TypeInv, DispatchNames, DispatchBounds, QueueInv, NEW noted \in [Tasks -> SUBSET Rules],
         queue' = WithDenials(queue, noted), NEW id \in Ids
  PROVE  Kept(id) \/ Retold(id)
<1>1. queue[id] \in QueueSet /\ queue \in [Ids -> QueueSet] /\ id[1] \in Tasks
  BY DEF TypeInv, Ids
<1>2. CASE id[2] \notin noted[id[1]]
  BY <1>2 DEF WithDenials, Kept
<1>3. CASE id[2] \in noted[id[1]]
  <2>1. id[2] \in Rules /\ id[2] # "terminal" /\ id[2] # "none"
    BY <1>1, <1>3 DEF DispatchNames
  <2>2. queue'[id] = [queue[id] EXCEPT !.text = id[2]]
    BY <1>1, <1>3 DEF WithDenials, QueueWake, Enqueue
  <2>3. queue'[id].text = id[2] /\ queue'[id].att = queue[id].att /\ queue'[id].aged = queue[id].aged
    BY <1>1, <2>2 DEF QueueSet, NoRecord, WakeRecord
  <2>4. queue'[id] # NoRecord
    BY <2>1, <2>3 DEF NoRecord
  <2>. QED
    BY <2>1, <2>3, <2>4 DEF Retold, TextOK
<1>. QED
  BY <1>2, <1>3

\* An outcome that a reporter puts into the queue, and leaves.
LEMMA OutcomeRetold ==
  ASSUME TypeInv, NEW t \in Tasks, NEW s \in TerminalStates, NEW copy,
         DogOpen(t) \/ ReapOpen(t), ~BothOpen(t)',
         queue' = QueueWake(queue, <<t, "terminal">>, s, copy), DispatchNames, NEW id \in Ids
  PROVE  Kept(id) \/ Retold(id)
<1>. DEFINE it == <<t, "terminal">>
<1>1. it \in Ids /\ queue \in [Ids -> QueueSet] /\ queue[it] \in QueueSet
  BY DEF TypeInv, Ids, Kinds
<1>2. CASE copy = "sent" \/ id # it
  BY <1>1, <1>2 DEF QueueWake, Enqueue, Kept
<1>3. CASE copy # "sent" /\ id = it
  <2>1. queue'[it] = [queue[it] EXCEPT !.text = s]
    BY <1>1, <1>3 DEF QueueWake, Enqueue
  <2>2. queue'[it].text = s /\ queue'[it].att = queue[it].att /\ queue'[it].aged = queue[it].aged
    BY <1>1, <2>1 DEF QueueSet, NoRecord, WakeRecord
  <2>3. queue'[it] # NoRecord
    BY <2>2 DEF NoRecord, TerminalStates
  <2>. QED
    BY <1>3, <2>2, <2>3 DEF Retold, TextOK, DispatchNames
<1>. QED
  BY <1>2, <1>3

\* An outcome that a reporter drops from the queue, and leaves.
LEMMA OutcomeDropped ==
  ASSUME TypeInv, NEW t \in Tasks, ~BothOpen(t) => ~DogOpen(t)' /\ ~ReapOpen(t)',
         queue' = [queue EXCEPT ![<<t, "terminal">>] = NoRecord], NEW id \in Ids
  PROVE  Kept(id) \/ Dropped(id)
BY DEF TypeInv, Ids, Kinds, Kept, Dropped

\* The watchdog leaves a run when it has told or queued its outcome.
LEMMA DogQueue ==
  ASSUME TypeInv, RunInv, DispatchNames, QueueInv, NobodyBack, NEW t \in Tasks,
         WatchTell(t) \/ WatchSent(t)
  PROVE  QueueInv'
<1>1. wd \in [Tasks -> DogSet] /\ wd[t].pc \in {"tell", "send"} /\ wd[t].status \in TerminalStates
  BY DEF TypeInv, DogOK, WatchTell, WatchSent
<1>2. DogOpen(t)
  BY <1>1 DEF DogOpen
<1>3. DrainKept
  BY DEF WatchTell, WatchSent, DrainKept, tellVars
<1>4. CASE queue' = queue
  BY <1>3, <1>4, BesideDrain DEF Kept
<1>5. CASE queue' # queue
  <2>1. wd' = [wd EXCEPT ![t] = NoDog] /\ starter' = starter
    BY <1>5 DEF WatchTell, WatchSent, startVars
  <2>2. ~DogOpen(t)'
    BY <1>1, <2>1 DEF DogOpen, NoDog, RunInv, RunOK
  <2>3. ~BothOpen(t)'
    BY <2>2 DEF BothOpen
  <2>4. ~BothOpen(t) => ~DogOpen(t)' /\ ~ReapOpen(t)'
    BY <1>2, <2>2 DEF BothOpen, NobodyBack
  <2>5. \/ queue' = QueueWake(queue, <<t, "terminal">>, wd[t].status, wd[t].was)
        \/ queue' = [queue EXCEPT ![<<t, "terminal">>] = NoRecord]
    BY <1>5 DEF WatchTell, WatchSent, WakeQueued, WakeSent
  <2>6. \A id \in Ids : Kept(id) \/ Retold(id) \/ Dropped(id)
    BY <1>1, <1>2, <2>3, <2>4, <2>5, OutcomeRetold, OutcomeDropped
  <2>. QED
    BY <1>3, <2>6, BesideDrain
<1>. QED
  BY <1>4, <1>5

\* The reaper leaves a run when it has told or queued its outcome.
LEMMA ReapQueue ==
  ASSUME TypeInv, RunInv, DownInv, DispatchNames, QueueInv, ReapInv, NobodyBack,
         NotifyTell \/ NotifySent
  PROVE  QueueInv'
<1>1. PICK t \in Tasks :
         /\ t = reap.job[1] /\ reap \in ReapSet /\ reap.pc \in {"tell", "send"}
         /\ reap.job[2] \in TerminalStates
  BY DEF TypeInv, ReapOK, NotifyTell, NotifySent
<1>2. reap.job \in Jobs /\ ReapOpen(t)
  BY <1>1 DEF ReapOpen, Jobs
<1>3. DrainKept
  BY DEF NotifyTell, NotifySent, DrainKept
<1>4. CASE queue' = queue
  BY <1>3, <1>4, BesideDrain DEF Kept
<1>5. CASE queue' # queue
  <2>1. reap'.todo = reap.todo /\ reap'.pc \in {"idle", "next"}
    BY <1>1, <1>5 DEF NotifyTell, NotifySent, NextJob, ReapSet
  <2>2. Jobs' = reap.todo
    BY <2>1 DEF Jobs
  <2>3. \A j \in reap.todo : j[1] # t
    BY <1>1, <1>2 DEF ReapInv, Jobs
  <2>4. Past(t)'
    <3>1. Past(t)
      BY <1>1, <1>2 DEF ReapInv
    <3>. QED
      BY <3>1, FileStep DEF Next, Reaping
  <2>5. ~ReapOpen(t)'
    BY <2>2, <2>3, <2>4 DEF ReapOpen
  <2>6. ~BothOpen(t)' /\ (~BothOpen(t) => ~DogOpen(t)' /\ ~ReapOpen(t)')
    BY <1>1, <1>2, <2>5 DEF BothOpen, NobodyBack
  <2>7. \/ queue' = QueueWake(queue, <<t, "terminal">>, reap.job[2], "none")
        \/ queue' = [queue EXCEPT ![<<t, "terminal">>] = NoRecord]
    BY <1>1, <1>5 DEF NotifyTell, NotifySent, WakeQueued, WakeSent
  <2>8. \A id \in Ids : Kept(id) \/ Retold(id) \/ Dropped(id)
    BY <1>1, <1>2, <2>6, <2>7, OutcomeRetold, OutcomeDropped
  <2>. QED
    BY <1>3, <2>8, BesideDrain
<1>. QED
  BY <1>4, <1>5

\* Steps that leave the reporters of every run alone.
ReportersKept ==
  \A t \in Tasks : (DogOpen(t)' <=> DogOpen(t)) /\ (ReapOpen(t)' <=> ReapOpen(t))

\* The drain does not touch the reporters.
LEMMA DrainReporters ==
  ASSUME TypeInv, Draining
  PROVE  ReportersKept
<1>1. starter' = starter /\ wd' = wd /\ reap' = reap
  BY DEF Draining, DrainProbe, DrainSent, DrainStart, DrainNext, startVars
<1>2. \A t \in Tasks : file'[t].state = file[t].state
  <2>1. file \in [Tasks -> FileRecord]
    BY DEF TypeInv
  <2>2. file' = file \/ \E u, w : file' = [file EXCEPT ![u].wake = w]
    BY DEF Draining, DrainProbe, DrainSent, DrainStart, DrainNext
  <2>. QED
    BY <2>1, <2>2 DEF FileRecord
<1>. QED
  BY <1>1, <1>2 DEF ReportersKept, DogOpen, ReapOpen, Past, Jobs

\* drain_once copies the records that are due as they are.
LEMMA StartQueue ==
  ASSUME TypeInv, QueueInv, ReportersKept, NEW ids \in SUBSET Ids, DrainStart(ids)
  PROVE  QueueInv'
<1>1. queue \in [Ids -> QueueSet] /\ queue' = queue
  BY DEF TypeInv, DrainStart
<1>2. drain'.pc = "next" /\ drain'.due = {<<id, queue[id]>> : id \in ids}
  BY DEF DrainStart, NoDrain
<1>3. \A d \in drain'.due : /\ d[1] \in Ids /\ d[2] = queue[d[1]] /\ queue[d[1]] # NoRecord
                            /\ queue[d[1]] \in WakeRecord /\ d[1] = <<d[1][1], d[1][2]>> /\ d[1][1] \in Tasks
                            /\ d = <<d[1], d[2]>>
  BY <1>1, <1>2 DEF DrainStart, QueueSet, Ids
<1>4. TextInv'
  BY <1>1, <1>2, <1>3 DEF QueueInv, TextInv
<1>5. CopyInv'
  BY <1>2, <1>3 DEF CopyInv
<1>6. OnceInv'
  <2>1. \A t \in Tasks : queue[<<t, "terminal">>] # NoRecord => ~BothOpen(t)'
    BY DEF QueueInv, OnceInv, ReportersKept, BothOpen
  <2>2. \A d \in drain'.due : d[1][2] = "terminal" => ~BothOpen(d[1][1])'
    BY <1>3, <2>1
  <2>. QED
    BY <1>1, <1>2, <2>1, <2>2 DEF OnceInv
<1>7. AgeInv'
  <2>1. \A d \in drain'.due : Covered(d[2], queue[d[1]])
    BY <1>3 DEF Covered, WakeRecord
  <2>. QED
    BY <1>1, <2>1 DEF AgeInv
<1>. QED
  BY <1>4, <1>5, <1>6, <1>7 DEF QueueInv

\* A step that keeps the due copies but some, and touches no record of theirs.
LEMMA DueKept ==
  ASSUME TypeInv, QueueInv, ReportersKept, drain'.due \subseteq drain.due,
         \A d \in drain'.due : queue'[d[1]] = queue[d[1]],
         \A id \in Ids : queue'[id] # NoRecord =>
            /\ TextOK(id, queue'[id])
            /\ id[2] = "terminal" => ~BothOpen(id[1]),
         drain'.pc = "idle" => drain'.due = {},
         (drain.pc \in {"probe", "send"} =>
            /\ drain.id \in Ids /\ TextOK(drain.id, drain.rec)
            /\ \A d \in drain.due : d[1] # drain.id
            /\ drain.id[2] = "terminal" => ~BothOpen(drain.id[1]))'
  PROVE  QueueInv'
<1>1. \A d \in drain'.due : d \in drain.due /\ d[1] \in Ids /\ d[1][1] \in Tasks
  BY DEF TypeInv, DrainOK, DrainSet, Ids
<1>2. \A t \in Tasks : (BothOpen(t)' <=> BothOpen(t)) /\ <<t, "terminal">> \in Ids
  BY DEF ReportersKept, BothOpen, Ids, Kinds
<1>3. TextInv'
  BY <1>1 DEF QueueInv, TextInv
<1>4. CopyInv'
  BY <1>1 DEF QueueInv, CopyInv
<1>5. OnceInv'
  <2>1. \A t \in Tasks : queue'[<<t, "terminal">>] # NoRecord => ~BothOpen(t)'
    BY <1>2
  <2>2. \A d \in drain'.due : d[1][2] = "terminal" => ~BothOpen(d[1][1])'
    BY <1>1, <1>2 DEF QueueInv, OnceInv
  <2>. QED
    BY <2>1, <2>2 DEF OnceInv
<1>6. AgeInv'
  <2>1. ASSUME NEW d \in drain'.due
        PROVE  Covered(d[2], queue[d[1]])' \/ GoneForGood(d[1])'
    <3>1. Covered(d[2], queue[d[1]]) \/ GoneForGood(d[1])
      BY <1>1 DEF QueueInv, AgeInv
    <3>2. queue'[d[1]] = queue[d[1]] /\ d[1][1] \in Tasks
      BY <1>1
    <3>3. GoneForGood(d[1]) => GoneForGood(d[1])'
      BY <3>2 DEF GoneForGood, ReportersKept
    <3>. QED
      BY <3>1, <3>2, <3>3 DEF Covered
  <2>. QED
    BY <2>1 DEF AgeInv
<1>. QED
  BY <1>3, <1>4, <1>5, <1>6 DEF QueueInv

\* What the queue held was in order.
LEMMA QueuedOK ==
  ASSUME TypeInv, QueueInv, NEW id \in Ids, queue[id] # NoRecord
  PROVE  TextOK(id, queue[id]) /\ (id[2] = "terminal" => ~BothOpen(id[1]))
BY DEF QueueInv, TextInv, OnceInv, Ids

\* The drain takes up a copy, or ends its record.
LEMMA NextQueue ==
  ASSUME TypeInv, QueueInv, ReportersKept, NEW due \in drain.due, DrainNext(due)
  PROVE  QueueInv'
<1>1. /\ queue \in [Ids -> QueueSet] /\ drain \in DrainSet
      /\ due[1] \in Ids /\ due[2] \in WakeRecord
  BY DEF TypeInv, DrainOK, DrainSet
<1>. DEFINE rest == [drain EXCEPT !.due = @ \ {due}]
<1>2. rest \in DrainSet /\ rest.due = drain.due \ {due}
  BY <1>1 DEF DrainSet
<1>3. \/ /\ queue' = [queue EXCEPT ![due[1]] = NoRecord]
         /\ drain' = [rest EXCEPT !.pc = IF rest.due = {} THEN "idle" ELSE "next"]
      \/ /\ drain' = [rest EXCEPT !.pc = "probe", !.id = due[1], !.rec = due[2]]
         /\ queue' = queue
  BY DEF DrainNext
<1>. HIDE DEF rest
<1>4. \A d \in drain.due \ {due} : d[1] # due[1] /\ d[1] \in Ids
  BY <1>1 DEF QueueInv, CopyInv, DrainSet
<1>5. /\ drain'.due = drain.due \ {due}
      /\ drain'.pc = "idle" => drain'.due = {}
      /\ drain'.pc \in {"probe", "send"} => drain'.id = due[1] /\ drain'.rec = due[2]
  BY <1>2, <1>3 DEF DrainSet
<1>6. \A d \in drain'.due : queue'[d[1]] = queue[d[1]]
  BY <1>1, <1>3, <1>4, <1>5
<1>7. \A id \in Ids : queue'[id] # NoRecord => queue'[id] = queue[id]
  BY <1>1, <1>3
<1>8. \A id \in Ids : queue'[id] # NoRecord =>
            TextOK(id, queue'[id]) /\ (id[2] = "terminal" => ~BothOpen(id[1]))
  BY <1>7, QueuedOK
<1>9. /\ TextOK(due[1], due[2]) /\ due[1][1] \in Tasks
      /\ due[1][2] = "terminal" => ~BothOpen(due[1][1])
  BY <1>1 DEF QueueInv, TextInv, OnceInv, Ids
<1>10. \A t \in Tasks : BothOpen(t)' <=> BothOpen(t)
  BY DEF ReportersKept, BothOpen
<1>11. ASSUME drain'.pc \in {"probe", "send"}
       PROVE  (/\ drain.id \in Ids /\ TextOK(drain.id, drain.rec)
               /\ \A d \in drain.due : d[1] # drain.id
               /\ drain.id[2] = "terminal" => ~BothOpen(drain.id[1]))'
  <2>1. drain'.id \in Ids /\ TextOK(drain'.id, drain'.rec) /\ \A d \in drain'.due : d[1] # drain'.id
    BY <1>1, <1>4, <1>5, <1>9, <1>11
  <2>2. (drain.id[2] = "terminal" => ~BothOpen(drain.id[1]))'
    <3>1. \A t \in Tasks : drain'.id[2] = "terminal" /\ t = drain'.id[1] => ~BothOpen(t)'
      BY <1>5, <1>9, <1>10, <1>11
    <3>. QED
      BY <1>5, <1>9, <1>11, <3>1 DEF BothOpen, DogOpen, ReapOpen, Past, Jobs
  <2>. QED
    BY <2>1, <2>2
<1>. QED
  BY <1>5, <1>6, <1>8, <1>11, DueKept

\* The drain has probed a chat, or sent a wake.
LEMMA SendQueue ==
  ASSUME TypeInv, DispatchNames, DispatchBounds, QueueInv, ReportersKept, DrainProbe \/ DrainSent
  PROVE  QueueInv'
<1>1. /\ queue \in [Ids -> QueueSet] /\ drain \in DrainSet /\ drain.pc \in {"probe", "send"}
      /\ drain.id \in Ids /\ drain.rec \in WakeRecord /\ drain.rec.att < MaxAttempts
      /\ drain.id[1] \in Tasks
  BY DEF TypeInv, DrainOK, DrainProbe, DrainSent, Ids
<1>2. /\ TextOK(drain.id, drain.rec) /\ \A d \in drain.due : d[1] # drain.id
      /\ drain.id[2] = "terminal" => ~BothOpen(drain.id[1])
  BY <1>1 DEF QueueInv, TextInv, CopyInv, OnceInv
<1>3. \A t \in Tasks : BothOpen(t)' <=> BothOpen(t)
  BY DEF ReportersKept, BothOpen
<1>4. \A d \in drain.due : d[1] \in Ids
  BY <1>1 DEF DrainSet
<1>5. CASE drain' = [drain EXCEPT !.pc = "send"] /\ queue' = queue
  <2>1. drain'.pc = "send" /\ drain'.due = drain.due /\ drain'.id = drain.id /\ drain'.rec = drain.rec
    BY <1>1, <1>5 DEF DrainSet
  <2>2. (drain.id[2] = "terminal" => ~BothOpen(drain.id[1]))'
    <3>1. \A t \in Tasks : drain'.id[2] = "terminal" /\ t = drain'.id[1] => ~BothOpen(t)'
      BY <1>2, <1>3, <2>1
    <3>. QED
      BY <1>1, <2>1, <3>1 DEF BothOpen, DogOpen, ReapOpen, Past, Jobs
  <2>3. (/\ drain.id \in Ids /\ TextOK(drain.id, drain.rec)
         /\ \A d \in drain.due : d[1] # drain.id
         /\ drain.id[2] = "terminal" => ~BothOpen(drain.id[1]))'
    BY <1>1, <1>2, <2>1, <2>2
  <2>. QED
    BY <1>5, <2>1, <2>3, QueuedOK, DueKept
<1>6. ASSUME drain' = NextRecord, NEW r \in QueueSet, queue' = [queue EXCEPT ![drain.id] = r],
             r # NoRecord => TextOK(drain.id, r)
      PROVE  QueueInv'
  <2>1. drain'.due = drain.due /\ drain'.pc \in {"idle", "next"} /\ (drain'.pc = "idle" => drain'.due = {})
    BY <1>1, <1>6 DEF NextRecord, DrainSet
  <2>2. \A d \in drain'.due : queue'[d[1]] = queue[d[1]]
    BY <1>1, <1>2, <1>4, <1>6, <2>1
  <2>3. \A id \in Ids : queue'[id] # NoRecord =>
            TextOK(id, queue'[id]) /\ (id[2] = "terminal" => ~BothOpen(id[1]))
    BY <1>1, <1>2, <1>6, QueuedOK
  <2>. QED
    BY <2>1, <2>2, <2>3, DueKept
<1>7. ASSUME drain' = NextRecord, NEW att \in 0..MaxAttempts, WrittenBack(att)
      PROVE  QueueInv'
  <2>. DEFINE r == [drain.rec EXCEPT !.att = att, !.aged = @ \/ queue[drain.id].aged]
  <2>1. r \in WakeRecord
    BY <1>1, BackType
  <2>2. r.text = drain.rec.text
    BY <1>1 DEF WakeRecord
  <2>3. queue' = [queue EXCEPT ![drain.id] = r]
    BY <1>7 DEF WrittenBack
  <2>4. TextOK(drain.id, r)
    BY <1>2, <2>2 DEF TextOK
  <2>. HIDE DEF r
  <2>. QED
    BY <1>6, <1>7, <2>1, <2>3, <2>4 DEF QueueSet
<1>8. drain.rec.att \in 0..MaxAttempts /\ drain.rec.att + 1 \in 0..MaxAttempts
  BY <1>1 DEF WakeRecord, DispatchBounds
<1>9. CASE DrainProbe
  BY <1>5, <1>7, <1>8, <1>9 DEF DrainProbe
<1>10. CASE DrainSent
  <2>1. CASE queue' = [queue EXCEPT ![drain.id] = NoRecord]
    BY <1>6, <1>10, <2>1 DEF DrainSent, QueueSet
  <2>. QED
    BY <1>7, <1>8, <1>10, <2>1 DEF DrainSent
<1>. QED
  BY <1>9, <1>10

\* Every step keeps the order of the queue.
LEMMA QueueStep ==
  ASSUME TypeInv, RunInv, DownInv, DispatchNames, DispatchBounds, ReapInv, QueueInv, Next
  PROVE  QueueInv'
<1>1. NobodyBack
  BY BackStep
<1>2. DrainOK(drain) /\ drain \in DrainSet /\ queue \in [Ids -> QueueSet]
  BY DEF TypeInv, DrainOK
<1>3. ASSUME queue' = queue, DrainKept
      PROVE  QueueInv'
  BY <1>1, <1>3, BesideDrain DEF Kept
<1>4. drain' = drain => DrainKept
  BY DEF DrainKept
<1>5. ASSUME NEW t \in Tasks, NEW r \in Rules, DenyTool(t, r)
      PROVE  QueueInv'
  <2>1. PICK n \in NotedSets(t, {r}) :
          queue' = WithDenials(queue, [u \in Tasks |-> IF u = t THEN n ELSE {}])
    BY <1>5 DEF DenyTool
  <2>2. n \in SUBSET Rules
    BY NotedSetsType
  <2>3. \A id \in Ids : Kept(id) \/ Retold(id)
    BY <2>1, <2>2, DenialsRetold
  <2>. QED
    BY <1>1, <1>4, <1>5, <2>3, BesideDrain DEF DenyTool, tellVars
<1>6. CASE ReaperScan
  <2>1. PICK noted \in [Tasks -> SUBSET Rules] : queue' = WithDenials(queue, noted)
    BY <1>6 DEF ReaperScan
  <2>2. \A id \in Ids : Kept(id) \/ Retold(id)
    BY <2>1, DenialsRetold
  <2>. QED
    BY <1>1, <1>4, <1>6, <2>2, BesideDrain DEF ReaperScan
<1>7. ASSUME NEW it \in Ids, AgeRecord(it)
      PROVE  QueueInv'
  <2>1. queue[it] \in WakeRecord /\ queue' = [queue EXCEPT ![it].aged = TRUE]
    BY <1>2, <1>7 DEF AgeRecord, QueueSet
  <2>2. /\ queue'[it].aged /\ queue'[it].att = queue[it].att /\ queue'[it].text = queue[it].text
        /\ \A id \in Ids \ {it} : queue'[id] = queue[id]
    BY <1>2, <2>1 DEF WakeRecord
  <2>3. queue'[it] # NoRecord
    BY <2>2 DEF NoRecord
  <2>4. \A id \in Ids : Kept(id) \/ Grown(id)
    BY <1>7, <2>2, <2>3 DEF Kept, Grown, AgeRecord
  <2>. QED
    BY <1>1, <1>4, <1>7, <2>4, BesideDrain DEF AgeRecord, tellVars
<1>8. CASE SessionTakesFromQueue
  <2>1. DrainKept
    BY <1>2, <1>8 DEF SessionTakesFromQueue, DrainSet, DrainKept
  <2>. QED
    BY <1>3, <1>8, <2>1 DEF SessionTakesFromQueue
<1>9. CASE Draining
  BY <1>9, DrainReporters, StartQueue, NextQueue, SendQueue DEF Draining
<1>10. CASE Crash
  <2>1. queue' = queue /\ drain'.due = {} /\ drain'.pc = "idle"
    BY <1>10 DEF Crash, NoDrain
  <2>2. \A t \in Tasks : queue'[<<t, "terminal">>] # NoRecord => ~BothOpen(t)'
    BY <1>1, <2>1 DEF QueueInv, OnceInv, NobodyBack, BothOpen
  <2>3. OnceInv'
    BY <2>1, <2>2 DEF OnceInv
  <2>. QED
    BY <2>1, <2>3 DEF QueueInv, TextInv, CopyInv, AgeInv
<1>11. ASSUME NEW t \in Tasks,
              \/ Starting(t) \/ World(t) \/ Cancel(t) \/ Escalate(t) \/ Read(t)
              \/ Ask(t) \/ Answer(t) \/ HoldEnds(t) \/ Resolve(t) \/ SessionTakesFromWatchdog(t)
              \/ WatchBudget(t) \/ WatchKeep(t) \/ WatchKill(t) \/ WatchReapFinished(t) \/ WatchExit(t)
              \/ WatchFinish(t) \/ \E r \in Rules : HookDeny(t, r)
       PROVE  queue' = queue /\ drain' = drain
  <2>1. CASE Starting(t) \/ World(t)
    BY <2>1 DEF Starting, StartClaim, StartWrite, StartLock, SpawnOk, SpawnFail, WatchStart,
                World, ChildExit, ReusePid, Spend, Silence, Quiet, ChildSpeaks, tellVars
  <2>. QED
    BY <1>11, <2>1 DEF Cancel, Escalate, Read, Ask, Answer, HoldEnds, Resolve,
                SessionTakesFromWatchdog, WatchBudget, WatchKeep, WatchKill, WatchReapFinished,
                WatchExit, WatchFinish, HookDeny, tellVars
<1>12. ASSUME \/ ReadAll \/ Cleanup \/ SessionTakesFromReaper \/ Restart
              \/ \E job \in reap.todo : NotifyBegin(job)
       PROVE  queue' = queue /\ drain' = drain
  BY <1>12 DEF ReadAll, Cleanup, SessionTakesFromReaper, Restart, NotifyBegin, tellVars
<1>. QED
  BY <1>1, <1>3, <1>4, <1>5, <1>6, <1>7, <1>8, <1>9, <1>10, <1>11, <1>12, DogQueue, ReapQueue
     DEF Next, Watching, Reaping
-----------------------------------------------------------------------------
(* The theorems *)

\* Initially nothing runs and nothing is queued.
LEMMA InitInd ==
  ASSUME DispatchBounds, Init
  PROVE  IndInv
<1>1. NoFile \in FileRecord
  BY DEF NoFile, FileRecord, TaskStates, WakeStates
<1>2. NoQuestion \in QuestSet
  BY DEF NoQuestion, QuestSet
<1>3. TypeInv
  <2>1. host \in [up : BOOLEAN, crashes : 0..MaxCrashes]
    BY DEF Init, DispatchBounds
  <2>2. /\ child \in [Tasks -> ChildSet] /\ clock \in [Tasks -> ClockSet]
        /\ starter \in [Tasks -> StarterSet]
    BY DEF Init, ChildSet, Procs, ClockSet, StarterSet
  <2>3. wd \in [Tasks -> DogSet] /\ \A t \in Tasks : DogOK(wd[t])
    BY NoDogType DEF Init, DogOK
  <2>. QED
    BY <1>1, <1>2, <2>1, <2>2, <2>3, NothingType DEF Init, TypeInv, QueueSet
<1>4. RunInv
  BY DEF Init, RunInv, RunOK, NoFile, NoDog, TerminalStates, AliveProcs
<1>5. DownInv
  BY DEF Init, DownInv
<1>6. WakeInv
  <2>1. Jobs = {}
    BY DEF Init, Jobs, NoReap
  <2>2. \A t \in Tasks : <<t, "terminal">> \in Ids
    BY DEF Ids, Kinds
  <2>3. ReapInv
    BY <2>1 DEF Init, ReapInv, NoReap
  <2>4. LandedInv
    BY DEF Init, LandedInv, NoReap, NoDrain, NoDog, NoFile
  <2>5. TextInv /\ CopyInv /\ OnceInv /\ AgeInv
    BY <2>2 DEF Init, TextInv, CopyInv, OnceInv, AgeInv, NoDrain
  <2>. QED
    BY <2>3, <2>4, <2>5 DEF WakeInv
<1>. QED
  BY <1>3, <1>4, <1>5, <1>6 DEF IndInv

\* Every step keeps the invariant.
LEMMA NextInd ==
  ASSUME DispatchNames, DispatchBounds, IndInv, [Next]_vars
  PROVE  IndInv'
<1>1. CASE UNCHANGED vars
  BY <1>1, SMTT(30) DEF IndInv, TypeInv, RunInv, DownInv, WakeInv, ReapInv, LandedInv, TextInv,
     CopyInv, OnceInv,
              AgeInv, GoneForGood, BothOpen, DogOpen, ReapOpen, Past, Jobs, vars, startVars,
              tellVars
<1>2. CASE Next
  <2>1. TypeInv' /\ RunInv' /\ DownInv'
    BY <1>2, TypeStep, RunStep DEF IndInv
  <2>2. WakeInv'
    BY <1>2, ReapStep, LandedStep, QueueStep DEF IndInv, WakeInv, QueueInv
  <2>. QED
    BY <2>1, <2>2 DEF IndInv
<1>. QED
  BY <1>1, <1>2

\* The inductive invariant of the coding runs holds in every reachable state.
THEOREM DispatchInvariant == Spec => []IndInv
<1>1. Init => IndInv
  BY InitInd, DispatchBounds
<1>2. IndInv /\ [Next]_vars => IndInv'
  BY NextInd, DispatchNames, DispatchBounds
<1>. QED
  BY <1>1, <1>2, PTL DEF Spec

\* The variables of the coding runs have their types (TypeOK), whatever the runs,
\* the rules and the bounds.
THEOREM DispatchTypes == Spec => []TypeOK
<1>1. IndInv => TypeOK
  BY DEF IndInv, TypeInv, TypeOK, DogSet, ReapOK, ReapSet, DrainOK, DrainSet, ChildSet, ClockSet,
         StarterSet, QuestSet, QueueSet
<1>. QED
  BY <1>1, DispatchInvariant, PTL

\* No foreign process that got the pid of an exited child is signalled, by
\* request_cancel, _cancel_escalate or the reaper.
THEOREM OnlyOwnChildren == Spec => []OwnChildOnly
<1>1. IndInv => OwnChildOnly
  BY DEF IndInv, RunInv, RunOK, OwnChildOnly
<1>. QED
  BY <1>1, DispatchInvariant, PTL

\* A run with a recorded pid and a terminal state has no living child.
THEOREM NoneRunsAway == Spec => []NoRunawayChild
<1>1. IndInv => NoRunawayChild
  BY DEF IndInv, RunInv, RunOK, NoRunawayChild, Terminal, Alive
<1>. QED
  BY <1>1, DispatchInvariant, PTL

\* After a cancel request no writer of the task file gives the run another
\* outcome than cancelled.
THEOREM CancelStands == Spec => CancelWins
<1>1. IndInv /\ [Next]_vars => [\A t \in Tasks : file[t].cancel => file'[t].state \in {"cancelling", "cancelled"}]_vars
  <2>. SUFFICES ASSUME IndInv, Next
                PROVE  \A t \in Tasks : file[t].cancel => file'[t].state \in {"cancelling", "cancelled"}
    OBVIOUS
  <2>1. RunInv'
    BY RunStep DEF IndInv
  <2>2. \A t \in Tasks : file[t].cancel => file'[t].cancel
    BY FileStep DEF IndInv
  <2>. QED
    BY <2>1, <2>2 DEF RunInv, RunOK
<1>. QED
  BY <1>1, DispatchInvariant, PTL DEF Spec, CancelWins

\* Why a record of the queue may end.
MayEnd(id) ==
  \/ queue[id].aged \/ queue[id].att >= MaxAttempts
  \/ id[2] \in Rules /\ id \in heard
  \/ /\ id[2] = "terminal" /\ file'[id[1]].wake = "sent"
     /\ \E s \in TerminalStates : <<id[1], s>> \in heard

\* An outcome that is put into the queue empties no record.
LEMMA WakeNotEmpty ==
  ASSUME TypeInv, NEW t \in Tasks, NEW s \in TerminalStates, NEW copy,
         queue' = QueueWake(queue, <<t, "terminal">>, s, copy),
         NEW id \in Ids, queue[id] # NoRecord
  PROVE  queue'[id] # NoRecord
<1>. DEFINE it == <<t, "terminal">>
<1>1. it \in Ids /\ queue \in [Ids -> QueueSet] /\ queue[it] \in QueueSet
  BY DEF TypeInv, Ids, Kinds
<1>2. CASE copy = "sent" \/ id # it
  BY <1>1, <1>2 DEF QueueWake, Enqueue
<1>3. CASE copy # "sent" /\ id = it
  <2>1. queue'[it] = [queue[it] EXCEPT !.text = s]
    BY <1>1, <1>3 DEF QueueWake, Enqueue
  <2>2. queue'[it].text = s
    BY <1>1, <2>1 DEF QueueSet, NoRecord, WakeRecord
  <2>. QED
    BY <1>3, <2>2 DEF NoRecord, TerminalStates
<1>. QED
  BY <1>2, <1>3

\* A record leaves the queue for a reason.
LEMMA EndsForReason ==
  ASSUME IndInv, DispatchNames, DispatchBounds, Next, NEW id \in Ids,
         queue[id] # NoRecord, queue'[id] = NoRecord
  PROVE  MayEnd(id)
<1>1. /\ TypeInv /\ LandedInv /\ QueueInv /\ queue \in [Ids -> QueueSet]
      /\ file \in [Tasks -> FileRecord] /\ id[1] \in Tasks /\ id = <<id[1], id[2]>>
  BY DEF IndInv, WakeInv, QueueInv, TypeInv, Ids
<1>2. ASSUME NEW t \in Tasks, WatchTell(t) \/ WatchSent(t)
      PROVE  MayEnd(id)
  <2>1. wd[t].status \in TerminalStates
    BY <1>1, <1>2 DEF TypeInv, DogOK, WatchTell, WatchSent
  <2>2. WakeSent(t) /\ wd[t].landed
    BY <1>1, <1>2, <2>1, WakeNotEmpty DEF WatchTell, WatchSent, WakeQueued
  <2>3. id = <<t, "terminal">>
    BY <1>1, <2>2 DEF WakeSent
  <2>4. file'[t].wake = "sent"
    BY <1>1, <2>2 DEF WakeSent, FileRecord
  <2>5. <<t, wd[t].status>> \in heard
    BY <1>1, <2>2 DEF LandedInv
  <2>. QED
    BY <2>1, <2>3, <2>4, <2>5 DEF MayEnd
<1>3. ASSUME NotifyTell \/ NotifySent
      PROVE  MayEnd(id)
  <2>1. reap.job \in Tasks \X TerminalStates /\ reap.job[1] \in Tasks /\ reap.job[2] \in TerminalStates
    BY <1>1, <1>3 DEF TypeInv, ReapOK, NotifyTell, NotifySent
  <2>2. WakeSent(reap.job[1]) /\ reap.landed
    BY <1>1, <1>3, <2>1, WakeNotEmpty DEF NotifyTell, NotifySent, WakeQueued
  <2>3. id = <<reap.job[1], "terminal">>
    BY <1>1, <2>2 DEF WakeSent
  <2>4. file'[reap.job[1]].wake = "sent"
    BY <1>1, <2>1, <2>2 DEF WakeSent, FileRecord
  <2>5. <<reap.job[1], reap.job[2]>> \in heard
    BY <1>1, <2>1, <2>2 DEF LandedInv
  <2>. QED
    BY <2>1, <2>3, <2>4, <2>5 DEF MayEnd
<1>4. ASSUME NEW due \in drain.due, DrainNext(due)
      PROVE  MayEnd(id)
  <2>1. queue' = [queue EXCEPT ![due[1]] = NoRecord] /\ Ended(due[1], due[2]) /\ file' = file
    BY <1>4 DEF DrainNext
  <2>2. id = due[1]
    BY <1>1, <2>1
  <2>3. Covered(due[2], queue[id])
    BY <1>1, <2>2 DEF QueueInv, AgeInv, GoneForGood
  <2>4. CASE IsDelivered(due[1])
    BY <1>1, <2>1, <2>2, <2>4 DEF IsDelivered, LandedInv, MayEnd
  <2>5. CASE due[2].aged
    BY <2>3, <2>5 DEF Covered, MayEnd
  <2>6. CASE due[2].att >= MaxAttempts
    <3>1. due[2].att \in Nat /\ queue[id].att \in Nat
      BY <1>1, <2>3 DEF TypeInv, DrainOK, DrainSet, QueueSet, WakeRecord, Covered, DispatchBounds
    <3>2. queue[id].att >= MaxAttempts
      BY <2>3, <2>6, <3>1 DEF Covered, DispatchBounds
    <3>. QED
      BY <3>2 DEF MayEnd
  <2>. QED
    BY <2>1, <2>4, <2>5, <2>6 DEF Ended
<1>5. ASSUME DrainProbe \/ DrainSent
      PROVE  MayEnd(id)
  <2>1. /\ drain.id \in Ids /\ drain.rec \in WakeRecord /\ TextOK(drain.id, drain.rec)
        /\ drain.id = <<drain.id[1], drain.id[2]>> /\ drain.id[2] \in Kinds /\ drain.id[1] \in Tasks
    BY <1>1, <1>5 DEF TypeInv, DrainOK, DrainProbe, DrainSent, QueueInv, TextInv, Ids
  <2>2. ASSUME NEW att, WrittenBack(att)
        PROVE  FALSE
    <3>1. id = drain.id
      BY <1>1, <2>2 DEF WrittenBack
    <3>2. queue'[id] = [drain.rec EXCEPT !.att = att, !.aged = @ \/ queue[drain.id].aged]
      BY <1>1, <2>2, <3>1 DEF WrittenBack
    <3>3. queue'[id].text = drain.rec.text
      BY <2>1, <3>2 DEF WakeRecord
    <3>4. drain.rec.text # "none"
      BY <2>1 DEF TextOK, Kinds, DispatchNames, TerminalStates
    <3>. QED
      BY <3>3, <3>4 DEF NoRecord
  <2>3. /\ DrainSent /\ drain.landed /\ queue' = [queue EXCEPT ![drain.id] = NoRecord]
        /\ file' = [file EXCEPT ![drain.id[1]].wake = IF drain.id[2] = "terminal" THEN "sent" ELSE @]
    BY <1>5, <2>2 DEF DrainProbe, DrainSent
  <2>4. id = drain.id
    BY <1>1, <2>3
  <2>5. <<id[1], drain.rec.text>> \in heard
    BY <1>1, <2>3, <2>4 DEF LandedInv
  <2>6. CASE id[2] \in Rules
    BY <2>1, <2>4, <2>5, <2>6 DEF TextOK, MayEnd
  <2>7. CASE id[2] = "terminal"
    <3>1. drain.rec.text \in TerminalStates
      BY <2>1, <2>4, <2>7 DEF TextOK
    <3>2. file'[id[1]].wake = "sent"
      BY <1>1, <2>3, <2>4, <2>7 DEF FileRecord
    <3>. QED
      BY <2>5, <2>7, <3>1, <3>2 DEF MayEnd
  <2>. QED
    BY <2>1, <2>4, <2>6, <2>7 DEF Kinds
<1>6. ASSUME NEW noted \in [Tasks -> SUBSET Rules], queue' = WithDenials(queue, noted)
      PROVE  FALSE
  <2>1. Kept(id) \/ Retold(id)
    BY <1>1, <1>6, DenialsRetold
  <2>. QED
    BY <2>1 DEF Kept, Retold
<1>7. ASSUME NEW t \in Tasks, NEW r \in Rules, DenyTool(t, r)
      PROVE  FALSE
  <2>1. PICK n \in NotedSets(t, {r}) :
          queue' = WithDenials(queue, [u \in Tasks |-> IF u = t THEN n ELSE {}])
    BY <1>7 DEF DenyTool
  <2>2. n \in SUBSET Rules
    BY NotedSetsType
  <2>. QED
    BY <1>6, <2>1, <2>2
<1>8. ASSUME ReaperScan
      PROVE  FALSE
  BY <1>6, <1>8 DEF ReaperScan
<1>9. ASSUME NEW it \in Ids, AgeRecord(it)
      PROVE  FALSE
  <2>1. queue[it] \in WakeRecord /\ queue' = [queue EXCEPT ![it].aged = TRUE]
    BY <1>1, <1>9 DEF AgeRecord, QueueSet
  <2>2. id = it => queue'[id].aged
    BY <1>1, <2>1 DEF WakeRecord
  <2>. QED
    BY <1>1, <2>1, <2>2 DEF NoRecord
<1>10. queue' # queue
  OBVIOUS
<1>11. ASSUME NEW t \in Tasks,
              \/ Starting(t) \/ World(t) \/ Cancel(t) \/ Escalate(t) \/ Read(t)
              \/ Ask(t) \/ Answer(t) \/ HoldEnds(t) \/ Resolve(t) \/ SessionTakesFromWatchdog(t)
              \/ WatchBudget(t) \/ WatchKeep(t) \/ WatchKill(t) \/ WatchReapFinished(t) \/ WatchExit(t)
              \/ WatchFinish(t) \/ \E r \in Rules : HookDeny(t, r)
       PROVE  queue' = queue
  <2>1. CASE Starting(t) \/ World(t)
    BY <2>1 DEF Starting, StartClaim, StartWrite, StartLock, SpawnOk, SpawnFail, WatchStart,
                World, ChildExit, ReusePid, Spend, Silence, Quiet, ChildSpeaks
  <2>. QED
    BY <1>11, <2>1 DEF Cancel, Escalate, Read, Ask, Answer, HoldEnds, Resolve,
                SessionTakesFromWatchdog, WatchBudget, WatchKeep, WatchKill, WatchReapFinished,
                WatchExit, WatchFinish, HookDeny
<1>12. ASSUME \/ ReadAll \/ Cleanup \/ SessionTakesFromReaper \/ SessionTakesFromQueue \/ Restart
              \/ Crash \/ (\E job \in reap.todo : NotifyBegin(job))
              \/ \E ids \in SUBSET Ids : DrainStart(ids)
       PROVE  queue' = queue
  BY <1>12 DEF ReadAll, Cleanup, SessionTakesFromReaper, SessionTakesFromQueue, Restart, Crash,
               NotifyBegin, DrainStart
<1>. QED
  BY <1>2, <1>3, <1>4, <1>5, <1>7, <1>8, <1>9, <1>10, <1>11, <1>12
     DEF Next, Watching, Reaping, Draining

\* A record leaves wake-queue.json only when the session was told what it
\* reports, after MAX_ATTEMPTS failures or after a day: no busy chat, no other
\* reporter of the same run and no stale copy of the drain ends one.
THEOREM WakesEnd == Spec => RecordEnds
<1>1. IndInv /\ [Next]_vars =>
        [\A id \in Ids :
            queue[id] # NoRecord /\ queue'[id] = NoRecord =>
               \/ queue[id].aged \/ queue[id].att >= MaxAttempts
               \/ id[2] \in Rules /\ id \in heard
               \/ /\ id[2] = "terminal" /\ file'[id[1]].wake = "sent"
                  /\ \E s \in TerminalStates : <<id[1], s>> \in heard]_vars
  <2>. SUFFICES ASSUME IndInv, Next, NEW id \in Ids, queue[id] # NoRecord, queue'[id] = NoRecord
                PROVE  MayEnd(id)
    BY DEF MayEnd
  <2>. QED
    BY EndsForReason, DispatchNames, DispatchBounds
<1>. QED
  BY <1>1, DispatchInvariant, PTL DEF Spec, RecordEnds
=============================================================================
