--------------------------- MODULE CodingDispatch ---------------------------
(***************************************************************************)
(* qwen-code-bridge: headless coding runs (dispatch.py), their questions   *)
(* (interaction.py) and the durable wake queue (wake_queue.py).            *)
(*                                                                         *)
(* A run is a file and a child process.  The file is written by the start  *)
(* path, by the watchdog of the run, by cancel requests, by every reader   *)
(* that finds the child gone, by a reaper and, when the plugin is loaded   *)
(* again, by orphan_cleanup; all but the last are coroutines of one event  *)
(* loop, so a step below is what runs between two awaits.  What a coroutine*)
(* holds is lost in a crash or a hot reload; files and children survive.   *)
(***************************************************************************)
EXTENDS Naturals, FiniteSets

CONSTANTS
    Tasks,          \* the runs
    Names,          \* task names, the key of the claim flag
    NameOf,         \* the name of each run
    Listeners,      \* runs whose request names a session to wake
    Rules,          \* approval rules a tool call can be denied by
    MaxRules,       \* DENIAL_WAKE_MAX_RULES
    MaxAttempts,    \* MAX_ATTEMPTS of the wake queue
    MaxExtensions,  \* time-outs extended before the hard cap is reached
    MaxCrashes,     \* crashes and hot reloads of the plugin process
    PidReuse,       \* whether the kernel reuses the pid of a child
    Asks            \* runs whose child asks the user a question

ASSUME DispatchNames ==
    /\ NameOf \in [Tasks -> Names]
    /\ Listeners \subseteq Tasks
    /\ Asks \subseteq Tasks
    /\ "terminal" \notin Rules /\ "none" \notin Rules

ASSUME DispatchBounds ==
    /\ MaxRules \in Nat /\ MaxExtensions \in Nat /\ MaxCrashes \in Nat
    /\ MaxAttempts \in Nat \ {0}
    /\ PidReuse \in BOOLEAN

VARIABLES
    file,     \* <task_id>.json of every run
    child,    \* the process of every run, and whether its pid was reused
    clock,    \* what the clock says about a run: budget and silence
    starter,  \* the start() call of every run
    wd,       \* the watchdog coroutine of every run
    esc,      \* runs with a pending _cancel_escalate
    quest,    \* the question of every run, in memory
    hooks,    \* denials by the PreToolUse hook not yet scanned
    queue,    \* wake-queue.json
    reap,     \* the reaper coroutine
    drain,    \* the drain coroutine of the wake queue
    host,     \* the plugin process: up or not, crashes so far
    heard     \* outcomes and denials the origin session was told

\* What only the plugin process holds, by who works on it.
startVars == <<starter, esc>>
tellVars == <<reap, drain, heard>>
vars == <<file, child, clock, startVars, wd, quest, hooks, queue, tellVars, host>>

-----------------------------------------------------------------------------
(* Values *)

\* TERMINAL_TASK_STATES
TerminalStates == {"done", "failed", "timeout", "cancelled", "stale"}

TaskStates == {"absent", "running", "cancelling"} \cup TerminalStates

WakeStates == {"none", "pending", "queued", "sent", "skipped"}

\* fresh: updated_at is younger than STALE_FRESH_SECONDS; dog: watchdog_pid is
\* recorded and answers; term: terminating; noted: denial_wakes.
FileRecord == [state : TaskStates, pid : BOOLEAN, cancel : BOOLEAN, term : BOOLEAN,
               wake : WakeStates, fresh : BOOLEAN, dog : BOOLEAN, noted : SUBSET Rules]

NoFile == [state |-> "absent", pid |-> FALSE, cancel |-> FALSE, term |-> FALSE,
           wake |-> "none", fresh |-> FALSE, dog |-> FALSE, noted |-> {}]

\* The file start() writes.
NewFile == [NoFile EXCEPT !.state = "running", !.fresh = TRUE]

\* run: working; fin: has sent its result; term: was sent SIGTERM
AliveProcs == {"run", "fin", "term"}
ExitedProcs == {"ok", "err"}
Procs == {"none"} \cup AliveProcs \cup ExitedProcs

Kinds == {"terminal"} \cup Rules
Ids == Tasks \X Kinds

\* A queued wake: the text is the outcome it reports.
NoRecord == [text |-> "none", att |-> 0, aged |-> FALSE]
WakeRecord == [text : TerminalStates \cup Rules, att : 0..MaxAttempts, aged : BOOLEAN]

NoDog == [pc |-> "none", killed |-> FALSE, ext |-> 0, grace |-> FALSE,
          status |-> "none", was |-> "none", landed |-> FALSE]
NoId == <<"none", "none">>
NoReap == [pc |-> "off", todo |-> {}, job |-> NoId, landed |-> FALSE]
NoDrain == [pc |-> "idle", due |-> {}, id |-> NoId, rec |-> NoRecord, landed |-> FALSE]
NoQuestion == [st |-> "none", ans |-> FALSE]

Terminal(t) == file[t].state \in TerminalStates

Alive(t) == child[t].proc \in AliveProcs

\* _pid_alive of the recorded pid: a reused pid answers for the child.
PidAlive(t) == file[t].pid /\ (Alive(t) \/ child[t].reused)

\* Mutant: the recorded pid is trusted.
VerifyKillTargetTrusting(t) == TRUE

\* _verify_kill_target: the process names this run, or is gone.
VerifyKillTarget(t) == ~child[t].reused

\* os.kill of the recorded pid; "how" is what a live child becomes.
Signalled(c, how) ==
    IF c.reused THEN [c EXCEPT !.struck = TRUE]
    ELSE IF c.proc \in AliveProcs THEN [c EXCEPT !.proc = how]
    ELSE c

\* _timeout_evidence: started_epoch + timeout has passed.
TimeoutEvidence(t) == clock[t].budget # "left"

Closed(f, s) == [f EXCEPT !.state = s, !.fresh = TRUE]

\* _ensure_reaper
EnsureReaper(r) == [r EXCEPT !.pc = IF @ = "off" THEN "idle" ELSE @]
-----------------------------------------------------------------------------
(* What the recovery paths make of a task file *)

\* Mutant: a terminating run is left to its watchdog for ever.
MarkStaleTrusting(t) ==
    LET f == file[t] IN
    IF f.state = "cancelling" /\ f.pid /\ ~PidAlive(t) THEN Closed(f, "cancelled")
    ELSE IF f.state # "running" \/ f.term THEN f
    ELSE IF TimeoutEvidence(t) /\ ~PidAlive(t) THEN Closed(f, "timeout")
    ELSE IF f.pid /\ ~f.fresh /\ ~PidAlive(t) THEN Closed(f, "stale")
    ELSE f

\* _mark_stale: the run of a child that is gone gets a terminal state.
MarkStale(t) ==
    LET f == file[t] IN
    IF f.state = "cancelling" /\ f.pid /\ ~PidAlive(t) THEN Closed(f, "cancelled")
    ELSE IF f.state # "running" \/ (f.term /\ f.fresh) THEN f
    ELSE IF TimeoutEvidence(t) /\ ~PidAlive(t) THEN Closed(f, "timeout")
    ELSE IF f.pid /\ ~f.fresh /\ ~PidAlive(t) THEN Closed(f, "stale")
    ELSE f

\* The branch of _scan_once that ends a live pid: the budget is a minute over,
\* the events stopped, and no fresh file speaks for a watchdog.
ReaperEnds(t) ==
    /\ file[t].state = "running" /\ PidAlive(t)
    /\ ~(file[t].dog /\ file[t].fresh)
    /\ clock[t].budget = "over" /\ clock[t].silent

\* _scan_once for one task; a pid that is somebody else's is closed by
\* _mark_unowned, without a signal.
ScanOnce(t) ==
    LET f == file[t] IN
    IF f.state # "running" THEN f
    ELSE IF ~f.pid THEN IF TimeoutEvidence(t) THEN Closed(f, "timeout") ELSE f
    ELSE IF ~PidAlive(t) THEN IF f.fresh THEN f ELSE MarkStale(t)
    ELSE IF ReaperEnds(t) THEN Closed(f, IF VerifyKillTarget(t) THEN "timeout" ELSE "stale")
    ELSE f

\* orphan_cleanup for one task, when the plugin is loaded.
OrphanCleanup(t) ==
    LET f == file[t] IN
    IF f.state \notin {"running", "cancelling"} THEN f
    ELSE IF f.state = "running" /\ TimeoutEvidence(t) /\ ~PidAlive(t) THEN Closed(f, "timeout")
    ELSE IF f.term \/ f.fresh \/ PidAlive(t) THEN f
    ELSE Closed(f, IF f.state = "running" THEN "failed" ELSE "cancelled")

\* Mutant: progress counts before the hard cap.
DecideLivenessUncapped(silent, busy, grace, capped) ==
    IF silent /\ (capped \/ busy = "idle" \/ grace) THEN "kill" ELSE "keep"

\* decide_liveness for a live child: keep or kill.
DecideLiveness(silent, busy, grace, capped) ==
    IF capped \/ (silent /\ (busy = "idle" \/ grace)) THEN "kill" ELSE "keep"

\* Mutant: the watchdog's own kill comes before the cancel request.
FinalStatusKilledFirst(t) ==
    IF wd[t].killed THEN "timeout"
    ELSE IF file[t].cancel THEN "cancelled"
    ELSE IF child[t].proc = "ok" THEN "done" ELSE "failed"

\* The terminal state the watchdog writes: a cancel request comes first.
FinalStatus(t) ==
    IF file[t].cancel THEN "cancelled"
    ELSE IF wd[t].killed THEN "timeout"
    ELSE IF child[t].proc = "ok" THEN "done" ELSE "failed"

\* wake_queue.enqueue: a record of the same identity keeps its age and its
\* attempts and takes the new text.
Enqueue(q, id, text) == [q EXCEPT ![id].text = text]

\* _queue_wake: nothing for a run whose copy says that its wake was sent.
QueueWake(q, id, text, copy) == IF copy = "sent" THEN q ELSE Enqueue(q, id, text)

\* _note_denial: the rules that are due a notice.
DueRules(t, rules) ==
    {r \in rules : /\ t \in Listeners /\ file[t].wake # "sent"
                   /\ r \notin file[t].noted}

\* No more than DENIAL_WAKE_MAX_RULES distinct rules a run.
NotedSets(t, rules) ==
    LET room == IF Cardinality(file[t].noted) >= MaxRules THEN 0
                ELSE MaxRules - Cardinality(file[t].noted) IN
    {s \in SUBSET DueRules(t, rules) :
        \/ s = DueRules(t, rules) /\ Cardinality(s) <= room
        \/ Cardinality(s) = room /\ Cardinality(DueRules(t, rules)) > room}

\* The denials of the given rules, for each run, put into the queue.
WithDenials(q, noted) ==
    [id \in Ids |-> IF id[2] \in noted[id[1]] THEN QueueWake(q, id, id[2], "none")[id]
                    ELSE q[id]]
-----------------------------------------------------------------------------
(* Starting a run *)

\* start(), up to the probe of the CLI version: the claim flag is free.
StartClaim(t) ==
    /\ host.up /\ starter[t] = "idle" /\ file[t].state = "absent"
    /\ \A u \in Tasks : NameOf[u] = NameOf[t] => file[u].state # "running"
    /\ starter' = [starter EXCEPT ![t] = "probe"]
    /\ UNCHANGED <<file, child, clock, esc, wd, quest, hooks, queue, tellVars, host>>

\* The probe is back: the task file is written; pre_spawn_hook may await.
StartWrite(t) ==
    /\ host.up /\ starter[t] = "probe"
    /\ file' = [file EXCEPT ![t] = NewFile]
    /\ starter' = [starter EXCEPT ![t] = "ready"]
    /\ UNCHANGED <<child, clock, esc, wd, quest, hooks, queue, tellVars, host>>

\* Mutant: the state is not read again under the lock.
StartLockBlind(t) ==
    /\ host.up /\ starter[t] = "ready"
    /\ starter' = [starter EXCEPT ![t] = "spawn"]
    /\ UNCHANGED <<file, child, clock, esc, wd, quest, hooks, queue, tellVars, host>>

\* Under the cancel lock: a run that became terminal is not started.
StartLock(t) ==
    /\ host.up /\ starter[t] = "ready"
    /\ starter' = [starter EXCEPT ![t] = IF Terminal(t) THEN "done" ELSE "spawn"]
    /\ UNCHANGED <<file, child, clock, esc, wd, quest, hooks, queue, tellVars, host>>

\* create_subprocess_exec returned: the pid is recorded and the reaper ensured.
SpawnOk(t) ==
    /\ host.up /\ starter[t] = "spawn"
    /\ child' = [child EXCEPT ![t].proc = "run"]
    /\ file' = [file EXCEPT ![t].pid = TRUE]
    /\ starter' = [starter EXCEPT ![t] = "spawned"]
    /\ reap' = EnsureReaper(reap)
    /\ UNCHANGED <<clock, esc, wd, quest, hooks, queue, drain, heard, host>>

SpawnFail(t) ==
    /\ host.up /\ starter[t] = "spawn"
    /\ file' = [file EXCEPT ![t] = Closed(@, "failed")]
    /\ starter' = [starter EXCEPT ![t] = "done"]
    /\ UNCHANGED <<child, clock, esc, wd, quest, hooks, queue, tellVars, host>>

\* The prompt is written and the watchdog begins.
WatchStart(t) ==
    /\ host.up /\ starter[t] = "spawned"
    /\ starter' = [starter EXCEPT ![t] = "done"]
    /\ wd' = [wd EXCEPT ![t] = [NoDog EXCEPT !.pc = "poll"]]
    /\ file' = [file EXCEPT ![t].dog = TRUE]
    /\ UNCHANGED <<child, clock, esc, quest, hooks, queue, tellVars, host>>
-----------------------------------------------------------------------------
(* The child and the clock *)

Pumping(t) == host.up /\ wd[t].pc \in {"poll", "probe"}

\* _pump reads a line: the result, after which the child's stdin is closed,
\* another event, or a line the progress tracker does not see.
ChildSpeaks(t, proc) ==
    /\ Pumping(t) /\ child[t].proc = "run"
    /\ proc \in {"run", "fin"}
    /\ child' = [child EXCEPT ![t].proc = proc]
    /\ \/ clock' = [clock EXCEPT ![t].silent = FALSE]
       \/ proc = "run" /\ UNCHANGED clock
    /\ file' = [file EXCEPT ![t].fresh = TRUE]
    /\ UNCHANGED <<startVars, wd, quest, hooks, queue, tellVars, host>>

ChildExit(t) ==
    /\ Alive(t)
    /\ \E code \in ExitedProcs : child' = [child EXCEPT ![t].proc = code]
    /\ UNCHANGED <<file, clock, startVars, wd, quest, hooks, queue, tellVars, host>>

\* The kernel gives the pid of an exited child to another process.
ReusePid(t) ==
    /\ PidReuse /\ child[t].proc \in ExitedProcs /\ ~child[t].reused
    /\ child' = [child EXCEPT ![t].reused = TRUE]
    /\ UNCHANGED <<file, clock, startVars, wd, quest, hooks, queue, tellVars, host>>

Open(t) == file[t].state \in {"running", "cancelling"}

\* The wall budget runs out.  Spawning takes less than the budget, and a
\* watchdog that polls decides within the minute after it is spent.
Spend(t) ==
    /\ Open(t) /\ starter[t] \notin {"ready", "spawn"}
    /\ \/ clock[t].budget = "left" /\ clock' = [clock EXCEPT ![t].budget = "spent"]
       \/ /\ clock[t].budget = "spent" /\ ~Pumping(t)
          /\ clock' = [clock EXCEPT ![t].budget = "over"]
    /\ UNCHANGED <<file, child, startVars, wd, quest, hooks, queue, tellVars, host>>

\* No event for the stall window.
Silence(t) ==
    /\ Open(t) /\ ~clock[t].silent
    /\ clock' = [clock EXCEPT ![t].silent = TRUE]
    /\ UNCHANGED <<file, child, startVars, wd, quest, hooks, queue, tellVars, host>>

\* STALE_FRESH_SECONDS without an update.  A watchdog polls six times in
\* that time, so it has seen an exit that happened within it.
Quiet(t) ==
    /\ Open(t) /\ file[t].fresh /\ starter[t] \notin {"ready", "spawn"}
    /\ ~(Pumping(t) /\ ~Alive(t))
    /\ file' = [file EXCEPT ![t].fresh = FALSE]
    /\ UNCHANGED <<child, clock, startVars, wd, quest, hooks, queue, tellVars, host>>

\* The approval proxy denies a tool call: _note_denial.
DenyTool(t, r) ==
    /\ Pumping(t) /\ child[t].proc = "run"
    /\ \E s \in NotedSets(t, {r}) :
          /\ s # {}
          /\ file' = [file EXCEPT ![t].noted = @ \cup s, ![t].fresh = TRUE]
          /\ queue' = WithDenials(queue, [u \in Tasks |-> IF u = t THEN s ELSE {}])
    /\ UNCHANGED <<child, clock, startVars, wd, quest, hooks, tellVars, host>>

\* The PreToolUse hook denies one in the child: only a receipt tells.
HookDeny(t, r) ==
    /\ child[t].proc = "run" /\ r \notin hooks[t] \cup file[t].noted
    /\ hooks' = [hooks EXCEPT ![t] = @ \cup {r}]
    /\ UNCHANGED <<file, child, clock, startVars, wd, quest, queue, tellVars, host>>
-----------------------------------------------------------------------------
(* The watchdog *)

\* The budget is spent: ask the CLI whether the session is busy.
WatchBudget(t) ==
    /\ host.up /\ wd[t].pc = "poll" /\ Alive(t) /\ TimeoutEvidence(t)
    /\ wd' = [wd EXCEPT ![t].pc = "probe"]
    /\ UNCHANGED <<file, child, clock, startVars, quest, hooks, queue, tellVars, host>>

Decisions(t) ==
    {DecideLiveness(clock[t].silent, busy, wd[t].grace, wd[t].ext = MaxExtensions) :
        busy \in {"busy", "idle", "unknown"}}

WatchKeep(t) ==
    /\ host.up /\ wd[t].pc = "probe" /\ "keep" \in Decisions(t)
    /\ wd' = [wd EXCEPT ![t].pc = "poll", ![t].ext = @ + 1,
                        ![t].grace = @ \/ clock[t].silent]
    /\ clock' = [clock EXCEPT ![t].budget = "left"]
    /\ UNCHANGED <<file, child, startVars, quest, hooks, queue, tellVars, host>>

\* proc.kill() of a child that has exited meanwhile does nothing, or raises
\* and the exception ends the watchdog.
WatchKill(t) ==
    /\ host.up /\ wd[t].pc = "probe" /\ "kill" \in Decisions(t)
    /\ file' = [file EXCEPT ![t].term = TRUE, ![t].fresh = TRUE]
    /\ \/ /\ wd' = [wd EXCEPT ![t].pc = "reap", ![t].killed = TRUE]
          /\ child' = [child EXCEPT ![t].proc = IF Alive(t) THEN "err" ELSE @]
       \/ /\ ~Alive(t)
          /\ wd' = [wd EXCEPT ![t] = NoDog]
          /\ UNCHANGED child
    /\ UNCHANGED <<clock, startVars, quest, hooks, queue, tellVars, host>>

\* A child that has sent its result and does not exit is killed.
WatchReapFinished(t) ==
    /\ host.up /\ wd[t].pc = "poll" /\ child[t].proc = "fin"
    /\ child' = [child EXCEPT ![t].proc = "err"]
    /\ wd' = [wd EXCEPT ![t].pc = "reap"]
    /\ UNCHANGED <<file, clock, startVars, quest, hooks, queue, tellVars, host>>

\* The exit is seen; the pump reads on until the pipe is closed.
WatchExit(t) ==
    /\ host.up /\ wd[t].pc = "poll" /\ ~Alive(t)
    /\ wd' = [wd EXCEPT ![t].pc = "reap"]
    /\ UNCHANGED <<file, child, clock, startVars, quest, hooks, queue, tellVars, host>>

\* The pump has ended: the terminal write.  The copy the wake is decided on
\* is the one read before this write.
WatchFinish(t) ==
    /\ host.up /\ wd[t].pc = "reap"
    /\ LET status == FinalStatus(t) IN
       /\ file' = [file EXCEPT ![t] = [Closed(@, status) EXCEPT
                      !.term = FALSE,
                      !.wake = IF t \in Listeners THEN "pending" ELSE "skipped"]]
       /\ wd' = [wd EXCEPT ![t] = IF t \in Listeners
                    THEN [NoDog EXCEPT !.pc = "tell", !.status = status,
                                       !.was = file[t].wake]
                    ELSE NoDog]
    /\ UNCHANGED <<child, clock, startVars, quest, hooks, queue, tellVars, host>>

\* The wake of a run goes to the queue, or has been sent.
WakeQueued(t, text, copy) ==
    /\ queue' = QueueWake(queue, <<t, "terminal">>, text, copy)
    /\ file' = [file EXCEPT ![t].wake = "queued"]

WakeSent(t) ==
    /\ queue' = [queue EXCEPT ![<<t, "terminal">>] = NoRecord]
    /\ file' = [file EXCEPT ![t].wake = "sent"]

\* After the run record and the renamed chat: is the origin's chat busy?
WatchTell(t) ==
    /\ host.up /\ wd[t].pc = "tell"
    /\ \/ /\ wd' = [wd EXCEPT ![t].pc = "send"]
          /\ UNCHANGED <<file, queue>>
       \/ /\ WakeQueued(t, wd[t].status, wd[t].was)
          /\ wd' = [wd EXCEPT ![t] = NoDog]
    /\ UNCHANGED <<child, clock, startVars, quest, hooks, tellVars, host>>

\* The inline send is back: it landed, or it raised (landed or not).
WatchSent(t) ==
    /\ host.up /\ wd[t].pc = "send"
    /\ \/ wd[t].landed /\ WakeSent(t)
       \/ WakeQueued(t, wd[t].status, wd[t].was)
    /\ wd' = [wd EXCEPT ![t] = NoDog]
    /\ UNCHANGED <<child, clock, startVars, quest, hooks, tellVars, host>>
-----------------------------------------------------------------------------
(* Cancelling *)

\* request_cancel of a running task, under the lock.  A pid that is somebody
\* else's is refused; grace_s = 0 schedules no escalation.
Cancel(t) ==
    /\ host.up /\ starter[t] # "spawn" /\ file[t].state = "running"
    /\ \/ /\ ~file[t].pid
          /\ file' = [file EXCEPT ![t] = [Closed(@, "cancelled") EXCEPT !.cancel = TRUE]]
          /\ UNCHANGED <<child, esc>>
       \/ /\ file[t].pid /\ VerifyKillTarget(t)
          /\ child' = [child EXCEPT ![t] = Signalled(@, "term")]
          /\ esc' \in {esc} \cup {esc \cup {u} : u \in {t} \cap {v \in Tasks : PidAlive(v)}}
          /\ file' = [file EXCEPT ![t] = [Closed(@, "cancelling") EXCEPT !.cancel = TRUE]]
    /\ UNCHANGED <<clock, starter, wd, quest, hooks, queue, tellVars, host>>

\* _cancel_escalate after the grace: SIGKILL, or a note that the pid is not ours.
Escalate(t) ==
    /\ host.up /\ t \in esc
    /\ esc' = esc \ {t}
    /\ child' = [child EXCEPT ![t] = IF PidAlive(t) /\ VerifyKillTarget(t)
                                     THEN Signalled(@, "err") ELSE @]
    /\ file' = [file EXCEPT ![t].fresh = @ \/ PidAlive(t)]
    /\ UNCHANGED <<clock, starter, wd, quest, hooks, queue, tellVars, host>>
-----------------------------------------------------------------------------
(* Readers and the reaper *)

\* get_task: close what can be closed, ensure the reaper.
Read(t) ==
    /\ host.up /\ file[t].state # "absent"
    /\ file' = [file EXCEPT ![t] = MarkStale(t)]
    /\ reap' = EnsureReaper(reap)
    /\ UNCHANGED <<child, clock, startVars, wd, quest, hooks, queue, drain, heard, host>>

\* list_tasks
ReadAll ==
    /\ host.up
    /\ file' = [t \in Tasks |-> MarkStale(t)]
    /\ reap' = EnsureReaper(reap)
    /\ UNCHANGED <<child, clock, startVars, wd, quest, hooks, queue, drain, heard, host>>

\* POST /dispatch/cleanup
Cleanup ==
    /\ host.up
    /\ file' = [t \in Tasks |->
          IF /\ file[t].state = "running" /\ ~PidAlive(t)
             /\ ~file[t].fresh \/ TimeoutEvidence(t)
          THEN MarkStale(t) ELSE file[t]]
    /\ reap' = EnsureReaper(reap)
    /\ UNCHANGED <<child, clock, startVars, wd, quest, hooks, queue, drain, heard, host>>

\* A round of _reaper_loop: hook denials are noted, then a task is closed
\* where that is due, with the copy read before the denials were noted.
ReaperScan ==
    /\ host.up /\ reap.pc = "idle"
    /\ LET running == {t \in Tasks : file[t].state = "running"}
           closed == {t \in running : ScanOnce(t) # file[t]} IN
       \E noted \in [Tasks -> SUBSET Rules] :
       /\ \A t \in Tasks : noted[t] \in IF t \in running THEN NotedSets(t, hooks[t]) ELSE {{}}
       /\ file' = [t \in Tasks |-> IF t \in closed THEN ScanOnce(t)
                                   ELSE [file[t] EXCEPT !.noted = @ \cup noted[t]]]
       /\ queue' = WithDenials(queue, noted)
       /\ hooks' = [t \in Tasks |-> IF t \in running THEN {} ELSE hooks[t]]
       /\ child' = [t \in Tasks |-> IF ReaperEnds(t) /\ VerifyKillTarget(t)
                                    THEN Signalled(child[t], "err") ELSE child[t]]
       /\ reap' = IF closed = {} THEN reap
                  ELSE [reap EXCEPT !.pc = "next",
                                    !.todo = {<<t, ScanOnce(t).state>> : t \in closed}]
    /\ UNCHANGED <<clock, startVars, wd, quest, drain, heard, host>>

\* The next task of the round, or the end of the round.
NextJob == [reap EXCEPT !.job = NoId, !.landed = FALSE,
                        !.pc = IF reap.todo = {} THEN "idle" ELSE "next"]

\* _notify_external after the run record: nothing for a run without an origin
\* or with a wake.
NotifyBegin(job) ==
    /\ host.up /\ reap.pc = "next" /\ job \in reap.todo
    /\ LET t == job[1]
           owed == t \in Listeners /\ file[t].wake \notin {"sent", "pending", "queued"} IN
       /\ file' = IF owed THEN [file EXCEPT ![t].wake = "pending", ![t].fresh = TRUE] ELSE file
       /\ reap' = [reap EXCEPT !.todo = @ \ {job}, !.job = IF owed THEN job ELSE NoId,
                      !.pc = CASE owed -> "tell"
                               [] ~owed /\ reap.todo = {job} -> "idle"
                               [] OTHER -> "next"]
    /\ UNCHANGED <<child, clock, startVars, wd, quest, hooks, queue, drain, heard, host>>

NotifyTell ==
    /\ host.up /\ reap.pc = "tell"
    /\ \/ reap' = [reap EXCEPT !.pc = "send"] /\ UNCHANGED <<file, queue>>
       \/ reap' = NextJob /\ WakeQueued(reap.job[1], reap.job[2], "none")
    /\ UNCHANGED <<child, clock, startVars, wd, quest, hooks, drain, heard, host>>

NotifySent ==
    /\ host.up /\ reap.pc = "send"
    /\ \/ reap.landed /\ WakeSent(reap.job[1])
       \/ WakeQueued(reap.job[1], reap.job[2], "none")
    /\ reap' = NextJob
    /\ UNCHANGED <<child, clock, startVars, wd, quest, hooks, drain, heard, host>>
-----------------------------------------------------------------------------
(* Delivery *)

Told(t, text) == heard \cup {<<t, text>>}

\* default_wake_sender: the session takes the text.  The sender may still see
\* an error (a time-out, or the bell of the room).
SessionTakesFromWatchdog(t) ==
    /\ host.up /\ wd[t].pc = "send" /\ ~wd[t].landed
    /\ wd' = [wd EXCEPT ![t].landed = TRUE]
    /\ heard' = Told(t, wd[t].status)
    /\ UNCHANGED <<file, child, clock, startVars, quest, hooks, queue, reap, drain, host>>

SessionTakesFromReaper ==
    /\ host.up /\ reap.pc = "send" /\ ~reap.landed
    /\ reap' = [reap EXCEPT !.landed = TRUE]
    /\ heard' = Told(reap.job[1], reap.job[2])
    /\ UNCHANGED <<file, child, clock, startVars, wd, quest, hooks, queue, drain, host>>

SessionTakesFromQueue ==
    /\ host.up /\ drain.pc = "send" /\ ~drain.landed
    /\ drain' = [drain EXCEPT !.landed = TRUE]
    /\ heard' = Told(drain.id[1], drain.rec.text)
    /\ UNCHANGED <<file, child, clock, startVars, wd, quest, hooks, queue, reap, host>>

\* drain_once: the records that are due, as they are now.
DrainStart(ids) ==
    /\ host.up /\ drain.pc = "idle"
    /\ ids # {} /\ \A id \in ids : queue[id] # NoRecord
    /\ drain' = [NoDrain EXCEPT !.pc = "next", !.due = {<<id, queue[id]>> : id \in ids}]
    /\ UNCHANGED <<file, child, clock, startVars, wd, quest, hooks, queue, reap, heard, host>>

NextRecord == [drain EXCEPT !.id = NoId, !.rec = NoRecord, !.landed = FALSE,
                            !.pc = IF drain.due = {} THEN "idle" ELSE "next"]

\* Mutant: the sent state speaks for every record of the run.
IsDeliveredAnyKind(id) == file[id[1]].wake = "sent"

\* wake_is_delivered: the sent state drops a terminal record, never a denial.
IsDelivered(id) == id[2] = "terminal" /\ file[id[1]].wake = "sent"

\* A record ends as delivered, after MAX_ATTEMPTS failures, or after 24 hours.
Ended(id, rec) == IsDelivered(id) \/ rec.att >= MaxAttempts \/ rec.aged

DrainNext(due) ==
    /\ host.up /\ drain.pc = "next" /\ due \in drain.due
    /\ LET rest == [drain EXCEPT !.due = @ \ {due}] IN
       IF Ended(due[1], due[2])
       THEN /\ queue' = [queue EXCEPT ![due[1]] = NoRecord]
            /\ drain' = [rest EXCEPT !.pc = IF rest.due = {} THEN "idle" ELSE "next"]
       ELSE /\ drain' = [rest EXCEPT !.pc = "probe", !.id = due[1], !.rec = due[2]]
            /\ UNCHANGED queue
    /\ UNCHANGED <<file, child, clock, startVars, wd, quest, hooks, reap, heard, host>>

\* _reschedule and _reschedule_busy: the copy is written back, appended if the
\* record is gone; its age runs on.
WrittenBack(att) ==
    queue' = [queue EXCEPT ![drain.id] =
                 [drain.rec EXCEPT !.att = att, !.aged = @ \/ queue[drain.id].aged]]

\* The chat of the record: idle, or busy and tried again later.
DrainProbe ==
    /\ host.up /\ drain.pc = "probe"
    /\ \/ drain' = [drain EXCEPT !.pc = "send"] /\ UNCHANGED queue
       \/ drain' = NextRecord /\ WrittenBack(drain.rec.att)
    /\ UNCHANGED <<file, child, clock, startVars, wd, quest, hooks, reap, heard, host>>

\* The send succeeded (mark_wake_delivered for a terminal wake), met a busy
\* chat (409), or failed.
DrainSent ==
    /\ host.up /\ drain.pc = "send"
    /\ \/ /\ drain.landed
          /\ queue' = [queue EXCEPT ![drain.id] = NoRecord]
          /\ file' = [file EXCEPT ![drain.id[1]].wake =
                         IF drain.id[2] = "terminal" THEN "sent" ELSE @]
       \/ WrittenBack(drain.rec.att) /\ UNCHANGED file
       \/ WrittenBack(drain.rec.att + 1) /\ UNCHANGED file
    /\ drain' = NextRecord
    /\ UNCHANGED <<child, clock, startVars, wd, quest, hooks, reap, heard, host>>

\* MAX_AGE_S since the record was created.
AgeRecord(id) ==
    /\ queue[id] # NoRecord /\ ~queue[id].aged
    /\ queue' = [queue EXCEPT ![id].aged = TRUE]
    /\ UNCHANGED <<file, child, clock, startVars, wd, quest, hooks, tellVars, host>>
-----------------------------------------------------------------------------
(* Questions: a human, then the agent, then the default *)

\* can_use_tool of an interaction tool, after the human was notified.
Ask(t) ==
    /\ Pumping(t) /\ t \in Asks /\ child[t].proc = "run" /\ quest[t].st = "none"
    /\ quest' = [quest EXCEPT ![t].st = "human"]
    /\ file' = [file EXCEPT ![t].fresh = TRUE]
    /\ UNCHANGED <<child, clock, startVars, wd, hooks, queue, tellVars, host>>

\* POST /dispatch/{task_id}/answer reads the task, then resolves the question;
\* the store keeps a question after its window.
Answer(t) ==
    /\ host.up /\ quest[t].st # "none" /\ ~quest[t].ans
    /\ quest' = [quest EXCEPT ![t].ans = TRUE]
    /\ file' = [file EXCEPT ![t] = MarkStale(t)]
    /\ reap' = EnsureReaper(reap)
    /\ UNCHANGED <<child, clock, startVars, wd, hooks, queue, drain, heard, host>>

\* question.wait(hold) is over: the origin's agent is asked.
HoldEnds(t) ==
    /\ host.up /\ quest[t] = [st |-> "human", ans |-> FALSE]
    /\ quest' = [quest EXCEPT ![t].st = "agent"]
    /\ UNCHANGED <<file, child, clock, startVars, wd, hooks, queue, tellVars, host>>

\* wait() returned: allow with the answers, or, without any, the default.
Resolve(t) ==
    /\ host.up
    /\ \/ /\ quest[t].st \in {"human", "agent"} /\ quest[t].ans
          /\ quest' = [quest EXCEPT ![t].st = "allowed"]
       \/ /\ quest[t] = [st |-> "agent", ans |-> FALSE]
          /\ quest' = [quest EXCEPT ![t].st = "denied"]
    /\ UNCHANGED <<file, child, clock, startVars, wd, hooks, queue, tellVars, host>>
-----------------------------------------------------------------------------
(* The plugin process *)

\* A crash or a reload.  A spawn under way may have made a child whose pid is
\* not recorded.
Crash ==
    /\ host.up /\ host.crashes < MaxCrashes
    /\ host' = [up |-> FALSE, crashes |-> host.crashes + 1]
    /\ child' \in {[t \in Tasks |-> IF t \in made THEN [child[t] EXCEPT !.proc = "run"]
                                    ELSE child[t]] :
                       made \in SUBSET {t \in Tasks : starter[t] = "spawn"}}
    /\ starter' = [t \in Tasks |-> IF starter[t] = "idle" THEN "idle" ELSE "done"]
    /\ wd' = [t \in Tasks |-> NoDog]
    /\ quest' = [t \in Tasks |-> NoQuestion]
    /\ esc' = {} /\ reap' = NoReap /\ drain' = NoDrain
    /\ UNCHANGED <<file, clock, hooks, queue, heard>>

\* The start-up hooks: orphan_cleanup and the drain loop.  A watchdog pid of
\* the earlier process is dead, or answers because it was reused.
Restart ==
    /\ ~host.up
    /\ host' = [host EXCEPT !.up = TRUE]
    /\ \E gone \in SUBSET Tasks :
          file' = [t \in Tasks |-> [OrphanCleanup(t) EXCEPT !.dog = @ /\ t \notin gone]]
    /\ UNCHANGED <<child, clock, startVars, wd, quest, hooks, queue, tellVars>>
-----------------------------------------------------------------------------
Init ==
    /\ file = [t \in Tasks |-> NoFile]
    /\ child = [t \in Tasks |-> [proc |-> "none", reused |-> FALSE, struck |-> FALSE]]
    /\ clock = [t \in Tasks |-> [budget |-> "left", silent |-> FALSE]]
    /\ starter = [t \in Tasks |-> "idle"]
    /\ esc = {}
    /\ wd = [t \in Tasks |-> NoDog]
    /\ quest = [t \in Tasks |-> NoQuestion]
    /\ hooks = [t \in Tasks |-> {}]
    /\ queue = [id \in Ids |-> NoRecord]
    /\ reap = NoReap
    /\ drain = NoDrain
    /\ heard = {}
    /\ host = [up |-> TRUE, crashes |-> 0]

\* start()
Starting(t) == StartClaim(t) \/ StartWrite(t) \/ StartLock(t) \/ SpawnOk(t) \/ SpawnFail(t)
               \/ WatchStart(t)

\* _watch
Watching(t) == WatchBudget(t) \/ WatchKeep(t) \/ WatchKill(t) \/ WatchReapFinished(t)
               \/ WatchExit(t) \/ WatchFinish(t) \/ WatchTell(t) \/ WatchSent(t)

\* The child, the kernel and the clock.
World(t) == ChildExit(t) \/ ReusePid(t) \/ Spend(t) \/ Silence(t) \/ Quiet(t)
            \/ \E proc \in {"run", "fin"} : ChildSpeaks(t, proc)

\* _reaper_loop
Reaping == ReaperScan \/ NotifyTell \/ NotifySent \/ \E job \in reap.todo : NotifyBegin(job)

\* _loop of the wake queue
Draining == DrainProbe \/ DrainSent \/ (\E ids \in SUBSET Ids : DrainStart(ids))
            \/ \E due \in drain.due : DrainNext(due)

Next ==
    \/ \E t \in Tasks : \/ Starting(t) \/ Watching(t) \/ World(t)
                        \/ Cancel(t) \/ Escalate(t) \/ Read(t)
                        \/ Ask(t) \/ Answer(t) \/ HoldEnds(t) \/ Resolve(t)
                        \/ SessionTakesFromWatchdog(t)
                        \/ \E r \in Rules : DenyTool(t, r) \/ HookDeny(t, r)
    \/ ReadAll \/ Cleanup \/ Reaping \/ Draining
    \/ SessionTakesFromReaper \/ SessionTakesFromQueue
    \/ \E id \in Ids : AgeRecord(id)
    \/ Crash \/ Restart

Spec == Init /\ [][Next]_vars

\* The event loop runs its coroutines, time passes, somebody polls the task
\* list, and a crashed plugin is loaded again.  The pump of a child that has
\* exited need not end (a process the child left behind may hold the pipe),
\* and no session need take a wake.
Fairness ==
    /\ \A t \in Tasks :
          /\ WF_vars(StartWrite(t) \/ StartLock(t) \/ SpawnOk(t) \/ SpawnFail(t) \/ WatchStart(t))
          /\ WF_vars(WatchBudget(t) \/ WatchKeep(t) \/ WatchKill(t) \/ WatchReapFinished(t)
                     \/ WatchExit(t) \/ WatchTell(t) \/ WatchSent(t))
          /\ WF_vars(Escalate(t)) /\ WF_vars(Read(t))
          /\ WF_vars(HoldEnds(t)) /\ WF_vars(Resolve(t))
          /\ WF_vars(Spend(t)) /\ WF_vars(Silence(t)) /\ WF_vars(Quiet(t))
    /\ WF_vars(Reaping) /\ WF_vars(Draining) /\ WF_vars(Restart)
    /\ \A id \in Ids : WF_vars(AgeRecord(id))

FairSpec == Spec /\ Fairness
-----------------------------------------------------------------------------
(* Properties *)

TypeOK ==
    /\ file \in [Tasks -> FileRecord]
    /\ child \in [Tasks -> [proc : Procs, reused : BOOLEAN, struck : BOOLEAN]]
    /\ clock \in [Tasks -> [budget : {"left", "spent", "over"}, silent : BOOLEAN]]
    /\ starter \in [Tasks -> {"idle", "probe", "ready", "spawn", "spawned", "done"}]
    /\ esc \subseteq Tasks
    /\ \A t \in Tasks : wd[t].pc \in {"none", "poll", "probe", "reap", "tell", "send"}
    /\ \A t \in Tasks : wd[t].ext \in 0..MaxExtensions
    /\ quest \in [Tasks -> [st : {"none", "human", "agent", "allowed", "denied"}, ans : BOOLEAN]]
    /\ hooks \in [Tasks -> SUBSET Rules]
    /\ queue \in [Ids -> {NoRecord} \cup WakeRecord]
    /\ reap.pc \in {"off", "idle", "next", "tell", "send"}
    /\ drain.pc \in {"idle", "next", "probe", "send"}
    /\ heard \subseteq Tasks \X (TerminalStates \cup Rules)
    /\ host \in [up : BOOLEAN, crashes : 0..MaxCrashes]

\* After a cancel request no writer of the task file - the watchdog that sees
\* an exit code or its own time-out, a reader, the reaper, the sweep on load -
\* gives the run another outcome than cancelled.
CancelWins ==
    [][\A t \in Tasks : file[t].cancel => file'[t].state \in {"cancelling", "cancelled"}]_vars

\* No process that got the pid of an exited child is ever signalled, by a
\* cancel, by its delayed SIGKILL or by the reaper (_verify_kill_target).
OwnChildOnly == \A t \in Tasks : ~child[t].struck

\* A run with a recorded pid and a terminal state has no living child: a
\* cancelled run is not spawned, and nobody closes the file of a live one.
NoRunawayChild == \A t \in Tasks : file[t].pid /\ Terminal(t) => ~Alive(t)

\* A record leaves wake-queue.json only when the session was told what it
\* reports (for a terminal wake: an outcome, and the file says so), after
\* MAX_ATTEMPTS failures or after a day; a busy chat never ends one.
RecordEnds ==
    [][\A id \in Ids :
          queue[id] # NoRecord /\ queue'[id] = NoRecord =>
             \/ queue[id].aged \/ queue[id].att >= MaxAttempts
             \/ id[2] \in Rules /\ id \in heard
             \/ /\ id[2] = "terminal" /\ file'[id[1]].wake = "sent"
                /\ \E s \in TerminalStates : <<id[1], s>> \in heard]_vars

\* Every run is decided, whatever happens to its watchdog: it is killed in
\* time, or a reader, the reaper or the sweep on load closes its file.
RunDecided == \A t \in Tasks : file[t].state = "running" ~> file[t].state # "running"
=============================================================================
