--------------------------- MODULE WorkerLifecycle ---------------------------
(***************************************************************************)
(* One Worker resource of the Controller and its Docker container, with    *)
(* everything that moves them: the reconciler's pass, the wake, sleep,     *)
(* restart and ensure-ready endpoints, the auto-sleep ticker, mentions     *)
(* that the homeserver pushes, edits and deletion of the resource.         *)
(*                                                                         *)
(* Writers meet in two places.  The resource is written with optimistic    *)
(* locking by the endpoints (held: the calls whose copy is still the       *)
(* stored version) and with merge patches by the reconciler, which decide  *)
(* field by field; the container is moved by the reconciler and, directly, *)
(* by the endpoints.  A pass works on the copy it read when it began.      *)
(*                                                                         *)
(* lost is a history variable: the accidents that the code does not        *)
(* repair, each named where it happens.                                    *)
(***************************************************************************)
EXTENDS Naturals, FiniteSets

CONSTANTS Calls,        \* slots for requests served at the same time
          Ops,          \* endpoints and edits that are used
          MaxSpec,      \* specs are numbered by the hash they have
          Mentions,     \* events that mention the worker
          MaxChanges,   \* requests, edits and mentions
          MaxFaults     \* failed calls, crashes, dying containers

ASSUME LifecycleAssumption ==
    /\ MaxSpec \in Nat \ {0}
    /\ MaxChanges \in Nat
    /\ MaxFaults \in Nat
    /\ Ops \subseteq {"wake", "sleep", "restart", "ensure", "edit", "stop", "delete", "team", "mention"}

VARIABLES cr,       \* the Worker resource
          box,      \* its container
          rec,      \* the reconciler's pass
          call,     \* the requests being served
          held,     \* calls whose copy of the resource is the stored one
          ticker,   \* the auto-sleep ticker decided to put the worker to sleep
          inTeam,   \* a Team refers to the worker
          room,     \* the room of each event: the worker's own or its team's
          mention,  \* the homeserver's queue and the handler of each event
          seen,     \* mentions that are marked as handled
          changes, faults, lost

vars == <<cr, box, rec, call, held, ticker, inTeam, room, mention, seen, changes, faults, lost>>

States == {"Running", "Sleeping", "Stopped"}
Accidents == {"startFailed", "unrecorded", "asleepSpec", "deleteFailed", "mentionSkipped"}
NoBox == [st |-> "none", spec |-> 0]

Spend == faults < MaxFaults /\ faults' = faults + 1
Change(op) == op \in Ops /\ changes < MaxChanges /\ changes' = changes + 1

\* A write of the resource makes the copies of the calls stale.
Store(new) == /\ cr' = new
              /\ held' = IF new = cr THEN held ELSE {}

------------------------------------------------------------------------------
\* The container operations of the backend.

\* A call either succeeds, or fails before or after it took effect.
Succeeds(after) == box' = after /\ UNCHANGED faults
Fails(after) == Spend /\ box' \in {box, after}

\* docker rm -f; a container that is not there is no error.
Delete == NoBox

\* Mutant: stopping removes the container, as the Kubernetes backend does.
StopRemoves == NoBox

\* A container that was never started is left alone.
Stop == IF box.st = "running" THEN [box EXCEPT !.st = "exited"] ELSE box

Start == IF box.st = "none" THEN box ELSE [box EXCEPT !.st = "running"]

------------------------------------------------------------------------------
\* The reconciler.

Idle == [pc |-> "idle", state |-> "Running", spec |-> 0, hash |-> 0, user |-> FALSE,
         seen |-> "none", done |-> FALSE, made |-> FALSE]

\* The resource is read once; the finalizer is added before anything is created.
Reconcile ==
    /\ rec.pc = "idle"
    /\ cr.here
    /\ ~ cr.deleting
    /\ rec' = [Idle EXCEPT !.pc = "infra", !.state = cr.state, !.spec = cr.spec,
                           !.hash = cr.hash, !.user = cr.user]
    /\ Store([cr EXCEPT !.finalizer = TRUE])
    /\ UNCHANGED <<box, call, ticker, inTeam, room, mention, seen, changes, faults, lost>>

\* Matrix identity, credentials, service account and configuration come first: a
\* failure ends the pass, with or without the identity.  Then the backend is asked
\* for the status that the pass acts on.
ReconcileMember ==
    /\ rec.pc = "infra"
    /\ \/ /\ rec' = [rec EXCEPT !.pc = "act", !.user = TRUE, !.seen = box.st]
          /\ UNCHANGED faults
       \/ /\ Spend
          /\ \E user \in BOOLEAN : rec' = [rec EXCEPT !.pc = "report", !.user = @ \/ user]
    /\ UNCHANGED <<cr, box, call, held, ticker, inTeam, room, mention, seen, changes, lost>>

\* Only a recorded hash can differ: a worker that has none follows the create path.
SpecChanged == rec.hash # 0 /\ rec.hash # rec.spec

\* The rest of the pass is skipped, or it goes on to its end and records the hash.
CutShort == rec' = [rec EXCEPT !.pc = "report", !.seen = "none"]
GoesOn == rec' = [rec EXCEPT !.pc = "report", !.seen = "none", !.done = TRUE]

\* Mutant: the error of the delete is dropped and the pass goes on.
DeleteStaleIgnoresError ==
    /\ SpecChanged
    /\ rec.seen # "none"
    /\ Succeeds(Delete) \/ Fails(Delete)
    /\ GoesOn
    /\ UNCHANGED lost

\* A container of another spec is deleted; the next pass creates the new one.
DeleteStale ==
    /\ SpecChanged
    /\ rec.seen # "none"
    /\ \/ Succeeds(Delete) /\ CutShort
       \/ Fails(Delete) /\ CutShort
    /\ UNCHANGED lost

\* A container that was created and never started counts as starting.
KeepRunning ==
    /\ ~ SpecChanged
    /\ rec.seen \in {"running", "created"}
    /\ GoesOn
    /\ UNCHANGED <<box, faults, lost>>

StartStopped ==
    /\ ~ SpecChanged
    /\ rec.seen = "exited"
    /\ \/ Succeeds(Start) /\ GoesOn
       \/ Fails(Start) /\ CutShort
    /\ UNCHANGED lost

\* Create also starts the container: when only the start fails, it stays behind.
createMemberContainer ==
    /\ rec.seen = "none"
    /\ \/ /\ Succeeds([st |-> "running", spec |-> rec.spec])
          /\ rec' = [rec EXCEPT !.pc = "report", !.done = TRUE, !.made = TRUE]
          /\ UNCHANGED lost
       \/ Spend /\ CutShort /\ UNCHANGED <<box, lost>>
       \/ /\ Spend
          /\ box' = [st |-> "created", spec |-> rec.spec]
          /\ rec' = [rec EXCEPT !.pc = "report", !.made = TRUE]
          /\ lost' = lost \cup {"startFailed"}

ensureMemberContainerPresent ==
    DeleteStale \/ KeepRunning \/ StartStopped \/ createMemberContainer

ensureMemberContainerAbsent(remove) ==
    \/ /\ rec.seen = "none" \/ (~ remove /\ rec.seen = "exited")
       /\ GoesOn
       /\ UNCHANGED <<box, faults, lost>>
    \/ /\ rec.seen # "none" /\ (remove \/ rec.seen # "exited")
       /\ LET after == IF remove THEN Delete ELSE Stop
          IN \/ Succeeds(after) /\ GoesOn
             \/ Fails(after) /\ CutShort
       /\ UNCHANGED lost

ReconcileMemberContainer ==
    /\ rec.pc = "act"
    /\ CASE rec.state = "Stopped"  -> ensureMemberContainerAbsent(TRUE)
         [] rec.state = "Sleeping" -> ensureMemberContainerAbsent(FALSE)
         [] rec.state = "Running"  -> ensureMemberContainerPresent
    /\ UNCHANGED <<cr, call, held, ticker, inTeam, room, mention, seen, changes>>

\* What a pass leaves that no later pass can tell from the recorded hash.
Blind(recorded) ==
    (IF rec.made /\ ~ recorded THEN {"unrecorded"} ELSE {})
        \cup (IF recorded /\ rec.state # "Running" /\ box.st # "none" /\ box.spec # rec.spec
              THEN {"asleepSpec"} ELSE {})

\* The deferred status patch: a merge patch holds the fields that the pass changed
\* against its own copy (phase and message among them).  After the container phase the service label may fail.
PatchStatus ==
    /\ rec.pc = "report"
    /\ rec' = Idle
    /\ \E done \in {rec.done, FALSE}, kept \in BOOLEAN :
          /\ IF done = rec.done /\ kept THEN UNCHANGED faults ELSE Spend
          /\ cr' = IF kept THEN [cr EXCEPT !.user = @ \/ rec.user,
                                           !.hash = IF done /\ rec.spec # rec.hash THEN rec.spec ELSE @]
                   ELSE cr
          /\ held' \in IF cr' # cr THEN {{}} ELSE IF kept THEN {held, {}} ELSE {held}
          /\ lost' = lost \cup Blind(done /\ kept)
    /\ UNCHANGED <<box, call, ticker, inTeam, room, mention, seen, changes>>

\* Mutant: the container is left to a garbage collector that Docker does not have.
reconcileDeleteByOwner ==
    /\ rec.pc = "idle"
    /\ cr.here /\ cr.deleting /\ cr.finalizer
    /\ ~ inTeam
    /\ rec' = [Idle EXCEPT !.pc = "finalize"]
    /\ UNCHANGED <<cr, box, call, held, ticker, inTeam, room, mention, seen, changes, faults, lost>>

\* A resource under deletion keeps its finalizer while a Team refers to it; a
\* failed removal of the container is logged, and the finalizer goes all the same.
reconcileDelete ==
    /\ rec.pc = "idle"
    /\ cr.here /\ cr.deleting /\ cr.finalizer
    /\ ~ inTeam
    /\ \/ Succeeds(Delete) /\ UNCHANGED lost
       \/ Fails(Delete) /\ lost' = lost \cup {"deleteFailed"}
    /\ rec' = [Idle EXCEPT !.pc = "finalize"]
    /\ UNCHANGED <<cr, call, held, ticker, inTeam, room, mention, seen, changes>>

RemoveFinalizer ==
    /\ rec.pc = "finalize"
    /\ rec' = Idle
    /\ \/ Store([cr EXCEPT !.here = FALSE]) /\ UNCHANGED faults
       \/ Spend /\ UNCHANGED <<cr, held>>
    /\ UNCHANGED <<box, call, ticker, inTeam, room, mention, seen, changes, lost>>

------------------------------------------------------------------------------
\* The lifecycle endpoints: Get, Update with the version that was read, the
\* backend call whose error is ignored, the phase.

NoCall == [op |-> "none", pc |-> "idle"]

GetWorker(c) ==
    /\ call[c].pc = "idle"
    /\ cr.here
    /\ \E op \in {"wake", "sleep", "restart", "ensure"} :
          /\ Change(op)
          /\ call' = [call EXCEPT ![c] = [op |-> op, pc |-> "update"]]
    /\ held' = held \cup {c}
    /\ UNCHANGED <<cr, box, rec, ticker, inTeam, room, mention, seen, faults, lost>>

\* status.phase is not part of the state: it is written by the passes and by the
\* endpoints and read by EnsureReady only, which starts a worker whose phase says
\* that it is down, or says Running of a container that is not.  It may hold what
\* any of the writers left, so that EnsureReady may or may not go on.
UpdateState(c) ==
    /\ call[c].pc = "update"
    /\ \/ /\ c \in held
          /\ Store([cr EXCEPT !.state = IF call[c].op = "sleep" THEN "Sleeping" ELSE "Running"])
          /\ call' = [call EXCEPT ![c].pc = IF call[c].op \in {"sleep", "restart"} THEN "stop" ELSE "start"]
          /\ UNCHANGED faults
       \/ /\ call[c].op = "ensure" \/ c \notin held
          /\ call' = [call EXCEPT ![c] = NoCall]
          /\ held' = held \ {c}
          /\ UNCHANGED <<cr, faults>>
       \/ /\ Spend
          /\ call' = [call EXCEPT ![c] = NoCall]
          /\ held' = held \ {c}
          /\ UNCHANGED cr
    /\ UNCHANGED <<box, rec, ticker, inTeam, room, mention, seen, changes, lost>>

\* Only Restart looks at the outcome of the stop: it does not go on to the start.
CallStop(c) ==
    /\ call[c].pc = "stop"
    /\ \/ /\ Succeeds(Stop)
          /\ call' = [call EXCEPT ![c].pc = IF call[c].op = "restart" THEN "start" ELSE "phase"]
       \/ /\ Fails(Stop)
          /\ call' = [call EXCEPT ![c] = IF call[c].op = "restart" THEN NoCall
                                         ELSE [@ EXCEPT !.pc = "phase"]]
    /\ UNCHANGED <<cr, rec, held, ticker, inTeam, room, mention, seen, changes, lost>>

\* Start never creates: without a container, the reconciler has to.
CallStart(c) ==
    /\ call[c].pc = "start"
    /\ \/ /\ Succeeds(Start)
          /\ call' = [call EXCEPT ![c] = IF call[c].op = "restart" /\ box.st = "none" THEN NoCall
                                         ELSE [@ EXCEPT !.pc = "phase"]]
       \/ /\ Fails(Start)
          /\ call' = [call EXCEPT ![c] = IF call[c].op = "restart" THEN NoCall
                                         ELSE [@ EXCEPT !.pc = "phase"]]
    /\ UNCHANGED <<cr, rec, held, ticker, inTeam, room, mention, seen, changes, lost>>

\* The phase is written on a fresh copy, which makes other copies stale; a conflict
\* is ignored.
WritePhase(c) ==
    /\ call[c].pc = "phase"
    /\ call' = [call EXCEPT ![c] = NoCall]
    /\ held' \in {held, {}}
    /\ UNCHANGED <<cr, box, rec, ticker, inTeam, room, mention, seen, changes, faults, lost>>

\* UpdateWorker (the API retries it on a conflict): a new spec, or the state Stopped.
UpdateWorker ==
    /\ cr.here
    /\ \/ /\ Change("edit")
          /\ \E s \in (1 .. MaxSpec) \ {cr.spec} : Store([cr EXCEPT !.spec = s])
       \/ /\ Change("stop")
          /\ Store([cr EXCEPT !.state = "Stopped"])
    /\ UNCHANGED <<box, rec, call, ticker, inTeam, room, mention, seen, faults, lost>>

\* A resource without finalizer goes at once.
DeleteWorker ==
    /\ cr.here /\ ~ cr.deleting /\ ~ inTeam
    /\ Change("delete")
    /\ Store(IF cr.finalizer THEN [cr EXCEPT !.deleting = TRUE] ELSE [cr EXCEPT !.here = FALSE])
    /\ UNCHANGED <<box, rec, call, ticker, inTeam, room, mention, seen, faults, lost>>

\* A Team takes the worker in or lets it go.
TeamChanges ==
    /\ Change("team")
    /\ inTeam' = ~ inTeam
    /\ UNCHANGED <<cr, box, rec, call, held, ticker, room, mention, seen, faults, lost>>

------------------------------------------------------------------------------
\* Auto-sleep.  The time of the last activity is read here only; any time may have
\* passed since it was written, so that the worker may be idle at any moment.

\* The decision is made on the list; what is written later is not checked again. A
\* worker that has not reported yet, here one without a hash, is left alone.
shouldSleep ==
    /\ ~ ticker
    /\ cr.here /\ cr.state = "Running" /\ cr.hash # 0
    /\ ticker' = TRUE
    /\ UNCHANGED <<cr, box, rec, call, held, inTeam, room, mention, seen, changes, faults, lost>>

setWorkerState ==
    /\ ticker
    /\ ticker' = FALSE
    /\ \/ Store(IF cr.here THEN [cr EXCEPT !.state = "Sleeping"] ELSE cr) /\ UNCHANGED faults
       \/ Spend /\ UNCHANGED <<cr, held>>
    /\ UNCHANGED <<box, rec, call, inTeam, room, mention, seen, changes, lost>>

------------------------------------------------------------------------------
\* Mentions.  mention[e] is "none" until the homeserver queues the event, "queued"
\* while it waits to be pushed, "done" once it was answered with 200, and otherwise
\* the place of the handler.  A failure is answered with 503: the event stays queued.

Goto(e, pc) == mention' = [mention EXCEPT ![e] = pc]

Matched == cr.here /\ cr.user

SendMention(e) ==
    /\ mention[e] = "none"
    /\ Change("mention")
    /\ Goto(e, "queued")
    /\ UNCHANGED <<cr, box, rec, call, held, ticker, inTeam, room, seen, faults, lost>>

\* Mutant: the event is marked before the worker is woken.
MarkFirst(e) ==
    /\ mention[e] = "queued"
    /\ Goto(e, IF e \in seen THEN "done" ELSE "own")
    /\ seen' = seen \cup {e}
    /\ UNCHANGED <<cr, box, rec, call, held, ticker, inTeam, room, changes, faults, lost>>

\* The duplicate check: a mention that is marked is answered at once.
HandleTransactions(e) ==
    /\ mention[e] = "queued"
    /\ Goto(e, IF e \in seen THEN "done" ELSE "own")
    /\ UNCHANGED <<cr, box, rec, call, held, ticker, inTeam, room, seen, changes, faults, lost>>

\* A worker that advertises the user is woken from its own room only.
wakeStandaloneWorker(e) ==
    /\ mention[e] = "own"
    /\ \/ /\ Goto(e, IF Matched /\ cr.state = "Sleeping" /\ room[e] = "own" THEN "wakeOwn" ELSE "team")
          /\ UNCHANGED faults
       \/ Spend /\ Goto(e, "queued")
    /\ UNCHANGED <<cr, box, rec, call, held, ticker, inTeam, room, seen, changes, lost>>

\* The members of a team may be woken from both rooms.  The Get of the member's
\* resource counts any error as a resource that is not there.
wakeTeamWorker(e) ==
    /\ mention[e] = "team"
    /\ \/ /\ Goto(e, IF inTeam /\ Matched /\ cr.state = "Sleeping" THEN "wakeTeam" ELSE "mark")
          /\ UNCHANGED <<faults, lost>>
       \/ Spend /\ Goto(e, "queued") /\ UNCHANGED lost
       \/ /\ inTeam /\ Matched
          /\ Spend
          /\ Goto(e, "mark")
          /\ lost' = lost \cup {"mentionSkipped"}
    /\ UNCHANGED <<cr, box, rec, call, held, ticker, inTeam, room, seen, changes>>

\* setStandaloneWorkerRunning: first the state, then the time of the activity.
SetRunning(e) ==
    /\ mention[e] \in {"wakeOwn", "wakeTeam"}
    /\ \/ /\ Store(IF cr.here /\ cr.state = "Sleeping" THEN [cr EXCEPT !.state = "Running"] ELSE cr)
          /\ Goto(e, IF mention[e] = "wakeOwn" THEN "touchOwn" ELSE "touchTeam")
          /\ UNCHANGED faults
       \/ Spend /\ Goto(e, "queued") /\ UNCHANGED <<cr, held>>
    /\ UNCHANGED <<box, rec, call, ticker, inTeam, room, seen, changes, lost>>

SetLastActive(e) ==
    /\ mention[e] \in {"touchOwn", "touchTeam"}
    /\ \/ /\ Goto(e, IF mention[e] = "touchOwn" THEN "team" ELSE "mark")
          /\ held' = {}
          /\ UNCHANGED faults
       \/ Spend /\ Goto(e, "queued") /\ UNCHANGED held
    /\ UNCHANGED <<cr, box, rec, call, ticker, inTeam, room, seen, changes, lost>>

\* The event is marked only now; the homeserver may not see the answer.
MarkSeen(e) ==
    /\ mention[e] = "mark"
    /\ seen' = seen \cup {e}
    /\ \/ Goto(e, "done") /\ UNCHANGED faults
       \/ Spend /\ Goto(e, "queued")
    /\ UNCHANGED <<cr, box, rec, call, held, ticker, inTeam, room, changes, lost>>

------------------------------------------------------------------------------
\* The environment.

\* The Controller stops: passes, requests and the marks are in memory only.
ControllerRestarts ==
    /\ Spend
    /\ rec' = Idle
    /\ lost' = lost \cup Blind(FALSE)
    /\ call' = [c \in Calls |-> NoCall]
    /\ held' = {}
    /\ ticker' = FALSE
    /\ seen' = {}
    /\ mention' = [e \in Mentions |-> IF mention[e] \in {"none", "done"} THEN mention[e] ELSE "queued"]
    /\ UNCHANGED <<cr, box, inTeam, room, changes>>

ContainerDies ==
    /\ Spend
    /\ box.st = "running"
    /\ box' = [box EXCEPT !.st = "exited"]
    /\ UNCHANGED <<cr, rec, call, held, ticker, inTeam, room, mention, seen, changes, lost>>

------------------------------------------------------------------------------
Init ==
    /\ cr = [here |-> TRUE, deleting |-> FALSE, finalizer |-> FALSE, state |-> "Running",
             spec |-> 1, hash |-> 0, user |-> FALSE]
    /\ box = NoBox
    /\ rec = Idle
    /\ call = [c \in Calls |-> NoCall]
    /\ held = {}
    /\ ticker = FALSE
    /\ inTeam = FALSE
    /\ room \in [Mentions -> {"own", "team"}]
    /\ mention = [e \in Mentions |-> "none"]
    /\ seen = {}
    /\ changes = 0
    /\ faults = 0
    /\ lost = {}

Pass == \/ Reconcile \/ ReconcileMember \/ ReconcileMemberContainer
        \/ PatchStatus \/ reconcileDelete \/ RemoveFinalizer

Serve(c) == UpdateState(c) \/ CallStop(c) \/ CallStart(c) \/ WritePhase(c)

Handle(e) == \/ HandleTransactions(e) \/ wakeStandaloneWorker(e) \/ wakeTeamWorker(e)
             \/ SetRunning(e) \/ SetLastActive(e) \/ MarkSeen(e)

Next ==
    \/ Pass
    \/ \E c \in Calls : GetWorker(c) \/ Serve(c)
    \/ UpdateWorker \/ DeleteWorker \/ TeamChanges
    \/ shouldSleep \/ setWorkerState
    \/ \E e \in Mentions : SendMention(e) \/ Handle(e)
    \/ ControllerRestarts \/ ContainerDies

\* A failed pass is requeued and a good one repeated after reconcileInterval; a
\* request that was accepted is served; the homeserver pushes until it sees 200.
Fairness ==
    /\ WF_vars(Pass)
    /\ \A c \in Calls : WF_vars(Serve(c))
    /\ \A e \in Mentions : WF_vars(Handle(e))
    /\ WF_vars(setWorkerState)

Spec == Init /\ [][Next]_vars /\ Fairness

------------------------------------------------------------------------------
\* Type correctness of the resource, the container and the pass; the container that
\* a pass has just created is there until the pass ends: only passes remove one.
TypeOK ==
    /\ cr \in [here : BOOLEAN, deleting : BOOLEAN, finalizer : BOOLEAN, state : States,
               spec : 1 .. MaxSpec, hash : 0 .. MaxSpec, user : BOOLEAN]
    /\ box \in [st : {"none", "created", "running", "exited"}, spec : 0 .. MaxSpec]
    /\ rec.pc \in {"idle", "infra", "act", "report", "finalize"}
    /\ rec.made => rec.pc = "report" /\ box.st # "none"
    /\ \A c \in Calls : call[c].pc \in {"idle", "update", "stop", "start", "phase"}
    /\ held \subseteq Calls
    /\ seen \subseteq Mentions
    /\ changes \in 0 .. MaxChanges /\ faults \in 0 .. MaxFaults
    /\ lost \subseteq Accidents

\* status.specHash is the only memory of what a container was made from: when it
\* says that the current spec is applied (no pass will recreate anything), the
\* running container was made from that spec, whatever was edited, started,
\* stopped or failed in between (worker_controller.go:801, member_reconcile.go:599).
HashHonest ==
    cr.here /\ cr.hash = cr.spec /\ box.st = "running" /\ ~ rec.made
        /\ lost \cap {"unrecorded", "asleepSpec"} = {}
    => box.spec = cr.spec

\* The container is where the resource wants it.
Settled ==
    IF ~ cr.here THEN box.st = "none" \/ "deleteFailed" \in lost
    ELSE IF cr.deleting THEN inTeam
    ELSE CASE cr.state = "Stopped" -> box.st = "none"
           [] cr.state = "Sleeping" -> box.st # "running"
           [] cr.state = "Running" ->
                \/ box.st = "running" /\ (cr.spec = box.spec \/ lost \cap {"unrecorded", "asleepSpec"} # {})
                \/ box.st = "created" /\ "startFailed" \in lost

\* Whatever the endpoints, the ticker and mentions asked for in whatever order,
\* and whichever pass failed or was cut off, the container ends up in the state
\* that the resource asks for and stays there, and a deletion is finished.
Converges == <>[]Settled

\* The mention has nobody left to wake: the worker was awake at some time since.
Awake(e) ==
    \/ ~ Matched
    \/ cr.state # "Sleeping"
    \/ room[e] = "team" /\ ~ inTeam
    \/ "mentionSkipped" \in lost

\* A mention is never swallowed: failed wakes, lost answers, duplicates and a
\* restart of the Controller included, a sleeping worker that may be woken from
\* the room of the mention is woken before the event counts as handled
\* (appservice_handler.go:185).
MentionWakes == \A e \in Mentions : mention[e] = "queued" /\ e \notin seen ~> Awake(e)

==============================================================================
