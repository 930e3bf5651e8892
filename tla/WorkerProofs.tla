---------------------------- MODULE WorkerProofs ----------------------------
(***************************************************************************)
(* Theorems about a worker: its resource and container (WorkerLifecycle),  *)
(* for any requests, mentions, specs and bounds, and, in the second half,  *)
(* the configuration its runtime applies (RuntimeUpdate), for any          *)
(* configurations, packages, clients and bounds.                           *)
(***************************************************************************)
EXTENDS WorkerLifecycle, RuntimeUpdate, TLAPS

CrSet == [here : BOOLEAN, deleting : BOOLEAN, finalizer : BOOLEAN, state : States,
          spec : 1 .. MaxSpec, hash : 0 .. MaxSpec, user : BOOLEAN]
BoxStates == {"none", "created", "running", "exited"}
BoxSet == [st : BoxStates, spec : 0 .. MaxSpec]
RecSet == [pc : {"idle", "infra", "act", "report", "finalize"}, state : States,
           spec : 0 .. MaxSpec, hash : 0 .. MaxSpec, user : BOOLEAN,
           seen : BoxStates, done : BOOLEAN, made : BOOLEAN]
CallSet == [op : {"none", "wake", "sleep", "restart", "ensure"},
            pc : {"idle", "update", "stop", "start", "phase"}]
Places == {"none", "queued", "done", "own", "team", "wakeOwn", "wakeTeam", "touchOwn",
           "touchTeam", "mark"}

Types ==
  /\ cr \in CrSet /\ box \in BoxSet /\ rec \in RecSet
  /\ call \in [Calls -> CallSet] /\ held \subseteq Calls
  /\ mention \in [Mentions -> Places] /\ seen \subseteq Mentions
  /\ changes \in 0 .. MaxChanges /\ faults \in 0 .. MaxFaults
  /\ lost \subseteq Accidents

(***************************************************************************)
(* The accidents after which the recorded hash may say nothing of the      *)
(* container.                                                              *)
(***************************************************************************)
Unknown == lost \cap {"unrecorded", "asleepSpec"} # {}

(***************************************************************************)
(* Only a pass writes the hash, so its copy of the hash is the stored one. *)
(* Only a pass creates or removes a container, so that it was there when   *)
(* the pass looked says that it is there now.                              *)
(***************************************************************************)
PassKnows ==
  /\ rec.pc \in {"infra", "act", "report"} => rec.hash = cr.hash /\ rec.spec \in 1 .. MaxSpec
  /\ rec.pc = "act" => (rec.seen = "none" <=> box.st = "none")
  /\ rec.pc # "report" => ~ rec.done /\ ~ rec.made

(***************************************************************************)
(* Every container was made from the recorded spec, except the one that    *)
(* the pass under way has just made; and what the pass is about to record  *)
(* is true of the container, unless the worker sleeps.                     *)
(***************************************************************************)
BoxKnown ==
  /\ box.st # "none" => box.spec # 0
  /\ rec.made => box.st # "none" /\ box.spec = rec.spec
  /\ box.st # "none" /\ ~ rec.made => box.spec = cr.hash \/ Unknown
  /\ rec.done /\ rec.state = "Running" => box.spec = rec.spec \/ Unknown

IndInv == Types /\ PassKnows /\ BoxKnown

-----------------------------------------------------------------------------
\* What the container operations of the backend do to a container.
LEMMA BoxFacts ==
  ASSUME box \in BoxSet
  PROVE  /\ Delete \in BoxSet /\ Delete.st = "none"
         /\ Stop \in BoxSet /\ Stop.spec = box.spec /\ (Stop.st = "none" <=> box.st = "none")
         /\ Start \in BoxSet /\ Start.spec = box.spec /\ (Start.st = "none" <=> box.st = "none")
BY LifecycleAssumption DEF BoxSet, BoxStates, Delete, NoBox, Stop, Start

\* A pass that has not begun.
LEMMA IdleFacts ==
  /\ Idle \in RecSet /\ Idle.pc = "idle" /\ ~ Idle.done /\ ~ Idle.made
  /\ NoCall \in CallSet
BY LifecycleAssumption DEF Idle, RecSet, States, BoxStates, NoCall, CallSet

\* The bounded counters.
LEMMA Counters ==
  ASSUME Types
  PROVE  /\ Spend \/ faults' = faults => faults' \in 0 .. MaxFaults
         /\ (\E op : Change(op)) \/ changes' = changes => changes' \in 0 .. MaxChanges
BY LifecycleAssumption DEF Types, Spend, Change

\* A write of the resource.
LEMMA StoreFacts ==
  ASSUME Types, NEW new \in CrSet, Store(new)
  PROVE  cr' = new /\ held' \subseteq Calls
BY DEF Types, Store

\* Steps that leave the pass alone, and move the container at most.
LEMMA Beside ==
  ASSUME IndInv, rec' = rec, cr'.hash = cr.hash, lost \subseteq lost',
         box'.spec = box.spec, box'.st = "none" <=> box.st = "none"
  PROVE  PassKnows' /\ BoxKnown'
BY DEF IndInv, PassKnows, BoxKnown, Unknown

-----------------------------------------------------------------------------
(* The reconciler *)

\* A pass begins.
LEMMA BeginPass ==
  ASSUME IndInv, Reconcile
  PROVE  IndInv'
<1>1. Types /\ PassKnows /\ BoxKnown
  BY DEF IndInv
<1>2. PICK r : r = [Idle EXCEPT !.pc = "infra", !.state = cr.state, !.spec = cr.spec,
                                !.hash = cr.hash, !.user = cr.user]
  OBVIOUS
<1>3. /\ r \in RecSet /\ r.pc = "infra" /\ r.spec = cr.spec /\ r.hash = cr.hash
      /\ ~ r.done /\ ~ r.made
  <2>1. cr.spec \in 0 .. MaxSpec /\ cr.hash \in 0 .. MaxSpec /\ cr.state \in States /\ cr.user \in BOOLEAN
    BY <1>1, LifecycleAssumption DEF Types, CrSet
  <2>. QED BY <1>2, <2>1, IdleFacts DEF RecSet
<1>4. rec' = r
  BY <1>2 DEF Reconcile
<1>5. PICK new : new = [cr EXCEPT !.finalizer = TRUE]
  OBVIOUS
<1>6. new \in CrSet /\ new.hash = cr.hash
  BY <1>1, <1>5 DEF Types, CrSet
<1>7. cr' = new /\ held' \subseteq Calls
  BY <1>1, <1>5, <1>6, StoreFacts DEF Reconcile
<1>8. UNCHANGED <<box, call, ticker, inTeam, room, mention, seen, changes, faults, lost>>
      /\ rec.pc = "idle"
  BY DEF Reconcile
<1>9. Types'
  BY <1>1, <1>3, <1>4, <1>6, <1>7, <1>8 DEF Types
<1>10. cr.spec \in 1 .. MaxSpec
  BY <1>1 DEF Types, CrSet
<1>11. PassKnows' /\ BoxKnown'
  BY <1>1, <1>3, <1>4, <1>6, <1>7, <1>8, <1>10 DEF PassKnows, BoxKnown, Unknown
<1>. QED BY <1>9, <1>11 DEF IndInv

\* The pass looks at the container, or ends before.
LEMMA LookPass ==
  ASSUME IndInv, ReconcileMember
  PROVE  IndInv'
<1>1. Types /\ PassKnows /\ BoxKnown
  BY DEF IndInv
<1>2. /\ rec' \in RecSet /\ rec'.pc \in {"act", "report"} /\ rec'.hash = rec.hash
      /\ rec'.spec = rec.spec /\ rec'.state = rec.state /\ rec'.done = rec.done
      /\ rec'.made = rec.made
      /\ rec'.pc = "act" => rec'.seen = box.st
  <2>1. CASE rec' = [rec EXCEPT !.pc = "act", !.user = TRUE, !.seen = box.st]
    BY <1>1, <2>1 DEF Types, RecSet, BoxSet
  <2>2. ASSUME NEW user \in BOOLEAN, rec' = [rec EXCEPT !.pc = "report", !.user = @ \/ user]
        PROVE  /\ rec' \in RecSet /\ rec'.pc \in {"act", "report"} /\ rec'.hash = rec.hash
               /\ rec'.spec = rec.spec /\ rec'.state = rec.state /\ rec'.done = rec.done
               /\ rec'.made = rec.made
               /\ rec'.pc = "act" => rec'.seen = box.st
    <3>1. (rec.user \/ user) \in BOOLEAN
      OBVIOUS
    <3>. QED BY <1>1, <2>2, <3>1 DEF Types, RecSet
  <2>. QED BY <2>1, <2>2 DEF ReconcileMember
<1>3. UNCHANGED <<cr, box, call, held, ticker, inTeam, room, mention, seen, changes, lost>>
      /\ rec.pc = "infra"
  BY DEF ReconcileMember
<1>4. faults' \in 0 .. MaxFaults
  BY <1>1, Counters DEF ReconcileMember
<1>5. Types'
  BY <1>1, <1>2, <1>3, <1>4 DEF Types
<1>6. PassKnows' /\ BoxKnown'
  BY <1>1, <1>2, <1>3 DEF PassKnows, BoxKnown, Unknown
<1>. QED BY <1>5, <1>6 DEF IndInv

\* What the container phase of a pass leaves: an operation that failed or is not
\* the last one ends the pass, the others go on to record the hash.
Acted ==
  /\ rec' \in RecSet /\ rec'.pc = "report"
  /\ rec'.hash = rec.hash /\ rec'.spec = rec.spec /\ rec'.state = rec.state
  /\ box' \in BoxSet /\ faults' \in 0 .. MaxFaults /\ lost \subseteq lost' /\ lost' \subseteq Accidents
  /\ \/ /\ ~ rec'.made /\ (box'.st = "none" \/ box'.spec = box.spec)
        /\ box'.st # "none" => box.st # "none"
        /\ rec'.done /\ rec.state = "Running" => box.st # "none" /\ ~ SpecChanged /\ box'.spec = box.spec
     \/ rec'.made /\ box'.st # "none" /\ box'.spec = rec.spec

\* The rest of the pass is skipped, or it goes on to its end.
LEMMA EndFacts ==
  ASSUME IndInv, rec.pc = "act", CutShort \/ GoesOn
  PROVE  /\ rec' \in RecSet /\ rec'.pc = "report" /\ ~ rec'.made
         /\ rec'.hash = rec.hash /\ rec'.spec = rec.spec /\ rec'.state = rec.state
         /\ CutShort => ~ rec'.done
<1>1. rec \in RecSet /\ ~ rec.made /\ ~ rec.done
  BY DEF IndInv, Types, PassKnows
<1>. QED BY <1>1 DEF CutShort, GoesOn, RecSet, BoxStates

\* The container phase of a pass.
LEMMA ActSteps ==
  ASSUME IndInv, ReconcileMemberContainer
  PROVE  Acted
<1>1. Types /\ PassKnows /\ BoxKnown /\ rec.pc = "act" /\ rec.state \in States
  BY DEF IndInv, Types, RecSet, ReconcileMemberContainer
<1>2. box \in BoxSet /\ rec \in RecSet /\ (rec.seen = "none" <=> box.st = "none")
  BY <1>1 DEF Types, PassKnows
<1>3. ASSUME NEW after, Succeeds(after) \/ Fails(after)
      PROVE  box' \in {box, after} /\ faults' \in 0 .. MaxFaults
  BY <1>1, <1>3, Counters DEF Succeeds, Fails
<1>4. lost \subseteq Accidents
  BY <1>1 DEF Types
<1>5. CASE DeleteStale
  <2>1. CutShort /\ box' \in {box, Delete} /\ faults' \in 0 .. MaxFaults /\ lost' = lost
    BY <1>3, <1>5 DEF DeleteStale
  <2>. QED BY <1>1, <1>2, <1>4, <2>1, EndFacts, BoxFacts DEF Acted
<1>6. CASE KeepRunning
  <2>1. GoesOn /\ box' = box /\ faults' \in 0 .. MaxFaults /\ lost' = lost
        /\ rec.seen # "none" /\ ~ SpecChanged
    BY <1>1, <1>6, Counters DEF KeepRunning
  <2>. QED BY <1>1, <1>2, <1>4, <2>1, EndFacts DEF Acted
<1>7. CASE StartStopped
  <2>1. (CutShort \/ GoesOn) /\ box' \in {box, Start} /\ faults' \in 0 .. MaxFaults /\ lost' = lost
        /\ rec.seen # "none" /\ ~ SpecChanged
    BY <1>3, <1>7 DEF StartStopped
  <2>. QED BY <1>1, <1>2, <1>4, <2>1, EndFacts, BoxFacts DEF Acted
<1>8. CASE createMemberContainer
  <2>0. rec.seen = "none" /\ box.st = "none" /\ rec.spec \in 0 .. MaxSpec /\ rec.spec # 0
    BY <1>1, <1>2, <1>8 DEF createMemberContainer, PassKnows, RecSet
  <2>1. CASE /\ Succeeds([st |-> "running", spec |-> rec.spec])
             /\ rec' = [rec EXCEPT !.pc = "report", !.done = TRUE, !.made = TRUE]
             /\ UNCHANGED lost
    <3>1. box' = [st |-> "running", spec |-> rec.spec] /\ faults' \in 0 .. MaxFaults
      BY <1>1, <2>1, Counters DEF Succeeds
    <3>2. box' \in BoxSet /\ box'.st = "running" /\ box'.spec = rec.spec
      BY <2>0, <3>1 DEF BoxSet, BoxStates
    <3>. QED BY <1>2, <1>4, <2>1, <3>1, <3>2 DEF Acted, RecSet
  <2>2. CASE Spend /\ CutShort /\ UNCHANGED <<box, lost>>
    BY <1>1, <1>2, <1>4, <2>2, Counters, EndFacts DEF Acted
  <2>3. CASE /\ Spend
             /\ box' = [st |-> "created", spec |-> rec.spec]
             /\ rec' = [rec EXCEPT !.pc = "report", !.made = TRUE]
             /\ lost' = lost \cup {"startFailed"}
    <3>1. box' \in BoxSet /\ box'.st = "created" /\ box'.spec = rec.spec
      BY <2>0, <2>3 DEF BoxSet, BoxStates
    <3>. QED BY <1>1, <1>2, <1>4, <2>3, <3>1, Counters DEF Acted, RecSet, Accidents
  <2>. QED BY <1>8, <2>1, <2>2, <2>3 DEF createMemberContainer
<1>9. CASE rec.state # "Running" /\ \E remove \in BOOLEAN : ensureMemberContainerAbsent(remove)
  <2>1. PICK remove \in BOOLEAN : ensureMemberContainerAbsent(remove)
    BY <1>9
  <2>2. /\ CutShort \/ GoesOn
        /\ box' \in {box, Delete, Stop} /\ faults' \in 0 .. MaxFaults /\ lost' = lost
    BY <1>1, <1>3, <2>1, Counters DEF ensureMemberContainerAbsent
  <2>. QED BY <1>1, <1>2, <1>4, <1>9, <2>2, EndFacts, BoxFacts DEF Acted
<1>. QED BY <1>1, <1>5, <1>6, <1>7, <1>8, <1>9
     DEF ReconcileMemberContainer, ensureMemberContainerPresent, States

\* The container phase keeps the invariant.
LEMMA ActPass ==
  ASSUME IndInv, ReconcileMemberContainer
  PROVE  IndInv'
<1>1. Types /\ PassKnows /\ BoxKnown /\ rec.pc = "act"
  BY DEF IndInv, ReconcileMemberContainer
<1>2. Acted
  BY ActSteps
<1>3. UNCHANGED <<cr, call, held, ticker, inTeam, room, mention, seen, changes>>
  BY DEF ReconcileMemberContainer
<1>4. Types'
  BY <1>1, <1>2, <1>3 DEF Acted, Types
<1>5. PassKnows'
  BY <1>1, <1>2, <1>3 DEF Acted, PassKnows
<1>6. rec.hash = cr.hash /\ rec.spec # 0 /\ ~ rec.made
  BY <1>1 DEF PassKnows
<1>7. BoxKnown'
  BY <1>1, <1>2, <1>3, <1>6 DEF Acted, BoxKnown, Unknown, SpecChanged
<1>. QED BY <1>4, <1>5, <1>7 DEF IndInv

\* The status patch: the hash is recorded, or what it cannot tell is an accident.
LEMMA ReportPass ==
  ASSUME IndInv, PatchStatus
  PROVE  IndInv'
<1>1. Types /\ PassKnows /\ BoxKnown /\ rec.pc = "report"
  BY DEF IndInv, PatchStatus
<1>2. PICK done \in {rec.done, FALSE}, kept \in BOOLEAN :
        /\ IF done = rec.done /\ kept THEN UNCHANGED faults ELSE Spend
        /\ cr' = IF kept THEN [cr EXCEPT !.user = @ \/ rec.user,
                                         !.hash = IF done /\ rec.spec # rec.hash THEN rec.spec ELSE @]
                 ELSE cr
        /\ held' \in IF cr' # cr THEN {{}} ELSE IF kept THEN {held, {}} ELSE {held}
        /\ lost' = lost \cup Blind(done /\ kept)
  BY DEF PatchStatus
<1>3. /\ rec' = Idle
      /\ UNCHANGED <<box, call, ticker, inTeam, room, mention, seen, changes>>
  BY DEF PatchStatus
<1>4. rec.spec \in 1 .. MaxSpec /\ rec.hash = cr.hash /\ rec.user \in BOOLEAN /\ rec.done \in BOOLEAN
  BY <1>1 DEF PassKnows, Types, RecSet
<1>5. /\ cr' \in CrSet
      /\ cr'.hash = IF done /\ kept THEN rec.spec ELSE cr.hash
  <2>1. CASE kept
    <3>1. PICK u : u = (cr.user \/ rec.user)
      OBVIOUS
    <3>2. PICK h : h = IF done /\ rec.spec # rec.hash THEN rec.spec ELSE cr.hash
      OBVIOUS
    <3>3. u \in BOOLEAN
      BY <3>1
    <3>4. h \in 0 .. MaxSpec
      BY <1>1, <1>4, <3>2, LifecycleAssumption DEF Types, CrSet
    <3>5. cr' = [cr EXCEPT !.user = u, !.hash = h]
      BY <1>2, <2>1, <3>1, <3>2
    <3>6. cr' \in CrSet /\ cr'.hash = h
      BY <1>1, <3>3, <3>4, <3>5 DEF Types, CrSet
    <3>. QED BY <1>4, <2>1, <3>2, <3>6
  <2>2. CASE ~ kept
    BY <1>1, <1>2, <2>2 DEF Types
  <2>. QED BY <2>1, <2>2
<1>6. held' \subseteq Calls /\ faults' \in 0 .. MaxFaults
  BY <1>1, <1>2, Counters DEF Types
<1>7. lost' \subseteq Accidents
  BY <1>1, <1>2 DEF Types, Blind, Accidents
<1>8. Types'
  BY <1>1, <1>3, <1>5, <1>6, <1>7, IdleFacts DEF Types
<1>9. PassKnows'
  BY <1>3, IdleFacts DEF PassKnows
<1>10. BoxKnown'
  <2>1. box.st # "none" => box.spec = cr'.hash \/ Unknown'
    <3>1. CASE done /\ kept
      <4>1. rec.done
        BY <1>2, <3>1
      <4>2. CASE rec.state = "Running"
        BY <1>1, <1>2, <1>5, <3>1, <4>1, <4>2 DEF BoxKnown, Unknown
      <4>3. CASE rec.state # "Running"
        BY <1>2, <1>5, <3>1, <4>3 DEF Blind, Unknown
      <4>. QED BY <4>2, <4>3
    <3>2. CASE ~ (done /\ kept)
      <4>1. CASE rec.made
        BY <1>2, <3>2, <4>1 DEF Blind, Unknown
      <4>2. CASE ~ rec.made
        BY <1>1, <1>2, <1>5, <3>2, <4>2 DEF BoxKnown, Unknown
      <4>. QED BY <4>1, <4>2
    <3>. QED BY <3>1, <3>2
  <2>. QED BY <1>1, <1>3, <2>1, IdleFacts DEF BoxKnown
<1>. QED BY <1>8, <1>9, <1>10 DEF IndInv

\* The container goes with the resource.
LEMMA DeletePass ==
  ASSUME IndInv, reconcileDelete
  PROVE  IndInv'
<1>1. Types /\ PassKnows /\ BoxKnown
  BY DEF IndInv
<1>2. PICK r : r = [Idle EXCEPT !.pc = "finalize"]
  OBVIOUS
<1>3. rec' = r /\ r \in RecSet /\ r.pc = "finalize" /\ ~ r.done /\ ~ r.made
  BY <1>2, IdleFacts DEF reconcileDelete, RecSet
<1>4. /\ box' \in {box, Delete} /\ faults' \in 0 .. MaxFaults
      /\ lost' \in {lost, lost \cup {"deleteFailed"}}
      /\ UNCHANGED <<cr, call, held, ticker, inTeam, room, mention, seen, changes>>
      /\ rec.pc = "idle"
  BY <1>1, Counters DEF reconcileDelete, Succeeds, Fails
<1>5. Types'
  BY <1>1, <1>3, <1>4, BoxFacts DEF Types, Accidents
<1>6. PassKnows' /\ BoxKnown'
  BY <1>1, <1>3, <1>4, BoxFacts DEF Types, PassKnows, BoxKnown, Unknown
<1>. QED BY <1>5, <1>6 DEF IndInv

\* The resource goes, or the removal of its finalizer fails.
LEMMA FinalizerPass ==
  ASSUME IndInv, RemoveFinalizer
  PROVE  IndInv'
<1>1. Types /\ PassKnows /\ BoxKnown /\ rec.pc = "finalize"
  BY DEF IndInv, RemoveFinalizer
<1>2. PICK new : new = [cr EXCEPT !.here = FALSE]
  OBVIOUS
<1>3. new \in CrSet /\ new.hash = cr.hash
  BY <1>1, <1>2 DEF Types, CrSet
<1>4. cr' \in {cr, new} /\ held' \subseteq Calls /\ faults' \in 0 .. MaxFaults
  BY <1>1, <1>2, <1>3, StoreFacts, Counters DEF RemoveFinalizer, Types
<1>5. rec' = Idle /\ UNCHANGED <<box, call, ticker, inTeam, room, mention, seen, changes, lost>>
  BY DEF RemoveFinalizer
<1>6. Types'
  BY <1>1, <1>3, <1>4, <1>5, IdleFacts DEF Types
<1>7. PassKnows' /\ BoxKnown'
  BY <1>1, <1>3, <1>4, <1>5, IdleFacts DEF PassKnows, BoxKnown, Unknown
<1>. QED BY <1>6, <1>7 DEF IndInv

-----------------------------------------------------------------------------
(* Everybody else: the pass goes on, the hash and the presence of the       *)
(* container stay.                                                         *)

\* A step beside the pass, by what it may change.
LEMMA BesideInv ==
  ASSUME IndInv, rec' = rec, lost \subseteq lost', lost' \subseteq Accidents, cr' \in CrSet, cr'.hash = cr.hash,
         box' \in {box, Start, Stop},
         call' \in [Calls -> CallSet], held' \subseteq Calls,
         mention' \in [Mentions -> Places], seen' \subseteq Mentions,
         faults' \in 0 .. MaxFaults, changes' \in 0 .. MaxChanges
  PROVE  IndInv'
<1>1. Types /\ PassKnows /\ BoxKnown
  BY DEF IndInv
<1>2. box' \in BoxSet /\ box'.spec = box.spec /\ (box'.st = "none" <=> box.st = "none")
  BY <1>1, BoxFacts DEF Types
<1>3. Types'
  BY <1>1, <1>2 DEF Types
<1>. QED BY <1>2, <1>3, Beside DEF IndInv

\* The resource as the endpoints, the ticker and the mentions write it.
LEMMA WriteFacts ==
  ASSUME Types
  PROVE  /\ \A state \in States : /\ [cr EXCEPT !.state = state] \in CrSet
                                  /\ [cr EXCEPT !.state = state].hash = cr.hash
         /\ \A spec \in 1 .. MaxSpec : /\ [cr EXCEPT !.spec = spec] \in CrSet
                                       /\ [cr EXCEPT !.spec = spec].hash = cr.hash
         /\ [cr EXCEPT !.deleting = TRUE] \in CrSet /\ [cr EXCEPT !.deleting = TRUE].hash = cr.hash
         /\ [cr EXCEPT !.here = FALSE] \in CrSet /\ [cr EXCEPT !.here = FALSE].hash = cr.hash
         /\ cr \in CrSet
BY DEF Types, CrSet

\* Requests: where a call goes next.
LEMMA CallFacts ==
  ASSUME Types, NEW c \in Calls
  PROVE  /\ \A v \in CallSet : [call EXCEPT ![c] = v] \in [Calls -> CallSet]
         /\ \A pc \in {"update", "stop", "start", "phase"} :
              [call EXCEPT ![c].pc = pc] \in [Calls -> CallSet]
              /\ [call[c] EXCEPT !.pc = pc] \in CallSet
         /\ NoCall \in CallSet
BY IdleFacts DEF Types, CallSet

\* The endpoints.
LEMMA ServeInv ==
  ASSUME IndInv, NEW c \in Calls, GetWorker(c) \/ Serve(c)
  PROVE  IndInv'
<1>0. Types
  BY DEF IndInv
<1>1. faults' \in 0 .. MaxFaults /\ changes' \in 0 .. MaxChanges
  BY <1>0, Counters DEF GetWorker, Serve, UpdateState, CallStop, CallStart, WritePhase, Succeeds,
     Fails
<1>2. call' \in [Calls -> CallSet]
  <2>1. CASE GetWorker(c)
    <3>1. PICK op \in {"wake", "sleep", "restart", "ensure"} :
            call' = [call EXCEPT ![c] = [op |-> op, pc |-> "update"]]
      BY <2>1 DEF GetWorker
    <3>2. [op |-> op, pc |-> "update"] \in CallSet
      BY DEF CallSet
    <3>. QED BY <1>0, <3>1, <3>2, CallFacts
  <2>2. CASE UpdateState(c) \/ WritePhase(c)
    BY <1>0, <2>2, CallFacts, ZenonT(60) DEF UpdateState, WritePhase
  <2>3. CASE CallStop(c)
    BY <1>0, <2>3, CallFacts, ZenonT(60) DEF CallStop
  <2>4. CASE CallStart(c)
    BY <1>0, <2>4, CallFacts DEF CallStart
  <2>. QED BY <2>1, <2>2, <2>3, <2>4 DEF Serve
<1>3. cr' \in CrSet /\ cr'.hash = cr.hash /\ held' \subseteq Calls
  <2>1. CASE GetWorker(c) \/ CallStop(c) \/ CallStart(c) \/ WritePhase(c)
    BY <1>0, <2>1 DEF GetWorker, CallStop, CallStart, WritePhase, Types
  <2>2. CASE UpdateState(c)
    <3>1. CASE \E state \in States : Store([cr EXCEPT !.state = state])
      BY <1>0, <3>1, WriteFacts, StoreFacts
    <3>2. CASE cr' = cr /\ held' = held \ {c}
      BY <1>0, <3>2 DEF Types
    <3>. QED BY <2>2, <3>1, <3>2 DEF UpdateState, States
  <2>. QED BY <2>1, <2>2 DEF Serve
<1>4. box' \in {box, Start, Stop}
  BY DEF GetWorker, Serve, UpdateState, CallStop, CallStart, WritePhase, Succeeds, Fails
<1>5. UNCHANGED <<rec, lost, mention, seen>>
  BY DEF GetWorker, Serve, UpdateState, CallStop, CallStart, WritePhase
<1>. QED BY <1>0, <1>1, <1>2, <1>3, <1>4, <1>5, BesideInv DEF Types

\* Edits, deletion, teams, auto-sleep and containers that die.
LEMMA EditInv ==
  ASSUME IndInv,
         UpdateWorker \/ DeleteWorker \/ TeamChanges \/ shouldSleep \/ setWorkerState \/ ContainerDies
  PROVE  IndInv'
<1>0. Types
  BY DEF IndInv
<1>1. faults' \in 0 .. MaxFaults /\ changes' \in 0 .. MaxChanges
  BY <1>0, Counters DEF UpdateWorker, DeleteWorker, TeamChanges, shouldSleep, setWorkerState,
     ContainerDies
<1>2. cr' \in CrSet /\ cr'.hash = cr.hash /\ held' \subseteq Calls
  <2>1. CASE \/ \E state \in States : Store([cr EXCEPT !.state = state])
             \/ \E spec \in 1 .. MaxSpec : Store([cr EXCEPT !.spec = spec])
             \/ Store([cr EXCEPT !.deleting = TRUE]) \/ Store([cr EXCEPT !.here = FALSE])
             \/ Store(cr)
    BY <1>0, <2>1, WriteFacts, StoreFacts
  <2>2. CASE UNCHANGED <<cr, held>>
    BY <1>0, <2>2 DEF Types
  <2>3. CASE UpdateWorker
    BY <2>1, <2>3 DEF UpdateWorker, States
  <2>4. CASE DeleteWorker
    BY <2>1, <2>4 DEF DeleteWorker
  <2>5. CASE TeamChanges \/ shouldSleep \/ ContainerDies
    BY <2>2, <2>5 DEF TeamChanges, shouldSleep, ContainerDies
  <2>6. CASE setWorkerState
    BY <2>1, <2>2, <2>6 DEF setWorkerState, States
  <2>. QED BY <2>3, <2>4, <2>5, <2>6
<1>3. box' \in {box, Stop}
  BY DEF UpdateWorker, DeleteWorker, TeamChanges, shouldSleep, setWorkerState, ContainerDies, Stop
<1>4. UNCHANGED <<rec, lost, call, mention, seen>>
  BY DEF UpdateWorker, DeleteWorker, TeamChanges, shouldSleep, setWorkerState, ContainerDies
<1>. QED BY <1>0, <1>1, <1>2, <1>3, <1>4, BesideInv DEF Types

\* Mentions.
LEMMA MentionInv ==
  ASSUME IndInv, NEW e \in Mentions, SendMention(e) \/ Handle(e)
  PROVE  IndInv'
<1>0. Types
  BY DEF IndInv
<1>1. faults' \in 0 .. MaxFaults /\ changes' \in 0 .. MaxChanges
  BY <1>0, Counters DEF SendMention, Handle, HandleTransactions, wakeStandaloneWorker,
     wakeTeamWorker,
     SetRunning, SetLastActive, MarkSeen
<1>2. mention' \in [Mentions -> Places]
  <2>1. PICK pc \in Places : Goto(e, pc)
    BY DEF SendMention, Handle, HandleTransactions, wakeStandaloneWorker, wakeTeamWorker,
     SetRunning, SetLastActive, MarkSeen, Places
  <2>. QED BY <1>0, <2>1 DEF Goto, Types
<1>3. cr' \in CrSet /\ cr'.hash = cr.hash /\ held' \subseteq Calls
  <2>1. CASE SetRunning(e)
    <3>1. CASE UNCHANGED <<cr, held>>
      BY <1>0, <3>1 DEF Types
    <3>2. CASE Store(cr) \/ \E state \in States : Store([cr EXCEPT !.state = state])
      BY <1>0, <3>2, WriteFacts, StoreFacts
    <3>. QED BY <2>1, <3>1, <3>2 DEF SetRunning, States
  <2>2. CASE ~ SetRunning(e)
    BY <1>0, <2>2 DEF SendMention, Handle, HandleTransactions, wakeStandaloneWorker, wakeTeamWorker,
       SetLastActive, MarkSeen, Types
  <2>. QED BY <2>1, <2>2
<1>4. UNCHANGED <<rec, box, call>> /\ seen' \subseteq Mentions
  BY <1>0 DEF SendMention, Handle, HandleTransactions, wakeStandaloneWorker, wakeTeamWorker,
     SetRunning, SetLastActive, MarkSeen, Types
<1>5. lost' \in {lost, lost \cup {"mentionSkipped"}}
  BY DEF SendMention, Handle, HandleTransactions, wakeStandaloneWorker, wakeTeamWorker,
     SetRunning, SetLastActive, MarkSeen
<1>6. lost \subseteq lost' /\ lost' \subseteq Accidents
  BY <1>0, <1>5 DEF Types, Accidents
<1>. QED BY <1>0, <1>1, <1>2, <1>3, <1>4, <1>6, BesideInv DEF Types

\* The Controller restarts: a pass that has just made a container forgets it.
LEMMA RestartInv ==
  ASSUME IndInv, ControllerRestarts
  PROVE  IndInv'
<1>1. Types /\ PassKnows /\ BoxKnown
  BY DEF IndInv
<1>2. /\ rec' = Idle /\ UNCHANGED <<cr, box, changes>>
      /\ call' = [c \in Calls |-> NoCall] /\ held' = {} /\ seen' = {}
      /\ lost' = lost \cup Blind(FALSE)
      /\ mention' = [e \in Mentions |-> IF mention[e] \in {"none", "done"} THEN mention[e] ELSE "queued"]
  BY DEF ControllerRestarts
<1>3. faults' \in 0 .. MaxFaults
  BY <1>1, Counters DEF ControllerRestarts
<1>4. mention' \in [Mentions -> Places]
  BY <1>1, <1>2 DEF Types, Places
<1>5. lost' \subseteq Accidents /\ lost \subseteq lost'
  BY <1>1, <1>2 DEF Types, Blind, Accidents
<1>6. Types'
  BY <1>1, <1>2, <1>3, <1>4, <1>5, IdleFacts DEF Types
<1>7. box.st # "none" => box.spec = cr.hash \/ Unknown'
  <2>1. CASE rec.made
    BY <1>2, <2>1 DEF Blind, Unknown
  <2>2. CASE ~ rec.made
    BY <1>1, <1>5, <2>2 DEF BoxKnown, Unknown
  <2>. QED BY <2>1, <2>2
<1>8. PassKnows' /\ BoxKnown'
  BY <1>1, <1>2, <1>7, IdleFacts DEF PassKnows, BoxKnown
<1>. QED BY <1>6, <1>8 DEF IndInv

-----------------------------------------------------------------------------
\* The invariant holds at the start.
LEMMA InitInv == Init => IndInv
<1>. SUFFICES ASSUME Init PROVE IndInv
  OBVIOUS
<1>1. cr \in CrSet /\ cr.hash = 0
  BY LifecycleAssumption DEF Init, CrSet, States
<1>2. box \in BoxSet /\ box.st = "none"
  BY LifecycleAssumption DEF Init, NoBox, BoxSet, BoxStates
<1>3. call \in [Calls -> CallSet] /\ mention \in [Mentions -> Places]
  BY IdleFacts DEF Init, Places
<1>4. Types
  BY <1>1, <1>2, <1>3, IdleFacts, LifecycleAssumption DEF Init, Types
<1>5. PassKnows /\ BoxKnown
  BY <1>2, IdleFacts DEF Init, PassKnows, BoxKnown
<1>. QED BY <1>4, <1>5 DEF IndInv

\* The invariant is inductive.
LEMMA Inductive == IndInv /\ [Next]_vars => IndInv'
<1>. SUFFICES ASSUME IndInv, [Next]_vars PROVE IndInv'
  OBVIOUS
<1>1. CASE UNCHANGED vars
  BY <1>1 DEF vars, IndInv, Types, PassKnows, BoxKnown, Unknown
<1>2. CASE Pass
  BY <1>2, BeginPass, LookPass, ActPass, ReportPass, DeletePass, FinalizerPass DEF Pass
<1>3. CASE Next /\ ~ Pass
  BY <1>3, ServeInv, EditInv, MentionInv, RestartInv DEF Next
<1>. QED BY <1>1, <1>2, <1>3

-----------------------------------------------------------------------------
(***************************************************************************)
(* In every reachable state a container whose making was recorded was made *)
(* from the recorded spec, and only the pass under way knows more.         *)
(***************************************************************************)
THEOREM LifecycleInvariant == Spec => []IndInv
  BY InitInv, Inductive, PTL DEF Spec

(***************************************************************************)
(* The resource, the container, the pass and the requests are well typed;  *)
(* a container that a pass has just created stays until the pass ends.     *)
(***************************************************************************)
THEOREM TypeCorrect == Spec => []TypeOK
<1>1. IndInv => TypeOK
  <2>. SUFFICES ASSUME IndInv PROVE TypeOK
    OBVIOUS
  <2>1. Types /\ PassKnows /\ BoxKnown
    BY DEF IndInv
  <2>2. \A c \in Calls : call[c].pc \in {"idle", "update", "stop", "start", "phase"}
    BY <2>1 DEF Types, CallSet
  <2>3. rec.pc \in {"idle", "infra", "act", "report", "finalize"}
    BY <2>1 DEF Types, RecSet
  <2>4. rec.made => rec.pc = "report" /\ box.st # "none"
    BY <2>1 DEF PassKnows, BoxKnown
  <2>. QED BY <2>1, <2>2, <2>3, <2>4 DEF Types, TypeOK, CrSet, BoxSet, BoxStates
<1>. QED BY <1>1, LifecycleInvariant, PTL

(***************************************************************************)
(* status.specHash (worker_controller.go, member_reconcile.go): when it    *)
(* says that the current spec is applied, the running container was made   *)
(* from that spec, whatever was edited, slept, woken or failed meanwhile,  *)
(* unless one of the two named accidents happened.                         *)
(***************************************************************************)
THEOREM HashIsHonest == Spec => []HashHonest
<1>1. IndInv => HashHonest
  BY DEF IndInv, BoxKnown, Unknown, HashHonest
<1>. QED BY <1>1, LifecycleInvariant, PTL

-----------------------------------------------------------------------------
(* The updater *)

AfterPackage == {"mcp", "clients", "own", "inline", "commit"}
Swap == {"clean", "copy", "unlink", "link", "mark"}
AfterPolicy == {"package"} \cup Swap \cup AfterPackage
AfterMatrix == {"policy"} \cup AfterPolicy
AfterModel == {"matrix"} \cup AfterMatrix
Steps == {"model"} \cup AfterModel

(***************************************************************************)
(* Types.                                                                  *)
(***************************************************************************)
Values(p) == {None} \cup {c[p] : c \in Configs}
ClientValues == {None} \cup {c.mcp[k] : c \in Configs, k \in Keys}
Clients == [Keys -> ClientValues]
PkgValues == Packages \cup {None}

WantSet == [cfg : Configs, gen : Nat]
MemSet == [cfg : Configs \cup {None}, gen : Nat, model : Values("model"),
           matrix : Values("matrix"), pkg : PkgValues, mcp : Clients,
           inline : Values("inline"), retry : BOOLEAN]
WsSet == [prompt : PkgValues \cup Values("inline"), pkgs : SUBSET Packages]
SnapSet == [held : BOOLEAN, ws : WsSet, current : PkgValues]
JobSet == [pc : {"down", "starting", "idle"} \cup Steps, cfg : Configs \cup {None}, gen : Nat,
           force : BOOLEAN, do : SUBSET {"model", "matrix", "pkg", "inline"}, snap : SnapSet]
RtSet == [model : Values("model"), matrix : Values("matrix"), acl : Values("acl"), mcp : Clients]
DirSet == [current : PkgValues, marker : PkgValues]
SpentSet == [changes : Nat, faults : Nat]

UpdaterTypes ==
  /\ want \in WantSet /\ mem \in MemSet /\ job \in JobSet /\ rt \in RtSet
  /\ owned \subseteq Keys /\ ws \in WsSet /\ pkgdir \in DirSet
  /\ torn \subseteq Parts /\ spent \in SpentSet

(***************************************************************************)
(* The application under way: its configuration, what it has to do, and    *)
(* that nothing is remembered before the first one.                        *)
(***************************************************************************)
JobOK ==
  /\ mem.gen <= want.gen /\ job.gen <= want.gen
  /\ job.pc \in Steps => job.cfg \in Configs
  /\ job.pc \in {"down", "starting"} => mem = Forgotten
  /\ job.pc \in Steps /\ job.force => {"model", "pkg", "inline"} \subseteq job.do
  /\ "pkg" \in job.do => "inline" \in job.do
  /\ job.snap.held <=> job.pc \in Swap

ModelOK ==
  /\ mem.model # None /\ "model" \notin torn => rt.model = mem.model
  /\ job.pc \in AfterModel \/ (job.pc = "model" /\ "model" \notin job.do)
        => mem.model = job.cfg.model

ChannelOK ==
  /\ mem.matrix # None /\ "matrix" \notin torn => rt.matrix = mem.matrix
  /\ job.pc \in AfterMatrix \/ (job.pc \in Steps /\ "matrix" \notin job.do)
        => mem.retry \/ mem.matrix = job.cfg.matrix
  /\ job.pc \in AfterPolicy /\ "acl" \notin torn => mem.retry \/ rt.acl = job.cfg.acl

(***************************************************************************)
(* w, d: a workspace and the package in current/ between two changes of    *)
(* the package, against what is remembered.                                *)
(***************************************************************************)
SettledDir(d) == "pkg" \notin torn => d = None \/ pkgdir.marker = d
SettledPkgs(w, d) ==
  /\ "left" \notin torn => w.pkgs \subseteq {d}
  /\ mem.pkg # None /\ "pkg" \notin torn =>
        d = mem.pkg /\ pkgdir.marker = mem.pkg /\ mem.pkg \in w.pkgs
SettledPrompt(w) == mem.inline # None /\ "inline" \notin torn => w.prompt = mem.inline

PackageChanged == "pkg" \in job.do /\ job.pc \in AfterPackage

PackageOK ==
  /\ job.pc # "mark" => SettledDir(pkgdir.current)
  /\ job.pc \notin Swap /\ "left" \notin torn => ws.pkgs \subseteq {pkgdir.current}
  /\ job.pc \notin Swap /\ ~ PackageChanged => SettledPkgs(ws, pkgdir.current)
  /\ PackageChanged /\ job.cfg.pkg # None =>
        /\ pkgdir.marker = job.cfg.pkg /\ pkgdir.current # None
        /\ pkgdir.current \in ws.pkgs
        /\ "pkg" \notin torn => pkgdir.current = job.cfg.pkg
  /\ job.pc \in Steps /\ "pkg" \notin job.do => mem.pkg = job.cfg.pkg

SwapOK ==
  job.pc \in Swap =>
    /\ "pkg" \in job.do /\ job.cfg.pkg # None
    /\ SettledDir(job.snap.current) /\ SettledPkgs(job.snap.ws, job.snap.current)
    /\ SettledPrompt(job.snap.ws)
    /\ pkgdir.current = CASE job.pc = "link" -> None
                          [] job.pc = "mark" -> job.cfg.pkg
                          [] OTHER -> job.snap.current
    /\ job.pc = "clean" => ws = job.snap.ws
    /\ job.pc = "copy" /\ "left" \notin torn =>
          ws.pkgs \subseteq {pkgdir.current} \cap {job.cfg.pkg}
    /\ job.pc \in {"unlink", "link", "mark"} =>
          /\ job.cfg.pkg \in ws.pkgs
          /\ "left" \notin torn => ws.pkgs \subseteq {job.cfg.pkg}

InlineOK ==
  /\ job.pc \notin Swap /\ (PackageChanged => job.pc = "commit") => SettledPrompt(ws)
  /\ job.pc = "commit" \/ (job.pc \in Steps /\ "inline" \notin job.do)
        => mem.inline = job.cfg.inline

ClientsOK ==
  /\ "mcp" \notin torn =>
        \A k \in Keys :
          /\ rt.mcp[k] # None => k \in owned \/ job.pc = "own"
          /\ mem.mcp[k] # None /\ rt.mcp[k] # None => rt.mcp[k] = mem.mcp[k]
          /\ job.pc = "clients" /\ job.cfg.mcp[k] = None => rt.mcp[k] = None
  /\ job.pc \in {"own", "inline", "commit"} =>
        /\ mem.mcp = job.cfg.mcp
        /\ "mcp" \notin torn => rt.mcp = job.cfg.mcp

UpdaterInv ==
  /\ UpdaterTypes /\ JobOK /\ ModelOK /\ ChannelOK
  /\ PackageOK /\ SwapOK /\ InlineOK /\ ClientsOK

-----------------------------------------------------------------------------
(* Types *)

\* A configuration's parts are values of theirs.
LEMMA ConfigParts ==
  ASSUME NEW c \in Configs
  PROVE  /\ c.model \in Values("model") /\ c.matrix \in Values("matrix") /\ c.matrix # None
         /\ c.acl \in Values("acl") /\ c.inline \in Values("inline")
         /\ c.pkg \in PkgValues /\ c.mcp \in Clients
<1>1. c.pkg \in PkgValues /\ c.matrix # None /\ c.mcp = [k \in Keys |-> c.mcp[k]]
  BY UpdateConfigs DEF PkgValues
<1>2. \A k \in Keys : c.mcp[k] \in ClientValues
  BY DEF ClientValues
<1>3. c.mcp \in Clients
  BY <1>1, <1>2 DEF Clients
<1>4. c["model"] \in Values("model") /\ c["matrix"] \in Values("matrix")
      /\ c["acl"] \in Values("acl") /\ c["inline"] \in Values("inline")
  BY DEF Values
<1>. QED BY <1>1, <1>3, <1>4

\* The values with nothing in them are typed.
LEMMA ForgottenTyped ==
  /\ NoClients \in Clients /\ Forgotten \in MemSet /\ NoSnap \in SnapSet
  /\ None \in PkgValues /\ None \in Values("model") /\ None \in Values("inline")
<1>1. NoClients \in Clients
  BY DEF NoClients, Clients, ClientValues
<1>2. /\ None \in Values("model") /\ None \in Values("matrix") /\ None \in Values("inline")
      /\ None \in PkgValues
  BY DEF PkgValues, Values
<1>3. NoSnap \in SnapSet
  BY <1>2 DEF NoSnap, SnapSet, WsSet
<1>4. Forgotten \in MemSet
  BY <1>1, <1>2 DEF Forgotten, MemSet
<1>. QED BY <1>1, <1>2, <1>3, <1>4

\* So is a worker that applies nothing.
LEMMA NoJobTyped ==
  ASSUME NEW pc \in {"down", "starting", "idle"}
  PROVE  NoJob(pc) \in JobSet
BY ForgottenTyped DEF NoJob, JobSet

\* The invariant holds at the start.
LEMMA UpdaterStarts == UpdaterInit => UpdaterInv
<1>. SUFFICES ASSUME UpdaterInit PROVE UpdaterInv
  OBVIOUS
<1>1. UpdaterTypes
  <2>1. rt \in RtSet /\ ws \in WsSet /\ pkgdir \in DirSet
    <3>1. None \in Values("acl") /\ None \in Values("matrix")
      BY DEF Values
    <3>. QED BY <3>1, ForgottenTyped DEF UpdaterInit, RtSet, WsSet, DirSet
  <2>2. job \in JobSet
    BY NoJobTyped DEF UpdaterInit
  <2>3. want \in WantSet /\ spent \in SpentSet /\ mem \in MemSet
    BY ForgottenTyped DEF UpdaterInit, WantSet, SpentSet
  <2>. QED BY <2>1, <2>2, <2>3 DEF UpdaterInit, UpdaterTypes
<1>2. job.pc = "starting" /\ job.gen = 0 /\ job.do = {} /\ ~ job.snap.held
  BY DEF UpdaterInit, NoJob, NoSnap
<1>3. mem.model = None /\ mem.matrix = None /\ mem.pkg = None /\ mem.inline = None /\ mem.gen = 0
      /\ want.gen = 1 /\ ws.pkgs = {} /\ pkgdir.current = None /\ pkgdir.marker = None
      /\ \A k \in Keys : rt.mcp[k] = None
  BY DEF UpdaterInit, Forgotten, NoClients
<1>. USE DEF Swap, Steps, AfterModel, AfterMatrix, AfterPolicy, AfterPackage
<1>4. JobOK
  BY <1>2, <1>3 DEF UpdaterInit, JobOK
<1>5. ModelOK /\ ChannelOK /\ SwapOK /\ InlineOK
  BY <1>2, <1>3 DEF UpdaterInit, ModelOK, ChannelOK, SwapOK, InlineOK, SettledPrompt
<1>6. PackageOK
  BY <1>2, <1>3 DEF UpdaterInit, PackageOK, SettledDir, SettledPkgs, PackageChanged
<1>7. ClientsOK
  BY <1>2, <1>3 DEF UpdaterInit, ClientsOK
<1>. QED BY <1>1, <1>4, <1>5, <1>6, <1>7 DEF UpdaterInv

\* An application that raises keeps the types.
LEMMA RaisedTyped ==
  ASSUME UpdaterTypes
  PROVE  /\ MemAfterRaise \in MemSet
         /\ NoJob(IF job.force THEN "down" ELSE "idle") \in JobSet
         /\ NoJob("idle") \in JobSet /\ NoJob("down") \in JobSet /\ NoJob("starting") \in JobSet
         /\ \A pc \in Steps : [job EXCEPT !.pc = pc] \in JobSet
BY NoJobTyped, ForgottenTyped DEF UpdaterTypes, MemAfterRaise, JobSet

\* Changes and faults are counted.
LEMMA SpentTyped ==
  ASSUME UpdaterTypes
  PROVE  /\ Faulty => spent' \in SpentSet
         /\ \A o : Ended(o) => spent' \in SpentSet
BY DEF UpdaterTypes, SpentSet, Faulty, Ended

\* The calls of the three channel parts keep the types.
LEMMA ChannelTypes ==
  ASSUME UpdaterTypes, JobOK,
         \/ \E o \in Outcomes : ApplyModel(o)
         \/ \E o \in Outcomes \cup {"defer"} : ApplyMatrix(o)
         \/ \E o \in Outcomes \cup {"defer", "unset"} : ApplyPolicy(o)
  PROVE  UpdaterTypes'
<1>0. /\ want \in WantSet /\ mem \in MemSet /\ job \in JobSet /\ rt \in RtSet
      /\ torn \subseteq Parts /\ spent \in SpentSet
  BY DEF UpdaterTypes
<1>1. CASE \E o \in Outcomes : ApplyModel(o)
  <2>1. PICK o \in Outcomes : ApplyPart("model", "matrix", o)
    BY <1>1 DEF ApplyModel
  <2>2. job.cfg["model"] \in Values("model")
    BY <2>1, ConfigParts DEF ApplyPart, JobOK, Steps
  <2>3. rt' \in RtSet
    BY <1>0, <2>1, <2>2 DEF ApplyPart, RtSet
  <2>4. mem' \in MemSet
    BY <1>0, <2>1, <2>2, RaisedTyped DEF ApplyPart, MemSet
  <2>5. job' \in JobSet
    BY <1>0, <2>1, RaisedTyped DEF ApplyPart, Goes, Raises, Steps, AfterModel
  <2>6. torn' \subseteq Parts /\ spent' \in SpentSet
    BY <1>0, <2>1, SpentTyped DEF ApplyPart, Parts
  <2>. QED BY <2>1, <2>3, <2>4, <2>5, <2>6 DEF UpdaterTypes, ApplyPart
<1>2. CASE \E o \in Outcomes \cup {"defer"} : ApplyMatrix(o)
  <2>1. PICK o \in Outcomes \cup {"defer"} : ApplyMatrix(o)
    BY <1>2
  <2>2. job.cfg.matrix \in Values("matrix") /\ None \in Values("acl")
    BY <2>1, ConfigParts DEF ApplyMatrix, JobOK, Steps, AfterModel, Values
  <2>3. rt' \in RtSet
    BY <1>0, <2>1, <2>2 DEF ApplyMatrix, RtSet
  <2>4. mem' \in MemSet
    <3>1. mem' \in {mem, [mem EXCEPT !.retry = TRUE], MemAfterRaise,
                    [mem EXCEPT !.matrix = job.cfg.matrix, !.retry = FALSE]}
      BY <2>1 DEF ApplyMatrix
    <3>. QED BY <1>0, <2>2, <3>1, RaisedTyped DEF MemSet
  <2>5. job' \in JobSet
    BY <1>0, <2>1, RaisedTyped DEF ApplyMatrix, Goes, Raises, Steps, AfterModel, AfterMatrix
  <2>6. torn' \subseteq Parts /\ spent' \in SpentSet
    BY <1>0, <2>1, SpentTyped DEF ApplyMatrix, RetryForgotten, Parts
  <2>. QED BY <2>1, <2>3, <2>4, <2>5, <2>6 DEF UpdaterTypes, ApplyMatrix
<1>3. CASE \E o \in Outcomes \cup {"defer", "unset"} : ApplyPolicy(o)
  <2>1. PICK o \in Outcomes \cup {"defer", "unset"} : ApplyPolicy(o)
    BY <1>3
  <2>2. job.cfg.acl \in Values("acl")
    BY <2>1, ConfigParts DEF ApplyPolicy, JobOK, Steps, AfterModel, AfterMatrix
  <2>3. rt' \in RtSet
    BY <1>0, <2>1, <2>2 DEF ApplyPolicy, RtSet
  <2>4. mem' \in {mem, [mem EXCEPT !.retry = TRUE], MemAfterRaise}
    BY <2>1 DEF ApplyPolicy
  <2>5. job' \in JobSet
    BY <1>0, <2>1, RaisedTyped
       DEF ApplyPolicy, Goes, Raises, Steps, AfterModel, AfterMatrix, AfterPolicy
  <2>6. torn' \subseteq Parts /\ spent' \in SpentSet
    BY <1>0, <2>1, SpentTyped DEF ApplyPolicy, RetryForgotten, Parts
  <2>7. mem' \in MemSet
    BY <1>0, <2>4, RaisedTyped DEF MemSet
  <2>. QED BY <2>1, <2>3, <2>5, <2>6, <2>7 DEF UpdaterTypes, ApplyPolicy
<1>. QED BY <1>1, <1>2, <1>3

\* So do the steps of the package swap.
LEMMA PackageTypes ==
  ASSUME UpdaterTypes, JobOK, SwapOK, PackageStep
  PROVE  UpdaterTypes'
<1>0. /\ want \in WantSet /\ mem \in MemSet /\ job \in JobSet /\ rt \in RtSet
      /\ ws \in WsSet /\ pkgdir \in DirSet /\ torn \subseteq Parts /\ spent \in SpentSet
  BY DEF UpdaterTypes
<1>1. /\ job.pc \in Steps => job.cfg.pkg \in PkgValues
      /\ \A p \in Packages : Copied(p) \in WsSet
  BY <1>0, ConfigParts DEF JobOK, Copied, WsSet, PkgValues
<1>2. job.snap \in SnapSet /\ job.snap.ws \in WsSet /\ job.snap.current \in PkgValues
  BY <1>0 DEF JobSet, SnapSet
<1>. USE DEF Steps, AfterModel, AfterMatrix, AfterPolicy, AfterPackage, Swap
<1>3. CASE PackageNotDue
  BY <1>0, <1>3, RaisedTyped DEF UpdaterTypes, PackageNotDue, Goes
<1>4. CASE PackageFetched
  <2>1. [held |-> TRUE, ws |-> ws, current |-> pkgdir.current] \in SnapSet
    BY <1>0 DEF SnapSet, DirSet
  <2>2. job' \in JobSet
    BY <1>0, <1>4, <2>1 DEF PackageFetched, JobSet
  <2>. QED BY <1>0, <1>4, <2>2 DEF UpdaterTypes, PackageFetched
<1>5. CASE PackageCleaned
  <2>1. ws' \in WsSet
    BY <1>0, <1>5 DEF PackageCleaned, WsSet
  <2>. QED BY <1>0, <1>5, <2>1, RaisedTyped DEF UpdaterTypes, PackageCleaned, Goes
<1>6. CASE PackageCopied \/ CurrentMoved \/ StagingMoved
  <2>1. pkgdir' \in DirSet
    BY <1>0, <1>1, <1>6 DEF PackageCopied, CurrentMoved, StagingMoved, DirSet, PkgValues
  <2>2. job' \in JobSet
    BY <1>6, RaisedTyped DEF PackageCopied, CurrentMoved, StagingMoved, Goes
  <2>3. CASE PackageCopied
    <3>1. job.cfg.pkg \in Packages
      BY <1>1, <2>3 DEF PackageCopied, SwapOK, PkgValues
    <3>. QED BY <1>0, <1>1, <2>1, <2>2, <2>3, <3>1 DEF UpdaterTypes, PackageCopied
  <2>. QED BY <1>0, <1>6, <2>1, <2>2, <2>3 DEF UpdaterTypes, CurrentMoved, StagingMoved
<1>7. CASE MarkerWritten
  <2>1. pkgdir' \in DirSet
    BY <1>0, <1>1, <1>7 DEF MarkerWritten, DirSet
  <2>2. job' \in JobSet
    BY <1>0, <1>7, ForgottenTyped DEF MarkerWritten, JobSet
  <2>. QED BY <1>0, <1>7, <2>1, <2>2 DEF UpdaterTypes, MarkerWritten
<1>8. CASE PackageFails
  <2>1. ws' \in WsSet /\ pkgdir' \in DirSet
    BY <1>0, <1>2, <1>8 DEF PackageFails, DirSet
  <2>2. spent' \in SpentSet
    BY <1>8, SpentTyped DEF PackageFails
  <2>3. job' \in JobSet /\ mem' \in MemSet
    BY <1>8, RaisedTyped DEF PackageFails, Raises
  <2>. QED BY <1>0, <1>8, <2>1, <2>2, <2>3 DEF UpdaterTypes, PackageFails
<1>9. ASSUME NEW o \in Outcomes, PackageCurrent(o)
      PROVE  UpdaterTypes'
  <2>1. pkgdir.current \in Packages
    BY <1>0, <1>9 DEF PackageCurrent, DirSet, PkgValues
  <2>2. ws' \in WsSet
    BY <1>0, <1>1, <1>9, <2>1 DEF PackageCurrent
  <2>3. spent' \in SpentSet
    BY <1>9, SpentTyped DEF PackageCurrent
  <2>4. job' \in JobSet /\ mem' \in MemSet
    BY <1>0, <1>9, RaisedTyped DEF PackageCurrent, Raises, Goes
  <2>. QED BY <1>0, <1>9, <2>2, <2>3, <2>4 DEF UpdaterTypes, PackageCurrent
<1>. QED BY <1>3, <1>4, <1>5, <1>6, <1>7, <1>8, <1>9 DEF PackageStep

\* So do the clients, the inline configuration and the end of an application.
LEMMA ClientTypes ==
  ASSUME UpdaterTypes, JobOK,
         \/ \E o \in Outcomes : DeleteClients(o) \/ WriteClients(o) \/ ApplyInline(o)
         \/ RecordOwned \/ Commit
  PROVE  UpdaterTypes'
<1>0. /\ want \in WantSet /\ mem \in MemSet /\ job \in JobSet /\ rt \in RtSet
      /\ ws \in WsSet /\ pkgdir \in DirSet /\ torn \subseteq Parts /\ spent \in SpentSet
      /\ rt.mcp \in Clients
  BY DEF UpdaterTypes, RtSet
<1>1. job.pc \in Steps => job.cfg \in Configs /\ job.cfg.pkg \in PkgValues /\ job.cfg.mcp \in Clients
                          /\ job.cfg.inline \in Values("inline")
  BY ConfigParts DEF JobOK
<1>2. Unrecorded \subseteq Parts
  BY DEF Unrecorded, Parts
<1>. USE DEF Steps, AfterModel, AfterMatrix, AfterPolicy, AfterPackage
<1>3. ASSUME NEW o \in Outcomes, DeleteClients(o) \/ WriteClients(o)
      PROVE  UpdaterTypes'
  <2>1. PICK c \in Clients : rt' = [rt EXCEPT !.mcp = c]
    <3>1. CASE DeleteClients(o)
      <4>1. PICK D \in SUBSET StaleClients :
              rt' = [rt EXCEPT !.mcp = [k \in DOMAIN @ |-> IF k \in D THEN None ELSE @[k]]]
        BY <3>1 DEF DeleteClients
      <4>2. [k \in DOMAIN rt.mcp |-> IF k \in D THEN None ELSE rt.mcp[k]] \in Clients
        BY <1>0 DEF Clients, ClientValues
      <4>. QED BY <4>1, <4>2
    <3>2. CASE WriteClients(o)
      <4>1. PICK D \in SUBSET DueClients :
              rt' = [rt EXCEPT !.mcp = [k \in DOMAIN @ |-> IF k \in D THEN job.cfg.mcp[k] ELSE @[k]]]
        BY <3>2 DEF WriteClients
      <4>2. job.cfg.mcp \in Clients
        BY <1>1, <3>2 DEF WriteClients
      <4>3. [k \in DOMAIN rt.mcp |-> IF k \in D THEN job.cfg.mcp[k] ELSE rt.mcp[k]] \in Clients
        BY <1>0, <4>2 DEF Clients
      <4>. QED BY <4>1, <4>3
    <3>. QED BY <1>3, <3>1, <3>2
  <2>2. rt' \in RtSet
    BY <1>0, <2>1 DEF RtSet
  <2>3. mem' \in MemSet
    <3>1. mem' \in {mem, MemAfterRaise} \/ (mem' = [mem EXCEPT !.mcp = job.cfg.mcp] /\ job.pc \in Steps)
      BY <1>3 DEF DeleteClients, WriteClients
    <3>. QED BY <1>0, <1>1, <3>1, RaisedTyped DEF MemSet
  <2>4. job' \in JobSet
    BY <1>3, RaisedTyped DEF DeleteClients, WriteClients, Goes, Raises
  <2>5. spent' \in SpentSet /\ torn' \subseteq Parts
    BY <1>0, <1>2, <1>3, SpentTyped DEF DeleteClients, WriteClients, Parts
  <2>. QED BY <1>0, <1>3, <2>2, <2>3, <2>4, <2>5 DEF UpdaterTypes, DeleteClients, WriteClients
<1>4. ASSUME NEW o \in Outcomes, ApplyInline(o)
      PROVE  UpdaterTypes'
  <2>1. ws' \in WsSet
    BY <1>0, <1>1, <1>4 DEF ApplyInline, WsSet
  <2>2. mem' \in MemSet
    <3>1. mem' \in {mem, MemAfterRaise} \/ (mem' = [mem EXCEPT !.inline = job.cfg.inline] /\ job.pc \in Steps)
      BY <1>4 DEF ApplyInline
    <3>. QED BY <1>0, <1>1, <3>1, RaisedTyped DEF MemSet
  <2>3. job' \in JobSet
    BY <1>4, RaisedTyped DEF ApplyInline, Goes, Raises
  <2>4. spent' \in SpentSet /\ torn' \subseteq Parts
    BY <1>0, <1>2, <1>4, SpentTyped DEF ApplyInline, Parts
  <2>. QED BY <1>0, <1>4, <2>1, <2>2, <2>3, <2>4 DEF UpdaterTypes, ApplyInline
<1>5. CASE RecordOwned
  <2>1. job' \in JobSet
    BY <1>5, RaisedTyped DEF RecordOwned, Goes
  <2>2. owned' \subseteq Keys /\ torn' \subseteq Parts
    BY <1>0, <1>5 DEF RecordOwned
  <2>. QED BY <1>0, <1>5, <2>1, <2>2 DEF UpdaterTypes, RecordOwned
<1>6. CASE Commit
  <2>1. mem' \in MemSet
    <3>1. job.cfg \in Configs /\ job.cfg.pkg \in PkgValues /\ job.gen \in Nat
      BY <1>0, <1>1, <1>6 DEF Commit, JobSet
    <3>2. PICK p \in PkgValues : mem' = [mem EXCEPT !.cfg = job.cfg, !.gen = job.gen, !.pkg = p]
      BY <1>0, <1>6, <3>1 DEF Commit, MemSet
    <3>. QED BY <1>0, <3>1, <3>2 DEF MemSet
  <2>2. job' \in JobSet /\ torn' \subseteq Parts
    BY <1>0, <1>6, RaisedTyped DEF Commit
  <2>. QED BY <1>0, <1>6, <2>1, <2>2 DEF UpdaterTypes, Commit
<1>. QED BY <1>3, <1>4, <1>5, <1>6

\* So do the controller, the start of an application and the worker's restarts.
LEMMA WorkerTypes ==
  ASSUME UpdaterTypes, JobOK,
         \/ \E c \in Configs : Desire(c)
         \/ \E force, readable \in BOOLEAN : Begin(force, readable)
         \/ Restart \/ Crash \/ UNCHANGED updaterVars
  PROVE  UpdaterTypes'
<1>0. /\ want \in WantSet /\ mem \in MemSet /\ job \in JobSet
      /\ torn \subseteq Parts /\ spent \in SpentSet
  BY DEF UpdaterTypes
<1>1. ASSUME NEW c \in Configs, Desire(c)
      PROVE  UpdaterTypes'
  <2>1. want' \in WantSet /\ spent' \in SpentSet
    BY <1>0, <1>1 DEF Desire, WantSet, SpentSet
  <2>. QED BY <1>1, <2>1 DEF UpdaterTypes, Desire
<1>2. ASSUME NEW force \in BOOLEAN, NEW readable \in BOOLEAN, Begin(force, readable)
      PROVE  UpdaterTypes'
  <2>1. ToApply(want.cfg, force, readable) \in SUBSET {"model", "matrix", "pkg", "inline"}
    BY DEF ToApply
  <2>2. want.cfg \in Configs /\ want.gen \in Nat
    BY <1>0 DEF WantSet
  <2>3. job' \in JobSet
    BY <1>2, <2>1, <2>2, ForgottenTyped DEF Begin, JobSet, Steps
  <2>4. mem' \in MemSet
    BY <1>0, <1>2 DEF Begin, MemSet
  <2>5. spent' \in SpentSet
    BY <1>0, <1>2, SpentTyped DEF Begin
  <2>. QED BY <1>2, <2>3, <2>4, <2>5 DEF UpdaterTypes, Begin
<1>3. CASE Restart
  BY <1>3, RaisedTyped DEF UpdaterTypes, Restart
<1>4. CASE Crash
  <2>1. torn' \subseteq Parts
    BY <1>0, <1>4 DEF Crash, Parts
  <2>2. mem' \in MemSet /\ job' \in JobSet /\ spent' \in SpentSet
    BY <1>4, RaisedTyped, ForgottenTyped, SpentTyped DEF Crash
  <2>. QED BY <1>4, <2>1, <2>2 DEF UpdaterTypes, Crash
<1>5. CASE UNCHANGED updaterVars
  BY <1>5 DEF UpdaterTypes, updaterVars
<1>. QED BY <1>1, <1>2, <1>3, <1>4, <1>5

-----------------------------------------------------------------------------
(* Where an application goes *)

(***************************************************************************)
(* Parts of the record job that an application keeps, and what it changes  *)
(* in job on its way: it goes to a next step, ends, or raises.             *)
(***************************************************************************)
Same(f) == job'[f] = job[f]
Continues ==
  /\ job.pc \in Steps /\ job'.pc \in Steps
  /\ Same("cfg") /\ Same("do") /\ Same("gen") /\ Same("force")
Aborts == job.pc \in Steps /\ Raises /\ mem' = MemAfterRaise
Ends == job'.pc \in {"down", "starting", "idle"} /\ job'.do = {} /\ job'.gen = 0 /\ ~ job'.snap.held

\* A step that goes on changes nothing of the application but where it is.
LEMMA GoesFacts ==
  ASSUME UpdaterTypes, NEW pc \in Steps, Goes(pc)
  PROVE  /\ job'.pc = pc /\ job'.snap = job.snap
         /\ Same("cfg") /\ Same("do") /\ Same("gen") /\ Same("force")
BY DEF UpdaterTypes, JobSet, Goes, Same

\* After a step that raised no application is under way.
LEMMA RaisesFacts ==
  ASSUME UpdaterTypes, Raises
  PROVE  Ends /\ job'.pc = (IF job.force THEN "down" ELSE "idle")
BY DEF Raises, NoJob, NoSnap, Ends

\* What a worker that restarts remembers.
LEMMA ForgottenFacts ==
  /\ Forgotten.cfg = None /\ Forgotten.gen = 0 /\ Forgotten.model = None /\ Forgotten.matrix = None
  /\ Forgotten.pkg = None /\ Forgotten.inline = None /\ ~ Forgotten.retry
  /\ Forgotten.mcp = [k \in Keys |-> None]
BY DEF Forgotten, NoClients

\* What is remembered after a step that raised: what was, or nothing.
LEMMA MemFacts ==
  MemAfterRaise \in {mem, Forgotten} /\ (job.force => MemAfterRaise = Forgotten)
BY DEF MemAfterRaise

\* The start of an application.
LEMMA BeginFacts ==
  ASSUME UpdaterTypes, NEW force \in BOOLEAN, NEW readable \in BOOLEAN, Begin(force, readable)
  PROVE  /\ job'.pc = "model" /\ job'.cfg = want.cfg /\ job'.gen = want.gen /\ job'.force = force
         /\ ~ job'.snap.held /\ want.cfg \in Configs
         /\ \A p \in {"model", "pkg"} : p \in job'.do <=> force \/ want.cfg[p] # mem[p]
         /\ "matrix" \in job'.do <=> readable /\ (force \/ want.cfg.matrix # mem.matrix)
         /\ "inline" \in job'.do <=> force \/ want.cfg.pkg # mem.pkg \/ want.cfg.inline # mem.inline
         /\ mem' = [mem EXCEPT !.retry = ~readable]
         /\ UNCHANGED <<rt, owned, ws, pkgdir, torn>>
BY DEF Begin, ToApply, NoSnap, UpdaterTypes, WantSet

\* A step of the application goes on with it or raises.
LEMMA StepShape ==
  ASSUME UpdaterTypes, JobOK,
         \/ \E o \in Outcomes : ApplyModel(o)
         \/ \E o \in Outcomes \cup {"defer"} : ApplyMatrix(o)
         \/ \E o \in Outcomes \cup {"defer", "unset"} : ApplyPolicy(o)
         \/ PackageStep
         \/ \E o \in Outcomes : DeleteClients(o) \/ WriteClients(o) \/ ApplyInline(o)
         \/ RecordOwned
  PROVE  /\ Continues \/ Aborts
         /\ Continues => mem'.gen = mem.gen /\ (job'.snap.held <=> job'.pc \in Swap)
         /\ want' = want
<1>0. mem \in MemSet /\ job \in JobSet
  BY DEF UpdaterTypes
<1>. USE DEF Steps, AfterModel, AfterMatrix, AfterPolicy, AfterPackage, Swap
<1>. DEFINE Fine == /\ Continues \/ Aborts
                    /\ Continues => mem'.gen = mem.gen /\ (job'.snap.held <=> job'.pc \in Swap)
                    /\ want' = want
<1>. SUFFICES Fine
  OBVIOUS
<1>1. ASSUME Aborts, want' = want
      PROVE  Fine
  BY <1>1, RaisesFacts DEF Aborts, Continues, Ends
<1>2. ASSUME NEW pc \in Steps, Goes(pc), job.pc \in Steps, pc \in Swap <=> job.snap.held,
             want' = want, mem'.gen = mem.gen
      PROVE  Fine
  BY <1>2, GoesFacts DEF Continues
<1>. HIDE DEF Fine
<1>3. ASSUME NEW o, ApplyModel(o)
      PROVE  Fine
  <2>1. job.pc = "model" /\ ~ job.snap.held /\ want' = want
    BY <1>3 DEF ApplyModel, ApplyPart, JobOK
  <2>2. CASE o = "ok"
    <3>1. Goes("matrix") /\ mem'.gen = mem.gen
      BY <1>0, <1>3, <2>2 DEF ApplyModel, ApplyPart, MemSet
    <3>. QED BY <1>2, <2>1, <3>1
  <2>3. CASE o # "ok"
    BY <1>1, <1>3, <2>1, <2>3 DEF ApplyModel, ApplyPart, Aborts
  <2>. QED BY <2>2, <2>3
<1>4. ASSUME NEW o, ApplyMatrix(o)
      PROVE  Fine
  <2>1. job.pc = "matrix" /\ ~ job.snap.held /\ want' = want
    BY <1>4 DEF ApplyMatrix, JobOK
  <2>2. CASE o \in {"ok", "defer"}
    <3>1. Goes("policy") /\ mem'.gen = mem.gen
      BY <1>0, <1>4, <2>2 DEF ApplyMatrix, MemSet
    <3>. QED BY <1>2, <2>1, <3>1
  <2>3. CASE o \notin {"ok", "defer"}
    BY <1>1, <1>4, <2>1, <2>3 DEF ApplyMatrix, Aborts
  <2>. QED BY <2>2, <2>3
<1>5. ASSUME NEW o, ApplyPolicy(o)
      PROVE  Fine
  <2>1. job.pc = "policy" /\ ~ job.snap.held /\ want' = want
    BY <1>5 DEF ApplyPolicy, JobOK
  <2>2. (Goes("package") /\ mem'.gen = mem.gen) \/ (Raises /\ mem' = MemAfterRaise)
    BY <1>0, <1>5 DEF ApplyPolicy, MemSet
  <2>. QED BY <1>1, <1>2, <2>1, <2>2 DEF Aborts
<1>6. ASSUME NEW o, PackageCurrent(o)
      PROVE  Fine
  <2>1. job.pc = "package" /\ ~ job.snap.held /\ want' = want
    BY <1>6 DEF PackageCurrent, PackageDue, JobOK
  <2>2. (Goes("mcp") /\ mem' = mem) \/ (Raises /\ mem' = MemAfterRaise)
    BY <1>6 DEF PackageCurrent
  <2>. QED BY <1>1, <1>2, <2>1, <2>2 DEF Aborts
<1>7. CASE PackageNotDue
  <2>1. job.pc = "package" /\ ~ job.snap.held /\ want' = want /\ Goes("mcp") /\ mem' = mem
    BY <1>7 DEF PackageNotDue, JobOK
  <2>. QED BY <1>2, <2>1
<1>8. CASE PackageCleaned \/ PackageCopied \/ CurrentMoved \/ StagingMoved
  <2>1. job.pc \in Swap /\ job.snap.held /\ want' = want /\ mem' = mem
    BY <1>8 DEF PackageCleaned, PackageCopied, CurrentMoved, StagingMoved, JobOK
  <2>2. Goes("copy") \/ Goes("unlink") \/ Goes("link") \/ Goes("mark")
    BY <1>8 DEF PackageCleaned, PackageCopied, CurrentMoved, StagingMoved
  <2>. QED BY <1>2, <2>1, <2>2
<1>9. CASE PackageFetched \/ MarkerWritten
  <2>1. /\ Same("cfg") /\ Same("do") /\ Same("gen") /\ Same("force")
        /\ job.pc \in Steps /\ job'.pc \in {"clean", "mcp"}
        /\ job'.snap.held <=> job'.pc = "clean"
    <3>1. CASE PackageFetched
      <4>1. job' = [job EXCEPT !.pc = "clean",
                               !.snap = [held |-> TRUE, ws |-> ws, current |-> pkgdir.current]]
            /\ job.pc = "package"
        BY <3>1 DEF PackageFetched, PackageDue
      <4>. QED BY <1>0, <4>1 DEF Same, JobSet
    <3>2. CASE MarkerWritten
      <4>1. job' = [job EXCEPT !.pc = "mcp", !.snap = NoSnap] /\ job.pc = "mark" /\ ~ NoSnap.held
        BY <3>2 DEF MarkerWritten, NoSnap
      <4>. QED BY <1>0, <4>1 DEF Same, JobSet
    <3>. QED BY <1>9, <3>1, <3>2
  <2>2. mem' = mem /\ want' = want
    BY <1>9 DEF PackageFetched, MarkerWritten
  <2>. QED BY <2>1, <2>2 DEF Fine, Continues
<1>10. CASE PackageFails
  BY <1>1, <1>10 DEF PackageFails, PackageDue, InPackage, Aborts
<1>11. ASSUME NEW o, DeleteClients(o) \/ WriteClients(o) \/ ApplyInline(o)
       PROVE  Fine
  <2>1. job.pc \in AfterPackage /\ ~ job.snap.held /\ want' = want
    BY <1>11 DEF DeleteClients, WriteClients, ApplyInline, JobOK
  <2>2. ((Goes("clients") \/ Goes("own") \/ Goes("commit")) /\ mem'.gen = mem.gen)
        \/ (Raises /\ mem' = MemAfterRaise)
    BY <1>0, <1>11 DEF DeleteClients, WriteClients, ApplyInline, MemSet
  <2>. QED BY <1>1, <1>2, <2>1, <2>2 DEF Aborts
<1>12. CASE RecordOwned
  <2>1. job.pc = "own" /\ ~ job.snap.held /\ want' = want /\ Goes("inline") /\ mem' = mem
    BY <1>12 DEF RecordOwned, JobOK
  <2>. QED BY <1>2, <2>1
<1>. QED BY <1>3, <1>4, <1>5, <1>6, <1>7, <1>8, <1>9, <1>10, <1>11, <1>12 DEF PackageStep

-----------------------------------------------------------------------------
(* The application under way *)

\* Every step keeps the application under way as it is, begins a new one or ends it.
LEMMA JobStep ==
  ASSUME UpdaterInv, [UpdaterNext]_updaterVars, UpdaterTypes'
  PROVE  JobOK'
<1>0. UpdaterTypes /\ JobOK
  BY DEF UpdaterInv
<1>1. want.gen \in Nat /\ mem.gen \in Nat /\ job.gen \in Nat
  BY <1>0 DEF UpdaterTypes, WantSet, MemSet, JobSet
<1>. USE DEF Steps, AfterModel, AfterMatrix, AfterPolicy, AfterPackage, Swap
<1>2. CASE UNCHANGED updaterVars \/ SkipPoll
  BY <1>0, <1>2 DEF JobOK, SkipPoll, updaterVars
<1>3. CASE \E c \in Configs : Desire(c)
  BY <1>0, <1>1, <1>3 DEF JobOK, Desire
<1>4. CASE \E force, readable \in BOOLEAN : Begin(force, readable)
  <2>1. PICK force \in BOOLEAN, readable \in BOOLEAN : Begin(force, readable)
    BY <1>4
  <2>2. mem'.gen = mem.gen /\ want' = want
    BY <1>0, <2>1 DEF Begin, UpdaterTypes, MemSet
  <2>. QED BY <1>0, <1>1, <2>1, <2>2, BeginFacts DEF JobOK
<1>5. CASE Restart \/ Crash
  BY <1>0, <1>1, <1>5, ForgottenFacts DEF JobOK, Restart, Crash, NoJob, NoSnap
<1>6. CASE Commit
  <2>1. mem'.gen = job.gen
    BY <1>0, <1>6 DEF Commit, UpdaterTypes, MemSet
  <2>. QED BY <1>0, <1>1, <1>6, <2>1 DEF JobOK, Commit, NoJob, NoSnap
<1>7. ASSUME Aborts, want' = want
      PROVE  JobOK'
  <2>1. MemAfterRaise.gen <= want.gen
    BY <1>0, <1>1, MemFacts, ForgottenFacts DEF JobOK
  <2>. QED BY <1>0, <1>1, <1>7, <2>1, RaisesFacts, MemFacts DEF JobOK, Aborts, Ends
<1>8. ASSUME Continues, want' = want, mem'.gen = mem.gen, job'.snap.held <=> job'.pc \in Swap
      PROVE  JobOK'
  BY <1>0, <1>8 DEF JobOK, Continues, Same
<1>. QED BY <1>0, <1>2, <1>3, <1>4, <1>5, <1>6, <1>7, <1>8, StepShape DEF UpdaterNext, UpdaterStep

-----------------------------------------------------------------------------
(* Model and channel *)

OtherSteps ==
  \/ \E c \in Configs : Desire(c)
  \/ PackageStep
  \/ \E o \in Outcomes : DeleteClients(o) \/ WriteClients(o) \/ ApplyInline(o)
  \/ RecordOwned \/ Commit \/ Restart \/ Crash \/ SkipPoll \/ UNCHANGED updaterVars

\* What the steps that do not apply a part of the channel leave alone.
LEMMA ChannelFrame ==
  ASSUME UpdaterTypes, JobOK, OtherSteps
  PROVE  /\ rt'.model = rt.model /\ rt'.matrix = rt.matrix /\ rt'.acl = rt.acl
         /\ \A p \in {"model", "matrix", "acl"} : p \in torn' <=> p \in torn
         /\ \/ mem'.model = mem.model /\ mem'.matrix = mem.matrix /\ mem'.retry = mem.retry
            \/ mem' = Forgotten /\ job'.pc \notin Steps
         /\ \/ job'.pc \notin Steps
            \/ job' = job /\ mem' = mem
            \/ Continues /\ job.pc \in AfterPolicy /\ job'.pc \in AfterPolicy
<1>0. mem \in MemSet /\ rt \in RtSet /\ job \in JobSet
  BY DEF UpdaterTypes
<1>1. CASE UNCHANGED updaterVars \/ SkipPoll \/ \E c \in Configs : Desire(c)
  BY <1>1 DEF updaterVars, SkipPoll, Desire
<1>2. CASE Restart \/ Crash
  BY <1>0, <1>2 DEF Restart, Crash, NoJob, Steps, AfterModel, AfterMatrix, AfterPolicy,
     AfterPackage, Swap
<1>3. CASE Commit
  <2>1. mem'.model = mem.model /\ mem'.matrix = mem.matrix /\ mem'.retry = mem.retry
    BY <1>0, <1>3 DEF Commit, MemSet
  <2>. QED
    BY <1>3, <2>1 DEF Commit, NoJob, Steps, AfterModel, AfterMatrix, AfterPolicy, AfterPackage,
       Swap
<1>4. ASSUME PackageStep \/ RecordOwned
             \/ \E o \in Outcomes : DeleteClients(o) \/ WriteClients(o) \/ ApplyInline(o)
      PROVE  /\ rt'.model = rt.model /\ rt'.matrix = rt.matrix /\ rt'.acl = rt.acl
             /\ \A p \in {"model", "matrix", "acl"} : p \in torn' <=> p \in torn
             /\ \/ mem'.model = mem.model /\ mem'.matrix = mem.matrix /\ mem'.retry = mem.retry
                \/ Raises /\ mem' = MemAfterRaise
             /\ job.pc \in AfterPolicy /\ job'.pc \in AfterPolicy \cup {"idle", "down"}
  <2>. USE DEF AfterPolicy, AfterPackage, Swap
  <2>1. CASE PackageStep
    <3>1. /\ rt' = rt /\ (mem' = mem \/ (Raises /\ mem' = MemAfterRaise)) /\ torn' \in {torn, torn \ {"pkg"}}
          /\ job.pc \in AfterPolicy
      BY <2>1 DEF PackageStep, PackageNotDue, PackageFetched, PackageCleaned,
         PackageCopied, CurrentMoved,
                  StagingMoved, MarkerWritten, PackageFails, PackageCurrent, PackageDue,
                  InPackage
    <3>2. CASE PackageFetched \/ MarkerWritten
      BY <1>0, <3>1, <3>2 DEF PackageFetched, MarkerWritten, JobSet
    <3>3. CASE ~ (PackageFetched \/ MarkerWritten)
      <4>1. Raises \/ \E pc \in {"mcp", "copy", "unlink", "link", "mark"} : Goes(pc)
        BY <2>1, <3>3
           DEF PackageStep, PackageNotDue, PackageCleaned, PackageCopied, CurrentMoved,
               StagingMoved, PackageFails, PackageCurrent
      <4>. QED BY <1>0, <3>1, <4>1 DEF Goes, Raises, NoJob, JobSet
    <3>. QED BY <3>1, <3>2, <3>3
  <2>2. CASE RecordOwned
    BY <1>0, <2>2 DEF RecordOwned, Goes, JobSet
  <2>3. ASSUME NEW o \in Outcomes, DeleteClients(o) \/ WriteClients(o) \/ ApplyInline(o)
        PROVE  /\ rt'.model = rt.model /\ rt'.matrix = rt.matrix /\ rt'.acl = rt.acl
               /\ \A p \in {"model", "matrix", "acl"} : p \in torn' <=> p \in torn
               /\ \/ mem'.model = mem.model /\ mem'.matrix = mem.matrix /\ mem'.retry = mem.retry
                  \/ Raises /\ mem' = MemAfterRaise
               /\ job.pc \in AfterPolicy /\ job'.pc \in AfterPolicy \cup {"idle", "down"}
    <3>1. rt'.model = rt.model /\ rt'.matrix = rt.matrix /\ rt'.acl = rt.acl
      BY <1>0, <2>3 DEF DeleteClients, WriteClients, ApplyInline, RtSet
    <3>2. \A p \in {"model", "matrix", "acl"} : p \in torn' <=> p \in torn
      BY <2>3 DEF DeleteClients, WriteClients, ApplyInline, Unrecorded
    <3>3. \/ mem'.model = mem.model /\ mem'.matrix = mem.matrix /\ mem'.retry = mem.retry
          \/ Raises /\ mem' = MemAfterRaise
      BY <1>0, <2>3 DEF DeleteClients, WriteClients, ApplyInline, MemSet
    <3>4. job.pc \in AfterPolicy /\ job'.pc \in AfterPolicy \cup {"idle", "down"}
      BY <1>0, <2>3 DEF DeleteClients, WriteClients, ApplyInline, Goes, Raises, NoJob,
         JobSet
    <3>. QED BY <3>1, <3>2, <3>3, <3>4
  <2>. QED BY <1>4, <2>1, <2>2, <2>3
<1>5. ASSUME PackageStep \/ RecordOwned
             \/ \E o \in Outcomes : DeleteClients(o) \/ WriteClients(o) \/ ApplyInline(o)
      PROVE  /\ \/ mem'.model = mem.model /\ mem'.matrix = mem.matrix /\ mem'.retry = mem.retry
                \/ mem' = Forgotten /\ job'.pc \notin Steps
             /\ \/ job'.pc \notin Steps
                \/ Continues /\ job.pc \in AfterPolicy /\ job'.pc \in AfterPolicy
  <2>1. Continues \/ Aborts
    BY <1>5, StepShape
  <2>2. CASE Continues
    <3>1. job'.pc \in AfterPolicy /\ job.pc \in AfterPolicy
      BY <1>4, <1>5, <2>2 DEF Continues, Steps, AfterModel, AfterMatrix, AfterPolicy, AfterPackage,
         Swap
    <3>2. mem'.model = mem.model /\ mem'.matrix = mem.matrix /\ mem'.retry = mem.retry
      BY <1>4, <1>5, <2>2, <3>1, RaisesFacts
         DEF Continues, Ends, Steps, AfterModel, AfterMatrix, AfterPolicy, AfterPackage, Swap
    <3>. QED BY <2>2, <3>1, <3>2
  <2>3. CASE Aborts
    <3>1. job'.pc \notin Steps
      BY <2>3, RaisesFacts
         DEF Aborts, Ends, Steps, AfterModel, AfterMatrix, AfterPolicy, AfterPackage, Swap
    <3>. QED BY <2>3, <3>1, MemFacts DEF Aborts
  <2>. QED BY <2>1, <2>2, <2>3
<1>. QED BY <1>1, <1>2, <1>3, <1>4, <1>5 DEF OtherSteps

\* Every step keeps what is remembered of the model true.
LEMMA ModelStep ==
  ASSUME UpdaterInv, [UpdaterNext]_updaterVars
  PROVE  ModelOK'
<1>0. UpdaterTypes /\ JobOK /\ ModelOK /\ mem \in MemSet /\ rt \in RtSet /\ job \in JobSet
  BY DEF UpdaterInv, UpdaterTypes
<1>. USE DEF Steps, AfterModel, AfterMatrix, AfterPolicy, AfterPackage, Swap
<1>1. ASSUME NEW o \in Outcomes, ApplyModel(o)
      PROVE  ModelOK'
  <2>1. ApplyPart("model", "matrix", o)
    BY <1>1 DEF ApplyModel
  <2>2. CASE o = "ok"
    <3>1. job'.cfg = job.cfg /\ job.pc = "model"
      BY <1>0, <2>1, <2>2 DEF ApplyPart, Goes, JobSet
    <3>2. CASE "model" \in job.do
      <4>1. mem'.model = job.cfg.model /\ (job.cfg.model # None => rt'.model = job.cfg.model)
        BY <1>0, <2>1, <2>2, <3>2 DEF ApplyPart, MemSet, RtSet, Took
      <4>. QED BY <3>1, <4>1 DEF ModelOK
    <3>3. CASE "model" \notin job.do
      BY <1>0, <2>1, <2>2, <3>1, <3>3 DEF ApplyPart, ModelOK
    <3>. QED BY <3>2, <3>3
  <2>3. CASE o # "ok"
    <3>1. job'.pc \notin Steps /\ mem' \in {mem, Forgotten}
      BY <2>1, <2>3, RaisesFacts, <1>0, MemFacts DEF ApplyPart, Ends
    <3>2. "model" \notin torn' => "model" \notin torn /\ rt'.model = rt.model
      BY <2>1, <2>3 DEF ApplyPart, Took
    <3>. QED BY <1>0, <3>1, <3>2, ForgottenFacts DEF ModelOK
  <2>. QED BY <2>2, <2>3
<1>2. ASSUME NEW o, ApplyMatrix(o) \/ ApplyPolicy(o)
      PROVE  ModelOK'
  <2>1. rt'.model = rt.model /\ ("model" \in torn' <=> "model" \in torn)
    <3>1. CASE ApplyMatrix(o)
      <4>1. "model" \in torn' <=> "model" \in torn
        BY <3>1 DEF ApplyMatrix, RetryForgotten
      <4>2. rt' \in {rt, [rt EXCEPT !.matrix = job.cfg.matrix, !.acl = None]}
        BY <3>1 DEF ApplyMatrix
      <4>. QED BY <1>0, <4>1, <4>2 DEF RtSet
    <3>2. CASE ApplyPolicy(o)
      <4>1. "model" \in torn' <=> "model" \in torn
        BY <3>2 DEF ApplyPolicy, RetryForgotten
      <4>. QED BY <1>0, <3>2, <4>1 DEF ApplyPolicy, RtSet
    <3>. QED BY <1>2, <3>1, <3>2
  <2>2. CASE mem' = MemAfterRaise /\ Raises
    BY <1>0, <2>1, <2>2, RaisesFacts, MemFacts, ForgottenFacts DEF ModelOK, Ends
  <2>3. CASE ~ (mem' = MemAfterRaise /\ Raises)
    <3>1. (Goes("policy") \/ Goes("package")) /\ job.pc \in {"matrix", "policy"}
      BY <1>2, <2>3 DEF ApplyMatrix, ApplyPolicy
    <3>2. mem'.model = mem.model
      BY <1>0, <1>2, <2>3 DEF ApplyMatrix, ApplyPolicy, MemSet
    <3>3. job'.cfg = job.cfg /\ job.pc \in AfterModel
      BY <1>0, <3>1 DEF Goes, JobSet
    <3>. QED BY <1>0, <2>1, <3>2, <3>3 DEF ModelOK
  <2>. QED BY <2>2, <2>3
<1>3. ASSUME NEW force \in BOOLEAN, NEW readable \in BOOLEAN, Begin(force, readable)
      PROVE  ModelOK'
  <2>1. /\ job'.pc = "model" /\ job'.cfg = want.cfg /\ rt' = rt /\ torn' = torn
        /\ "model" \in job'.do <=> force \/ want.cfg["model"] # mem["model"]
    BY <1>0, <1>3, BeginFacts
  <2>2. mem'.model = mem.model
    BY <1>0, <1>3, BeginFacts DEF MemSet
  <2>. QED BY <1>0, <2>1, <2>2 DEF ModelOK
<1>4. CASE OtherSteps
  <2>1. /\ rt'.model = rt.model /\ ("model" \in torn' <=> "model" \in torn)
        /\ mem'.model = mem.model \/ (mem' = Forgotten /\ job'.pc \notin Steps)
        /\ \/ job'.pc \notin Steps
           \/ job' = job /\ mem' = mem
           \/ Continues /\ job.pc \in AfterPolicy /\ job'.pc \in AfterPolicy
    BY <1>0, <1>4, ChannelFrame
  <2>. QED BY <1>0, <2>1, ForgottenFacts DEF ModelOK, Continues, Same
<1>. QED BY <1>1, <1>2, <1>3, <1>4 DEF UpdaterNext, UpdaterStep, OtherSteps

\* Every step keeps what is remembered of the channel true, and its policy once it is applied.
LEMMA ChannelStep ==
  ASSUME UpdaterInv, [UpdaterNext]_updaterVars
  PROVE  ChannelOK'
<1>0. UpdaterTypes /\ JobOK /\ ChannelOK /\ mem \in MemSet /\ rt \in RtSet /\ job \in JobSet
  BY DEF UpdaterInv, UpdaterTypes
<1>. USE DEF Steps, AfterModel, AfterMatrix, AfterPolicy, AfterPackage, Swap
<1>1. ASSUME NEW o \in Outcomes, ApplyModel(o)
      PROVE  ChannelOK'
  <2>1. ApplyPart("model", "matrix", o)
    BY <1>1 DEF ApplyModel
  <2>2. rt'.matrix = rt.matrix /\ ("matrix" \in torn' <=> "matrix" \in torn)
    BY <1>0, <2>1 DEF ApplyPart, RtSet
  <2>3. CASE o = "ok"
    <3>1. job'.cfg = job.cfg /\ job'.do = job.do /\ job'.pc = "matrix" /\ job.pc = "model"
      BY <1>0, <2>1, <2>3 DEF ApplyPart, Goes, JobSet
    <3>2. mem'.matrix = mem.matrix /\ mem'.retry = mem.retry
      BY <1>0, <2>1, <2>3 DEF ApplyPart, MemSet
    <3>. QED BY <1>0, <2>2, <3>1, <3>2 DEF ChannelOK
  <2>4. CASE o # "ok"
    <3>1. job'.pc \notin Steps /\ mem' \in {mem, Forgotten}
      BY <2>1, <2>4, RaisesFacts, <1>0, MemFacts DEF ApplyPart, Ends
    <3>. QED BY <1>0, <2>2, <3>1, ForgottenFacts DEF ChannelOK
  <2>. QED BY <2>3, <2>4
<1>2. ASSUME NEW o \in Outcomes \cup {"defer"}, ApplyMatrix(o)
      PROVE  ChannelOK'
  <2>1. CASE o \in {"ok", "defer"}
    <3>1. job'.cfg = job.cfg /\ job'.do = job.do /\ job'.pc = "policy" /\ job.pc = "matrix"
      BY <1>0, <1>2, <2>1 DEF ApplyMatrix, Goes, JobSet
    <3>2. CASE "matrix" \notin job.do
      BY <1>0, <1>2, <2>1, <3>1, <3>2 DEF ApplyMatrix, ChannelOK
    <3>3. CASE "matrix" \in job.do /\ o = "ok"
      <4>1. mem'.matrix = job.cfg.matrix /\ rt'.matrix = job.cfg.matrix
        BY <1>0, <1>2, <3>3 DEF ApplyMatrix, MemSet, RtSet, Took
      <4>. QED BY <3>1, <4>1 DEF ChannelOK
    <3>4. CASE "matrix" \in job.do /\ o = "defer"
      <4>1. mem'.matrix = mem.matrix /\ mem'.retry /\ rt' = rt /\ torn' = torn
        BY <1>0, <1>2, <3>4 DEF ApplyMatrix, MemSet, Took
      <4>. QED BY <1>0, <3>1, <4>1 DEF ChannelOK
    <3>. QED BY <2>1, <3>2, <3>3, <3>4
  <2>2. CASE o \notin {"ok", "defer"}
    <3>1. job'.pc \notin Steps /\ mem' \in {mem, Forgotten}
      BY <1>0, <1>2, <2>2, RaisesFacts, MemFacts DEF ApplyMatrix, Ends
    <3>2. "matrix" \notin torn' => "matrix" \notin torn /\ rt'.matrix = rt.matrix
      BY <1>2, <2>2 DEF ApplyMatrix, Took
    <3>. QED BY <1>0, <3>1, <3>2, ForgottenFacts DEF ChannelOK
  <2>. QED BY <2>1, <2>2
<1>3. ASSUME NEW o \in Outcomes \cup {"defer", "unset"}, ApplyPolicy(o)
      PROVE  ChannelOK'
  <2>1. rt'.matrix = rt.matrix /\ ("matrix" \in torn' <=> "matrix" \in torn) /\ job.pc = "policy"
    BY <1>0, <1>3 DEF ApplyPolicy, RetryForgotten, RtSet
  <2>2. CASE o \in {"ok", "defer", "unset"}
    <3>1. job'.cfg = job.cfg /\ job'.do = job.do /\ job'.pc = "package"
      BY <1>0, <1>3, <2>2 DEF ApplyPolicy, Goes, JobSet
    <3>2. mem'.matrix = mem.matrix /\ (mem.retry => mem'.retry)
      BY <1>0, <1>3, <2>2 DEF ApplyPolicy, MemSet
    <3>3. mem'.retry = mem.retry \/ mem'.retry = TRUE
      BY <1>0, <1>3, <2>2 DEF ApplyPolicy, MemSet
    <3>4. "acl" \notin torn' => mem'.retry \/ rt'.acl = job.cfg.acl
      <4>1. CASE o = "ok"
        BY <1>0, <1>3, <4>1 DEF ApplyPolicy, RtSet, Took
      <4>2. CASE o = "defer"
        BY <1>0, <1>3, <4>2 DEF ApplyPolicy, MemSet
      <4>3. CASE o = "unset"
        BY <1>3, <4>3 DEF ApplyPolicy
      <4>. QED BY <2>2, <4>1, <4>2, <4>3
    <3>. QED BY <1>0, <2>1, <3>1, <3>2, <3>3, <3>4 DEF ChannelOK
  <2>3. CASE o \notin {"ok", "defer", "unset"}
    <3>1. job'.pc \notin Steps /\ mem' \in {mem, Forgotten}
      BY <1>0, <1>3, <2>3, RaisesFacts, MemFacts DEF ApplyPolicy, Ends
    <3>. QED BY <1>0, <2>1, <3>1, ForgottenFacts DEF ChannelOK
  <2>. QED BY <2>2, <2>3
<1>4. ASSUME NEW force \in BOOLEAN, NEW readable \in BOOLEAN, Begin(force, readable)
      PROVE  ChannelOK'
  <2>1. /\ job'.pc = "model" /\ job'.cfg = want.cfg /\ rt' = rt /\ torn' = torn
        /\ "matrix" \in job'.do <=> readable /\ (force \/ want.cfg.matrix # mem.matrix)
    BY <1>0, <1>4, BeginFacts
  <2>2. mem'.matrix = mem.matrix /\ mem'.retry = ~readable
    BY <1>0, <1>4, BeginFacts DEF MemSet
  <2>. QED BY <1>0, <2>1, <2>2 DEF ChannelOK
<1>5. CASE OtherSteps
  <2>1. /\ rt'.matrix = rt.matrix /\ rt'.acl = rt.acl
        /\ ("matrix" \in torn' <=> "matrix" \in torn) /\ ("acl" \in torn' <=> "acl" \in torn)
        /\ \/ mem'.matrix = mem.matrix /\ mem'.retry = mem.retry
           \/ mem' = Forgotten /\ job'.pc \notin Steps
        /\ \/ job'.pc \notin Steps
           \/ job' = job /\ mem' = mem
           \/ Continues /\ job.pc \in AfterPolicy /\ job'.pc \in AfterPolicy
    BY <1>0, <1>5, ChannelFrame
  <2>2. CASE job'.pc \notin Steps
    BY <1>0, <2>1, <2>2, ForgottenFacts DEF ChannelOK
  <2>3. CASE job' = job /\ mem' = mem
    BY <1>0, <2>1, <2>3 DEF ChannelOK
  <2>4. CASE job'.pc \in Steps /\ Continues /\ job.pc \in AfterPolicy /\ job'.pc \in AfterPolicy
    BY <1>0, <2>1, <2>4 DEF ChannelOK, Continues, Same
  <2>. QED BY <2>1, <2>2, <2>3, <2>4
<1>. QED BY <1>1, <1>2, <1>3, <1>4, <1>5 DEF UpdaterNext, UpdaterStep, OtherSteps

-----------------------------------------------------------------------------
(* The package *)

\* Steps outside a package change.
LEMMA PackageFrame ==
  ASSUME UpdaterTypes, JobOK,
         \/ \E o \in Outcomes : ApplyModel(o)
         \/ \E o \in Outcomes \cup {"defer"} : ApplyMatrix(o)
         \/ \E o \in Outcomes \cup {"defer", "unset"} : ApplyPolicy(o)
         \/ \E o \in Outcomes : DeleteClients(o) \/ WriteClients(o)
         \/ RecordOwned
  PROVE  /\ ws' = ws /\ pkgdir' = pkgdir
         /\ {"pkg", "left", "inline"} \cap torn \subseteq torn'
         /\ \/ /\ Continues /\ mem'.pkg = mem.pkg /\ mem'.inline = mem.inline
               /\ \A p \in {"pkg", "left", "inline"} : p \in torn' <=> p \in torn
               /\ job'.pc \notin Swap \cup {"commit"} /\ job'.snap = job.snap
               /\ job'.pc \in AfterPackage <=> job.pc \in AfterPackage
            \/ Aborts /\ (PackageChanged => {"pkg", "inline"} \subseteq torn')
         /\ job.pc \in Steps \ (Swap \cup {"package", "inline", "commit"})
<1>0. mem \in MemSet /\ job \in JobSet
  BY DEF UpdaterTypes
<1>. USE DEF Steps, AfterModel, AfterMatrix, AfterPolicy, AfterPackage, Swap
<1>1. ASSUME NEW o, ApplyModel(o) \/ ApplyMatrix(o) \/ ApplyPolicy(o)
      PROVE  /\ ws' = ws /\ pkgdir' = pkgdir /\ job.pc \in {"model", "matrix", "policy"}
             /\ \A p \in {"pkg", "left", "inline"} : p \in torn' <=> p \in torn
             /\ \/ /\ \E pc \in {"matrix", "policy", "package"} : Goes(pc)
                   /\ mem'.pkg = mem.pkg /\ mem'.inline = mem.inline
                \/ Aborts
  <2>1. \A p \in {"pkg", "left", "inline"} : p \in torn' <=> p \in torn
    <3>1. CASE ApplyModel(o)
      BY <3>1 DEF ApplyModel, ApplyPart
    <3>2. CASE ApplyMatrix(o)
      BY <3>2 DEF ApplyMatrix, RetryForgotten
    <3>3. CASE ApplyPolicy(o)
      BY <3>3 DEF ApplyPolicy, RetryForgotten
    <3>. QED BY <1>1, <3>1, <3>2, <3>3
  <2>2. job.pc \in {"model", "matrix", "policy"} /\ ws' = ws /\ pkgdir' = pkgdir
    BY <1>1 DEF ApplyModel, ApplyPart, ApplyMatrix, ApplyPolicy
  <2>3. Aborts \/ \E pc \in {"matrix", "policy", "package"} : Goes(pc)
    BY <1>1, <2>2 DEF ApplyModel, ApplyPart, ApplyMatrix, ApplyPolicy, Aborts
  <2>4. Aborts \/ (mem'.pkg = mem.pkg /\ mem'.inline = mem.inline)
    <3>1. CASE ApplyModel(o)
      BY <1>0, <2>2, <3>1 DEF ApplyModel, ApplyPart, Aborts, MemSet
    <3>2. CASE ApplyMatrix(o)
      BY <1>0, <2>2, <3>2 DEF ApplyMatrix, Aborts, MemSet
    <3>3. CASE ApplyPolicy(o)
      BY <1>0, <2>2, <3>3 DEF ApplyPolicy, Aborts, MemSet
    <3>. QED BY <1>1, <3>1, <3>2, <3>3
  <2>. QED BY <2>1, <2>2, <2>3, <2>4
<1>2. ASSUME NEW o, DeleteClients(o) \/ WriteClients(o)
      PROVE  /\ ws' = ws /\ pkgdir' = pkgdir /\ job.pc \in {"mcp", "clients"}
             /\ \/ /\ \E pc \in {"clients", "own"} : Goes(pc)
                   /\ mem'.pkg = mem.pkg /\ mem'.inline = mem.inline /\ torn' = torn
                \/ Aborts /\ torn \subseteq torn' /\ ("pkg" \in job.do => {"pkg", "inline"} \subseteq torn')
  BY <1>0, <1>2 DEF DeleteClients, WriteClients, Aborts, Unrecorded, MemSet
<1>3. CASE RecordOwned
  <2>1. /\ ws' = ws /\ pkgdir' = pkgdir /\ job.pc = "own" /\ Goes("inline") /\ mem' = mem
        /\ torn' \in {torn, torn \ {"mcp"}}
    BY <1>3 DEF RecordOwned
  <2>. QED BY <2>1, GoesFacts DEF Continues
<1>4. ASSUME NEW o, ApplyModel(o) \/ ApplyMatrix(o) \/ ApplyPolicy(o)
      PROVE  /\ \/ Continues /\ job'.pc \in {"matrix", "policy", "package"} /\ job'.snap = job.snap
                \/ Aborts
             /\ ~ PackageChanged
  BY <1>1, <1>4, GoesFacts DEF Continues, PackageChanged
<1>5. ASSUME NEW o, DeleteClients(o) \/ WriteClients(o)
      PROVE  \/ Continues /\ job'.pc \in {"clients", "own"} /\ job'.snap = job.snap
             \/ Aborts
  BY <1>2, <1>5, GoesFacts DEF Continues
<1>6. ASSUME Aborts, Continues
      PROVE  FALSE
  BY <1>6, RaisesFacts DEF Aborts, Continues, Ends
<1>7. CASE \E o : ApplyModel(o) \/ ApplyMatrix(o) \/ ApplyPolicy(o)
  BY <1>1, <1>4, <1>6, <1>7
<1>8. CASE \E o : DeleteClients(o) \/ WriteClients(o)
  <2>1. PICK o : DeleteClients(o) \/ WriteClients(o)
    BY <1>8
  <2>2. ws' = ws /\ pkgdir' = pkgdir /\ job.pc \in {"mcp", "clients"}
    BY <1>2, <2>1
  <2>3. CASE Continues
    <3>1. /\ mem'.pkg = mem.pkg /\ mem'.inline = mem.inline /\ torn' = torn
          /\ job'.pc \in {"clients", "own"} /\ job'.snap = job.snap
      BY <1>2, <1>5, <1>6, <2>1, <2>3
    <3>. QED BY <2>2, <2>3, <3>1
  <2>4. CASE ~ Continues
    <3>1. Aborts /\ torn \subseteq torn' /\ ("pkg" \in job.do => {"pkg", "inline"} \subseteq torn')
      <4>1. Aborts
        BY <1>5, <2>1, <2>4
      <4>2. \A pc \in {"clients", "own"} : ~ Goes(pc)
        BY <2>2, <2>4, GoesFacts DEF Continues
      <4>. QED BY <1>2, <2>1, <4>1, <4>2
    <3>. QED BY <2>2, <3>1 DEF PackageChanged
  <2>. QED BY <2>3, <2>4
<1>. QED BY <1>3, <1>7, <1>8

FilesOK == PackageOK /\ SwapOK /\ InlineOK

\* The calls to QwenPaw leave the files alone; one that raises after the package was changed
\* leaves package and prompt in doubt.
LEMMA OutsidePackage ==
  ASSUME UpdaterInv,
         \/ \E o \in Outcomes : ApplyModel(o)
         \/ \E o \in Outcomes \cup {"defer"} : ApplyMatrix(o)
         \/ \E o \in Outcomes \cup {"defer", "unset"} : ApplyPolicy(o)
         \/ \E o \in Outcomes : DeleteClients(o) \/ WriteClients(o)
         \/ RecordOwned
  PROVE  FilesOK'
<1>0. UpdaterTypes /\ JobOK /\ PackageOK /\ SwapOK /\ InlineOK
  BY DEF UpdaterInv
<1>. USE DEF Steps, AfterModel, AfterMatrix, AfterPolicy, AfterPackage, Swap
<1>1. /\ ws' = ws /\ pkgdir' = pkgdir
      /\ {"pkg", "left", "inline"} \cap torn \subseteq torn'
      /\ job.pc \in Steps \ (Swap \cup {"package", "inline", "commit"})
  BY <1>0, PackageFrame
<1>2. CASE Continues
  <2>1. /\ mem'.pkg = mem.pkg /\ mem'.inline = mem.inline
        /\ \A p \in {"pkg", "left", "inline"} : p \in torn' <=> p \in torn
        /\ job'.pc \notin Swap \cup {"commit"}
        /\ job'.pc \in AfterPackage <=> job.pc \in AfterPackage
    BY <1>0, <1>2, PackageFrame, RaisesFacts DEF Aborts, Continues, Ends
  <2>2. job'.cfg = job.cfg /\ job'.do = job.do /\ job'.pc \in Steps
    BY <1>2 DEF Continues, Same
  <2>3. PackageChanged' <=> PackageChanged
    BY <2>1, <2>2 DEF PackageChanged
  <2>4. PackageOK'
    BY <1>0, <1>1, <2>1, <2>2, <2>3 DEF PackageOK, SettledDir, SettledPkgs
  <2>5. InlineOK'
    BY <1>0, <1>1, <2>1, <2>2, <2>3 DEF InlineOK, SettledPrompt
  <2>. QED BY <2>1, <2>4, <2>5 DEF FilesOK, SwapOK
<1>3. CASE Aborts /\ ~ Continues
  <2>1. PackageChanged => {"pkg", "inline"} \subseteq torn'
    BY <1>0, <1>3, PackageFrame
  <2>2. job'.pc \notin Steps /\ mem' \in {mem, Forgotten}
    BY <1>0, <1>3, RaisesFacts, MemFacts DEF Aborts, Ends
  <2>3. mem'.pkg \in {mem.pkg, None} /\ mem'.inline \in {mem.inline, None}
    BY <2>2, ForgottenFacts
  <2>4. PackageOK'
    BY <1>0, <1>1, <2>1, <2>2, <2>3 DEF PackageOK, SettledDir, SettledPkgs, PackageChanged
  <2>5. InlineOK'
    BY <1>0, <1>1, <2>1, <2>2, <2>3 DEF InlineOK, SettledPrompt, PackageChanged
  <2>. QED BY <2>2, <2>4, <2>5 DEF FilesOK, SwapOK
<1>. QED BY <1>0, <1>2, <1>3, PackageFrame

\* The files at the start and the end of an application, and in a crash.
LEMMA AroundPackage ==
  ASSUME UpdaterInv,
         \/ UNCHANGED updaterVars \/ SkipPoll \/ \E c \in Configs : Desire(c)
         \/ \E force, readable \in BOOLEAN : Begin(force, readable)
         \/ Restart \/ Crash \/ Commit \/ \E o \in Outcomes : ApplyInline(o)
  PROVE  FilesOK'
<1>0. UpdaterTypes /\ JobOK /\ PackageOK /\ SwapOK /\ InlineOK /\ mem \in MemSet /\ job \in JobSet
      /\ ws \in WsSet /\ pkgdir \in DirSet
  BY DEF UpdaterInv, UpdaterTypes
<1>. USE DEF Steps, AfterModel, AfterMatrix, AfterPolicy, AfterPackage, Swap
<1>1. CASE UNCHANGED updaterVars \/ SkipPoll \/ \E c \in Configs : Desire(c)
  <2>1. UNCHANGED <<mem, job, ws, pkgdir, torn>>
    BY <1>1 DEF updaterVars, SkipPoll, Desire
  <2>. QED BY <1>0, <2>1 DEF FilesOK, PackageOK, SwapOK, InlineOK, SettledDir, SettledPkgs,
              SettledPrompt,
                             PackageChanged
<1>2. CASE \E force, readable \in BOOLEAN : Begin(force, readable)
  <2>1. PICK force \in BOOLEAN, readable \in BOOLEAN : Begin(force, readable)
    BY <1>2
  <2>2. /\ job'.pc = "model" /\ job'.cfg = want.cfg /\ UNCHANGED <<ws, pkgdir, torn>>
        /\ "pkg" \in job'.do <=> force \/ want.cfg["pkg"] # mem["pkg"]
        /\ "inline" \in job'.do <=> force \/ want.cfg.pkg # mem.pkg \/ want.cfg.inline # mem.inline
    BY <1>0, <2>1, BeginFacts
  <2>3. mem'.pkg = mem.pkg /\ mem'.inline = mem.inline
    BY <1>0, <2>1, BeginFacts DEF MemSet
  <2>4. job.pc \in {"starting", "idle"}
    BY <2>1 DEF Begin
  <2>. QED BY <1>0, <2>2, <2>3, <2>4 DEF FilesOK, PackageOK, SwapOK, InlineOK, SettledDir,
              SettledPkgs,
                                         SettledPrompt, PackageChanged
<1>3. CASE Restart
  <2>1. /\ UNCHANGED <<mem, ws, pkgdir, torn>> /\ job.pc = "down" /\ job'.pc = "starting"
    BY <1>3 DEF Restart, NoJob
  <2>. QED BY <1>0, <2>1 DEF FilesOK, PackageOK, SwapOK, InlineOK, SettledDir, SettledPkgs,
              SettledPrompt,
                             PackageChanged
<1>4. CASE Crash
  <2>1. /\ job'.pc = "down" /\ mem'.pkg = None /\ mem'.inline = None /\ UNCHANGED <<ws, pkgdir>>
        /\ torn \subseteq torn'
        /\ job.pc \in {"unlink", "link", "mark"} => "left" \in torn'
        /\ job.pc = "mark" => "pkg" \in torn'
    BY <1>4, ForgottenFacts DEF Crash, NoJob
  <2>2. SettledDir(pkgdir.current)'
    BY <1>0, <2>1 DEF PackageOK, SettledDir
  <2>3. "left" \notin torn' => ws'.pkgs \subseteq {pkgdir'.current}
    <3>1. CASE job.pc \notin Swap
      BY <1>0, <2>1, <3>1 DEF PackageOK
    <3>2. CASE job.pc = "copy"
      BY <1>0, <2>1, <3>2 DEF SwapOK
    <3>3. CASE job.pc = "clean"
      BY <1>0, <2>1, <3>3 DEF SwapOK, SettledPkgs
    <3>. QED BY <2>1, <3>1, <3>2, <3>3
  <2>. QED BY <2>1, <2>2, <2>3 DEF FilesOK, PackageOK, SwapOK, InlineOK, SettledPkgs, SettledPrompt,
                                   PackageChanged
<1>5. CASE Commit
  <2>1. /\ job.pc = "commit" /\ job'.pc = "idle" /\ UNCHANGED <<ws, pkgdir>>
        /\ torn' = IF "pkg" \in job.do /\ pkgdir.marker = pkgdir.current THEN torn \ {"pkg"} ELSE torn
    BY <1>5 DEF Commit, NoJob
  <2>2. mem'.pkg = (IF "pkg" \in job.do THEN job.cfg.pkg ELSE mem.pkg) /\ mem'.inline = mem.inline
    BY <1>0, <1>5 DEF Commit, MemSet
  <2>3. mem.inline = job.cfg.inline
    BY <1>0, <2>1 DEF InlineOK
  <2>4. PackageOK'
    BY <1>0, <2>1, <2>2 DEF PackageOK, SettledDir, SettledPkgs, PackageChanged
  <2>5. InlineOK'
    BY <1>0, <2>1, <2>2 DEF InlineOK, SettledPrompt
  <2>. QED BY <2>1, <2>4, <2>5 DEF FilesOK, SwapOK
<1>6. ASSUME NEW o \in Outcomes, ApplyInline(o)
      PROVE  FilesOK'
  <2>1. job.pc = "inline" /\ pkgdir' = pkgdir /\ ws'.pkgs = ws.pkgs
    BY <1>0, <1>6 DEF ApplyInline, WsSet
  <2>2. CASE o = "ok"
    <3>1. job'.pc = "commit" /\ job'.cfg = job.cfg /\ job'.do = job.do
      BY <1>0, <1>6, <2>2 DEF ApplyInline, Goes, JobSet
    <3>2. /\ mem'.pkg = mem.pkg
          /\ mem'.inline = IF "inline" \in job.do THEN job.cfg.inline ELSE mem.inline
          /\ \A p \in {"pkg", "left"} : p \in torn' <=> p \in torn
          /\ "inline" \notin job.do => torn' = torn /\ ws' = ws
          /\ "inline" \in job.do /\ job.cfg.inline # None => ws'.prompt = job.cfg.inline
      BY <1>0, <1>6, <2>2 DEF ApplyInline, MemSet, WsSet
    <3>3. PackageOK'
      BY <1>0, <2>1, <3>1, <3>2 DEF PackageOK, SettledDir, SettledPkgs, PackageChanged
    <3>4. InlineOK'
      BY <1>0, <2>1, <3>1, <3>2 DEF InlineOK, SettledPrompt, PackageChanged, JobOK
    <3>. QED BY <3>1, <3>3, <3>4 DEF FilesOK, SwapOK
  <2>3. CASE o # "ok"
    <3>1. job'.pc \notin Steps /\ mem' \in {mem, Forgotten} /\ ws' = ws
      BY <1>0, <1>6, <2>3, RaisesFacts, MemFacts DEF ApplyInline, Ends
    <3>2. mem'.pkg \in {mem.pkg, None} /\ mem'.inline \in {mem.inline, None}
      BY <3>1, ForgottenFacts
    <3>3. torn \subseteq torn' /\ ("pkg" \in job.do => {"pkg", "inline"} \subseteq torn')
          /\ {"left"} \cap torn' \subseteq torn
      BY <1>6, <2>3 DEF ApplyInline, Unrecorded
    <3>4. PackageOK'
      BY <1>0, <2>1, <3>1, <3>2, <3>3 DEF PackageOK, SettledDir, SettledPkgs, PackageChanged
    <3>5. InlineOK'
      BY <1>0, <2>1, <3>1, <3>2, <3>3 DEF InlineOK, SettledPrompt, PackageChanged
    <3>. QED BY <3>1, <3>4, <3>5 DEF FilesOK, SwapOK
  <2>. QED BY <2>2, <2>3
<1>. QED BY <1>1, <1>2, <1>3, <1>4, <1>5, <1>6

\* The steps of AgentPackageManager.apply, and its roll-back.
LEMMA InsidePackage ==
  ASSUME UpdaterInv, UpdaterTypes', PackageStep
  PROVE  FilesOK'
<1>0. /\ UpdaterTypes /\ JobOK /\ PackageOK /\ SwapOK /\ InlineOK /\ mem \in MemSet /\ job \in JobSet
      /\ ws \in WsSet /\ pkgdir \in DirSet /\ job.snap \in SnapSet
  BY DEF UpdaterInv, UpdaterTypes, JobSet
<1>1. job.pc \in Steps => job.cfg.pkg \in PkgValues
  BY <1>0, ConfigParts DEF JobOK
<1>. USE DEF Steps, AfterModel, AfterMatrix, AfterPolicy, AfterPackage, Swap
<1>2. CASE PackageNotDue
  <2>1. /\ job.pc = "package" /\ job'.pc = "mcp" /\ job'.cfg = job.cfg /\ job'.do = job.do
        /\ UNCHANGED <<mem, ws, pkgdir, torn>> /\ ("pkg" \notin job.do \/ job.cfg.pkg = None)
    BY <1>0, <1>2 DEF PackageNotDue, Goes, JobSet
  <2>. QED BY <1>0, <2>1 DEF FilesOK, PackageOK, SwapOK, InlineOK, SettledDir, SettledPkgs,
              SettledPrompt,
                             PackageChanged, JobOK
<1>3. ASSUME NEW o, PackageCurrent(o)
      PROVE  FilesOK'
  <2>1. /\ job.pc = "package" /\ "pkg" \in job.do /\ job.cfg.pkg # None
        /\ pkgdir.marker = job.cfg.pkg /\ pkgdir.current # None /\ UNCHANGED <<pkgdir, torn>>
    BY <1>3 DEF PackageCurrent, PackageDue
  <2>2. CASE o = "ok"
    <3>1. /\ job'.pc = "mcp" /\ job'.cfg = job.cfg /\ job'.do = job.do /\ mem' = mem
          /\ ws'.pkgs = ws.pkgs \cup {pkgdir.current}
      BY <1>0, <1>3, <2>2 DEF PackageCurrent, Goes, JobSet, Copied
    <3>2. PackageOK'
      BY <1>0, <2>1, <3>1 DEF PackageOK, SettledDir, PackageChanged
    <3>3. InlineOK'
      BY <1>0, <2>1, <3>1 DEF InlineOK, PackageChanged, JobOK
    <3>. QED BY <3>1, <3>2, <3>3 DEF FilesOK, SwapOK
  <2>3. CASE o # "ok"
    <3>1. job'.pc \notin Steps /\ mem' \in {mem, Forgotten} /\ ws' = ws
      BY <1>0, <1>3, <2>3, RaisesFacts, MemFacts DEF PackageCurrent, Ends
    <3>2. mem'.pkg \in {mem.pkg, None} /\ mem'.inline \in {mem.inline, None}
      BY <3>1, ForgottenFacts
    <3>. QED BY <1>0, <2>1, <3>1, <3>2
             DEF FilesOK, PackageOK, SwapOK, InlineOK, SettledDir, SettledPkgs, SettledPrompt,
             PackageChanged
  <2>. QED BY <2>2, <2>3
<1>4. CASE PackageFetched
  <2>1. /\ job.pc = "package" /\ "pkg" \in job.do /\ job.cfg.pkg # None
        /\ UNCHANGED <<mem, ws, pkgdir, torn>>
        /\ job' = [job EXCEPT !.pc = "clean",
                              !.snap = [held |-> TRUE, ws |-> ws, current |-> pkgdir.current]]
    BY <1>4 DEF PackageFetched, PackageDue
  <2>2. /\ job'.pc = "clean" /\ job'.cfg = job.cfg /\ job'.do = job.do
        /\ job'.snap.ws = ws /\ job'.snap.current = pkgdir.current
    BY <1>0, <2>1 DEF JobSet
  <2>3. SwapOK'
    BY <1>0, <2>1, <2>2 DEF PackageOK, InlineOK, SwapOK, SettledDir, SettledPkgs, SettledPrompt,
                            PackageChanged
  <2>4. PackageOK' /\ InlineOK'
    BY <1>0, <2>1, <2>2 DEF PackageOK, InlineOK, SettledDir, PackageChanged, JobOK
  <2>. QED BY <2>3, <2>4 DEF FilesOK
<1>5. ASSUME job.pc \in Swap, job'.pc \in Swap, UNCHANGED <<mem, torn>>, pkgdir'.marker = pkgdir.marker,
             Same("cfg"), Same("do"), job'.snap = job.snap,
             SettledDir(pkgdir.current)' \/ job'.pc = "mark",
             pkgdir'.current = CASE job'.pc = "link" -> None
                                 [] job'.pc = "mark" -> job.cfg.pkg
                                 [] OTHER -> job.snap.current,
             job'.pc # "clean",
             job'.pc = "copy" /\ "left" \notin torn =>
               ws'.pkgs \subseteq {pkgdir'.current} \cap {job.cfg.pkg},
             job'.pc \in {"unlink", "link", "mark"} =>
               /\ job.cfg.pkg \in ws'.pkgs
               /\ "left" \notin torn => ws'.pkgs \subseteq {job.cfg.pkg}
      PROVE  FilesOK'
  <2>1. job'.cfg = job.cfg /\ job'.do = job.do /\ "pkg" \in job.do /\ "inline" \in job.do
    BY <1>0, <1>5 DEF Same, SwapOK, JobOK
  <2>2. SwapOK'
    BY <1>0, <1>5, <2>1 DEF SwapOK, SettledDir, SettledPkgs, SettledPrompt
  <2>3. PackageOK' /\ InlineOK'
    BY <1>0, <1>5, <2>1 DEF PackageOK, InlineOK, SettledDir, PackageChanged
  <2>. QED BY <2>2, <2>3 DEF FilesOK
<1>6. CASE PackageCleaned
  <2>1. /\ job.pc = "clean" /\ UNCHANGED <<mem, torn, pkgdir>>
        /\ ws'.pkgs = ws.pkgs \ ({pkgdir.current} \ {job.cfg.pkg})
        /\ Same("cfg") /\ Same("do") /\ job'.snap = job.snap /\ job'.pc = "copy"
    BY <1>0, <1>6, GoesFacts DEF PackageCleaned, WsSet
  <2>2. pkgdir.current = job.snap.current /\ ws = job.snap.ws
    BY <1>0, <2>1 DEF SwapOK
  <2>3. "left" \notin torn => ws.pkgs \subseteq {pkgdir.current}
    BY <1>0, <2>1, <2>2 DEF SwapOK, SettledPkgs
  <2>4. SettledDir(pkgdir.current)'
    BY <1>0, <2>1 DEF PackageOK, SettledDir
  <2>. QED BY <1>5, <2>1, <2>2, <2>3, <2>4
<1>7. CASE PackageCopied
  <2>1. /\ job.pc = "copy" /\ UNCHANGED <<mem, torn, pkgdir>> /\ ws'.pkgs = ws.pkgs \cup {job.cfg.pkg}
        /\ Same("cfg") /\ Same("do") /\ job'.snap = job.snap /\ job'.pc = "unlink"
    BY <1>0, <1>7, GoesFacts DEF PackageCopied, Copied
  <2>2. pkgdir.current = job.snap.current /\ ("left" \notin torn => ws.pkgs \subseteq {job.cfg.pkg})
    BY <1>0, <2>1 DEF SwapOK
  <2>3. SettledDir(pkgdir.current)'
    BY <1>0, <2>1 DEF PackageOK, SettledDir
  <2>. QED BY <1>5, <2>1, <2>2, <2>3
<1>8. CASE CurrentMoved \/ StagingMoved
  <2>1. /\ job.pc \in {"unlink", "link"} /\ UNCHANGED <<mem, torn, ws>>
        /\ job'.pc = (IF job.pc = "unlink" THEN "link" ELSE "mark")
        /\ Same("cfg") /\ Same("do") /\ job'.snap = job.snap
    BY <1>0, <1>8, GoesFacts DEF CurrentMoved, StagingMoved
  <2>2. /\ pkgdir'.marker = pkgdir.marker
        /\ pkgdir'.current = (IF job.pc = "unlink" THEN None ELSE job.cfg.pkg)
    BY <1>0, <1>8 DEF CurrentMoved, StagingMoved, DirSet
  <2>3. /\ job.cfg.pkg \in ws.pkgs
        /\ "left" \notin torn => ws.pkgs \subseteq {job.cfg.pkg}
    BY <1>0, <2>1 DEF SwapOK
  <2>4. SettledDir(pkgdir.current)' \/ job'.pc = "mark"
    BY <2>1, <2>2 DEF SettledDir
  <2>. QED BY <1>5, <2>1, <2>2, <2>3, <2>4
<1>9. CASE MarkerWritten
  <2>1. /\ job.pc = "mark" /\ UNCHANGED <<mem, ws>> /\ torn' = torn \ {"pkg"}
        /\ job'.pc = "mcp" /\ job'.cfg = job.cfg /\ job'.do = job.do
    BY <1>0, <1>9 DEF MarkerWritten, JobSet
  <2>2. pkgdir'.marker = job.cfg.pkg /\ pkgdir'.current = pkgdir.current
    BY <1>0, <1>9 DEF MarkerWritten, DirSet
  <2>3. /\ pkgdir.current = job.cfg.pkg /\ "pkg" \in job.do /\ job.cfg.pkg # None
        /\ job.cfg.pkg \in ws.pkgs /\ ("left" \notin torn => ws.pkgs \subseteq {job.cfg.pkg})
    BY <1>0, <2>1 DEF SwapOK
  <2>4. PackageOK'
    BY <1>0, <2>1, <2>2, <2>3 DEF PackageOK, SettledDir, PackageChanged
  <2>5. InlineOK'
    BY <1>0, <2>1, <2>2, <2>3 DEF InlineOK, PackageChanged, JobOK
  <2>. QED BY <2>1, <2>4, <2>5 DEF FilesOK, SwapOK
<1>10. CASE PackageFails
  <2>1. /\ job'.pc \notin Steps /\ mem' \in {mem, Forgotten} /\ torn' = torn
        /\ job.pc \in Swap \cup {"package"}
    BY <1>0, <1>10, RaisesFacts, MemFacts DEF PackageFails, PackageDue, InPackage, Ends
  <2>2. mem'.pkg \in {mem.pkg, None} /\ mem'.inline \in {mem.inline, None}
    BY <2>1, ForgottenFacts
  <2>3. CASE job.pc \in Swap
    <3>1. ws' = job.snap.ws /\ pkgdir'.current = job.snap.current /\ pkgdir'.marker = pkgdir.marker
      BY <1>0, <1>10, <2>3 DEF PackageFails, InPackage, DirSet
    <3>2. PackageOK' /\ InlineOK'
      BY <1>0, <2>1, <2>2, <2>3, <3>1
         DEF SwapOK, PackageOK, InlineOK, SettledDir, SettledPkgs, SettledPrompt, PackageChanged
    <3>. QED BY <2>1, <3>2 DEF FilesOK, SwapOK
  <2>4. CASE job.pc = "package"
    <3>1. ws' = ws /\ pkgdir' = pkgdir
      BY <1>10, <2>4 DEF PackageFails, InPackage
    <3>2. PackageOK' /\ InlineOK'
      BY <1>0, <2>1, <2>2, <2>4, <3>1
         DEF PackageOK, InlineOK, SettledDir, SettledPkgs, SettledPrompt, PackageChanged
    <3>. QED BY <2>1, <3>2 DEF FilesOK, SwapOK
  <2>. QED BY <2>1, <2>3, <2>4
<1>. QED BY <1>2, <1>3, <1>4, <1>6, <1>7, <1>8, <1>9, <1>10 DEF PackageStep

-----------------------------------------------------------------------------
(* MCP clients *)

\* Every step keeps what is remembered of the MCP clients true, and every client owned.
LEMMA ClientsStep ==
  ASSUME UpdaterInv, [UpdaterNext]_updaterVars, UpdaterTypes'
  PROVE  ClientsOK'
<1>0. /\ UpdaterTypes /\ JobOK /\ ClientsOK /\ mem \in MemSet /\ rt \in RtSet /\ job \in JobSet
      /\ mem.mcp \in Clients /\ rt.mcp \in Clients /\ owned \subseteq Keys
  BY DEF UpdaterInv, UpdaterTypes, MemSet, RtSet
<1>1. job.pc \in Steps => job.cfg.mcp \in Clients
  BY <1>0, ConfigParts DEF JobOK
<1>. USE DEF Steps, AfterModel, AfterMatrix, AfterPolicy, AfterPackage, Swap
<1>2. ASSUME rt'.mcp = rt.mcp, owned' = owned, "mcp" \in torn => "mcp" \in torn',
             mem'.mcp = mem.mcp \/ mem' = Forgotten,
             \/ job'.pc \notin {"clients", "own", "inline", "commit"}
             \/ /\ job'.pc \in {"inline", "commit"} /\ job.pc \in {"inline", "commit"}
                /\ job'.cfg = job.cfg /\ mem'.mcp = mem.mcp
             \/ job' = job /\ mem'.mcp = mem.mcp,
             job.pc = "own" => "mcp" \in torn' \/ job' = job
      PROVE  ClientsOK'
  <2>1. \A k \in Keys : mem'.mcp[k] # None => mem'.mcp[k] = mem.mcp[k]
    BY <1>2, ForgottenFacts
  <2>. QED BY <1>0, <1>2, <2>1 DEF ClientsOK
<1>3. ASSUME NEW o, ApplyModel(o) \/ ApplyMatrix(o) \/ ApplyPolicy(o)
      PROVE  ClientsOK'
  <2>1. /\ job.pc \in {"model", "matrix", "policy"} /\ owned' = owned
        /\ rt' \in {rt} \cup {[rt EXCEPT !.model = job.cfg.model],
                             [rt EXCEPT !.matrix = job.cfg.matrix, !.acl = None],
                             [rt EXCEPT !.acl = job.cfg.acl]}
    BY <1>3 DEF ApplyModel, ApplyPart, ApplyMatrix, ApplyPolicy
  <2>2. "mcp" \in torn => "mcp" \in torn'
    <3>1. CASE ApplyModel(o)
      BY <3>1 DEF ApplyModel, ApplyPart
    <3>2. CASE ApplyMatrix(o)
      BY <3>2 DEF ApplyMatrix, RetryForgotten
    <3>3. CASE ApplyPolicy(o)
      BY <3>3 DEF ApplyPolicy, RetryForgotten
    <3>. QED BY <1>3, <3>1, <3>2, <3>3
  <2>3. \/ mem' \in {mem, Forgotten}
        \/ mem' = [mem EXCEPT !["model"] = job.cfg["model"]]
        \/ mem' = [mem EXCEPT !.retry = TRUE]
        \/ mem' = [mem EXCEPT !.matrix = job.cfg.matrix, !.retry = FALSE]
    BY <1>3, MemFacts DEF ApplyModel, ApplyPart, ApplyMatrix, ApplyPolicy
  <2>4. Raises \/ \E pc \in {"matrix", "policy", "package"} : Goes(pc)
    BY <1>3 DEF ApplyModel, ApplyPart, ApplyMatrix, ApplyPolicy
  <2>5. job'.pc \notin {"clients", "own", "inline", "commit"}
    BY <1>0, <2>4, RaisesFacts, GoesFacts DEF Ends
  <2>6. rt'.mcp = rt.mcp
    BY <1>0, <2>1 DEF RtSet
  <2>7. mem'.mcp = mem.mcp \/ mem' = Forgotten
    BY <1>0, <2>3 DEF MemSet
  <2>. QED BY <1>2, <2>1, <2>2, <2>5, <2>6, <2>7
<1>4. CASE PackageStep
  <2>1. /\ rt' = rt /\ owned' = owned /\ torn' \in {torn, torn \ {"pkg"}} /\ mem' \in {mem, Forgotten}
        /\ job.pc \in Swap \cup {"package"}
    BY <1>4, MemFacts
       DEF PackageStep, PackageNotDue, PackageFetched, PackageCleaned, PackageCopied,
       CurrentMoved,
           StagingMoved, MarkerWritten, PackageFails, PackageCurrent, PackageDue,
           InPackage
  <2>2. job'.pc \notin {"clients", "own", "inline", "commit"}
    <3>1. CASE PackageFetched \/ MarkerWritten
      BY <1>0, <3>1 DEF PackageFetched, MarkerWritten, JobSet
    <3>2. CASE ~ (PackageFetched \/ MarkerWritten)
      <4>1. Raises \/ \E pc \in {"mcp", "copy", "unlink", "link", "mark"} : Goes(pc)
        BY <1>4, <3>2
           DEF PackageStep, PackageNotDue, PackageCleaned, PackageCopied, CurrentMoved,
               StagingMoved, PackageFails, PackageCurrent
      <4>. QED BY <1>0, <4>1, RaisesFacts, GoesFacts DEF Ends
    <3>. QED BY <3>1, <3>2
  <2>. QED BY <1>2, <2>1, <2>2
<1>5. CASE UNCHANGED updaterVars \/ SkipPoll \/ \E c \in Configs : Desire(c)
  <2>1. UNCHANGED <<mem, job, rt, owned, torn>>
    BY <1>5 DEF updaterVars, SkipPoll, Desire
  <2>. QED BY <1>2, <2>1
<1>6. CASE \E force, readable \in BOOLEAN : Begin(force, readable)
  <2>1. PICK force \in BOOLEAN, readable \in BOOLEAN : Begin(force, readable)
    BY <1>6
  <2>2. /\ job'.pc = "model" /\ UNCHANGED <<rt, owned, torn>> /\ job.pc \in {"idle", "starting"}
    BY <1>0, <2>1, BeginFacts DEF Begin
  <2>3. mem'.mcp = mem.mcp
    BY <1>0, <2>1, BeginFacts DEF MemSet
  <2>. QED BY <1>2, <2>2, <2>3
<1>7. CASE Restart \/ Crash
  <2>1. /\ job'.pc \in {"starting", "down"} /\ mem' \in {mem, Forgotten} /\ UNCHANGED <<rt, owned>>
        /\ torn \subseteq torn' /\ (job.pc = "own" => "mcp" \in torn')
    BY <1>7 DEF Restart, Crash, NoJob
  <2>. QED BY <1>2, <2>1
<1>8. CASE Commit
  <2>1. /\ job'.pc = "idle" /\ job.pc = "commit" /\ UNCHANGED <<rt, owned>>
        /\ ("mcp" \in torn => "mcp" \in torn')
    BY <1>8 DEF Commit, NoJob
  <2>2. mem'.mcp = mem.mcp
    BY <1>0, <1>8 DEF Commit, MemSet
  <2>. QED BY <1>2, <2>1, <2>2
<1>9. ASSUME NEW o, ApplyInline(o)
      PROVE  ClientsOK'
  <2>1. job.pc = "inline" /\ UNCHANGED <<rt, owned>> /\ ("mcp" \in torn => "mcp" \in torn')
    BY <1>9 DEF ApplyInline
  <2>2. CASE o = "ok"
    <3>1. job'.pc = "commit" /\ job'.cfg = job.cfg
      BY <1>0, <1>9, <2>2 DEF ApplyInline, Goes, JobSet
    <3>2. mem'.mcp = mem.mcp
      BY <1>0, <1>9, <2>2 DEF ApplyInline, MemSet
    <3>. QED BY <1>2, <2>1, <3>1, <3>2
  <2>3. CASE o # "ok"
    <3>1. job'.pc \notin Steps /\ mem' \in {mem, Forgotten}
      BY <1>0, <1>9, <2>3, RaisesFacts, MemFacts DEF ApplyInline, Ends
    <3>. QED BY <1>2, <2>1, <3>1
  <2>. QED BY <2>2, <2>3
<1>10. ASSUME NEW o, DeleteClients(o)
       PROVE  ClientsOK'
  <2>1. PICK D \in SUBSET StaleClients :
          /\ (o = "ok") => (D = StaleClients)
          /\ rt' = [rt EXCEPT !.mcp = [k \in DOMAIN @ |-> IF k \in D THEN None ELSE @[k]]]
    BY <1>10 DEF DeleteClients
  <2>2. \A k \in Keys : rt'.mcp[k] = IF k \in D THEN None ELSE rt.mcp[k]
    BY <1>0, <2>1 DEF RtSet, Clients
  <2>3. job.pc = "mcp" /\ owned' = owned /\ ("mcp" \in torn => "mcp" \in torn')
    BY <1>10 DEF DeleteClients
  <2>4. CASE o = "ok"
    <3>1. job'.pc = "clients" /\ job'.cfg = job.cfg /\ mem' = mem
      BY <1>0, <1>10, <2>4 DEF DeleteClients, Goes, JobSet
    <3>2. "mcp" \notin torn' => \A k \in Keys : job.cfg.mcp[k] = None => rt'.mcp[k] = None
      BY <1>0, <2>1, <2>2, <2>3, <2>4 DEF ClientsOK, StaleClients
    <3>. QED BY <1>0, <2>2, <2>3, <3>1, <3>2 DEF ClientsOK
  <2>5. CASE o # "ok"
    <3>1. job'.pc \notin Steps /\ mem' \in {mem, Forgotten}
      BY <1>0, <1>10, <2>5, RaisesFacts, MemFacts DEF DeleteClients, Ends
    <3>2. \A k \in Keys : mem'.mcp[k] # None => mem'.mcp[k] = mem.mcp[k]
      BY <3>1, ForgottenFacts
    <3>. QED BY <1>0, <2>2, <2>3, <3>1, <3>2 DEF ClientsOK
  <2>. QED BY <2>4, <2>5
<1>11. ASSUME NEW o, WriteClients(o)
       PROVE  ClientsOK'
  <2>1. job.pc = "clients" /\ owned' = owned
    BY <1>11 DEF WriteClients
  <2>2. CASE o = "ok"
    <3>1. rt' = [rt EXCEPT !.mcp =
                  [k \in DOMAIN @ |-> IF k \in DueClients THEN job.cfg.mcp[k] ELSE @[k]]]
      BY <1>11, <2>2 DEF WriteClients
    <3>2. \A k \in Keys : rt'.mcp[k] = IF k \in DueClients THEN job.cfg.mcp[k] ELSE rt.mcp[k]
      BY <1>0, <3>1 DEF RtSet, Clients
    <3>3. job'.pc = "own" /\ job'.cfg = job.cfg /\ torn' = torn
      BY <1>0, <1>11, <2>2 DEF WriteClients, Goes, JobSet
    <3>4. mem'.mcp = job.cfg.mcp
      BY <1>0, <1>11, <2>2 DEF WriteClients, MemSet
    <3>5. "mcp" \notin torn => \A k \in Keys : rt'.mcp[k] = job.cfg.mcp[k]
      BY <1>0, <2>1, <3>2 DEF ClientsOK, DueClients
    <3>6. rt'.mcp \in Clients
      BY DEF UpdaterTypes, RtSet
    <3>7. "mcp" \notin torn => rt'.mcp = job.cfg.mcp
      BY <1>1, <2>1, <3>5, <3>6 DEF Clients
    <3>. QED BY <3>3, <3>4, <3>5, <3>7 DEF ClientsOK
  <2>3. CASE o # "ok"
    <3>1. job'.pc \notin Steps /\ "mcp" \in torn'
      BY <1>0, <1>11, <2>3, RaisesFacts DEF WriteClients, Ends
    <3>. QED BY <3>1 DEF ClientsOK
  <2>. QED BY <2>2, <2>3
<1>12. CASE RecordOwned
  <2>1. /\ job.pc = "own" /\ job'.pc = "inline" /\ job'.cfg = job.cfg /\ mem' = mem /\ rt' = rt
        /\ owned' = {k \in Keys : job.cfg.mcp[k] # None}
        /\ torn' = IF rt.mcp = job.cfg.mcp THEN torn \ {"mcp"} ELSE torn
    BY <1>0, <1>12 DEF RecordOwned, Goes, JobSet
  <2>2. "mcp" \notin torn' => rt.mcp = job.cfg.mcp
    BY <1>0, <2>1 DEF ClientsOK
  <2>. QED BY <1>0, <2>1, <2>2 DEF ClientsOK
<1>. QED BY <1>3, <1>4, <1>5, <1>6, <1>7, <1>8, <1>9, <1>10, <1>11, <1>12 DEF UpdaterNext, UpdaterStep

-----------------------------------------------------------------------------
\* Every step keeps the invariant.
LEMMA UpdaterKeeps ==
  ASSUME UpdaterInv, [UpdaterNext]_updaterVars
  PROVE  UpdaterInv'
<1>0. UpdaterTypes /\ JobOK /\ SwapOK
  BY DEF UpdaterInv
<1>1. UpdaterTypes'
  BY <1>0, ChannelTypes, PackageTypes, ClientTypes, WorkerTypes
     DEF UpdaterNext, UpdaterStep, SkipPoll
<1>2. FilesOK'
  BY <1>1, OutsidePackage, AroundPackage, InsidePackage DEF UpdaterNext, UpdaterStep
<1>. QED BY <1>1, <1>2, JobStep, ModelStep, ChannelStep, ClientsStep DEF UpdaterInv, FilesOK

(***************************************************************************)
(* What the updater remembers to have applied is applied (apply_once,      *)
(* AgentPackageManager.apply, _reconcile_mcp_clients): the model, the      *)
(* channel, the package with its files, the prompt and the clients, except *)
(* for the parts that an attempt which raised or crashed left in doubt.    *)
(***************************************************************************)
THEOREM UpdateInvariant == UpdaterSpec => []UpdaterInv
<1>1. UpdaterInv /\ [UpdaterNext]_updaterVars => UpdaterInv'
  BY UpdaterKeeps
<1>. QED BY UpdaterStarts, <1>1, PTL DEF UpdaterSpec

(***************************************************************************)
(* The updater's records are well formed, a workspace snapshot is held     *)
(* exactly during a package swap (_restore_workspace_snapshot finds one),  *)
(* and nothing newer than the desired configuration is remembered.         *)
(***************************************************************************)
THEOREM UpdaterTypeCorrect == UpdaterSpec => []UpdaterTypeOK
<1>1. UpdaterInv => UpdaterTypeOK
  <2>. SUFFICES ASSUME UpdaterInv PROVE UpdaterTypeOK
    OBVIOUS
  <2>1. UpdaterTypes /\ JobOK
    BY DEF UpdaterInv
  <2>2. InPackage <=> job.snap.held
    BY <2>1 DEF JobOK, InPackage, Swap
  <2>3. DOMAIN rt.mcp = Keys
    BY <2>1 DEF UpdaterTypes, RtSet, Clients
  <2>4. job.pc \in {"down", "starting", "idle"} \cup Steps
    BY <2>1 DEF UpdaterTypes, JobSet
  <2>5. want.cfg \in Configs /\ want.gen \in Nat /\ mem.cfg \in Configs \cup {None} /\ mem.retry \in BOOLEAN
    BY <2>1 DEF UpdaterTypes, WantSet, MemSet
  <2>6. ws.pkgs \subseteq Packages /\ pkgdir \in [current : Packages \cup {None}, marker : Packages \cup {None}]
    BY <2>1 DEF UpdaterTypes, WsSet, DirSet, PkgValues
  <2>. QED BY <2>1, <2>2, <2>3, <2>4, <2>5, <2>6
           DEF UpdaterTypeOK, UpdaterTypes, JobOK, InPackage, Steps, AfterModel, AfterMatrix,
           AfterPolicy, AfterPackage, Swap
<1>. QED BY <1>1, UpdateInvariant, PTL

(***************************************************************************)
(* An application that gets to its end leaves QwenPaw and the workspace as *)
(* its configuration says (the end of apply_once), whatever raised, was    *)
(* deferred or crashed in earlier ones, except for the parts in doubt.     *)
(***************************************************************************)
THEOREM ApplicationsConverge == UpdaterSpec => []ApplyConverges
<1>1. UpdaterInv => ApplyConverges
  <2>. SUFFICES ASSUME UpdaterInv, job.pc = "commit" PROVE ApplyConverges
    BY DEF ApplyConverges
  <2>1. UpdaterTypes /\ JobOK /\ ModelOK /\ ChannelOK /\ PackageOK /\ InlineOK /\ ClientsOK
    BY DEF UpdaterInv
  <2>. USE DEF Steps, AfterModel, AfterMatrix, AfterPolicy, AfterPackage, Swap
  <2>2. job.cfg \in Configs /\ job.cfg.matrix # None
    BY <2>1, ConfigParts DEF JobOK
  <2>3. job.cfg.model # None /\ "model" \notin torn => rt.model = job.cfg.model
    BY <2>1 DEF ModelOK
  <2>4. /\ "matrix" \notin torn /\ ~mem.retry => rt.matrix = job.cfg.matrix
        /\ "acl" \notin torn /\ ~mem.retry => rt.acl = job.cfg.acl
    BY <2>1, <2>2 DEF ChannelOK
  <2>5. job.cfg.pkg # None /\ "pkg" \notin torn =>
          /\ pkgdir.current = job.cfg.pkg /\ pkgdir.marker = job.cfg.pkg
          /\ job.cfg.pkg \in ws.pkgs
          /\ "left" \notin torn => ws.pkgs = {job.cfg.pkg}
    BY <2>1 DEF PackageOK, SettledPkgs, PackageChanged
  <2>6. pkgdir = [current |-> pkgdir.current, marker |-> pkgdir.marker]
    BY <2>1 DEF UpdaterTypes, DirSet
  <2>7. "mcp" \notin torn => rt.mcp = job.cfg.mcp
    BY <2>1 DEF ClientsOK
  <2>8. job.cfg.inline # None /\ "inline" \notin torn => ws.prompt = job.cfg.inline
    BY <2>1 DEF InlineOK, SettledPrompt
  <2>. QED BY <2>3, <2>4, <2>5, <2>6, <2>7, <2>8 DEF ApplyConverges
<1>. QED BY <1>1, UpdateInvariant, PTL
=============================================================================
