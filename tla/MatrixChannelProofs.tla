------------------------ MODULE MatrixChannelProofs ------------------------
(***************************************************************************)
(* Theorems about MatrixChannel, for any senders, kinds of events, sizes   *)
(* of the history, retriggers, events, faults, crashes and streams.        *)
(***************************************************************************)
EXTENDS MatrixChannel, SequenceTheorems, TLAPS

Records == [idx : 1 .. records, sender : Senders \cup {Self}, names : BOOLEAN]

(***************************************************************************)
(* What the sync loop has gone past was handled or left out by a response, *)
(* and callbacks run only for events the room has.                         *)
(***************************************************************************)
Following ==
  /\ sync.since <= Len(timeline)
  /\ sync.pc = "callbacks" => /\ sync.since # NoBatch /\ sync.since <= sync.upto
                              /\ sync.upto <= Len(timeline)

PassedHandled ==
  \A n \in DOMAIN timeline : old < n /\ n <= sync.since => n \in handled \cup omitted

(***************************************************************************)
(* A gated turn has in its context every retained record between its       *)
(* mention and its snapshot.                                               *)
(***************************************************************************)
Informed(t, l, n) ==
  t.gated => /\ t.rec <= n
             /\ \A e \in Range(l) : t.first < e.idx /\ e.idx <= t.rec => e.idx \in t.ctx

TurnsInformed ==
  /\ Informed(turn, log, records)
  /\ \A i \in DOMAIN queue : Informed(queue[i], log, records)

SyncInv == TypeOK /\ Following /\ PassedHandled /\ NothingSkipped

IndInv == SyncInv /\ TurnsInformed

-----------------------------------------------------------------------------
(***************************************************************************)
(* A buffer that is cut keeps its limit and only old entries.              *)
(***************************************************************************)
LEMMA KeepFacts ==
  ASSUME NEW S, NEW s \in Seq(S), NEW e \in S, Len(s) <= HistoryLimit
  PROVE  /\ Keep(Append(s, e)) \in Seq(S)
         /\ Len(Keep(Append(s, e))) <= HistoryLimit
         /\ Range(Keep(Append(s, e))) \subseteq Range(s) \cup {e}
<1>. DEFINE a == Append(s, e)
<1>1. a \in Seq(S) /\ Len(a) = Len(s) + 1 /\ Len(s) \in Nat
  OBVIOUS
<1>2. Range(a) = Range(s) \cup {e}
  <2>1. \A i \in 1 .. Len(a) : a[i] = IF i = Len(a) THEN e ELSE s[i]
    OBVIOUS
  <2>2. DOMAIN a = 1 .. Len(a) /\ DOMAIN s = 1 .. Len(s)
    OBVIOUS
  <2>. HIDE DEF a
  <2>3. ASSUME NEW x PROVE x \in Range(a) <=> x \in Range(s) \cup {e}
    BY <1>1, <2>1, <2>2 DEF Range
  <2>. QED BY <2>3
<1>3. CASE Len(a) > HistoryLimit
  <2>1. Keep(a) = Tail(a)
    BY <1>3 DEF Keep
  <2>2. a # <<>>
    BY <1>1
  <2>3. /\ Tail(a) \in Seq(S) /\ Len(Tail(a)) = Len(a) - 1
        /\ \A i \in 1 .. Len(Tail(a)) : Tail(a)[i] = a[i + 1]
    BY <1>1, <2>2, HeadTailProperties
  <2>4. Range(Tail(a)) \subseteq Range(a)
    BY <1>1, <2>3 DEF Range
  <2>. QED BY <1>1, <1>2, <2>1, <2>3, <2>4
<1>4. CASE ~(Len(a) > HistoryLimit)
  BY <1>1, <1>2, <1>4, ChannelBounds DEF Keep
<1>. QED BY <1>3, <1>4

(***************************************************************************)
(* A sequence over a set is one over a larger set.                         *)
(***************************************************************************)
LEMMA SeqWider ==
  ASSUME NEW S, NEW T, S \subseteq T, NEW s \in Seq(S)
  PROVE  s \in Seq(T)
<1>1. Len(s) \in Nat /\ s \in [1 .. Len(s) -> S]
  OBVIOUS
<1>2. s \in [1 .. Len(s) -> T]
  BY <1>1
<1>. QED BY <1>1, <1>2, SeqDef

(***************************************************************************)
(* A new turn, and the turn of a quiet room.                               *)
(***************************************************************************)
LEMMA NewTurnType ==
  ASSUME TypeOK, NEW ev \in 0 .. MaxEvents, NEW g \in BOOLEAN, NEW ctx \in SUBSET Nat
  PROVE  /\ NewTurn(ev, g, ctx) \in TurnType
         /\ NewTurn(ev, g, ctx).pc = "run"
         /\ NoTurn \in TurnType
<1>1. Len(posts) \in Nat /\ records \in Nat
  BY DEF TypeOK
<1>2. NewTurn(ev, g, ctx) \in TurnType /\ NewTurn(ev, g, ctx).pc = "run"
  BY <1>1 DEF NewTurn, TurnType, NoPost
<1>3. NewTurn(0, FALSE, {}) \in TurnType
  BY <1>1, ChannelBounds DEF NewTurn, TurnType, NoPost
<1>4. NoTurn \in TurnType
  BY <1>3 DEF NoTurn, TurnType
<1>. QED BY <1>2, <1>4

(***************************************************************************)
(* The initial state.                                                      *)
(***************************************************************************)
LEMMA InitInv == Init => IndInv
<1>. SUFFICES ASSUME Init PROVE IndInv
  OBVIOUS
<1>1. PICK n \in 0 .. MaxBefore :
        /\ timeline \in [1 .. n -> {[kind |-> k, sender |-> s] : k \in Kinds, s \in Senders}]
        /\ old = n
  BY DEF Init
<1>2. n \in Nat /\ n <= MaxEvents
  BY ChannelBounds
<1>3. {[kind |-> k, sender |-> s] : k \in Kinds, s \in Senders} \subseteq Event
  BY ChannelKinds DEF Event
<1>4. timeline \in Seq(Event) /\ Len(timeline) = n
  BY <1>1, <1>2, <1>3
<1>5. TypeOK
  <2>1. posts = <<>> /\ Len(posts) = 0 /\ posts \in Seq(PostTexts)
    BY DEF Init
  <2>2. history = <<>> /\ history \in Seq(1 .. records) /\ Len(history) <= HistoryLimit
    BY ChannelBounds DEF Init
  <2>3. log \in Seq(Records) /\ Len(log) <= HistoryLimit
    BY ChannelBounds DEF Init
  <2>4. queue \in Seq(TurnType) /\ \A i \in DOMAIN queue : queue[i].pc = "run"
    BY DEF Init
  <2>5. turn \in TurnType
    BY <2>1, ChannelBounds DEF Init, TurnType, NoPost
  <2>6. sync \in [pc : {"down", "catchup", "live", "callbacks", "dead"},
                  since : Batches, upto : Batches, seen : Batches]
    BY DEF Init, Batches
  <2>7. gate \in [ev : 0 .. MaxEvents, count : 0 .. MaxRetriggers]
    BY ChannelBounds DEF Init, NoGate
  <2>8. cron \in [pc : {"off", "on", "flushed"}, root : 0 .. Len(posts), holder : BOOLEAN]
    BY <2>1 DEF Init, NoStream, NoPost
  <2>9. spent \in [faults : 0 .. MaxFaults, crashes : 0 .. MaxCrashes, streams : Nat]
    BY ChannelBounds DEF Init
  <2>10. token \in Batches /\ token <= Len(timeline) /\ active \in 0 .. Len(posts)
    BY <1>2, <1>4, <2>1 DEF Init, Batches, NoBatch, NoPost
  <2>. QED BY <1>1, <1>2, <1>4, <2>1, <2>2, <2>3, <2>4, <2>5, <2>6, <2>7, <2>8, <2>9, <2>10
           DEF TypeOK, Init, Records
<1>6. Following /\ PassedHandled /\ NothingSkipped
  BY <1>1, <1>2, <1>4 DEF Init, Following, PassedHandled, NothingSkipped, NoBatch
<1>7. TurnsInformed
  BY DEF Init, TurnsInformed, Informed
<1>. QED BY <1>5, <1>6, <1>7 DEF IndInv, SyncInv

-----------------------------------------------------------------------------
(***************************************************************************)
(* The sync loop: what it gets, runs and saves.                            *)
(***************************************************************************)
SyncTypes ==
  /\ timeline \in Seq(Event) /\ Len(timeline) <= MaxEvents
  /\ token \in Batches /\ token <= Len(timeline)
  /\ sync \in [pc : {"down", "catchup", "live", "callbacks", "dead"},
               since : Batches, upto : Batches, seen : Batches]
  /\ handled \subseteq DOMAIN timeline /\ omitted \subseteq DOMAIN timeline /\ old \in Nat

SyncKnows == SyncTypes /\ Following /\ PassedHandled /\ NothingSkipped

\* No step of the channel makes the sync loop pass an event that was neither handled
\* nor left out of a response.
LEMMA SyncKnown ==
  ASSUME SyncKnows, [Next]_vars
  PROVE  SyncKnows'
<1>. USE ChannelBounds DEF SyncKnows, SyncTypes, Following, PassedHandled, NothingSkipped,
                           Batches, NoBatch
<1>0. Len(timeline) \in Nat /\ DOMAIN timeline = 1 .. Len(timeline)
  OBVIOUS
<1>1. ASSUME NEW k \in Kinds, NEW s \in Senders \cup {Self}, Post(k, s) PROVE SyncKnows'
  <2>1. /\ Len(timeline') = Len(timeline) + 1 /\ Len(timeline) < MaxEvents
        /\ DOMAIN timeline' = 1 .. Len(timeline')
        /\ UNCHANGED <<token, sync, handled, omitted, old>>
    BY <1>1 DEF Post
  <2>2. timeline' \in Seq(Event)
    BY <1>1, ChannelKinds DEF Post, Event
  <2>3. token < Len(timeline')
    BY <1>0, <2>1
  <2>. QED BY <1>0, <2>1, <2>2, <2>3
<1>2. CASE Start
  BY <1>0, <1>2 DEF Start
<1>3. CASE LoginFails
  BY <1>0, <1>3 DEF LoginFails
<1>4. CASE CatchUp
  <2>1. /\ token' = Len(timeline) /\ old' = Len(timeline) /\ sync'.since = Len(timeline)
        /\ sync'.pc = "live" /\ sync'.upto = sync.upto
        /\ UNCHANGED <<timeline, handled, omitted>>
    BY <1>4 DEF CatchUp
  <2>2. Len(timeline) \in Batches
    BY <1>0
  <2>3. sync' \in [pc : {"down", "catchup", "live", "callbacks", "dead"},
                   since : Batches, upto : Batches, seen : Batches]
    BY <1>4, <2>2 DEF CatchUp
  <2>. QED BY <1>0, <2>1, <2>2, <2>3
<1>5. CASE CatchUpFails
  BY <1>0, <1>5 DEF CatchUpFails
<1>6. CASE SyncResponse
  BY <1>0, <1>6 DEF SyncResponse
<1>7. CASE SyncRevoked
  BY <1>0, <1>7 DEF SyncRevoked
<1>8. CASE Callback
  BY <1>0, <1>8, SMTT(30) DEF Callback
<1>9. CASE SaveSyncToken
  BY <1>0, <1>9 DEF SaveSyncToken
<1>10. CASE CallbackFails
  BY <1>0, <1>10 DEF CallbackFails
<1>11. CASE Crash
  BY <1>0, <1>11 DEF Crash
<1>12. CASE UNCHANGED <<timeline, token, sync, handled, omitted, old>>
  BY <1>12
<1>13. QED
  BY <1>1, <1>2, <1>3, <1>4, <1>5, <1>6, <1>7, <1>8, <1>9, <1>10, <1>11, <1>12
     DEF Next, SyncStep, TurnStep, StreamStep, TurnStarts, TurnCompletes, TurnEnds, TurnRequeued,
         TurnFails, TurnMessage, StreamMessage, StreamCompletes, StreamEnds, vars

-----------------------------------------------------------------------------
(***************************************************************************)
(* Placeholders: there never are fewer, so a reference stays one.          *)
(***************************************************************************)
PostTypes ==
  /\ posts \in Seq(PostTexts)
  /\ active \in 0 .. Len(posts)
  /\ cron \in [pc : {"off", "on", "flushed"}, root : 0 .. Len(posts), holder : BOOLEAN]
  /\ spent \in [faults : 0 .. MaxFaults, crashes : 0 .. MaxCrashes, streams : Nat]

Budgets == [faults : 0 .. MaxFaults, crashes : 0 .. MaxCrashes, streams : Nat]

\* A fault stays within its budget.
LEMMA FaultyFacts ==
  ASSUME spent \in Budgets, Faulty PROVE spent' \in Budgets
  BY ChannelBounds DEF Faulty, Budgets

\* A placeholder that was sent is the last one of the room.
LEMMA PlacedFacts ==
  ASSUME PostTypes, NEW o \in Outcomes, Placed(o)
  PROVE  /\ posts' \in Seq(PostTexts) /\ active' \in 0 .. Len(posts')
         /\ Len(posts') \in Nat /\ Len(posts') >= Len(posts)
         /\ o = "sent" => Len(posts') = Len(posts) + 1
         /\ spent' \in Budgets
<1>1. Len(posts) \in Nat
  BY DEF PostTypes
<1>2. spent' \in Budgets
  BY FaultyFacts DEF PostTypes, Budgets, Placed
<1>3. CASE o = "sent"
  BY <1>1, <1>2, <1>3 DEF Placed, PostTypes, PostTexts
<1>4. CASE o = "lost"
  BY <1>1, <1>2, <1>4 DEF Placed, PostTypes, PostTexts
<1>5. CASE o = "failed"
  BY <1>1, <1>2, <1>5 DEF Placed, PostTypes
<1>. QED BY <1>3, <1>4, <1>5 DEF Outcomes

\* An edit keeps the placeholders there are.
LEMMA EditedFacts ==
  ASSUME PostTypes, NEW p \in 0 .. Len(posts), NEW ok \in BOOLEAN, Edited(p, ok)
  PROVE  posts' \in Seq(PostTexts) /\ Len(posts') = Len(posts) /\ spent' \in Budgets
<1>1. spent' \in Budgets
  BY FaultyFacts DEF PostTypes, Budgets, Edited
<1>2. CASE p = NoPost
  BY <1>1, <1>2 DEF Edited, PostTypes
<1>3. CASE p # NoPost
  <2>. DEFINE text == IF ok THEN "closed" ELSE IF posts[p] = "open" THEN "stuck" ELSE posts[p]
  <2>1. p \in 1 .. Len(posts)
    BY <1>3 DEF PostTypes, NoPost
  <2>2. text \in PostTexts
    BY <2>1 DEF PostTexts, PostTypes
  <2>3. posts' = [posts EXCEPT ![p] = text]
    BY <1>3 DEF Edited
  <2>. QED BY <1>1, <2>1, <2>2, <2>3, ExceptSeq DEF PostTypes
<1>. QED BY <1>2, <1>3

\* Every step keeps the placeholders and the references of the room and the stream.
LEMMA PostsTyped ==
  ASSUME TypeOK, [Next]_vars
  PROVE  PostTypes' /\ Len(posts') \in Nat /\ Len(posts') >= Len(posts)
<1>0. PostTypes /\ Len(posts) \in Nat
  BY DEF TypeOK, PostTypes
<1>1. ASSUME NEW o \in Outcomes, TurnMessage(o) PROVE PostTypes' /\ Len(posts') >= Len(posts)
  BY <1>0, <1>1, PlacedFacts DEF TurnMessage, PostTypes, Budgets
<1>2. ASSUME NEW o \in Outcomes, StreamMessage(o) PROVE PostTypes' /\ Len(posts') >= Len(posts)
  <2>1. /\ posts' \in Seq(PostTexts) /\ active' \in 0 .. Len(posts')
        /\ Len(posts') \in Nat /\ Len(posts') >= Len(posts)
        /\ o = "sent" => Len(posts') = Len(posts) + 1
        /\ spent' \in Budgets
    BY <1>0, <1>2, PlacedFacts DEF StreamMessage
  <2>2. cron' = [Rooted(cron, o) EXCEPT !.pc = "on"]
    BY <1>2 DEF StreamMessage
  <2>3. cron' \in [pc : {"off", "on", "flushed"}, root : 0 .. Len(posts'), holder : BOOLEAN]
    <3>1. CASE o = "sent"
      <4>1. cron' = [pc |-> "on", root |-> Len(posts) + 1, holder |-> TRUE]
        <5>1. cron \in [pc : {"off", "on", "flushed"}, root : 0 .. Len(posts), holder : BOOLEAN]
          BY <1>0 DEF PostTypes
        <5>2. cron' = [cron EXCEPT !.root = Len(posts) + 1, !.holder = TRUE, !.pc = "on"]
          BY <2>2, <3>1 DEF Rooted
        <5>. QED BY <5>1, <5>2
      <4>2. Len(posts) + 1 \in 0 .. Len(posts')
        BY <1>0, <2>1, <3>1
      <4>. QED BY <4>1, <4>2
    <3>2. CASE o # "sent"
      <4>1. cron' = [cron EXCEPT !.pc = "on"]
        BY <2>2, <3>2 DEF Rooted
      <4>. QED BY <1>0, <2>1, <4>1 DEF PostTypes
    <3>. QED BY <3>1, <3>2
  <2>. QED BY <2>1, <2>3 DEF PostTypes, Budgets
<1>3. ASSUME NEW late \in BOOLEAN, NEW ok \in BOOLEAN, TurnCompletes(late, ok)
      PROVE  PostTypes' /\ Len(posts') >= Len(posts)
  <2>. DEFINE p == IF turn.holder THEN turn.root ELSE NoPost
  <2>1. p \in 0 .. Len(posts)
    BY <1>0 DEF TypeOK, TurnType, NoPost
  <2>2. UNCHANGED <<active, cron>> /\ (Edited(p, ok) \/ UNCHANGED <<posts, spent>>)
    BY <1>3 DEF TurnCompletes
  <2>. HIDE DEF p
  <2>. QED BY <1>0, <2>1, <2>2, EditedFacts DEF PostTypes, Budgets
<1>4. ASSUME NEW ok \in BOOLEAN, StreamCompletes(ok)
      PROVE  PostTypes' /\ Len(posts') >= Len(posts)
  <2>. DEFINE p == IF cron.holder THEN cron.root ELSE NoPost
  <2>1. p \in 0 .. Len(posts)
    BY <1>0 DEF PostTypes, NoPost
  <2>2. Edited(p, ok) /\ UNCHANGED active /\ cron' = [cron EXCEPT !.pc = "flushed"]
    BY <1>4 DEF StreamCompletes
  <2>. HIDE DEF p
  <2>. QED BY <1>0, <2>1, <2>2, EditedFacts DEF PostTypes, Budgets
<1>5. CASE TurnFails
  <2>1. /\ posts' = [p \in DOMAIN posts |->
                      IF p = active THEN "closed"
                      ELSE IF p = turn.root /\ turn.holder /\ posts[p] = "open" THEN "stranded"
                      ELSE posts[p]]
        /\ active' = NoPost /\ UNCHANGED cron /\ spent' \in Budgets
    BY <1>0, <1>5, FaultyFacts DEF TurnFails, PostTypes, Budgets
  <2>2. posts' \in Seq(PostTexts) /\ Len(posts') = Len(posts)
    BY <1>0, <2>1 DEF PostTypes, PostTexts
  <2>. QED BY <1>0, <2>1, <2>2 DEF PostTypes, Budgets, NoPost
<1>6. CASE Crash
  <2>1. /\ posts' = [p \in DOMAIN posts |-> IF posts[p] = "open" THEN "stuck" ELSE posts[p]]
        /\ active' = NoPost /\ cron' = NoStream
    BY <1>6 DEF Crash
  <2>2. posts' \in Seq(PostTexts) /\ Len(posts') = Len(posts)
    BY <1>0, <2>1 DEF PostTypes, PostTexts
  <2>3. spent' \in Budgets
    <3>1. spent \in Budgets
      BY <1>0 DEF PostTypes, Budgets
    <3>2. spent' = [spent EXCEPT !.crashes = @ + 1] /\ spent.crashes < MaxCrashes
      BY <1>6 DEF Crash
    <3>. QED BY <3>1, <3>2, ChannelBounds DEF Budgets
  <2>. QED BY <1>0, <2>1, <2>2, <2>3 DEF PostTypes, Budgets, NoPost, NoStream
<1>7. CASE TurnEnds
  BY <1>0, <1>7 DEF TurnEnds, PostTypes, NoPost
<1>8. CASE StreamEnds
  BY <1>0, <1>8 DEF StreamEnds, PostTypes, NoPost, NoStream
<1>9. CASE LoginFails \/ CatchUpFails \/ SyncRevoked \/ CallbackFails
  BY <1>0, <1>9, FaultyFacts
     DEF LoginFails, CatchUpFails, SyncRevoked, CallbackFails, PostTypes, Budgets
<1>10. CASE UNCHANGED <<active, cron, posts, spent>>
  BY <1>0, <1>10 DEF PostTypes
<1>11. PostTypes' => Len(posts') \in Nat
  BY DEF PostTypes
<1>12. PostTypes' /\ Len(posts') >= Len(posts)
  BY <1>1, <1>2, <1>3, <1>4, <1>5, <1>6, <1>7, <1>8, <1>9, <1>10
     DEF Next, SyncStep, TurnStep, StreamStep, TurnStarts, TurnRequeued, Post, Start, CatchUp,
         SyncResponse, Callback, SaveSyncToken, vars
<1>. QED BY <1>11, <1>12
-----------------------------------------------------------------------------
(***************************************************************************)
(* The room's records: a step adds at most one, with the next index.       *)
(***************************************************************************)
RoomTypes ==
  /\ records \in Nat
  /\ history \in Seq(1 .. records) /\ Len(history) <= HistoryLimit
  /\ log \in Seq(Records) /\ Len(log) <= HistoryLimit

LogGrows ==
  /\ records' >= records
  /\ \A e \in Range(log') : e \in Range(log) \/ e.idx > records

\* A callback that records an event adds the next record to the buffer and the log.
LEMMA RecordFacts ==
  ASSUME RoomTypes, timeline \in Seq(Event), NEW n \in DOMAIN timeline, RecordHistory(n)
  PROVE  RoomTypes' /\ LogGrows
<1>. DEFINE e == [idx |-> records + 1, sender |-> timeline[n].sender,
                  names |-> timeline[n].kind = "caption"]
            R == [idx : 1 .. records + 1, sender : Senders \cup {Self}, names : BOOLEAN]
<1>1. records \in Nat /\ history \in Seq(1 .. records + 1) /\ log \in Seq(R)
  <2>1. 1 .. records \subseteq 1 .. records + 1 /\ Records \subseteq R /\ records \in Nat
    BY DEF RoomTypes, Records
  <2>. QED BY <2>1, SeqWider DEF RoomTypes
<1>2. timeline[n] \in Event
  OBVIOUS
<1>3. e \in R /\ e.idx = records + 1
  BY <1>1, <1>2 DEF Event
<1>4. /\ history' = Keep(Append(history, records + 1))
      /\ log' = Keep(Append(log, e))
      /\ records' = IF HistoryLimit = 0 THEN records ELSE records + 1
  BY DEF RecordHistory
<1>5. history' \in Seq(1 .. records + 1) /\ Len(history') <= HistoryLimit
  <2>1. records + 1 \in 1 .. records + 1 /\ Len(history) <= HistoryLimit
    BY <1>1 DEF RoomTypes
  <2>. QED BY <1>1, <1>4, <2>1, KeepFacts
<1>6. log' \in Seq(R) /\ Len(log') <= HistoryLimit /\ Range(log') \subseteq Range(log) \cup {e}
  <2>1. Len(log) <= HistoryLimit
    BY DEF RoomTypes
  <2>. HIDE DEF e, R
  <2>. QED BY <1>1, <1>3, <1>4, <2>1, KeepFacts
<1>7. LogGrows
  <2>. HIDE DEF e, R
  <2>. QED BY <1>1, <1>3, <1>4, <1>6 DEF LogGrows
<1>8. CASE HistoryLimit = 0
  <2>1. Len(log') = 0 /\ Len(history') = 0
    BY <1>5, <1>6, <1>8
  <2>2. log' = <<>> /\ history' = <<>>
    BY <1>5, <1>6, <2>1, EmptySeq
  <2>. QED BY <1>1, <1>4, <1>7, <1>8, <2>1, <2>2 DEF RoomTypes
<1>9. CASE HistoryLimit # 0
  <2>1. records' = records + 1
    BY <1>4, <1>9
  <2>2. Records' = R
    BY <2>1 DEF Records
  <2>. QED BY <1>1, <1>5, <1>6, <1>7, <2>1, <2>2 DEF RoomTypes
<1>. QED BY <1>8, <1>9

\* Every step but a crash keeps the room's records or adds the next one.
LEMMA RoomTyped ==
  ASSUME TypeOK, Following, [Next]_vars
  PROVE  RoomTypes' /\ (Crash \/ LogGrows)
<1>0. RoomTypes /\ timeline \in Seq(Event) /\ (UNCHANGED <<log, records>> => LogGrows)
  BY DEF TypeOK, RoomTypes, LogGrows, Records
<1>1. CASE Callback
  <2>. DEFINE n == sync.since + 1
  <2>1. n \in DOMAIN timeline
    BY <1>0, <1>1, SMTT(30) DEF Callback, Following, TypeOK, Batches, NoBatch
  <2>2. RecordHistory(n) \/ EnqueueTurn(n) \/ UNCHANGED roomVars
    BY <1>1 DEF Callback, EnqueueThreadTurn, roomVars
  <2>. HIDE DEF n
  <2>3. CASE EnqueueTurn(n)
    <3>1. history' = <<>> /\ UNCHANGED <<log, records>>
      BY <2>3 DEF EnqueueTurn
    <3>. QED BY <1>0, <3>1, ChannelBounds DEF RoomTypes, Records
  <2>4. CASE UNCHANGED roomVars
    BY <1>0, <2>4 DEF RoomTypes, roomVars, Records
  <2>. QED BY <1>0, <2>1, <2>2, <2>3, <2>4, RecordFacts
<1>2. CASE Crash
  BY <1>2, ChannelBounds DEF Crash, RoomTypes
<1>3. CASE UNCHANGED roomVars
  BY <1>0, <1>3 DEF RoomTypes, roomVars, Records
<1>. QED
  BY <1>1, <1>2, <1>3
     DEF Next, SyncStep, TurnStep, StreamStep, Post, Start, CatchUp, SyncResponse, SaveSyncToken,
         LoginFails, CatchUpFails, SyncRevoked, CallbackFails, TurnStarts, TurnCompletes, TurnEnds,
         TurnRequeued, TurnFails, TurnMessage, StreamMessage, StreamCompletes, StreamEnds, vars
-----------------------------------------------------------------------------
(***************************************************************************)
(* Turns stay informed while the log only gains newer records.             *)
(***************************************************************************)
LEMMA InformedKept ==
  ASSUME NEW t, t.rec \in Nat, NEW l, NEW n \in Nat, Informed(t, l, n),
         NEW l2, NEW n2 \in Nat, n2 >= n,
         \A e \in Range(l2) : e \in Range(l) \/ e.idx > n,
         \A e \in Range(l2) : e.idx \in Nat
  PROVE  Informed(t, l2, n2)
BY DEF Informed

(***************************************************************************)
(* The turn of the room, those that wait, and the gate.                    *)
(***************************************************************************)
TurnTypes ==
  /\ queue \in Seq(TurnType) /\ \A i \in DOMAIN queue : queue[i].pc = "run"
  /\ turn \in TurnType
  /\ gate \in [ev : 0 .. MaxEvents, count : 0 .. MaxRetriggers]

TurnsKept == TurnTypes' /\ TurnsInformed'

\* What every step of the channel leaves the turns: their types and their context.
LEMMA StepFacts ==
  ASSUME IndInv, [Next]_vars
  PROVE  /\ RoomTypes /\ RoomTypes' /\ TurnTypes /\ (Crash \/ LogGrows)
         /\ TurnType \subseteq TurnType'
         /\ \A t \in TurnType :
               LogGrows /\ Informed(t, log, records) => Informed(t, log', records')
<1>1. TypeOK /\ Following
  BY DEF IndInv, SyncInv
<1>2. RoomTypes /\ TurnTypes /\ RoomTypes' /\ (Crash \/ LogGrows)
  BY <1>1, RoomTyped DEF TypeOK, RoomTypes, TurnTypes, Records
<1>3. TurnType \subseteq TurnType'
  <2>1. Len(posts') \in Nat /\ Len(posts') >= Len(posts) /\ Len(posts) \in Nat
    BY <1>1, PostsTyped DEF TypeOK
  <2>2. 0 .. Len(posts) \subseteq 0 .. Len(posts')
    BY <2>1
  <2>. QED BY <2>2 DEF TurnType
<1>4. ASSUME NEW t \in TurnType, LogGrows, Informed(t, log, records)
      PROVE  Informed(t, log', records')
  <2>1. \A e \in Range(log') : e.idx \in Nat
    <3>1. records' \in Nat /\ log' \in Seq(Records')
      BY <1>2 DEF RoomTypes
    <3>2. \A i \in DOMAIN log' : log'[i] \in Records'
      BY <3>1
    <3>. QED BY <3>1, <3>2 DEF Range, Records
  <2>2. t.rec \in Nat /\ records \in Nat /\ records' \in Nat
    BY <1>2 DEF TurnType, RoomTypes
  <2>. QED BY <1>4, <2>1, <2>2, InformedKept DEF LogGrows
<1>. QED BY <1>2, <1>3, <1>4

(***************************************************************************)
(* A new turn was informed of everything up to its snapshot: its mention   *)
(* is where its context begins.                                            *)
(***************************************************************************)
LEMMA NewTurnInformed ==
  ASSUME RoomTypes, NEW ev, NEW g, NEW ctx
  PROVE  Informed(NewTurn(ev, g, ctx), log, records)
<1>1. \A e \in Range(log) : e.idx \in Nat
  <2>1. \A i \in DOMAIN log : log[i] \in Records
    BY DEF RoomTypes
  <2>. QED BY <2>1 DEF RoomTypes, Records, Range
<1>2. NewTurn(ev, g, ctx).rec = records /\ NewTurn(ev, g, ctx).first = records /\ records \in Nat
  BY DEF NewTurn, RoomTypes
<1>. QED BY <1>1, <1>2 DEF Informed

\* A step that leaves the queue alone leaves its turns informed.
LEMMA QueueKept ==
  ASSUME IndInv, [Next]_vars, LogGrows, UNCHANGED queue
  PROVE  /\ queue' \in Seq(TurnType') /\ \A i \in DOMAIN queue' : queue'[i].pc = "run"
         /\ \A i \in DOMAIN queue' : Informed(queue'[i], log', records')
<1>1. queue \in Seq(TurnType) /\ TurnsInformed /\ \A i \in DOMAIN queue : queue[i].pc = "run"
  BY StepFacts DEF TurnTypes, IndInv
<1>2. queue \in Seq(TurnType')
  BY <1>1, StepFacts, SeqWider
<1>3. \A i \in DOMAIN queue : Informed(queue[i], log', records')
  BY <1>1, StepFacts DEF TurnsInformed
<1>. QED BY <1>1, <1>2, <1>3

\* A step that enqueues an informed turn leaves every turn of the queue informed.
LEMMA QueueGrows ==
  ASSUME IndInv, [Next]_vars, LogGrows,
         NEW t \in TurnType, t.pc = "run", Informed(t, log, records), queue' = Append(queue, t)
  PROVE  /\ queue' \in Seq(TurnType') /\ \A i \in DOMAIN queue' : queue'[i].pc = "run"
         /\ \A i \in DOMAIN queue' : Informed(queue'[i], log', records')
<1>1. queue \in Seq(TurnType) /\ TurnsInformed /\ \A i \in DOMAIN queue : queue[i].pc = "run"
  BY StepFacts DEF TurnTypes, IndInv
<1>2. queue \in Seq(TurnType') /\ t \in TurnType'
  BY <1>1, StepFacts, SeqWider
<1>3. Informed(t, log', records') /\ \A i \in DOMAIN queue : Informed(queue[i], log', records')
  BY <1>1, StepFacts DEF TurnsInformed
<1>4. /\ DOMAIN queue = 1 .. Len(queue) /\ Len(queue) \in Nat /\ queue' \in Seq(TurnType')
      /\ DOMAIN queue' = 1 .. Len(queue) + 1
      /\ \A i \in 1 .. Len(queue) + 1 :
            queue'[i] = IF i = Len(queue) + 1 THEN t ELSE queue[i]
  BY <1>2
<1>5. ASSUME NEW i \in DOMAIN queue'
      PROVE  queue'[i].pc = "run" /\ Informed(queue'[i], log', records')
  <2>1. CASE i = Len(queue) + 1
    BY <1>3, <1>4, <2>1
  <2>2. CASE i # Len(queue) + 1
    BY <1>1, <1>3, <1>4, <2>2
  <2>. QED BY <2>1, <2>2
<1>. QED BY <1>4, <1>5

\* A callback enqueues at most one turn, informed of all that was recorded.
LEMMA CallbackTurns ==
  ASSUME IndInv, Callback
  PROVE  TurnsKept
<1>. DEFINE n == sync.since + 1
<1>0. /\ [Next]_vars /\ TypeOK /\ TurnTypes /\ TurnsInformed /\ Following
      /\ UNCHANGED <<turn, gate>>
  BY DEF Next, SyncStep, IndInv, SyncInv, TypeOK, TurnTypes, Callback
<1>1. n \in 0 .. MaxEvents
  <2>1. sync.pc = "callbacks" /\ sync.since < sync.upto
    BY DEF Callback
  <2>2. /\ sync.since \in Batches /\ sync.upto \in Batches /\ sync.since # NoBatch
        /\ Len(timeline) <= MaxEvents /\ Len(timeline) \in Nat /\ sync.upto <= Len(timeline)
    BY <1>0, <2>1 DEF Following, TypeOK
  <2>. QED BY <2>1, <2>2, ChannelBounds DEF Batches, NoBatch
<1>2. LogGrows /\ RoomTypes
  <2>1. ~Crash
    BY <1>0 DEF Crash, Callback, TypeOK
  <2>. QED BY <2>1, <1>0, StepFacts
<1>3. turn' \in TurnType' /\ Informed(turn', log', records')
  BY <1>0, <1>2, StepFacts DEF TurnTypes, TurnsInformed
<1>4. /\ queue' \in Seq(TurnType') /\ \A i \in DOMAIN queue' : queue'[i].pc = "run"
      /\ \A i \in DOMAIN queue' : Informed(queue'[i], log', records')
  <2>1. CASE UNCHANGED queue
    BY <1>0, <1>2, <2>1, QueueKept
  <2>2. ASSUME NEW g \in BOOLEAN, NEW ctx \in SUBSET Nat,
               queue' = Append(queue, NewTurn(n, g, ctx))
        PROVE  /\ queue' \in Seq(TurnType') /\ \A i \in DOMAIN queue' : queue'[i].pc = "run"
               /\ \A i \in DOMAIN queue' : Informed(queue'[i], log', records')
    <3>1. NewTurn(n, g, ctx) \in TurnType /\ NewTurn(n, g, ctx).pc = "run"
      BY <1>0, <1>1, NewTurnType
    <3>2. Informed(NewTurn(n, g, ctx), log, records)
      BY <1>2, NewTurnInformed
    <3>. QED BY <1>0, <1>2, <2>2, <3>1, <3>2, QueueGrows
  <2>3. Range(history) \subseteq Nat
    <3>1. \A i \in DOMAIN history : history[i] \in 1 .. records
      BY <1>2 DEF RoomTypes
    <3>. QED BY <1>2, <3>1 DEF RoomTypes, Range
  <2>4. \/ UNCHANGED queue
        \/ queue' = Append(queue, NewTurn(n, FALSE, {}))
        \/ \E c \in {{}, Range(history)} : queue' = Append(queue, NewTurn(n, TRUE, c))
    BY DEF Callback, RecordHistory, EnqueueTurn, EnqueueThreadTurn
  <2>. HIDE DEF n
  <2>5. CASE queue' = Append(queue, NewTurn(n, FALSE, {}))
    <3>1. FALSE \in BOOLEAN /\ {} \in SUBSET Nat
      OBVIOUS
    <3>. QED BY <2>2, <2>5, <3>1
  <2>6. ASSUME NEW c \in {{}, Range(history)}, queue' = Append(queue, NewTurn(n, TRUE, c))
        PROVE  /\ queue' \in Seq(TurnType') /\ \A i \in DOMAIN queue' : queue'[i].pc = "run"
               /\ \A i \in DOMAIN queue' : Informed(queue'[i], log', records')
    <3>1. c \in SUBSET Nat
      BY <2>3, <2>6
    <3>. QED BY <2>2, <2>6, <3>1
  <2>. QED BY <2>1, <2>4, <2>5, <2>6
<1>. QED BY <1>0, <1>3, <1>4 DEF TurnsKept, TurnTypes, TurnsInformed

\* A step that leaves the records alone.
LEMMA RoomIdle ==
  ASSUME IndInv, [Next]_vars, UNCHANGED roomVars
  PROVE  LogGrows /\ \A t \in TurnType : Informed(t, log, records) =>
                                             Informed(t, log', records')
<1>1. LogGrows
  <2>1. records \in Nat /\ UNCHANGED <<log, records>>
    BY StepFacts DEF RoomTypes, roomVars
  <2>. QED BY <2>1 DEF LogGrows
<1>. QED BY <1>1, StepFacts

\* The first turn of the queue becomes the turn of the room.
LEMMA TurnStartsTurns ==
  ASSUME IndInv, TurnStarts
  PROVE  TurnsKept
<1>0. [Next]_vars /\ UNCHANGED roomVars /\ UNCHANGED gate
  BY DEF Next, TurnStep, TurnStarts
<1>1. LogGrows /\ TurnTypes /\ TurnsInformed
  BY <1>0, RoomIdle, StepFacts DEF IndInv
<1>2. queue \in Seq(TurnType') /\ queue # <<>> /\ turn' = queue[1] /\ queue' = Tail(queue)
  BY <1>0, <1>1, StepFacts, SeqWider DEF TurnTypes, TurnStarts
<1>3. /\ Len(queue) \in Nat \ {0} /\ DOMAIN queue = 1 .. Len(queue)
      /\ queue' \in Seq(TurnType') /\ DOMAIN queue' = 1 .. Len(queue) - 1
      /\ \A i \in 1 .. Len(queue) - 1 : queue'[i] = queue[i + 1]
  BY <1>2, HeadTailProperties, EmptySeq
<1>4. \A i \in DOMAIN queue : Informed(queue[i], log', records')
  BY <1>0, <1>1, RoomIdle DEF TurnTypes, TurnsInformed
<1>5. turn' \in TurnType' /\ Informed(turn', log', records')
  BY <1>2, <1>3, <1>4
<1>6. ASSUME NEW i \in DOMAIN queue'
      PROVE  queue'[i].pc = "run" /\ Informed(queue'[i], log', records')
  <2>1. i + 1 \in DOMAIN queue /\ queue'[i] = queue[i + 1]
    BY <1>3
  <2>. QED BY <1>1, <1>4, <2>1 DEF TurnTypes
<1>. QED BY <1>0, <1>1, <1>3, <1>5, <1>6 DEF TurnsKept, TurnTypes, TurnsInformed

\* A step that leaves the queue and the records alone and gives the room the turn t.
LEMMA TurnReplaced ==
  ASSUME IndInv, [Next]_vars, UNCHANGED roomVars, UNCHANGED queue,
         turn' \in TurnType', Informed(turn', log, records),
         gate' \in [ev : 0 .. MaxEvents, count : 0 .. MaxRetriggers]
  PROVE  TurnsKept
<1>1. LogGrows /\ UNCHANGED <<log, records>>
  BY RoomIdle DEF roomVars
<1>. QED BY <1>1, QueueKept DEF TurnsKept, TurnTypes, TurnsInformed

\* A placeholder of a turn changes nothing of its context.
LEMMA TurnMessageTurns ==
  ASSUME IndInv, NEW o \in Outcomes, TurnMessage(o)
  PROVE  TurnsKept
<1>0. [Next]_vars /\ UNCHANGED roomVars /\ UNCHANGED queue /\ UNCHANGED gate
  BY DEF Next, TurnMessage
<1>1. /\ turn \in TurnType /\ turn \in TurnType' /\ Informed(turn, log, records)
      /\ gate \in [ev : 0 .. MaxEvents, count : 0 .. MaxRetriggers]
  BY <1>0, StepFacts DEF TurnTypes, IndInv, TurnsInformed
<1>2. PostTypes /\ turn' = Rooted(turn, o) /\ Placed(o)
  BY DEF IndInv, SyncInv, TypeOK, PostTypes, TurnMessage
<1>3. CASE o = "sent"
  <2>1. turn' = [turn EXCEPT !.root = Len(posts) + 1, !.holder = TRUE]
    BY <1>2, <1>3 DEF Rooted
  <2>2. Len(posts) + 1 \in 0 .. Len(posts')
    BY <1>2, <1>3, PlacedFacts DEF PostTypes
  <2>3. turn' \in TurnType'
    BY <1>1, <2>1, <2>2 DEF TurnType
  <2>4. turn'.gated = turn.gated /\ turn'.rec = turn.rec /\ turn'.first = turn.first
        /\ turn'.ctx = turn.ctx
    BY <1>1, <2>1 DEF TurnType
  <2>5. Informed(turn', log, records)
    BY <1>1, <2>4 DEF Informed
  <2>. QED BY <1>0, <1>1, <2>3, <2>5, TurnReplaced
<1>4. CASE o # "sent"
  <2>1. turn' = turn
    BY <1>2, <1>4 DEF Rooted
  <2>. QED BY <1>0, <1>1, <2>1, TurnReplaced
<1>. QED BY <1>3, <1>4

\* A turn that is started again is informed of what it missed.
LEMMA RetriggeredTurn ==
  ASSUME RoomTypes, TypeOK, Informed(turn, log, records), turn.gated
  PROVE  Retriggered(turn) \in TurnType /\ Informed(Retriggered(turn), log, records)
<1>. DEFINE r == Retriggered(turn)
<1>1. turn \in TurnType /\ records \in Nat
  BY DEF TypeOK
<1>2. \A e \in Range(log) : e.idx \in Nat
  <2>1. \A i \in DOMAIN log : log[i] \in Records
    BY DEF RoomTypes
  <2>. QED BY <2>1 DEF RoomTypes, Records, Range
<1>3. MissedHistory(turn) \subseteq Nat
  BY <1>2 DEF MissedHistory
<1>4. r = [pc |-> "requeue", ev |-> turn.ev, gated |-> TRUE, rec |-> records,
           first |-> turn.first, ctx |-> turn.ctx \cup MissedHistory(turn),
           root |-> turn.root, holder |-> turn.holder]
  <2>. DEFINE c == turn.ctx \cup MissedHistory(turn)
              n == NewTurn(turn.ev, TRUE, c)
  <2>1. n = [pc |-> "run", ev |-> turn.ev, gated |-> TRUE, rec |-> records, first |-> records,
             ctx |-> c, root |-> NoPost, holder |-> FALSE]
    BY DEF NewTurn
  <2>2. r = [n EXCEPT !.pc = "requeue", !.first = turn.first, !.root = turn.root,
                      !.holder = turn.holder]
    BY DEF Retriggered
  <2>. HIDE DEF n, c, r
  <2>3. r = [pc |-> "requeue", ev |-> turn.ev, gated |-> TRUE, rec |-> records,
             first |-> turn.first, ctx |-> c, root |-> turn.root, holder |-> turn.holder]
    BY <2>1, <2>2
  <2>. QED BY <2>3 DEF c
<1>5. r \in TurnType
  <2>. HIDE DEF r
  <2>. QED BY <1>1, <1>3, <1>4 DEF TurnType
<1>6. ASSUME NEW e \in Range(log), turn.first < e.idx, e.idx <= records
      PROVE  e.idx \in turn.ctx \cup MissedHistory(turn)
  <2>1. turn.rec \in Nat /\ e.idx \in Nat
    BY <1>1, <1>2 DEF TurnType
  <2>2. CASE e.idx <= turn.rec
    BY <1>6, <2>2 DEF Informed
  <2>3. CASE e.idx > turn.rec
    BY <2>3 DEF MissedHistory
  <2>. QED BY <2>1, <2>2, <2>3
<1>7. Informed(r, log, records)
  <2>. HIDE DEF r
  <2>. QED BY <1>1, <1>4, <1>6 DEF Informed
<1>. QED BY <1>5, <1>7

\* The send gate passes, notes or retriggers the turn, within its budget.
LEMMA TurnCompletesTurns ==
  ASSUME IndInv, NEW late \in BOOLEAN, NEW ok \in BOOLEAN, TurnCompletes(late, ok)
  PROVE  TurnsKept
<1>. DEFINE action == SendGate(turn, late)
<1>0. [Next]_vars /\ UNCHANGED roomVars /\ UNCHANGED queue
  BY DEF Next, TurnStep, TurnCompletes
<1>1. /\ RoomTypes /\ TypeOK /\ turn \in TurnType /\ Informed(turn, log, records)
      /\ gate \in [ev : 0 .. MaxEvents, count : 0 .. MaxRetriggers]
  BY <1>0, StepFacts DEF TurnTypes, IndInv, SyncInv, TurnsInformed
<1>2. gate' \in [ev : 0 .. MaxEvents, count : 0 .. MaxRetriggers]
  <2>. DEFINE b == Budget(turn)
  <2>1. b \in [ev : 0 .. MaxEvents, count : 0 .. MaxRetriggers]
    BY <1>1, ChannelBounds DEF Budget, TurnType
  <2>2. \/ gate' = gate
        \/ gate' = b
        \/ b.count < MaxRetriggers /\ gate' = [b EXCEPT !.count = @ + 1]
    <3>1. \/ gate' = gate
          \/ gate' = [b EXCEPT !.count = IF action = "retrigger" THEN @ + 1 ELSE @]
      BY DEF TurnCompletes
    <3>2. action = "retrigger" => ~(b.count >= MaxRetriggers)
      BY DEF SendGate
    <3>. HIDE DEF action, b
    <3>3. action = "retrigger" => b.count < MaxRetriggers
      BY <2>1, <3>2, ChannelBounds
    <3>. QED BY <2>1, <3>1, <3>3
  <2>. HIDE DEF b
  <2>. QED BY <1>1, <2>1, <2>2, ChannelBounds
<1>3. turn' \in TurnType /\ Informed(turn', log, records)
  <2>1. CASE action = "retrigger"
    <3>1. turn.gated /\ turn' = Retriggered(turn)
      BY <2>1 DEF TurnCompletes, SendGate, Aligned
    <3>. QED BY <1>1, <3>1, RetriggeredTurn
  <2>2. CASE action # "retrigger"
    <3>1. action \in {"ok", "note"} /\ turn' = [turn EXCEPT !.pc = action]
      BY <2>2 DEF TurnCompletes, SendGate
    <3>. HIDE DEF action
    <3>2. turn' \in TurnType
      BY <1>1, <3>1 DEF TurnType
    <3>3. turn'.gated = turn.gated /\ turn'.rec = turn.rec /\ turn'.first = turn.first
          /\ turn'.ctx = turn.ctx
      BY <1>1, <3>1 DEF TurnType
    <3>. QED BY <1>1, <3>2, <3>3 DEF Informed
  <2>. QED BY <2>1, <2>2
<1>. QED BY <1>0, <1>2, <1>3, StepFacts, TurnReplaced

\* The turn of the room ends, or its run fails.
LEMMA QuietTurn ==
  ASSUME IndInv, TurnEnds \/ TurnFails
  PROVE  TurnsKept
<1>0. /\ [Next]_vars /\ UNCHANGED roomVars /\ UNCHANGED queue /\ UNCHANGED gate
      /\ turn' = NoTurn
  BY DEF Next, TurnStep, TurnEnds, TurnFails
<1>1. TypeOK /\ gate \in [ev : 0 .. MaxEvents, count : 0 .. MaxRetriggers]
  BY DEF IndInv, SyncInv, TypeOK
<1>2. NoTurn \in TurnType
  <2>1. 0 \in 0 .. MaxEvents /\ FALSE \in BOOLEAN /\ {} \in SUBSET Nat
    BY ChannelBounds
  <2>. QED BY <1>1, <2>1, NewTurnType
<1>3. Informed(NoTurn, log, records)
  <2>1. NoTurn.gated = FALSE
    BY DEF NoTurn, NewTurn
  <2>. QED BY <2>1 DEF Informed
<1>. QED BY <1>0, <1>1, <1>2, <1>3, StepFacts, TurnReplaced

\* A retriggered turn waits behind the others.
LEMMA TurnRequeuedTurns ==
  ASSUME IndInv, TurnRequeued
  PROVE  TurnsKept
<1>0. /\ [Next]_vars /\ UNCHANGED <<log, records>> /\ UNCHANGED roomVars /\ UNCHANGED gate
      /\ queue' = Append(queue, [turn EXCEPT !.pc = "run"]) /\ turn' = NoTurn
  BY DEF Next, TurnStep, TurnRequeued, roomVars
<1>1. /\ LogGrows /\ TypeOK /\ turn \in TurnType /\ Informed(turn, log, records)
      /\ gate \in [ev : 0 .. MaxEvents, count : 0 .. MaxRetriggers]
  BY <1>0, RoomIdle DEF IndInv, SyncInv, TypeOK, TurnsInformed
<1>. DEFINE t == [turn EXCEPT !.pc = "run"]
<1>2. t \in TurnType /\ t.pc = "run" /\ t.gated = turn.gated /\ t.rec = turn.rec
      /\ t.first = turn.first /\ t.ctx = turn.ctx
  BY <1>1 DEF TurnType
<1>. HIDE DEF t
<1>3. Informed(t, log, records)
  BY <1>1, <1>2 DEF Informed
<1>4. /\ queue' \in Seq(TurnType') /\ \A i \in DOMAIN queue' : queue'[i].pc = "run"
      /\ \A i \in DOMAIN queue' : Informed(queue'[i], log', records')
  BY <1>0, <1>1, <1>2, <1>3, QueueGrows DEF t
<1>5. NoTurn \in TurnType
  <2>1. 0 \in 0 .. MaxEvents /\ FALSE \in BOOLEAN /\ {} \in SUBSET Nat
    BY ChannelBounds
  <2>. QED BY <1>1, <2>1, NewTurnType
<1>6. Informed(turn', log', records')
  <2>1. turn'.gated = FALSE
    BY <1>0 DEF NoTurn, NewTurn
  <2>. QED BY <2>1 DEF Informed
<1>. QED BY <1>0, <1>1, <1>4, <1>5, <1>6, StepFacts DEF TurnsKept, TurnTypes, TurnsInformed

\* A crash leaves no turn.
LEMMA CrashTurns ==
  ASSUME IndInv, Crash
  PROVE  TurnsKept
<1>0. queue' = <<>> /\ turn' = NoTurn /\ gate' = NoGate
  BY DEF Crash
<1>1. [Next]_vars /\ TypeOK
  BY DEF Next, IndInv, SyncInv
<1>2. NoTurn \in TurnType' /\ NoTurn.gated = FALSE
  <2>1. 0 \in 0 .. MaxEvents /\ FALSE \in BOOLEAN /\ {} \in SUBSET Nat
    BY ChannelBounds
  <2>2. NoTurn \in TurnType
    BY <1>1, <2>1, NewTurnType
  <2>. QED BY <1>1, <2>2, StepFacts DEF NoTurn, NewTurn
<1>3. gate' \in [ev : 0 .. MaxEvents, count : 0 .. MaxRetriggers]
  BY <1>0, ChannelBounds DEF NoGate
<1>4. Informed(turn', log', records')
  BY <1>0, <1>2 DEF Informed
<1>5. queue' \in Seq(TurnType') /\ DOMAIN queue' = {}
  BY <1>0
<1>. QED BY <1>0, <1>2, <1>3, <1>4, <1>5 DEF TurnsKept, TurnTypes, TurnsInformed

\* Every step of the channel leaves the turns well-typed and informed.
LEMMA TurnsStay ==
  ASSUME IndInv, [Next]_vars
  PROVE  TurnsKept
<1>1. CASE UNCHANGED roomVars /\ UNCHANGED turnVars
  <2>1. /\ turn \in TurnType /\ turn \in TurnType' /\ Informed(turn, log, records)
        /\ gate \in [ev : 0 .. MaxEvents, count : 0 .. MaxRetriggers]
    BY StepFacts DEF TurnTypes, IndInv, TurnsInformed
  <2>2. UNCHANGED queue /\ turn' = turn /\ gate' = gate
    BY <1>1 DEF turnVars
  <2>. QED BY <1>1, <2>1, <2>2, TurnReplaced
<1>. QED
  BY <1>1, CallbackTurns, TurnStartsTurns, TurnMessageTurns, TurnCompletesTurns, QuietTurn,
     TurnRequeuedTurns, CrashTurns
     DEF Next, SyncStep, TurnStep, StreamStep, Post, Start, CatchUp, SyncResponse, SaveSyncToken,
         LoginFails, CatchUpFails, SyncRevoked, CallbackFails, StreamMessage, StreamCompletes,
         StreamEnds, vars

-----------------------------------------------------------------------------
(***************************************************************************)
(* The invariant is inductive.                                             *)
(***************************************************************************)
LEMMA Inductive == IndInv /\ [Next]_vars => IndInv'
<1>. SUFFICES ASSUME IndInv, [Next]_vars PROVE IndInv'
  OBVIOUS
<1>1. TypeOK /\ Following /\ PassedHandled /\ NothingSkipped
  BY DEF IndInv, SyncInv
<1>2. SyncKnows'
  BY <1>1, SyncKnown DEF SyncKnows, SyncTypes, TypeOK
<1>3. PostTypes'
  BY <1>1, PostsTyped
<1>4. RoomTypes'
  BY <1>1, RoomTyped
<1>5. TurnsKept
  BY TurnsStay
<1>6. TypeOK'
  BY <1>2, <1>3, <1>4, <1>5
     DEF TypeOK, SyncKnows, SyncTypes, PostTypes, RoomTypes, Records, TurnsKept, TurnTypes
<1>. QED BY <1>2, <1>5, <1>6 DEF IndInv, SyncInv, SyncKnows, TurnsKept

\* The inductive invariant holds in every state.
LEMMA Invariant == Spec => []IndInv
BY InitInv, Inductive, PTL DEF Spec

(***************************************************************************)
(* The type invariant: whatever fails, crashes or is retried, the turn,    *)
(* the stream and the room refer to placeholders that exist, the buffer    *)
(* and the log keep history_limit, and no saved token passes the room.     *)
(***************************************************************************)
THEOREM TypeCorrect == Spec => []TypeOK
<1>1. IndInv => TypeOK
  BY DEF IndInv, SyncInv
<1>. QED BY <1>1, Invariant, PTL

(***************************************************************************)
(* The sync token never passes an event whose callback did not run, other  *)
(* than those of the token-less catch-up and those a limited or repeated   *)
(* response left out: across restarts the loop itself skips nothing.       *)
(***************************************************************************)
THEOREM NothingIsSkipped == Spec => []NothingSkipped
<1>1. IndInv => NothingSkipped
  BY DEF IndInv, SyncInv
<1>. QED BY <1>1, Invariant, PTL

(***************************************************************************)
(* A reply the send gate passes without a note was drafted with every      *)
(* retained record since its mention in context.                           *)
(***************************************************************************)
THEOREM RepliesAreFresh == Spec => FreshReply
<1>. DEFINE Fresh == (turn.pc = "run" /\ turn'.pc = "ok" /\ turn.gated) =>
                       \A e \in Range(log) : e.idx > turn.first => e.idx \in turn.ctx
<1>1. IndInv /\ [Next]_vars => [Fresh]_vars
  <2>. SUFFICES ASSUME IndInv, [Next]_vars, turn.pc = "run", turn'.pc = "ok", turn.gated,
                       NEW e \in Range(log), e.idx > turn.first
                PROVE  e.idx \in turn.ctx
    OBVIOUS
  <2>1. /\ RoomTypes /\ turn \in TurnType /\ Informed(turn, log, records)
        /\ \A i \in DOMAIN queue : queue[i].pc = "run"
    BY StepFacts DEF IndInv, TurnTypes, TurnsInformed
  <2>2. PICK late \in BOOLEAN, ok \in BOOLEAN : TurnCompletes(late, ok)
    <3>1. ASSUME NEW o \in Outcomes, TurnMessage(o) PROVE FALSE
      BY <2>1, <3>1 DEF TurnMessage, Rooted, TurnType
    <3>2. NoTurn.pc = "idle"
      BY DEF NoTurn, NewTurn
    <3>3. turn' # turn
      OBVIOUS
    <3>. QED BY <3>1, <3>2, <3>3
         DEF Next, SyncStep, TurnStep, StreamStep, Post, Start, CatchUp, SyncResponse, Callback,
             SaveSyncToken, LoginFails, CatchUpFails, SyncRevoked, CallbackFails, TurnStarts,
             TurnEnds, TurnRequeued, TurnFails, StreamMessage, StreamCompletes, StreamEnds, Crash,
             turnVars, vars
  <2>3. turn.rec = records
    <3>1. SendGate(turn, late) = "ok"
      <4>1. SendGate(turn, late) # "retrigger" => turn' = [turn EXCEPT !.pc = SendGate(turn, late)]
        BY <2>2 DEF TurnCompletes
      <4>2. SendGate(turn, late) = "retrigger" => turn' = Retriggered(turn)
        BY <2>2 DEF TurnCompletes
      <4>3. Retriggered(turn).pc = "requeue"
        BY DEF Retriggered, NewTurn
      <4>. QED BY <2>1, <4>1, <4>2, <4>3 DEF TurnType
    <3>. QED BY <2>1, <3>1 DEF SendGate, Aligned
  <2>4. e.idx \in 1 .. records
    <3>1. \A i \in DOMAIN log : log[i] \in Records
      BY <2>1 DEF RoomTypes
    <3>. QED BY <2>1, <3>1 DEF Range, Records, RoomTypes
  <2>. QED BY <2>1, <2>3, <2>4 DEF Informed, RoomTypes
<1>. QED BY <1>1, Invariant, PTL DEF Spec, FreshReply
=============================================================================
