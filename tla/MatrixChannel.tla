--------------------------- MODULE MatrixChannel ---------------------------
(***************************************************************************)
(* The Matrix channel of a QwenPaw worker (channel.py), for one group room:*)
(* the sync loop with its saved token, the room history given to the agent,*)
(* the send gate that holds back a reply drafted from an old context, and  *)
(* the placeholder message a turn edits into its reply.                    *)
(*                                                                         *)
(* The sync loop, the turn of the room and a proactive (cron) stream are   *)
(* coroutines of one event loop: a step is what runs between two awaits.   *)
(* The runtime runs the turns of a room one after the other, in the order  *)
(* they were enqueued (get_debounce_key).                                  *)
(***************************************************************************)
EXTENDS Integers, Sequences, SequencesExt

CONSTANTS
    Senders,        \* who writes in the room
    Self,           \* the worker's own user, the sender of its self triggers
    Kinds,          \* kinds of events that are written, see EventKinds
    HistoryLimit,   \* history_limit
    TimelineLimit,  \* a response to sync with more events may be limited
    MaxRetriggers,  \* _MATRIX_SEND_GATE_MAX_RETRIGGERS
    MaxEvents,      \* events of the room
    MaxBefore,      \* at most this many were there before the first start
    MaxFaults,      \* failed syncs, failing sends, runs that end in an error
    MaxCrashes,     \* crashes of the worker
    MaxStreams      \* proactive streams

ASSUME ChannelBounds ==
    /\ HistoryLimit \in Nat /\ TimelineLimit \in Nat
    /\ MaxRetriggers \in Nat /\ MaxEvents \in Nat
    /\ MaxBefore \in 0 .. MaxEvents /\ MaxFaults \in Nat /\ MaxCrashes \in Nat /\ MaxStreams \in Nat
    /\ Self \notin Senders

VARIABLES
    timeline,  \* the events of the room, as the homeserver orders them
    token,     \* matrix_sync_token on disk
    sync,      \* the sync loop: where it is, its next_batch, the response, and
               \* the next_batch the client library keeps
    handled,   \* events whose callback ran
    omitted,   \* events a response left out
    old,       \* events the catch-up sync skipped, or that were there before it
    history,   \* _room_histories: records not yet given to a turn
    log,       \* _room_event_log: the newest records
    records,   \* _room_history_records, and _room_history_gen, its equal
    queue,     \* turns the runtime has not started
    turn,      \* the turn that runs
    gate,      \* _send_gate_state
    active,    \* _active_thread_roots
    cron,      \* _proactive_send_state
    posts,     \* the placeholder messages of the room
    spent      \* faults, crashes and streams so far

roomVars == <<history, log, records>>
turnVars == <<queue, turn, gate>>
vars == <<timeline, token, sync, handled, omitted, old, roomVars, turnVars, active, cron, posts, spent>>

-----------------------------------------------------------------------------
(* Values *)

\* chat: text without a mention; caption: a media event whose caption names the
\* worker, which counts as no mention; aside: a thread event without a mention,
\* or a tool display; mention, command: they address the worker; thread: a
\* mention in a thread, or a direct message; noreply: the NO_REPLY protocol.
EventKinds == {"chat", "caption", "aside", "mention", "command", "thread", "noreply"}

ASSUME ChannelKinds == Kinds \subseteq EventKinds

\* _was_mentioned, or a self trigger of TeamHarness, or a direct message
Addressed(e) == e.kind \in {"mention", "command", "thread", "noreply"}

\* _is_thread_event
IsThreadEvent(e) == e.kind \in {"aside", "thread"}

\* _strip_mention_prefix, then a "/"
IsCommand(e) == e.kind = "command"

Event == [kind : EventKinds, sender : Senders \cup {Self}]
NoBatch == -1
Batches == {NoBatch} \cup (0 .. MaxEvents)
NoPost == 0

\* rec: send_gate_snapshot_records; root and holder: the own thread root and the
\* placeholder flag.  first and ctx are the first snapshot of the mention and the
\* records its turns were given.  What a turn has to say is left out: every final
\* text, NO_REPLY and silence edit the placeholder.
NewTurn(ev, gated, ctx) ==
    [pc |-> "run", ev |-> ev, gated |-> gated, rec |-> records, first |-> records,
     ctx |-> ctx, root |-> NoPost, holder |-> FALSE]

NoTurn == [NewTurn(0, FALSE, {}) EXCEPT !.pc = "idle", !.rec = 0, !.first = 0]

NoStream == [pc |-> "off", root |-> NoPost, holder |-> FALSE]
NoGate == [ev |-> 0, count |-> 0]

\* open: "processing"; closed: edited; stuck: its edit or its id was lost, or a crash
\* took the turn; stranded: the error of its turn closed another one.
PostTexts == {"open", "closed", "stuck", "stranded"}

Faulty == spent.faults < MaxFaults /\ spent' = [spent EXCEPT !.faults = @ + 1]

\* The buffer and the log drop their oldest entry when they are full.
Keep(s) == IF Len(s) > HistoryLimit THEN Tail(s) ELSE s

-----------------------------------------------------------------------------
(* The room *)

Post(kind, sender) ==
    /\ Len(timeline) < MaxEvents
    /\ sender = Self => kind = "mention"
    /\ timeline' = Append(timeline, [kind |-> kind, sender |-> sender])
    /\ UNCHANGED <<token, sync, handled, omitted, old, roomVars, turnVars, active, cron, posts, spent>>

-----------------------------------------------------------------------------
(* The sync loop *)

\* start, after the login: the loop loads the token that is on disk.
Start ==
    /\ sync.pc = "down"
    /\ sync' = [pc |-> IF token = NoBatch THEN "catchup" ELSE "live",
                since |-> token, upto |-> NoBatch, seen |-> NoBatch]
    /\ UNCHANGED <<timeline, token, handled, omitted, old, roomVars, turnVars, active, cron, posts, spent>>

\* The login fails: start returns, and nobody tries again.
LoginFails ==
    /\ sync.pc = "down"
    /\ Faulty
    /\ sync' = [sync EXCEPT !.pc = "dead"]
    /\ UNCHANGED <<timeline, token, handled, omitted, old, roomVars, turnVars, active, cron, posts>>

\* The catch-up sync runs without callbacks and only yields next_batch ...
CatchUp ==
    /\ sync.pc = "catchup"
    /\ token' = Len(timeline)
    /\ sync' = [sync EXCEPT !.pc = "live", !.since = Len(timeline), !.seen = Len(timeline)]
    /\ old' = Len(timeline)
    /\ UNCHANGED <<timeline, handled, omitted, roomVars, turnVars, active, cron, posts, spent>>

\* ... and the loop starts without one when it fails.
CatchUpFails ==
    /\ sync.pc = "catchup"
    /\ Faulty
    /\ sync' = [sync EXCEPT !.pc = "live"]
    /\ UNCHANGED <<timeline, token, handled, omitted, old, roomVars, turnVars, active, cron, posts>>

\* A response may leave out the events up to from: a long timeline is limited to its
\* newest events; the client library, which keeps the next_batch of every response
\* before its callbacks run, takes a response with the same one for a repeated one and
\* does nothing with it, and asks from there when the loop has no next_batch.
LeftOut(since, from, upto) ==
    \/ upto - since > TimelineLimit
    \/ from = sync.seen /\ (upto = sync.seen \/ sync.since = NoBatch)

\* A response of client.sync: the callbacks are yet to run.  The loop never looks at
\* limited or prev_batch: it does not fetch what was left out.
SyncResponse ==
    LET since == IF sync.since = NoBatch THEN 0 ELSE sync.since
        upto  == Len(timeline)
    IN  /\ sync.pc = "live" /\ sync.since < upto
        /\ \E from \in since .. upto :
              /\ from > since => LeftOut(since, from, upto)
              /\ sync' = [pc |-> "callbacks", since |-> from, upto |-> upto, seen |-> upto]
              /\ omitted' = omitted \cup ((since + 1) .. from)
        /\ UNCHANGED <<timeline, token, handled, old, roomVars, turnVars, active, cron, posts, spent>>

\* An invalid access token ends the loop.
SyncRevoked ==
    /\ sync.pc = "live"
    /\ Faulty
    /\ sync' = [sync EXCEPT !.pc = "dead"]
    /\ UNCHANGED <<timeline, token, handled, omitted, old, roomVars, turnVars, active, cron, posts>>

\* _record_history
RecordHistory(n) ==
    /\ records' = IF HistoryLimit = 0 THEN records ELSE records + 1
    /\ history' = Keep(Append(history, records + 1))
    /\ log' = Keep(Append(log, [idx |-> records + 1, sender |-> timeline[n].sender,
                                names |-> timeline[n].kind = "caption"]))
    /\ UNCHANGED queue

\* A turn of the room: what was recorded goes into its context, unless it is a
\* command, and the buffer is cleared.
EnqueueTurn(n) ==
    /\ queue' = Append(queue, NewTurn(n, TRUE, IF IsCommand(timeline[n]) THEN {}
                                               ELSE Range(history)))
    /\ history' = <<>>
    /\ UNCHANGED <<log, records>>

EnqueueThreadTurn(n) ==
    /\ queue' = Append(queue, NewTurn(n, FALSE, {}))
    /\ UNCHANGED roomVars

\* _on_room_event, _on_room_media_event
Callback ==
    LET n == sync.since + 1
        e == timeline[n]
    IN  /\ sync.pc = "callbacks" /\ sync.since < sync.upto
        /\ sync' = [sync EXCEPT !.since = n]
        /\ handled' = handled \cup {n}
        /\ \/ ~Addressed(e) /\ ~IsThreadEvent(e) /\ RecordHistory(n)
           \/ ~Addressed(e) /\ IsThreadEvent(e) /\ UNCHANGED <<roomVars, queue>>
           \/ e.kind = "noreply" /\ UNCHANGED <<roomVars, queue>>
           \/ Addressed(e) /\ e.kind # "noreply" /\ ~IsThreadEvent(e) /\ EnqueueTurn(n)
           \/ Addressed(e) /\ IsThreadEvent(e) /\ EnqueueThreadTurn(n)
        /\ UNCHANGED <<timeline, token, omitted, old, turn, gate, active, cron, posts, spent>>

\* Mutant: the token is taken from the room, not from the response.
SaveNewestToken ==
    /\ sync.pc = "callbacks" /\ sync.since = sync.upto
    /\ token' = Len(timeline)
    /\ sync' = [sync EXCEPT !.pc = "live", !.since = Len(timeline)]
    /\ UNCHANGED <<timeline, handled, omitted, old, roomVars, turnVars, active, cron, posts, spent>>

\* All callbacks ran: the new next_batch is saved.
SaveSyncToken ==
    /\ sync.pc = "callbacks" /\ sync.since = sync.upto
    /\ token' = sync.upto
    /\ sync' = [sync EXCEPT !.pc = "live"]
    /\ UNCHANGED <<timeline, handled, omitted, old, roomVars, turnVars, active, cron, posts, spent>>

\* Mutant: the loop goes on behind the response whose callback raised.
CallbackSkipped ==
    /\ sync.pc = "callbacks" /\ sync.since < sync.upto
    /\ Faulty
    /\ sync' = [sync EXCEPT !.pc = "live", !.since = sync.upto]
    /\ UNCHANGED <<timeline, token, handled, omitted, old, roomVars, turnVars, active, cron, posts>>

\* A callback raises: sync() does, and the loop asks again from its old next_batch.
CallbackFails ==
    /\ sync.pc = "callbacks" /\ sync.since < sync.upto
    /\ Faulty
    /\ sync' = [sync EXCEPT !.pc = "live", !.since = token]
    /\ UNCHANGED <<timeline, token, handled, omitted, old, roomVars, turnVars, active, cron, posts>>

-----------------------------------------------------------------------------
(* Placeholders *)

\* _room_send_with_retry of a new placeholder: sent, not sent, or sent with the
\* answer lost in every retry.
Outcomes == {"sent", "failed", "lost"}

Placed(outcome) ==
    /\ IF outcome = "sent" THEN spent' = spent ELSE Faulty
    /\ posts' = CASE outcome = "sent" -> Append(posts, "open")
                  [] outcome = "lost" -> Append(posts, "stuck")
                  [] OTHER -> posts
    /\ active' = IF outcome = "sent" THEN Len(posts) + 1 ELSE active

\* _ensure_thread_root for x, a turn or a stream without a root
Rooted(x, outcome) ==
    IF outcome = "sent" THEN [x EXCEPT !.root = Len(posts) + 1, !.holder = TRUE] ELSE x

\* _edit_thread_root of post p
Edited(p, ok) ==
    /\ IF ok THEN spent' = spent ELSE Faulty
    /\ posts' = IF p = NoPost THEN posts
                ELSE [posts EXCEPT ![p] = IF ok THEN "closed" ELSE IF @ = "open" THEN "stuck" ELSE @]

-----------------------------------------------------------------------------
(* The turn of the room *)

TurnStarts ==
    /\ turn.pc = "idle" /\ queue # <<>>
    /\ turn' = Head(queue)
    /\ queue' = Tail(queue)
    /\ UNCHANGED <<timeline, token, sync, handled, omitted, old, roomVars, gate, active, cron, posts, spent>>

\* on_event_message_completed, on_streaming_start: reasoning, a tool call or a message
\* is put behind a placeholder.
TurnMessage(outcome) ==
    /\ turn.pc = "run" /\ turn.root = NoPost
    /\ Placed(outcome)
    /\ turn' = Rooted(turn, outcome)
    /\ UNCHANGED <<timeline, token, sync, handled, omitted, old, roomVars, queue, gate, cron>>

\* _new_events_relevant_to_turn
NewEventsRelevant(t) ==
    \E e \in Range(log) : e.idx > t.rec /\ (e.sender = timeline[t.ev].sender \/ e.names)

\* The gate budget _evaluate_send_gate works with.
Budget(t) == IF gate.ev = t.ev THEN gate ELSE [ev |-> t.ev, count |-> 0]

\* No room event since the context of the turn, or the turn is not gated.
Aligned(t) == ~t.gated \/ records = t.rec

\* _evaluate_send_gate; late: the deadline of the budget has passed.
SendGate(t, late) ==
    CASE Aligned(t) -> "ok"
      [] ~Aligned(t) /\ ~NewEventsRelevant(t) -> "note"
      [] OTHER -> IF Budget(t).count >= MaxRetriggers \/ late THEN "note" ELSE "retrigger"

\* Mutant: the records still in the buffer of the room.
MissedInBuffer(t) == {i \in Range(history) : i > t.rec}

\* _build_missed_history
MissedHistory(t) == {e.idx : e \in {e \in Range(log) : e.idx > t.rec}}

\* Mutant: the placeholder flag is not carried over.
RetriggeredUnflagged(t) ==
    [NewTurn(t.ev, TRUE, t.ctx \cup MissedHistory(t)) EXCEPT
        !.pc = "requeue", !.first = t.first, !.root = t.root]

\* _retrigger_for_new_context: the turn that will be enqueued.
Retriggered(t) ==
    [NewTurn(t.ev, TRUE, t.ctx \cup MissedHistory(t)) EXCEPT
        !.pc = "requeue", !.first = t.first, !.root = t.root, !.holder = t.holder]

\* _on_process_completed.  A budget starts at its first use: it is not late then.
TurnCompletes(late, ok) ==
    LET action == SendGate(turn, late)
    IN  /\ turn.pc = "run"
        /\ late => gate.ev = turn.ev
        /\ gate' = IF Aligned(turn) \/ ~NewEventsRelevant(turn) THEN gate
                   ELSE [Budget(turn) EXCEPT !.count = IF action = "retrigger" THEN @ + 1 ELSE @]
        /\ \/ /\ action = "retrigger" /\ ok
              /\ turn' = Retriggered(turn)
              /\ UNCHANGED <<posts, spent>>
           \/ /\ action # "retrigger"
              /\ turn' = [turn EXCEPT !.pc = action]
              /\ Edited(IF turn.holder THEN turn.root ELSE NoPost, ok)
        /\ UNCHANGED <<timeline, token, sync, handled, omitted, old, roomVars, queue, active, cron>>

\* The edit was answered: the root of the room is forgotten.
TurnEnds ==
    /\ turn.pc \in {"ok", "note"}
    /\ active' = IF turn.holder THEN NoPost ELSE active
    /\ turn' = NoTurn
    /\ UNCHANGED <<timeline, token, sync, handled, omitted, old, roomVars, queue, gate, cron, posts, spent>>

\* The typing notice before the enqueue was answered.
TurnRequeued ==
    /\ turn.pc = "requeue"
    /\ queue' = Append(queue, [turn EXCEPT !.pc = "run"])
    /\ turn' = NoTurn
    /\ UNCHANGED <<timeline, token, sync, handled, omitted, old, roomVars, gate, active, cron, posts, spent>>

\* _on_consume_error: the run failed or was cancelled; the root of the room, which
\* may be another one's, is closed.
TurnFails ==
    /\ turn.pc # "idle"
    /\ Faulty
    /\ posts' = [p \in DOMAIN posts |->
                    IF p = active THEN "closed"
                    ELSE IF p = turn.root /\ turn.holder /\ posts[p] = "open" THEN "stranded"
                    ELSE posts[p]]
    /\ active' = NoPost
    /\ turn' = NoTurn
    /\ UNCHANGED <<timeline, token, sync, handled, omitted, old, roomVars, queue, gate, cron>>

-----------------------------------------------------------------------------
(* A proactive stream: send_event *)

StreamMessage(outcome) ==
    /\ cron.pc \in {"off", "on"} /\ cron.root = NoPost
    /\ cron.pc = "off" => spent.streams < MaxStreams
    /\ Placed(outcome)
    /\ cron' = [Rooted(cron, outcome) EXCEPT !.pc = "on"]
    /\ UNCHANGED <<timeline, token, sync, handled, omitted, old, roomVars, turnVars>>

\* The response event: its meta names no group, so the gate lets it pass.
StreamCompletes(ok) ==
    /\ cron.pc = "on"
    /\ cron' = [cron EXCEPT !.pc = "flushed"]
    /\ Edited(IF cron.holder THEN cron.root ELSE NoPost, ok)
    /\ UNCHANGED <<timeline, token, sync, handled, omitted, old, roomVars, turnVars, active>>

StreamEnds ==
    /\ cron.pc = "flushed"
    /\ active' = IF cron.holder THEN NoPost ELSE active
    /\ cron' = NoStream
    /\ spent' = [spent EXCEPT !.streams = @ + 1]
    /\ UNCHANGED <<timeline, token, sync, handled, omitted, old, roomVars, turnVars, posts>>

-----------------------------------------------------------------------------
(* The worker *)

\* A crash, or stop: only the token and what is in the room survive.
Crash ==
    /\ sync.pc # "down" /\ spent.crashes < MaxCrashes
    /\ spent' = [spent EXCEPT !.crashes = @ + 1]
    /\ sync' = [pc |-> "down", since |-> NoBatch, upto |-> NoBatch, seen |-> NoBatch]
    /\ history' = <<>> /\ log' = <<>> /\ records' = 0
    /\ queue' = <<>> /\ turn' = NoTurn /\ gate' = NoGate
    /\ active' = NoPost /\ cron' = NoStream
    /\ posts' = [p \in DOMAIN posts |-> IF posts[p] = "open" THEN "stuck" ELSE posts[p]]
    /\ UNCHANGED <<timeline, token, handled, omitted, old>>

Init ==
    /\ \E n \in 0 .. MaxBefore :
          /\ timeline \in [1 .. n -> {[kind |-> k, sender |-> s] : k \in Kinds, s \in Senders}]
          /\ old = n
    /\ token = NoBatch
    /\ sync = [pc |-> "down", since |-> NoBatch, upto |-> NoBatch, seen |-> NoBatch]
    /\ handled = {} /\ omitted = {}
    /\ history = <<>> /\ log = <<>> /\ records = 0
    /\ queue = <<>>
    /\ turn = [pc |-> "idle", ev |-> 0, gated |-> FALSE, rec |-> 0, first |-> 0, ctx |-> {},
               root |-> NoPost, holder |-> FALSE]
    /\ gate = NoGate
    /\ active = NoPost
    /\ cron = NoStream
    /\ posts = <<>>
    /\ spent = [faults |-> 0, crashes |-> 0, streams |-> 0]

SyncStep == Start \/ CatchUp \/ SyncResponse \/ Callback \/ SaveSyncToken

TurnStep ==
    \/ TurnStarts
    \/ \E late, ok \in BOOLEAN : TurnCompletes(late, ok)
    \/ TurnEnds \/ TurnRequeued

StreamStep == (\E ok \in BOOLEAN : StreamCompletes(ok)) \/ StreamEnds

Next ==
    \/ \E k \in Kinds, s \in Senders \cup {Self} : Post(k, s)
    \/ SyncStep \/ LoginFails \/ CatchUpFails \/ SyncRevoked \/ CallbackFails
    \/ TurnStep \/ TurnFails
    \/ \E o \in Outcomes : TurnMessage(o)
    \/ \E o \in Outcomes : StreamMessage(o)
    \/ StreamStep
    \/ Crash

Spec == Init /\ [][Next]_vars

\* The event loop runs what is ready, and the runtime ends the run of a turn.
FairSpec == Spec /\ WF_vars(SyncStep) /\ WF_vars(TurnStep) /\ WF_vars(StreamStep)

-----------------------------------------------------------------------------
(* Properties *)

TurnType ==
    [pc : {"idle", "run", "ok", "note", "requeue"}, ev : 0 .. MaxEvents, gated : BOOLEAN,
     rec : Nat, first : Nat, ctx : SUBSET Nat, root : 0 .. Len(posts), holder : BOOLEAN]

\* Type correctness of the channel; the placeholder a turn, the stream or the room
\* refers to exists, and a saved token never passes the room.
TypeOK ==
    /\ timeline \in Seq(Event) /\ Len(timeline) <= MaxEvents
    /\ token \in Batches /\ token <= Len(timeline)
    /\ sync \in [pc : {"down", "catchup", "live", "callbacks", "dead"},
                 since : Batches, upto : Batches, seen : Batches]
    /\ handled \subseteq DOMAIN timeline /\ omitted \subseteq DOMAIN timeline /\ old \in Nat
    /\ records \in Nat
    /\ history \in Seq(1 .. records) /\ Len(history) <= HistoryLimit
    /\ log \in Seq([idx : 1 .. records, sender : Senders \cup {Self}, names : BOOLEAN])
    /\ Len(log) <= HistoryLimit
    /\ queue \in Seq(TurnType) /\ \A i \in DOMAIN queue : queue[i].pc = "run"
    /\ turn \in TurnType
    /\ gate \in [ev : 0 .. MaxEvents, count : 0 .. MaxRetriggers]
    /\ active \in 0 .. Len(posts)
    /\ cron \in [pc : {"off", "on", "flushed"}, root : 0 .. Len(posts), holder : BOOLEAN]
    /\ posts \in Seq(PostTexts)
    /\ spent \in [faults : 0 .. MaxFaults, crashes : 0 .. MaxCrashes, streams : Nat]

\* Across crashes, failed syncs and callbacks that raise, every event of the room up
\* to the saved sync token, other than what was there before the token-less catch-up,
\* went through its callback or was left out by a response: the loop itself skips
\* nothing.  What a limited or a repeated response leaves out is lost for good.
NothingSkipped ==
    \A n \in DOMAIN timeline : old < n /\ n <= token => n \in handled \cup omitted

\* A reply the send gate lets pass without a note was drafted with every retained room
\* event since the mention in context, also when another mention took the buffer of
\* the room meanwhile.
FreshReply ==
    [][(turn.pc = "run" /\ turn'.pc = "ok" /\ turn.gated) =>
          \A e \in Range(log) : e.idx > turn.first => e.idx \in turn.ctx]_vars

\* Every event written after the first catch-up goes through its callback, if the
\* login works, the access token stays valid and no response leaves the event out.
EventsHandled ==
    \A n \in 1 .. MaxEvents :
        (n \in DOMAIN timeline /\ n > old) ~>
            (n \in handled \cup omitted \/ n <= old \/ sync.pc = "dead")

\* No placeholder says "processing" for ever while the worker is up: whatever the gate,
\* proactive streams and errors do, it is edited, or known to be out of reach.
PlaceholdersClose ==
    \A p \in 1 .. MaxEvents + MaxStreams :
        (p \in DOMAIN posts /\ posts[p] = "open") ~> (p \in DOMAIN posts /\ posts[p] # "open")
=============================================================================
