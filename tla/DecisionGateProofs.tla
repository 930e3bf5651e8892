------------------------- MODULE DecisionGateProofs -------------------------
(***************************************************************************)
(* Theorems about DecisionGate, for any members, roles, accounts, kinds,   *)
(* thresholds and calls.  The argument: every body a tool may commit has,  *)
(* by itself, one open record per kind and a history that ends in its      *)
(* decision status; what a body may forget, the guard of the Controller    *)
(* compares with the stored task.                                          *)
(***************************************************************************)
EXTENDS DecisionGate, SequenceTheorems, TLAPS

MetaSet ==
  [st : Statuses, ds : {"open", "blocked", "frozen"}, hist : Seq(Entries),
   att : [Kinds -> Seq(Records)], review : Reviews]

CallSet ==
  [pc : {"idle", "pull", "bind", "sync", "put", "verify", "notify"}, op : Ops, kind : Kinds,
   verdict : Reviews, body : MetaSet, live : BOOLEAN, attempt : 1 .. MaxAttempts]

(***************************************************************************)
(* The records of a kind: whoever answered one closed it, and only the     *)
(* latest is open.                                                         *)
(***************************************************************************)
GoodRecord(r) == r \in Records /\ (r.by # Nobody => r.res)

GoodRecords(s) ==
  /\ s \in Seq(Records)
  /\ \A i \in DOMAIN s : GoodRecord(s[i]) /\ (~s[i].res => i = Len(s))

EndsInStatus(t) == t.ds = IF t.hist = <<>> THEN "open" ELSE Last(t.hist).to

GoodBody(t) ==
  /\ t \in MetaSet
  /\ \A k \in Kinds : GoodRecords(t.att[k])
  /\ EndsInStatus(t)

IndInv ==
  /\ GoodBody(meta)
  /\ node \in Statuses
  /\ used \in Nat
  /\ call \in [Members -> CallSet]
  /\ \A m \in Members : GoodBody(call[m].body)
  /\ AcceptedApproved

-----------------------------------------------------------------------------
(***************************************************************************)
(* Changes of the records.                                                 *)
(***************************************************************************)

\* A record changes and stays closed if it was.
LEMMA RecordChanged ==
  ASSUME NEW s, GoodRecords(s), NEW i, NEW r,
         i \in DOMAIN s => GoodRecord(r) /\ (s[i].res => r.res)
  PROVE  GoodRecords([s EXCEPT ![i] = r]) /\ Len([s EXCEPT ![i] = r]) = Len(s)
<1>. DEFINE u == [s EXCEPT ![i] = r]
<1>1. s \in Seq(Records) /\ DOMAIN s = 1 .. Len(s) /\ Len(s) \in Nat
  BY DEF GoodRecords
<1>2. CASE i \in DOMAIN s
  <2>1. u \in Seq(Records) /\ Len(u) = Len(s)
    BY <1>1, <1>2, ExceptSeq DEF GoodRecord
  <2>2. \A j \in DOMAIN s : u[j] = IF j = i THEN r ELSE s[j]
    BY <1>1
  <2>3. DOMAIN u = DOMAIN s
    BY <1>1
  <2>. HIDE DEF u
  <2>4. ASSUME NEW j \in DOMAIN u PROVE GoodRecord(u[j]) /\ (~u[j].res => j = Len(u))
    <3>1. CASE j = i
      BY <1>2, <2>1, <2>2, <2>3, <3>1 DEF GoodRecords
    <3>2. CASE j # i
      BY <2>1, <2>2, <2>3, <3>2 DEF GoodRecords
    <3>. QED BY <3>1, <3>2
  <2>5. GoodRecords(u)
    BY <2>1, <2>4 DEF GoodRecords
  <2>. QED BY <2>1, <2>5 DEF u
<1>3. CASE i \notin DOMAIN s
  <2>1. u = s
    BY <1>1, <1>3
  <2>. QED BY <2>1
<1>. QED BY <1>2, <1>3

\* A new record, behind closed ones.
LEMMA RecordAdded ==
  ASSUME NEW s, GoodRecords(s), \A i \in 1 .. Len(s) : s[i].res
  PROVE  GoodRecords(Append(s, NewRecord))
<1>. DEFINE u == Append(s, NewRecord)
<1>1. NewRecord \in Records /\ GoodRecord(NewRecord)
  BY DEF NewRecord, Records, Channels, GoodRecord
<1>2. s \in Seq(Records) /\ DOMAIN s = 1 .. Len(s) /\ Len(s) \in Nat
  BY DEF GoodRecords
<1>3. /\ u \in Seq(Records) /\ Len(u) = Len(s) + 1 /\ DOMAIN u = 1 .. Len(s) + 1
      /\ \A j \in 1 .. Len(s) + 1 : u[j] = IF j = Len(s) + 1 THEN NewRecord ELSE s[j]
  BY <1>1, <1>2
<1>. HIDE DEF u
<1>4. ASSUME NEW j \in DOMAIN u PROVE GoodRecord(u[j]) /\ (~u[j].res => j = Len(u))
  <2>1. CASE j = Len(s) + 1
    BY <1>1, <1>3, <2>1
  <2>2. CASE j # Len(s) + 1
    BY <1>2, <1>3, <2>2 DEF GoodRecords
  <2>. QED BY <2>1, <2>2
<1>. QED BY <1>3, <1>4 DEF GoodRecords, u

\* Good records of one kind replace those of a good body.
LEMMA KindChanged ==
  ASSUME NEW t, GoodBody(t), NEW k \in Kinds, NEW s, GoodRecords(s)
  PROVE  GoodBody([t EXCEPT !.att[k] = s])
<1>. DEFINE u == [t EXCEPT !.att[k] = s]
<1>1. t \in MetaSet /\ s \in Seq(Records)
  BY DEF GoodBody, GoodRecords
<1>2. /\ u \in MetaSet /\ u.hist = t.hist /\ u.ds = t.ds
      /\ \A j \in Kinds : u.att[j] = IF j = k THEN s ELSE t.att[j]
  BY <1>1 DEF MetaSet
<1>. HIDE DEF u
<1>3. GoodBody(u)
  BY <1>2 DEF GoodBody, EndsInStatus
<1>. QED BY <1>3 DEF u

\* The decision status of a good body changes.
LEMMA StatusChanged ==
  ASSUME NEW t, GoodBody(t), NEW to \in {"open", "blocked", "frozen"}, NEW m \in Members, NEW a
  PROVE  GoodBody(SetDecisionStatus(t, to, m, a))
<1>. DEFINE u == SetDecisionStatus(t, to, m, a)
<1>1. t \in MetaSet
  BY DEF GoodBody
<1>2. ASSUME NEW d \in {"open", "blocked", "frozen"},
             NEW x, x = [t EXCEPT !.ds = d, !.hist = Append(@, [to |-> d, by |-> m])]
      PROVE  GoodBody(x)
  <2>. DEFINE e == [to |-> d, by |-> m]
  <2>1. e \in Entries /\ t.hist \in Seq(Entries)
    BY <1>1 DEF Entries, MetaSet
  <2>2. /\ Append(t.hist, e) \in Seq(Entries) /\ Append(t.hist, e) # <<>>
        /\ Last(Append(t.hist, e)) = e
    <3>. HIDE DEF e
    <3>. QED BY <2>1 DEF Last
  <2>3. x \in MetaSet /\ x.att = t.att /\ x.hist = Append(t.hist, e) /\ x.ds = d
    BY <1>1, <1>2, <2>2 DEF MetaSet
  <2>. QED BY <2>2, <2>3 DEF GoodBody, EndsInStatus
<1>3. CASE t.ds = to
  BY <1>3 DEF SetDecisionStatus
<1>4. CASE t.ds # to /\ t.ds = "frozen" /\ ~(to = "open" /\ a)
  <2>1. u = [t EXCEPT !.hist = Append(@, [to |-> "frozen", by |-> m])]
    BY <1>4 DEF SetDecisionStatus
  <2>2. u = [t EXCEPT !.ds = "frozen", !.hist = Append(@, [to |-> "frozen", by |-> m])]
    BY <1>1, <1>4, <2>1 DEF MetaSet
  <2>. QED BY <1>2, <2>2
<1>5. CASE t.ds # to /\ ~(t.ds = "frozen" /\ ~(to = "open" /\ a))
  <2>1. u = [t EXCEPT !.ds = to, !.hist = Append(@, [to |-> to, by |-> m])]
    BY <1>5 DEF SetDecisionStatus
  <2>. QED BY <1>2, <2>1
<1>. QED BY <1>3, <1>4, <1>5

\* Part of a record of a good body changes; out of range, nothing does.
LEMMA RecordOfBody ==
  ASSUME NEW t, GoodBody(t), NEW k \in Kinds, NEW i, NEW r,
         i \in DOMAIN t.att[k] => GoodRecord(r) /\ (t.att[k][i].res => r.res)
  PROVE  GoodBody([t EXCEPT !.att[k][i] = r])
<1>1. GoodRecords(t.att[k]) /\ t \in MetaSet
  BY DEF GoodBody
<1>2. GoodRecords([t.att[k] EXCEPT ![i] = r])
  BY <1>1, RecordChanged
<1>3. [t EXCEPT !.att[k][i] = r] = [t EXCEPT !.att[k] = [t.att[k] EXCEPT ![i] = r]]
  OBVIOUS
<1>. QED BY <1>2, <1>3, KindChanged

\* A record of a good body is a good one.
LEMMA RecordTypes ==
  ASSUME NEW t, GoodBody(t), NEW k \in Kinds, NEW i \in DOMAIN t.att[k]
  PROVE  GoodRecord(t.att[k][i])
BY DEF GoodBody, GoodRecords

\* One more stall, and the record that is answered is free of stalls.
LEMMA StallKept ==
  ASSUME NEW t, GoodBody(t), NEW k \in Kinds, NEW i, NEW n,
         i \in DOMAIN t.att[k] => n \in Nat
  PROVE  GoodBody([t EXCEPT !.att[k][i].stall = n])
<1>. DEFINE r == [t.att[k][i] EXCEPT !.stall = n]
<1>1. i \in DOMAIN t.att[k] => GoodRecord(r) /\ (t.att[k][i].res => r.res)
  <2>. SUFFICES ASSUME i \in DOMAIN t.att[k]
                PROVE  GoodRecord(r) /\ (t.att[k][i].res => r.res)
    OBVIOUS
  <2>1. GoodRecord(t.att[k][i]) /\ n \in Nat
    BY RecordTypes
  <2>. QED BY <2>1 DEF GoodRecord, Records
<1>2. [t EXCEPT !.att[k][i].stall = n] = [t EXCEPT !.att[k][i] = r]
  OBVIOUS
<1>. HIDE DEF r
<1>. QED BY <1>1, <1>2, RecordOfBody

\* The outcome of a message.
LEMMA EventKept ==
  ASSUME NEW t, GoodBody(t), NEW k \in Kinds, NEW i, NEW sent \in BOOLEAN
  PROVE  GoodBody([t EXCEPT !.att[k][i].ev = sent])
<1>. DEFINE r == [t.att[k][i] EXCEPT !.ev = sent]
<1>1. i \in DOMAIN t.att[k] => GoodRecord(r) /\ (t.att[k][i].res => r.res)
  <2>. SUFFICES ASSUME i \in DOMAIN t.att[k]
                PROVE  GoodRecord(r) /\ (t.att[k][i].res => r.res)
    OBVIOUS
  <2>1. GoodRecord(t.att[k][i])
    BY RecordTypes
  <2>. QED BY <2>1 DEF GoodRecord, Records
<1>2. [t EXCEPT !.att[k][i].ev = sent] = [t EXCEPT !.att[k][i] = r]
  OBVIOUS
<1>. HIDE DEF r
<1>. QED BY <1>1, <1>2, RecordOfBody

\* The answer of a member.
LEMMA AnswerKept ==
  ASSUME NEW t, GoodBody(t), NEW k \in Kinds, NEW i, NEW m \in Members, NEW via \in Channels
  PROVE  GoodBody([t EXCEPT !.att[k][i] = [@ EXCEPT !.res = TRUE, !.by = m, !.via = via]])
<1>. DEFINE r == [t.att[k][i] EXCEPT !.res = TRUE, !.by = m, !.via = via]
<1>1. i \in DOMAIN t.att[k] => GoodRecord(r) /\ (t.att[k][i].res => r.res)
  <2>. SUFFICES ASSUME i \in DOMAIN t.att[k]
                PROVE  GoodRecord(r) /\ (t.att[k][i].res => r.res)
    OBVIOUS
  <2>1. GoodRecord(t.att[k][i])
    BY RecordTypes
  <2>. QED BY <2>1 DEF GoodRecord, Records
<1>2. [t EXCEPT !.att[k][i] = [@ EXCEPT !.res = TRUE, !.by = m, !.via = via]] =
        [t EXCEPT !.att[k][i] = r]
  OBVIOUS
<1>. HIDE DEF r
<1>. QED BY <1>1, <1>2, RecordOfBody

\* The stall chain, _attention_stall_escalate.
LEMMA EscalateKept ==
  ASSUME NEW t, GoodBody(t), NEW k, NEW i, NEW m \in Members
  PROVE  GoodBody(StallEscalate(t, k, i, m))
BY StatusChanged DEF StallEscalate

\* The effect of an answer, _attention_resolved_status.
LEMMA ResolvedKept ==
  ASSUME NEW t, GoodBody(t), NEW k \in Kinds, NEW i, NEW m \in Members
  PROVE  GoodBody(ResolvedStatus(t, k, i, m))
<1>. DEFINE u == [t EXCEPT !.att[k][i].stall = 0]
<1>1. GoodBody(u)
  BY StallKept
<1>2. ResolvedStatus(t, k, i, m) = u \/ ResolvedStatus(t, k, i, m) = SetDecisionStatus(u, "open", m, k = "approval")
  BY DEF ResolvedStatus
<1>. HIDE DEF u
<1>. QED BY <1>1, <1>2, StatusChanged

\* accept_task_result closes every record.
LEMMA ClosedKept ==
  ASSUME NEW t, GoodBody(t)
  PROVE  GoodBody(Closed(t))
<1>1. t \in MetaSet
  BY DEF GoodBody
<1>. DEFINE c(k) == [i \in 1 .. Len(t.att[k]) |-> [t.att[k][i] EXCEPT !.res = TRUE]]
            u == [t EXCEPT !.att = [k \in Kinds |-> c(k)]]
<1>2. ASSUME NEW k \in Kinds PROVE GoodRecords(c(k))
  <2>1. /\ t.att[k] \in Seq(Records) /\ DOMAIN t.att[k] = 1 .. Len(t.att[k])
        /\ Len(t.att[k]) \in Nat
    BY <1>1 DEF MetaSet
  <2>2. ASSUME NEW i \in 1 .. Len(t.att[k])
        PROVE  GoodRecord(c(k)[i]) /\ c(k)[i] \in Records /\ c(k)[i].res
    <3>1. t.att[k][i] \in Records /\ c(k)[i] = [t.att[k][i] EXCEPT !.res = TRUE]
      BY <2>1
    <3>. QED BY <3>1 DEF Records, GoodRecord
  <2>3. c(k) \in Seq(Records) /\ DOMAIN c(k) = 1 .. Len(t.att[k])
    <3>1. c(k) \in [1 .. Len(t.att[k]) -> Records]
      BY <2>2
    <3>. QED BY <2>1, <3>1
  <2>. HIDE DEF c
  <2>. QED BY <2>2, <2>3 DEF GoodRecords
<1>3. u \in MetaSet /\ u.hist = t.hist /\ u.ds = t.ds /\ \A k \in Kinds : u.att[k] = c(k)
  <2>1. \A k \in Kinds : c(k) \in Seq(Records)
    BY <1>2 DEF GoodRecords
  <2>. HIDE DEF c
  <2>. QED BY <1>1, <2>1 DEF MetaSet
<1>4. GoodBody(u)
  <2>. HIDE DEF u, c
  <2>. QED BY <1>2, <1>3 DEF GoodBody, EndsInStatus
<1>5. Closed(t) = u
  BY DEF Closed
<1>. QED BY <1>4, <1>5

\* The status of the task.
LEMMA StatusKept ==
  ASSUME NEW t, GoodBody(t), NEW st \in Statuses
  PROVE  GoodBody([t EXCEPT !.st = st])
<1>1. t \in MetaSet
  BY DEF GoodBody
<1>. DEFINE u == [t EXCEPT !.st = st]
<1>2. u \in MetaSet /\ u.att = t.att /\ u.hist = t.hist /\ u.ds = t.ds
  BY <1>1 DEF MetaSet
<1>. HIDE DEF u
<1>3. GoodBody(u)
  BY <1>2 DEF GoodBody, EndsInStatus
<1>. QED BY <1>3 DEF u

\* The review of the task.
LEMMA ReviewSet ==
  ASSUME NEW t, GoodBody(t), NEW v \in Reviews
  PROVE  GoodBody([t EXCEPT !.review = v])
<1>1. t \in MetaSet
  BY DEF GoodBody
<1>. DEFINE u == [t EXCEPT !.review = v]
<1>2. u \in MetaSet /\ u.att = t.att /\ u.hist = t.hist /\ u.ds = t.ds
  BY <1>1 DEF MetaSet
<1>. HIDE DEF u
<1>3. GoodBody(u)
  BY <1>2 DEF GoodBody, EndsInStatus
<1>. QED BY <1>3 DEF u

\* A task at the start.
LEMMA InitBody ==
  ASSUME NEW st \in {"in_progress", "submitted"}
  PROVE  GoodBody(InitMeta(st))
<1>1. <<>> \in Seq(Entries) /\ <<>> \in Seq(Records) /\ DOMAIN <<>> = {}
  OBVIOUS
<1>. QED BY <1>1 DEF InitMeta, GoodBody, GoodRecords, EndsInStatus, MetaSet, Statuses, Reviews

-----------------------------------------------------------------------------
(***************************************************************************)
(* What the guard of the Controller lets through.                          *)
(***************************************************************************)

\* An approval that was closed by a human of the roster is closed by one afterwards.
LEMMA ApprovalKept ==
  ASSUME NEW t, NEW u, GoodBody(t), GoodBody(u), NEW m \in Members, CheckAttention(t, u, m),
         HasApproval(t)
  PROVE  HasApproval(u)
<1>. DEFINE old == t.att["approval"]
            new == u.att["approval"]
<1>1. old \in Seq(Records) /\ new \in Seq(Records) /\ GoodRecords(new)
  BY KindAssumption DEF GoodBody, GoodRecords
<1>2. Len(old) <= Len(new) /\ Len(old) \in Nat /\ Len(new) \in Nat
  BY <1>1, KindAssumption DEF CheckAttention
<1>3. PICK i \in 1 .. Len(old) :
        /\ old[i].res /\ old[i].by # Nobody /\ Role[old[i].by] = "human" /\ old[i].via = "im"
        /\ Account[old[i].by] # Assignee
  BY DEF HasApproval
<1>4. i \in 1 .. Len(new) /\ ~(i > Len(old)) /\ i \in DOMAIN new
  BY <1>1, <1>2
<1>5. CASE Authority(new[i]) = Authority(old[i])
  <2>1. new[i].res = old[i].res /\ new[i].by = old[i].by /\ new[i].via = old[i].via
    BY <1>5 DEF Authority
  <2>. QED BY <1>3, <1>4, <2>1 DEF HasApproval
<1>6. CASE Authority(new[i]) # Authority(old[i])
  <2>1. LegalClose(m, new[i])
    BY <1>4, <1>6 DEF CheckAttention
  <2>2. new[i].by # Nobody => new[i].res
    BY <1>1, <1>4 DEF GoodRecords, GoodRecord
  <2>. QED BY <1>4, <2>1, <2>2 DEF HasApproval, LegalClose, AuthorizedClose
<1>. QED BY <1>5, <1>6

\* A commit that leaves frozen closes an approval.
LEMMA FrozenKept ==
  ASSUME NEW t, NEW u, NEW m, CheckDecisionStatus(t, u, m), t.ds = "frozen", u.ds # "frozen"
  PROVE  NewlyClosed(t, u) # {}
BY DEF CheckDecisionStatus

-----------------------------------------------------------------------------
(***************************************************************************)
(* The initial state, and the calls that begin.                            *)
(***************************************************************************)
LEMMA IdleFacts == Idle \in CallSet /\ GoodBody(Idle.body) /\ Idle.pc = "idle"
<1>1. GoodBody(InitMeta("in_progress"))
  BY InitBody
<1>2. Idle.body = InitMeta("in_progress")
  BY DEF Idle
<1>. QED BY <1>1, <1>2, KindAssumption, AttemptAssumption
         DEF Idle, CallSet, GoodBody, Ops, Reviews

\* The invariant holds at first.
LEMMA InitInv == Init => IndInv
<1>. SUFFICES ASSUME Init PROVE IndInv
  OBVIOUS
<1>1. PICK st \in {"in_progress", "submitted"} : meta = InitMeta(st) /\ node = st
  BY DEF Init
<1>2. GoodBody(meta) /\ node \in Statuses /\ node # "completed"
  BY <1>1, InitBody DEF Statuses
<1>. QED BY <1>2, IdleFacts DEF Init, IndInv, AcceptedApproved

\* A call that begins with a good body.
LEMMA BeginKept ==
  ASSUME IndInv, NEW m \in Members, NEW c \in CallSet, GoodBody(c.body), Begin(m, c)
  PROVE  /\ call' \in [Members -> CallSet] /\ used' \in Nat
         /\ \A n \in Members : GoodBody(call'[n].body)
BY DEF IndInv, Begin

-----------------------------------------------------------------------------
(***************************************************************************)
(* Every step leaves good calls.                                           *)
(***************************************************************************)
CallsKept ==
  /\ call' \in [Members -> CallSet] /\ used' \in Nat
  /\ \A n \in Members : GoodBody(call'[n].body)

\* The call of m takes a step and its body stays good.
LEMMA CallChanged ==
  ASSUME IndInv, NEW m \in Members, NEW c \in CallSet, GoodBody(c.body),
         call' = [call EXCEPT ![m] = c], UNCHANGED used
  PROVE  CallsKept
BY DEF IndInv, CallsKept

\* A call ends.
LEMMA ReturnKept ==
  ASSUME IndInv, NEW m \in Members, Return(m), UNCHANGED used
  PROVE  CallsKept
BY CallChanged, IdleFacts DEF Return

\* A call tries again, while attempts are left.
LEMMA AgainKept ==
  ASSUME IndInv, NEW m \in Members, NEW pc \in {"pull", "sync"}, Again(m, pc), UNCHANGED used
  PROVE  CallsKept
<1>1. CASE call[m].attempt < MaxAttempts
  <2>. DEFINE c == [call[m] EXCEPT !.pc = pc, !.attempt = @ + 1, !.live = FALSE]
  <2>1. call[m] \in CallSet /\ GoodBody(call[m].body)
    BY DEF IndInv
  <2>2. c \in CallSet /\ c.body = call[m].body
    <3>1. call[m].attempt + 1 \in 1 .. MaxAttempts
      BY <1>1, <2>1, AttemptAssumption DEF CallSet
    <3>2. c = [call[m] EXCEPT !.pc = pc, !.attempt = call[m].attempt + 1, !.live = FALSE]
      OBVIOUS
    <3>. HIDE DEF c
    <3>. QED BY <2>1, <3>1, <3>2 DEF CallSet
  <2>3. call' = [call EXCEPT ![m] = c]
    BY <1>1 DEF Again
  <2>. QED BY <2>1, <2>2, <2>3, CallChanged
<1>2. CASE ~(call[m].attempt < MaxAttempts)
  BY <1>2, ReturnKept DEF Again
<1>. QED BY <1>1, <1>2

\* request_attention: a stall, an announcement that is repeated, a new record.
LEMMA AskKept ==
  ASSUME IndInv, NEW m \in Members, NEW k \in Kinds,
         AskAgain(m, k) \/ AskPending(m, k) \/ AskNew(m, k)
  PROVE  CallsKept
<1>1. GoodBody(meta)
  BY DEF IndInv
<1>2. CASE AskAgain(m, k)
  <2>. DEFINE open == Unresolved(meta, k) \cap Notified(meta, k)
              i == CHOOSE i \in open : \A j \in open : j <= i
              n == meta.att[k][i].stall + 1
              t == [meta EXCEPT !.att[k][i].stall = n]
              u == StallEscalate(t, k, i, m)
  <2>1. i \in DOMAIN meta.att[k] => n \in Nat
    <3>. HIDE DEF i
    <3>. QED BY <1>1, RecordTypes DEF GoodRecord, Records
  <2>2. GoodBody(t)
    <3>. HIDE DEF i, n
    <3>. QED BY <1>1, <2>1, StallKept
  <2>3. GoodBody(u)
    <3>. HIDE DEF t, i
    <3>. QED BY <2>2, EscalateKept
  <2>4. Begin(m, [Idle EXCEPT !.pc = "sync", !.op = "told", !.kind = k, !.body = u])
    BY <1>2 DEF AskAgain
  <2>. HIDE DEF u
  <2>5. u \in MetaSet
    BY <2>3 DEF GoodBody
  <2>. QED BY <2>3, <2>4, <2>5, IdleFacts, BeginKept DEF CallsKept, CallSet, Ops
<1>3. CASE AskPending(m, k)
  <2>1. Begin(m, [Idle EXCEPT !.pc = "sync", !.op = "ask", !.kind = k, !.body = meta])
    BY <1>3 DEF AskPending
  <2>2. meta \in MetaSet
    BY <1>1 DEF GoodBody
  <2>. QED BY <1>1, <2>1, <2>2, IdleFacts, BeginKept DEF CallsKept, CallSet, Ops
<1>4. CASE AskNew(m, k)
  <2>. DEFINE s == Append(meta.att[k], NewRecord)
              u == [meta EXCEPT !.att[k] = s]
  <2>1. GoodRecords(meta.att[k]) /\ \A i \in 1 .. Len(meta.att[k]) : meta.att[k][i].res
    BY <1>1, <1>4 DEF GoodBody, AskNew, NoOpenRecord, Unresolved
  <2>2. GoodRecords(s)
    BY <2>1, RecordAdded
  <2>3. Begin(m, [Idle EXCEPT !.pc = "sync", !.op = "ask", !.kind = k, !.body = u])
    BY <1>4 DEF AskNew
  <2>4. GoodBody(u)
    <3>. HIDE DEF s
    <3>. QED BY <1>1, <2>2, KindChanged
  <2>. HIDE DEF u
  <2>5. u \in MetaSet
    BY <2>4 DEF GoodBody
  <2>. QED BY <2>3, <2>4, <2>5, IdleFacts, BeginKept DEF CallsKept, CallSet, Ops
<1>. QED BY <1>2, <1>3, <1>4

\* The outcome of the announcement goes into the record.
LEMMA NotifyKept ==
  ASSUME IndInv, NEW m \in Members, Notify(m)
  PROVE  CallsKept
<1>. DEFINE k == call[m].kind
            i == CHOOSE i \in Unresolved(call[m].body, k) :
                   \A j \in Unresolved(call[m].body, k) : j <= i
<1>1. PICK sent \in BOOLEAN :
        call' = [call EXCEPT ![m].body.att[k][i].ev = sent, ![m].pc = "sync", ![m].op = "told",
                             ![m].attempt = 1]
  BY DEF Notify
<1>. DEFINE t == [call[m].body EXCEPT !.att[k][i].ev = sent]
            c == [call[m] EXCEPT !.body = t, !.pc = "sync", !.op = "told", !.attempt = 1]
<1>2. call \in [Members -> CallSet] /\ call[m] \in CallSet /\ GoodBody(call[m].body) /\ k \in Kinds
  BY DEF IndInv, CallSet
<1>. HIDE DEF i, k
<1>3. GoodBody(t)
  BY <1>2, EventKept
<1>4. call' = [call EXCEPT ![m] = c]
  BY <1>1, <1>2
<1>. HIDE DEF t
<1>5. t \in MetaSet
  BY <1>3 DEF GoodBody
<1>6. c \in CallSet /\ c.body = t
  <2>1. 1 \in 1 .. MaxAttempts /\ "sync" \in {"idle", "pull", "bind", "sync", "put", "verify", "notify"}
        /\ "told" \in Ops
    BY AttemptAssumption DEF Ops
  <2>. QED BY <1>2, <1>5, <2>1 DEF CallSet
<1>. HIDE DEF c
<1>. QED BY <1>3, <1>4, <1>6, CallChanged DEF Notify

\* request_attention with resolved=true.
LEMMA ResolveKept ==
  ASSUME IndInv, NEW m \in Members, NEW k \in Kinds, NEW via \in {"im", "tool"}, Resolve(m, k, via)
  PROVE  CallsKept
<1>. DEFINE i == Answered(meta, k)
            t == [meta EXCEPT !.att[k][i] = [@ EXCEPT !.res = TRUE, !.by = m, !.via = via]]
            u == ResolvedStatus(t, k, i, m)
<1>1. GoodBody(meta) /\ via \in Channels
  BY DEF IndInv, Channels
<1>2. Begin(m, [Idle EXCEPT !.pc = "sync", !.op = "resolve", !.kind = k, !.body = u])
  BY DEF Resolve
<1>. HIDE DEF i
<1>3. GoodBody(t)
  BY <1>1, AnswerKept
<1>. HIDE DEF t
<1>4. GoodBody(u)
  BY <1>3, ResolvedKept
<1>. HIDE DEF u
<1>5. u \in MetaSet
  BY <1>4 DEF GoodBody
<1>. QED BY <1>2, <1>4, <1>5, IdleFacts, BeginKept DEF CallsKept, CallSet, Ops

\* submit_task.
LEMMA SubmitKept ==
  ASSUME IndInv, NEW m \in Members, SubmitTask(m)
  PROVE  CallsKept
<1>. DEFINE u == [meta EXCEPT !.st = "submitted"]
<1>1. GoodBody(u)
  BY StatusKept DEF IndInv, Statuses
<1>2. Begin(m, [Idle EXCEPT !.pc = "sync", !.op = "submit", !.body = u])
  BY DEF SubmitTask
<1>. HIDE DEF u
<1>3. u \in MetaSet
  BY <1>1 DEF GoodBody
<1>. QED BY <1>1, <1>2, <1>3, IdleFacts, BeginKept DEF CallsKept, CallSet, Ops

\* review_task, from its beginning to the body it writes.
LEMMA ReviewKept ==
  ASSUME IndInv, NEW m \in Members,
         (\E v \in {"pass", "fail"} : ReviewTask(m, v)) \/ ReviewPull(m) \/ ReviewBind(m)
  PROVE  CallsKept
<1>0. /\ call \in [Members -> CallSet] /\ call[m] \in CallSet /\ GoodBody(call[m].body)
      /\ GoodBody(meta) /\ meta \in MetaSet
  BY DEF IndInv, GoodBody
<1>1. ASSUME NEW v \in {"pass", "fail"}, ReviewTask(m, v) PROVE CallsKept
  BY <1>1, IdleFacts, BeginKept DEF ReviewTask, CallsKept, CallSet, Ops, Reviews
<1>2. CASE ReviewPull(m)
  <2>. DEFINE c == [call[m] EXCEPT !.body = meta, !.live = TRUE, !.pc = "bind"]
  <2>1. call' = [call EXCEPT ![m] = c] /\ UNCHANGED used
    BY <1>0, <1>2 DEF ReviewPull
  <2>2. c \in CallSet /\ c.body = meta
    BY <1>0 DEF CallSet
  <2>. HIDE DEF c
  <2>. QED BY <1>0, <2>1, <2>2, CallChanged
<1>3. CASE ReviewBind(m)
  <2>1. UNCHANGED used
    BY <1>3 DEF ReviewBind
  <2>2. CASE Again(m, "pull") \/ Return(m)
    BY <2>1, <2>2, AgainKept, ReturnKept
  <2>3. CASE call' = [call EXCEPT ![m].body.review = call[m].verdict, ![m].live = TRUE,
                                  ![m].pc = "put"]
    <3>. DEFINE u == [call[m].body EXCEPT !.review = call[m].verdict]
                c == [call[m] EXCEPT !.body = u, !.live = TRUE, !.pc = "put"]
    <3>1. call' = [call EXCEPT ![m] = c]
      BY <1>0, <2>3
    <3>2. GoodBody(u)
      BY <1>0, ReviewSet DEF CallSet
    <3>. HIDE DEF u
    <3>3. u \in MetaSet
      BY <3>2 DEF GoodBody
    <3>4. c \in CallSet /\ c.body = u
      BY <1>0, <3>3 DEF CallSet
    <3>. HIDE DEF c
    <3>. QED BY <2>1, <3>1, <3>2, <3>4, CallChanged
  <2>. QED BY <1>3, <2>2, <2>3 DEF ReviewBind
<1>. QED BY <1>1, <1>2, <1>3

\* accept_task_result.
LEMMA AcceptKept ==
  ASSUME IndInv, NEW m \in Members, NEW v \in {"completed", "revision"}, AcceptTaskResult(m, v)
  PROVE  CallsKept
<1>. DEFINE t == IF node \in Terminal THEN meta ELSE Closed(meta)
            u == [t EXCEPT !.st = v]
<1>1. GoodBody(t)
  BY ClosedKept DEF IndInv
<1>. HIDE DEF t
<1>2. GoodBody(u)
  BY <1>1, StatusKept DEF Statuses, Terminal
<1>3. Begin(m, [Idle EXCEPT !.pc = "sync", !.op = "accept", !.body = u])
  BY DEF AcceptTaskResult, t
<1>. HIDE DEF u
<1>4. u \in MetaSet
  BY <1>2 DEF GoodBody
<1>. QED BY <1>2, <1>3, <1>4, IdleFacts, BeginKept DEF CallsKept, CallSet, Ops

\* The steps of a commit.
LEMMA CommitKept ==
  ASSUME IndInv, NEW m \in Members, SyncRead(m) \/ PutTaskMeta(m) \/ Verify(m) \/ CallFails(m)
  PROVE  CallsKept
<1>0. /\ call \in [Members -> CallSet] /\ call[m] \in CallSet /\ GoodBody(call[m].body)
      /\ UNCHANGED used
  BY DEF IndInv, SyncRead, PutTaskMeta, Verify, CallFails
<1>1. CASE SyncRead(m)
  <2>. DEFINE c == [call[m] EXCEPT !.live = TRUE, !.pc = "put"]
  <2>1. call' = [call EXCEPT ![m] = c]
    BY <1>0, <1>1 DEF SyncRead
  <2>2. c \in CallSet /\ c.body = call[m].body
    BY <1>0 DEF CallSet
  <2>. HIDE DEF c
  <2>. QED BY <1>0, <2>1, <2>2, CallChanged
<1>2. CASE PutTaskMeta(m)
  <2>1. CASE Again(m, "pull") \/ Again(m, "sync") \/ Return(m)
    BY <1>0, <2>1, AgainKept, ReturnKept
  <2>2. CASE call' = Stale([call EXCEPT ![m] = IF call[m].op = "review" THEN Idle
                                               ELSE [@ EXCEPT !.pc = "verify"]], m)
    <3>. DEFINE c == IF call[m].op = "review" THEN Idle ELSE [call[m] EXCEPT !.pc = "verify"]
                f == [call EXCEPT ![m] = c]
    <3>1. c \in CallSet /\ GoodBody(c.body)
      BY <1>0, IdleFacts DEF CallSet
    <3>2. f \in [Members -> CallSet] /\ \A n \in Members : GoodBody(f[n].body)
      <4>. HIDE DEF c
      <4>. QED BY <1>0, <3>1 DEF IndInv
    <3>3. call' = Stale(f, m)
      BY <1>0, <2>2
    <3>. HIDE DEF f
    <3>4. ASSUME NEW n \in Members
          PROVE  /\ [f[n] EXCEPT !.live = FALSE] \in CallSet
                 /\ [f[n] EXCEPT !.live = FALSE].body = f[n].body
      BY <3>2 DEF CallSet
    <3>. QED BY <1>0, <3>2, <3>3, <3>4 DEF Stale, CallsKept, IndInv
  <2>. QED BY <1>2, <2>1, <2>2 DEF PutTaskMeta
<1>3. CASE Verify(m)
  <2>1. CASE Again(m, "sync") \/ Return(m)
    BY <1>0, <2>1, AgainKept, ReturnKept
  <2>2. CASE call' = [call EXCEPT ![m].pc = "notify", ![m].live = FALSE]
    <3>. DEFINE c == [call[m] EXCEPT !.pc = "notify", !.live = FALSE]
    <3>1. call' = [call EXCEPT ![m] = c]
      BY <1>0, <2>2
    <3>2. c \in CallSet /\ c.body = call[m].body
      BY <1>0 DEF CallSet
    <3>. HIDE DEF c
    <3>. QED BY <1>0, <3>1, <3>2, CallChanged
  <2>. QED BY <1>3, <2>1, <2>2 DEF Verify
<1>4. CASE CallFails(m)
  BY <1>0, <1>4, ReturnKept DEF CallFails
<1>. QED BY <1>1, <1>2, <1>3, <1>4

\* Every step leaves good calls.
LEMMA CallsStay ==
  ASSUME IndInv, [Next]_vars
  PROVE  CallsKept
<1>1. ASSUME NEW m \in Members, Step(m) PROVE CallsKept
  BY <1>1, AskKept, ResolveKept, SubmitKept, ReviewKept, AcceptKept, NotifyKept, CommitKept DEF Step
<1>2. CASE UNCHANGED vars
  BY <1>2 DEF vars, IndInv, CallsKept
<1>. QED BY <1>1, <1>2 DEF Next

-----------------------------------------------------------------------------
(***************************************************************************)
(* The stored task: it stays as it is, or becomes a body that the guard    *)
(* permitted on it.                                                        *)
(***************************************************************************)
LEMMA MetaSteps ==
  ASSUME IndInv, [Next]_vars
  PROVE  \/ UNCHANGED meta
         \/ \E m \in Members : /\ meta' = call[m].body /\ Permitted(meta, call[m].body, m)
                               /\ UNCHANGED node
<1>1. ASSUME NEW m \in Members, PutTaskMeta(m)
      PROVE  \/ UNCHANGED meta
             \/ /\ meta' = call[m].body /\ Permitted(meta, call[m].body, m)
                /\ UNCHANGED node
  BY <1>1 DEF PutTaskMeta
<1>2. ASSUME NEW m \in Members, Step(m), ~PutTaskMeta(m) PROVE UNCHANGED meta
  BY <1>2 DEF Step, AskAgain, AskPending, AskNew, Resolve, SubmitTask, ReviewTask,
              AcceptTaskResult, Notify, ReviewPull, ReviewBind, SyncRead, Verify, CallFails
<1>. QED BY <1>1, <1>2 DEF Next, vars

\* A history is its own prefix.
LEMMA PrefixOfItself ==
  ASSUME NEW s \in Seq(Entries) PROVE IsPrefix(s, s)
BY DEF IsPrefix

\* What a step does to the decisions of the stored task.
LEMMA Decided ==
  ASSUME IndInv, [Next]_vars
  PROVE  /\ GoodBody(meta')
         /\ \A k \in Kinds : Len(meta.att[k]) <= Len(meta'.att[k])
         /\ HasApproval(meta) => HasApproval(meta')
         /\ IsPrefix(meta.hist, meta'.hist)
         /\ meta.ds = "frozen" /\ meta'.ds # "frozen" => NewlyClosed(meta, meta') # {}
<1>0. GoodBody(meta) /\ meta \in MetaSet
  BY DEF IndInv, GoodBody
<1>1. CASE UNCHANGED meta
  <2>1. \A k \in Kinds : Len(meta.att[k]) \in Nat
    BY <1>0 DEF MetaSet
  <2>2. IsPrefix(meta.hist, meta.hist)
    BY <1>0, PrefixOfItself DEF MetaSet
  <2>. QED BY <1>0, <1>1, <2>1, <2>2
<1>2. ASSUME NEW m \in Members, meta' = call[m].body, Permitted(meta, call[m].body, m)
      PROVE  /\ GoodBody(meta')
             /\ \A k \in Kinds : Len(meta.att[k]) <= Len(meta'.att[k])
             /\ HasApproval(meta) => HasApproval(meta')
             /\ IsPrefix(meta.hist, meta'.hist)
             /\ meta.ds = "frozen" /\ meta'.ds # "frozen" => NewlyClosed(meta, meta') # {}
  <2>. DEFINE u == call[m].body
  <2>1. GoodBody(u)
    BY DEF IndInv
  <2>2. /\ CheckAttention(meta, u, m) /\ CheckDecisionStatus(meta, u, m)
        /\ CheckDecisionHistory(meta, u)
    BY <1>2 DEF Permitted
  <2>. HIDE DEF u
  <2>3. \A k \in Kinds : Len(meta.att[k]) <= Len(u.att[k])
    BY <2>2 DEF CheckAttention
  <2>4. HasApproval(meta) => HasApproval(u)
    BY <1>0, <2>1, <2>2, ApprovalKept
  <2>5. meta.ds = "frozen" /\ u.ds # "frozen" => NewlyClosed(meta, u) # {}
    BY <2>2, FrozenKept
  <2>6. IsPrefix(meta.hist, u.hist)
    BY <2>2 DEF CheckDecisionHistory
  <2>7. meta' = u
    BY <1>2 DEF u
  <2>. QED BY <2>1, <2>3, <2>4, <2>5, <2>6, <2>7
<1>. QED BY <1>1, <1>2, MetaSteps

\* A node is completed only by a leader whose copy of the task was acceptable.
LEMMA NodeSteps ==
  ASSUME IndInv, [Next]_vars
  PROVE  node' \in Statuses /\ (node' = "completed" => HasApproval(meta'))
<1>1. ASSUME NEW m \in Members, NEW v \in {"completed", "revision"}, AcceptTaskResult(m, v)
      PROVE  node' \in Statuses /\ (node' = "completed" => HasApproval(meta'))
  <2>1. node' = v /\ UNCHANGED meta /\ (v = "completed" => HasApproval(meta))
    BY <1>1 DEF AcceptTaskResult, Acceptable
  <2>. QED BY <2>1 DEF Statuses, Terminal
<1>2. CASE UNCHANGED node
  BY <1>2, Decided DEF IndInv, AcceptedApproved
<1>3. ASSUME NEW m \in Members, Step(m)
      PROVE  UNCHANGED node \/ \E v \in {"completed", "revision"} : AcceptTaskResult(m, v)
  BY <1>3 DEF Step, AskAgain, AskPending, AskNew, Resolve, SubmitTask, ReviewTask, Notify,
              ReviewPull, ReviewBind, SyncRead, PutTaskMeta, Verify, CallFails
<1>. QED BY <1>1, <1>2, <1>3 DEF Next, vars

\* The invariant is inductive.
LEMMA Inductive == IndInv /\ [Next]_vars => IndInv'
<1>. SUFFICES ASSUME IndInv, [Next]_vars PROVE IndInv'
  OBVIOUS
<1>1. CallsKept /\ GoodBody(meta')
  BY CallsStay, Decided
<1>2. node' \in Statuses /\ AcceptedApproved'
  BY NodeSteps DEF AcceptedApproved
<1>. QED BY <1>1, <1>2 DEF IndInv, CallsKept

\* The invariant holds in every state.
LEMMA Invariant == Spec => []IndInv
BY InitInv, Inductive, PTL DEF Spec

-----------------------------------------------------------------------------
(***************************************************************************)
(* Type correctness of the stored task and of the bodies that may be       *)
(* committed.                                                              *)
(***************************************************************************)
THEOREM TypeCorrect == Spec => []TypeOK
<1>1. IndInv => TypeOK
  <2>. SUFFICES ASSUME IndInv PROVE TypeOK
    OBVIOUS
  <2>1. ASSUME NEW t \in MetaSet PROVE Metas(t)
    BY DEF MetaSet, Metas
  <2>2. meta \in MetaSet /\ node \in Statuses /\ used \in Nat /\ call \in [Members -> CallSet]
    BY DEF IndInv, GoodBody
  <2>3. \A m \in Members :
          /\ call[m].body \in MetaSet /\ call[m].live \in BOOLEAN
          /\ call[m].attempt \in 1 .. MaxAttempts
          /\ call[m].pc \in {"idle", "pull", "bind", "sync", "put", "verify", "notify"}
          /\ call[m].op \in Ops /\ call[m].kind \in Kinds /\ call[m].verdict \in Reviews
    BY <2>2 DEF CallSet
  <2>. QED BY <2>1, <2>2, <2>3 DEF TypeOK
<1>. QED BY <1>1, Invariant, PTL

(***************************************************************************)
(* request_attention keeps one open loop per kind: only the latest record  *)
(* of a kind is unanswered, however calls interleave, fail and retry.      *)
(***************************************************************************)
THEOREM OneLoop == Spec => []OneOpenLoop
<1>1. IndInv => OneOpenLoop
  <2>. SUFFICES ASSUME IndInv, NEW k \in Kinds, NEW i \in Unresolved(meta, k)
                PROVE  i = Len(meta.att[k])
    BY DEF OneOpenLoop
  <2>1. GoodRecords(meta.att[k])
    BY DEF IndInv, GoodBody
  <2>. QED BY <2>1 DEF Unresolved, GoodRecords
<1>. QED BY <1>1, Invariant, PTL

(***************************************************************************)
(* A result the leader completed has, in shared storage and from then on,  *)
(* the approval of a human who is not the assignee.                        *)
(***************************************************************************)
THEOREM AcceptedHasApproval == Spec => []AcceptedApproved
<1>1. IndInv => AcceptedApproved
  BY DEF IndInv
<1>. QED BY <1>1, Invariant, PTL

(***************************************************************************)
(* Every commit keeps what people decided: the records, the approval, the  *)
(* history, which ends in the decision status, and a freeze.               *)
(***************************************************************************)
THEOREM DecisionsStand == Spec => DecisionsKept
<1>1. IndInv /\ [Next]_vars =>
        [/\ \A k \in Kinds : Len(meta.att[k]) <= Len(meta'.att[k])
         /\ HasApproval(meta) => HasApproval(meta')
         /\ IsPrefix(meta.hist, meta'.hist)
         /\ meta'.ds = IF meta'.hist = <<>> THEN "open" ELSE Last(meta'.hist).to
         /\ meta.ds = "frozen" /\ meta'.ds # "frozen" => NewlyClosed(meta, meta') # {}]_vars
  BY Decided DEF GoodBody, EndsInStatus
<1>. QED BY <1>1, Invariant, PTL DEF Spec, DecisionsKept
=============================================================================
