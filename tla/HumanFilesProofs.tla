------------------------- MODULE HumanFilesProofs --------------------------
(***************************************************************************)
(* Theorems about HumanFiles, for any calls, sessions, paths, contents,    *)
(* quotas and bounds: types, the quota ledger keeps a reservation until    *)
(* its write is settled, a delete only replaces what its trash entry       *)
(* holds, and a signed upload session stays committable.                   *)
(***************************************************************************)
EXTENDS HumanFiles, FiniteSetTheorems, TLAPS

Fields == {"op", "pc", "path", "id", "new", "aim", "then", "sum"}

(***************************************************************************)
(* The steps of the requests: where a call of each kind can be, and with   *)
(* which aim it uses the ledger.                                           *)
(***************************************************************************)
Writing == {"lock", "stat", "ledger", "files", "trash", "create", "reserve", "verify", "write",
            "live", "settle", "sync", "end", "done"}

InStep(v) ==
  \/ v.op = "none" /\ v.pc = "idle" /\ v.aim = "none" /\ v.then = "end"
  \/ /\ v.op = "put" /\ v.pc \in Writing /\ v.then = "end"
     /\ v.aim \in {"none", "reserve", "commit", "release", "sync"}
  \/ /\ v.op = "commit" /\ v.pc \in Writing \cup {"recheck", "confirm", "record"}
     /\ v.then \in {"end", "confirm"} /\ v.aim \in {"none", "reserve", "commit", "release", "sync"}
     /\ v.pc \in {"lock", "recheck"} => v.then = "end"
  \/ /\ v.op = "delete" /\ v.aim = "none" /\ v.then = "end"
     /\ v.pc \in {"lock", "snapshot", "archive", "look", "verify", "remove", "rollback", "end",
                  "done"}
  \/ /\ v.op = "restore" /\ v.aim \in {"none", "adjust"} /\ v.then = "end"
     /\ v.pc \in {"lockEntry", "readEntry", "lock", "target", "verify", "entry", "restat",
                  "putBack", "overwrite", "fence", "unlink", "ledger", "adjust", "end", "done"}
  \/ /\ v.op = "purge" /\ v.aim \in {"none", "adjust"} /\ v.then = "end"
     /\ v.pc \in {"lockEntry", "readEntry", "entry", "purge", "fence", "ledger", "adjust", "end",
                  "done"}
  \/ /\ v.op = "quota" /\ v.aim \in {"none", "seed", "sync"} /\ v.then = "end"
     /\ v.pc \in {"ledger", "files", "trash", "create", "sync", "end", "done"}

(***************************************************************************)
(* What a call is about to write, or archived, is a content; it is about a *)
(* path of the area, and what it counted is a number.                      *)
(***************************************************************************)
Carries(v) ==
  /\ v.op = "put" /\ v.pc \notin {"end", "done"} => v.new \in Contents
  /\ v.op = "commit" /\ v.pc \notin {"lock", "recheck", "end", "done"} => v.new \in Contents
  /\ v.op = "delete" /\ v.pc \in {"archive", "look", "verify", "remove"} => v.new \in Contents
  /\ v.op = "restore" /\ v.pc \notin {"lockEntry", "readEntry", "end", "done"} => v.new \in Contents
  /\ v.op \in {"put", "commit", "delete"} /\ v.pc # "done" => v.path \in Paths
  /\ v.sum \in Nat

GoodCall(c, v) ==
  /\ Fields \subseteq DOMAIN v
  /\ InStep(v) /\ Carries(v)
  /\ v.op = "delete" => v.id = c
  /\ v.op \in {"restore", "purge"} => v.id \in Ids

(***************************************************************************)
(* A delete past its archive has the entry it wrote, unless somebody       *)
(* restored or purged it.                                                  *)
(***************************************************************************)
Archived(c, v) ==
  v.op = "delete" /\ v.pc \in {"look", "verify", "remove"} =>
    \/ trash[c] = [path |-> v.path, content |-> v.new]
    \/ trash[c] = NoEntry /\ Taken(c)

IndInv ==
  /\ DOMAIN call = Calls /\ DOMAIN file = Paths /\ DOMAIN trash = Ids /\ DOMAIN session = Paths
  /\ \A p \in Paths : "ses" \in DOMAIN session[p]
  /\ \A i \in Ids : trash[i] = NoEntry \/ trash[i].content \in Contents
  /\ \A c \in Calls : GoodCall(c, call[c]) /\ Archived(c, call[c])

-----------------------------------------------------------------------------
(* Sums and maxima *)

\* A bounded set of numbers has a maximum.
LEMMA MaxOf ==
  ASSUME NEW S \in SUBSET Nat, S # {}, NEW b \in Nat, \A s \in S : s <= b
  PROVE  Max(S) \in S /\ \A s \in S : s <= Max(S)
<1>. DEFINE R == OpToRel(<, Nat)
            T == {n \in Nat : b - n \in S}
<1>1. T \subseteq Nat /\ T # {}
  <2>1. PICK s \in S : TRUE
    OBVIOUS
  <2>2. b - s \in Nat /\ b - (b - s) = s
    BY <2>1
  <2>. QED BY <2>1, <2>2
<1>2. PICK m \in T : \A y \in T : ~ (<<y, m>> \in R)
  <2>1. IsWellFoundedOn(R, Nat)
    BY NatLessThanWellFounded
  <2>. HIDE DEF R, T
  <2>. QED BY <1>1, <2>1, WFMin
<1>. HIDE DEF R
<1>3. \A y \in T : m <= y
  <2>1. ASSUME NEW y \in T, y < m PROVE <<y, m>> \in R
    BY <1>1, <2>1 DEF R, OpToRel
  <2>. TAKE y \in T
  <2>2. m \in Nat /\ y \in Nat
    OBVIOUS
  <2>3. ~ (y < m)
    BY <1>2, <2>1
  <2>. QED BY <2>2, <2>3
<1>4. b - m \in S /\ m \in Nat
  BY <1>2
<1>5. \A s \in S : b - m >= s
  <2>. TAKE s \in S
  <2>1. b - s \in Nat /\ b - (b - s) = s
    OBVIOUS
  <2>2. m <= b - s
    BY <1>3, <2>1
  <2>. QED BY <1>4, <2>1, <2>2
<1>6. \E x0 \in S : \A y \in S : x0 >= y
  BY <1>4, <1>5
<1>. HIDE DEF T
<1>7. Max(S) \in S /\ \A y \in S : Max(S) >= y
  BY <1>6 DEF Max
<1>8. Max(S) \in Nat
  BY <1>7
<1>. QED BY <1>7, <1>8

\* Counting gives a number.
LEMMA TotalNat ==
  ASSUME NEW f, IsFiniteSet(DOMAIN f), \A k \in DOMAIN f : f[k] \in Nat
  PROVE  Total(f) \in Nat
<1>. DEFINE B(k) == {k} \X (1..f[k])
            C == {B(k) : k \in DOMAIN f}
            g == [k \in DOMAIN f |-> B(k)]
<1>1. g \in Surjection(DOMAIN f, C)
  BY DEF Surjection
<1>2. IsFiniteSet(C)
  <2>. HIDE DEF g, C
  <2>. QED BY <1>1, FS_Surjection
<1>3. ASSUME NEW T \in C PROVE IsFiniteSet(T)
  <2>1. PICK k \in DOMAIN f : T = B(k)
    OBVIOUS
  <2>3. 1 \in Int /\ f[k] \in Int
    OBVIOUS
  <2>2. IsFiniteSet({k}) /\ IsFiniteSet(1..f[k])
    BY <2>3, FS_Singleton, FS_Interval
  <2>. QED BY <2>1, <2>2, FS_Product
<1>. HIDE DEF C
<1>4. IsFiniteSet(UNION C)
  BY <1>2, <1>3, FS_UNION
<1>5. Cardinality(UNION C) \in Nat
  BY <1>4, FS_CardinalityType
<1>. QED BY <1>5 DEF Total, C
\* The walks of usedBytes count numbers of bytes.
LEMMA SumsNat == SumOfFiles \in Nat /\ SumOfTrash \in Nat
<1>1. \A x : Bytes(x) \in Nat
  BY SizeAssumption DEF Bytes
<1>2. IsFiniteSet(Paths) /\ IsFiniteSet(Ids)
  BY FiniteAssumption, FS_Singleton, FS_Union DEF Ids
<1>3. SumOfFiles \in Nat
  <2>. DEFINE f == [p \in Paths |-> Bytes(file[p])]
  <2>1. DOMAIN f = Paths /\ \A k \in DOMAIN f : f[k] \in Nat
    BY <1>1
  <2>. HIDE DEF f
  <2>2. Total(f) \in Nat
    BY <1>2, <2>1, TotalNat
  <2>. QED BY <2>2 DEF f, SumOfFiles
<1>4. SumOfTrash \in Nat
  <2>. DEFINE f == [i \in Ids |-> Bytes(trash[i].content)]
  <2>1. DOMAIN f = Ids /\ \A k \in DOMAIN f : f[k] \in Nat
    BY <1>1
  <2>. HIDE DEF f
  <2>2. Total(f) \in Nat
    BY <1>2, <2>1, TotalNat
  <2>. QED BY <2>2 DEF f, SumOfTrash
<1>. QED BY <1>3, <1>4

-----------------------------------------------------------------------------
\* A call that was not served.
LEMMA NewCallFacts == Fields \subseteq DOMAIN NewCall /\ \A c \in Calls : GoodCall(c, NewCall)
<1>1. Fields \subseteq DOMAIN NewCall
  BY DEF Fields, NewCall
<1>2. NewCall.op = "none" /\ NewCall.pc = "idle" /\ NewCall.aim = "none" /\ NewCall.then = "end"
      /\ NewCall.sum = 0
  BY DEF NewCall
<1>. QED BY <1>1, <1>2 DEF GoodCall, InStep, Carries

Answer(v) == [NewCall EXCEPT !.pc = "done", !.op = v.op, !.id = v.id]

\* A call that was answered or died.
LEMMA DoneFacts ==
  ASSUME NEW c \in Calls, NEW v, GoodCall(c, v), v.pc # "idle"
  PROVE  /\ GoodCall(c, Answer(v))
         /\ Answer(v).op = v.op /\ Answer(v).id = v.id /\ Answer(v).pc = "done"
<1>. DEFINE d == Answer(v)
<1>1. d.op = v.op /\ d.id = v.id /\ d.pc = "done" /\ d.aim = "none" /\ d.then = "end" /\ d.sum = 0
  BY DEF NewCall, Answer
<1>2. Fields \subseteq DOMAIN d
  BY NewCallFacts DEF Answer
<1>. HIDE DEF d
<1>3. GoodCall(c, d)
  BY <1>1, <1>2 DEF GoodCall, InStep, Carries, Writing
<1>. QED BY <1>1, <1>3 DEF d

-----------------------------------------------------------------------------
(***************************************************************************)
(* A step of a request changes its own call only, and neither its kind nor *)
(* the entry or session it is about.                                       *)
(***************************************************************************)
Framed(c) == DOMAIN call' = Calls /\ \A d \in Calls : d # c => call'[d] = call[d]

Moved(c) ==
  /\ Framed(c)
  /\ GoodCall(c, call'[c])
  /\ call[c].op # "none" => call'[c].op = call[c].op /\ call'[c].id = call[c].id

\* The call of c goes to another step.
LEMMA ToFacts ==
  ASSUME IndInv, NEW c \in Calls, NEW pc, To(c, pc)
  PROVE  /\ Framed(c) /\ Fields \subseteq DOMAIN call'[c]
         /\ call'[c].pc = pc /\ call'[c].op = call[c].op /\ call'[c].id = call[c].id
         /\ call'[c].new = call[c].new /\ call'[c].path = call[c].path
         /\ call'[c].aim = call[c].aim /\ call'[c].then = call[c].then
         /\ call'[c].sum = call[c].sum
<1>1. DOMAIN call = Calls /\ Fields \subseteq DOMAIN call[c]
  BY DEF IndInv, GoodCall
<1>2. call' = [call EXCEPT ![c].pc = pc]
  BY DEF To
<1>3. DOMAIN call' = Calls /\ \A d \in Calls : d # c => call'[d] = call[d]
  BY <1>1, <1>2
<1>4. call'[c] = [call[c] EXCEPT !.pc = pc]
  BY <1>1, <1>2
<1>. QED BY <1>1, <1>3, <1>4 DEF Fields, Framed

\* The call of c is at v.
LEMMA CallIs ==
  ASSUME IndInv, NEW c \in Calls, NEW v, call' = [call EXCEPT ![c] = v]
  PROVE  Framed(c) /\ call'[c] = v
<1>1. DOMAIN call = Calls
  BY DEF IndInv
<1>. QED BY <1>1 DEF Framed

\* A request that begins.
LEMMA BeginMoves ==
  ASSUME IndInv, NEW c \in Calls, Begin(c)
  PROVE  Moved(c) /\ call'[c].pc \notin {"look", "verify", "remove"}
<1>1. call[c].pc = "idle" /\ call[c].op = "none"
  <2>1. call[c].pc = "idle"
    BY DEF Begin, PutFile, DeleteFile, CommitPresigned, RestoreTrash, PurgeTrash, OfEntry, PutQuota,
           CanBegin
  <2>. QED BY <2>1 DEF IndInv, GoodCall, InStep, Writing
<1>2. ASSUME NEW v, call' = [call EXCEPT ![c] = v], GoodCall(c, v),
             v.pc \notin {"look", "verify", "remove"}
      PROVE  Moved(c) /\ call'[c].pc \notin {"look", "verify", "remove"}
  BY <1>1, <1>2, CallIs DEF Moved
<1>3. ASSUME NEW p \in Paths, NEW x \in Contents, PutFile(c, p, x)
      PROVE  Moved(c) /\ call'[c].pc \notin {"look", "verify", "remove"}
  <2>. DEFINE v == [NewCall EXCEPT !.op = "put", !.pc = "lock", !.path = p, !.new = x,
                                   !.quota = quota]
  <2>1. call' = [call EXCEPT ![c] = v]
    BY <1>3 DEF PutFile
  <2>2. /\ v.op = "put" /\ v.pc = "lock" /\ v.new = x /\ v.aim = "none" /\ v.then = "end"
        /\ v.path = p /\ v.sum = 0
        /\ Fields \subseteq DOMAIN v
    BY NewCallFacts DEF NewCall
  <2>3. GoodCall(c, v)
    <3>. HIDE DEF v
    <3>. QED BY <2>2 DEF GoodCall, InStep, Carries, Writing
  <2>. HIDE DEF v
  <2>. QED BY <1>2, <2>1, <2>2, <2>3
<1>4. ASSUME NEW p \in Paths, DeleteFile(c, p)
      PROVE  Moved(c) /\ call'[c].pc \notin {"look", "verify", "remove"}
  <2>. DEFINE v == [NewCall EXCEPT !.op = "delete", !.pc = "lock", !.path = p, !.id = c]
  <2>1. call' = [call EXCEPT ![c] = v]
    BY <1>4 DEF DeleteFile
  <2>2. /\ v.op = "delete" /\ v.pc = "lock" /\ v.id = c /\ v.aim = "none" /\ v.then = "end"
        /\ v.path = p /\ v.sum = 0
        /\ Fields \subseteq DOMAIN v
    BY NewCallFacts DEF NewCall
  <2>3. GoodCall(c, v)
    <3>. HIDE DEF v
    <3>. QED BY <2>2 DEF GoodCall, InStep, Carries, Writing
  <2>. HIDE DEF v
  <2>. QED BY <1>2, <2>1, <2>2, <2>3
<1>5. ASSUME NEW op \in {"restore", "purge"}, NEW i \in Ids, OfEntry(c, op, i)
      PROVE  Moved(c) /\ call'[c].pc \notin {"look", "verify", "remove"}
  <2>. DEFINE v == [NewCall EXCEPT !.op = op, !.pc = "lockEntry", !.id = i]
  <2>1. call' = [call EXCEPT ![c] = v]
    BY <1>5 DEF OfEntry
  <2>2. /\ v.op = op /\ v.pc = "lockEntry" /\ v.id = i /\ v.aim = "none" /\ v.then = "end"
        /\ v.sum = 0
        /\ Fields \subseteq DOMAIN v
    BY NewCallFacts DEF NewCall
  <2>3. GoodCall(c, v)
    <3>. HIDE DEF v
    <3>. QED BY <2>2 DEF GoodCall, InStep, Carries, Writing
  <2>. HIDE DEF v
  <2>. QED BY <1>2, <2>1, <2>2, <2>3
<1>6. ASSUME NEW q \in Quotas, PutQuota(c, q)
      PROVE  Moved(c) /\ call'[c].pc \notin {"look", "verify", "remove"}
  <2>. DEFINE v == [NewCall EXCEPT !.op = "quota", !.aim = "seed", !.quota = q,
                                   !.pc = IF q = Unlimited THEN "done" ELSE "ledger"]
  <2>1. call' = [call EXCEPT ![c] = v]
    BY <1>6 DEF PutQuota
  <2>2. /\ v.op = "quota" /\ v.pc \in {"done", "ledger"} /\ v.aim = "seed" /\ v.then = "end"
        /\ v.sum = 0 /\ Fields \subseteq DOMAIN v
    BY NewCallFacts DEF NewCall
  <2>3. GoodCall(c, v)
    <3>. HIDE DEF v
    <3>. QED BY <2>2 DEF GoodCall, InStep, Carries, Writing
  <2>. HIDE DEF v
  <2>. QED BY <1>2, <2>1, <2>2, <2>3
<1>7. ASSUME NEW p \in Paths, CommitPresigned(c, p)
      PROVE  Moved(c) /\ call'[c].pc \notin {"look", "verify", "remove"}
  <2>. DEFINE s == session[p].ses
              v == [NewCall EXCEPT !.op = "commit", !.path = p, !.id = s, !.quota = quota,
                      !.pc = IF s = Nobody \/ (s # Nobody /\ stage[s] = Absent) THEN "done" ELSE "lock"]
  <2>1. call' = [call EXCEPT ![c] = v]
    BY <1>7 DEF CommitPresigned
  <2>2. /\ v.op = "commit" /\ v.pc \in {"done", "lock"} /\ v.aim = "none" /\ v.then = "end"
        /\ v.path = p /\ v.sum = 0
        /\ Fields \subseteq DOMAIN v
    BY NewCallFacts DEF NewCall
  <2>3. GoodCall(c, v)
    <3>. HIDE DEF v
    <3>. QED BY <2>2 DEF GoodCall, InStep, Carries, Writing
  <2>. HIDE DEF v
  <2>. QED BY <1>2, <2>1, <2>2, <2>3
<1>. QED BY <1>3, <1>4, <1>5, <1>6, <1>7 DEF Begin, RestoreTrash, PurgeTrash

\* A delete that goes on keeps its path and what it read.
Steady(c) ==
  call'[c].op = "delete" /\ call'[c].pc \in {"look", "verify", "remove"} =>
    /\ call[c].pc \in {"archive", "look", "verify"}
    /\ call'[c].path = call[c].path /\ call'[c].new = call[c].new

\* The steps that only go to another step.
LEMMA PlainMoves ==
  ASSUME IndInv, NEW c \in Calls, NEW pc, To(c, pc),
         InStep([call[c] EXCEPT !.pc = pc]), Carries([call[c] EXCEPT !.pc = pc]),
         pc \in {"look", "verify", "remove"} /\ call[c].op = "delete" =>
           call[c].pc \in {"archive", "look", "verify"}
  PROVE  Moved(c) /\ Steady(c)
<1>1. GoodCall(c, call[c]) /\ call'[c] = [call[c] EXCEPT !.pc = pc]
  BY DEF IndInv, To
<1>. QED BY <1>1, ToFacts DEF Moved, Steady, GoodCall

\* Where a call may go: the step of an action, for every kind of request it serves.
LEMMA PlainStep ==
  ASSUME IndInv, NEW c \in Calls, NEW pc, To(c, pc),
         \/ pc = "end" /\ call[c].pc \notin {"idle", "done"}
         \/ /\ call[c].op \in {"put", "commit"} /\ call[c].pc \notin {"lock", "recheck", "end", "done"}
            /\ pc \in {"ledger", "files", "create", "reserve", "verify", "write"}
         \/ call[c].op = "put" /\ call[c].pc = "lock" /\ pc = "stat"
         \/ call[c].op = "commit" /\ call[c].pc = "lock" /\ pc = "recheck"
         \/ call[c].op = "commit" /\ call[c].pc = "confirm" /\ pc = "record"
         \/ pc = call[c].then /\ call[c].pc \notin {"idle", "lock", "recheck", "end", "done"}
         \/ call[c].op = "delete" /\ call[c].pc = "lock" /\ pc = "snapshot"
         \/ call[c].op = "delete" /\ call[c].pc = "archive" /\ pc = "look"
         \/ call[c].op = "delete" /\ call[c].pc = "look" /\ pc = "verify"
         \/ call[c].op = "delete" /\ call[c].pc = "verify" /\ pc = "remove"
         \/ call[c].op = "delete" /\ call[c].pc # "done" /\ pc = "rollback"
         \/ call[c].op \in {"restore", "purge"} /\ call[c].pc = "lockEntry" /\ pc = "readEntry"
         \/ /\ call[c].op = "restore" /\ call[c].pc \notin {"lockEntry", "readEntry", "end", "done"}
            /\ pc \in {"target", "entry", "restat", "putBack", "overwrite", "fence", "ledger"}
         \/ call[c].op = "purge" /\ pc \in {"purge", "fence", "ledger"}
         \/ call[c].op = "quota" /\ pc \in {"files", "create", "ledger"}
  PROVE  Moved(c) /\ Steady(c)
<1>. DEFINE v == [call[c] EXCEPT !.pc = pc]
<1>1. GoodCall(c, call[c]) /\ Fields \subseteq DOMAIN call[c]
  BY DEF IndInv, GoodCall
<1>2. v.pc = pc /\ v.op = call[c].op /\ v.aim = call[c].aim /\ v.then = call[c].then
      /\ v.new = call[c].new /\ v.path = call[c].path /\ v.sum = call[c].sum
  BY <1>1 DEF Fields
<1>3. InStep(v)
  <2>. HIDE DEF v
  <2>. QED BY <1>1, <1>2 DEF GoodCall, InStep, Writing
<1>4. Carries(v)
  <2>. HIDE DEF v
  <2>. QED BY <1>1, <1>2 DEF GoodCall, InStep, Carries, Writing
<1>5. pc \in {"look", "verify", "remove"} /\ call[c].op = "delete" =>
        call[c].pc \in {"archive", "look", "verify"}
  BY <1>1 DEF GoodCall, InStep
<1>. HIDE DEF v
<1>. QED BY <1>3, <1>4, <1>5, PlainMoves DEF v

\* Steps that also change the data of the call.
LEMMA DataStep ==
  ASSUME IndInv, NEW c \in Calls, NEW v, call' = [call EXCEPT ![c] = v],
         Fields \subseteq DOMAIN v, v.op = call[c].op, v.id = call[c].id, InStep(v), Carries(v),
         v.op # "delete" \/ v.pc \in {"archive", "end"}
  PROVE  Moved(c) /\ Steady(c)
<1>1. GoodCall(c, call[c])
  BY DEF IndInv
<1>. QED BY <1>1, CallIs DEF Moved, Steady, GoodCall

\* Taking a lease, of the path and of the entry.
LEMMA LockMoves ==
  ASSUME IndInv, NEW c \in Calls, Lock(c) \/ LockEntry(c)
  PROVE  Moved(c) /\ Steady(c)
<1>1. GoodCall(c, call[c])
  BY DEF IndInv
<1>2. CASE Lock(c)
  <2>1. call[c].pc = "lock" /\ call[c].op \in {"put", "delete", "restore", "commit"}
    BY <1>1, <1>2 DEF Lock, GoodCall, InStep
  <2>2. \/ To(c, "end")
        \/ call[c].op = "put" /\ To(c, "stat")
        \/ call[c].op = "delete" /\ To(c, "snapshot")
        \/ call[c].op = "restore" /\ To(c, "target")
        \/ call[c].op = "commit" /\ To(c, "recheck")
    BY <1>2, <2>1 DEF Lock, Acquire
  <2>. QED BY <2>1, <2>2, PlainStep
<1>3. CASE LockEntry(c)
  <2>1. call[c].pc = "lockEntry" /\ call[c].op \in {"restore", "purge"}
    BY <1>1, <1>3 DEF LockEntry, GoodCall, InStep, Writing
  <2>2. To(c, "end") \/ To(c, "readEntry")
    BY <1>3 DEF LockEntry, Acquire
  <2>. QED BY <2>1, <2>2, PlainStep
<1>. QED BY <1>2, <1>3

\* The answer of a request, and its death.
LEMMA EndMoves ==
  ASSUME IndInv, NEW c \in Calls, End(c) \/ Crash(c)
  PROVE  Moved(c) /\ Steady(c)
<1>1. GoodCall(c, call[c]) /\ call[c].pc # "idle"
  BY DEF IndInv, End, Crash, Active
<1>2. call' = [call EXCEPT ![c] = Answer(call[c])]
  BY DEF End, Crash, Answer
<1>3. Framed(c) /\ call'[c] = Answer(call[c])
  BY <1>2, CallIs
<1>. QED BY <1>1, <1>3, DoneFacts DEF Moved, Steady

\* The ledger: reading it, the walks, creating it and reserving.
LEMMA LedgerMoves ==
  ASSUME IndInv, NEW c \in Calls,
         ReadLedger(c) \/ WalkFiles(c) \/ WalkTrash(c) \/ CreateLedger(c) \/ ReserveQuota(c)
  PROVE  Moved(c) /\ Steady(c)
<1>. DEFINE v == call[c]
<1>0. GoodCall(c, v) /\ DOMAIN call = Calls /\ Fields \subseteq DOMAIN v
  BY DEF IndInv, GoodCall
<1>1. CASE ReadLedger(c)
  <2>1. v.pc = "ledger" /\ v.op \in {"put", "commit", "restore", "purge", "quota"}
    BY <1>0, <1>1 DEF ReadLedger, GoodCall, InStep
  <2>2. \/ v.aim = "reserve" /\ (To(c, "verify") \/ To(c, "files"))
        \/ v.aim = "seed" /\ To(c, "files")
        \/ To(c, v.then)
        \/ v.aim \in {"seed", "commit"} /\ call' = [call EXCEPT ![c].aim = "sync"]
        \/ v.aim = "sync" /\ call' = [call EXCEPT ![c].led = ledger, ![c].pc = "files"]
        \/ v.aim \in {"reserve", "adjust"} /\ call' = [call EXCEPT ![c].led = ledger, ![c].pc = v.aim]
        \/ v.aim \in {"commit", "release"} /\ call' = [call EXCEPT ![c].led = ledger, ![c].pc = "live"]
    BY <1>1 DEF ReadLedger
  <2>3. CASE v.aim = "reserve" /\ (To(c, "verify") \/ To(c, "files"))
    BY <1>0, <2>1, <2>3, PlainStep DEF GoodCall, InStep
  <2>4. CASE v.aim = "seed" /\ To(c, "files")
    BY <1>0, <2>1, <2>4, PlainStep DEF GoodCall, InStep
  <2>5. CASE To(c, v.then)
    BY <2>1, <2>5, PlainStep
  <2>6. CASE v.aim \in {"seed", "commit"} /\ call' = [call EXCEPT ![c].aim = "sync"]
    <3>. DEFINE u == [v EXCEPT !.aim = "sync"]
    <3>1. call' = [call EXCEPT ![c] = u]
      BY <1>0, <2>6
    <3>2. /\ u.pc = v.pc /\ u.op = v.op /\ u.id = v.id /\ u.aim = "sync" /\ u.then = v.then
          /\ u.new = v.new /\ u.path = v.path /\ u.sum = v.sum /\ Fields \subseteq DOMAIN u
      BY <1>0 DEF Fields
    <3>. HIDE DEF u
    <3>3. InStep(u) /\ Carries(u) /\ u.op # "delete"
      BY <1>0, <2>1, <2>6, <3>2 DEF GoodCall, InStep, Carries
    <3>. QED BY <3>1, <3>2, <3>3, DataStep
  <2>7. ASSUME NEW pc, call' = [call EXCEPT ![c].led = ledger, ![c].pc = pc],
               \/ v.aim = "sync" /\ pc = "files"
               \/ v.aim \in {"reserve", "adjust"} /\ pc = v.aim
               \/ v.aim \in {"commit", "release"} /\ pc = "live"
        PROVE  Moved(c) /\ Steady(c)
    <3>. DEFINE u == [v EXCEPT !.led = ledger, !.pc = pc]
    <3>1. call' = [call EXCEPT ![c] = u]
      BY <1>0, <2>7
    <3>2. /\ u.pc = pc /\ u.op = v.op /\ u.id = v.id /\ u.aim = v.aim /\ u.then = v.then
          /\ u.new = v.new /\ u.path = v.path /\ u.sum = v.sum /\ Fields \subseteq DOMAIN u
      BY <1>0 DEF Fields
    <3>. HIDE DEF u
    <3>3. InStep(u) /\ Carries(u) /\ u.op # "delete"
      BY <1>0, <2>1, <2>7, <3>2 DEF GoodCall, InStep, Carries, Writing
    <3>. QED BY <3>1, <3>2, <3>3, DataStep
  <2>. HIDE DEF v
  <2>. QED BY <2>2, <2>3, <2>4, <2>5, <2>6, <2>7
<1>2. CASE WalkFiles(c)
  <2>. DEFINE u == [v EXCEPT !.sum = SumOfFiles, !.pc = "trash"]
  <2>1. call' = [call EXCEPT ![c] = u] /\ v.pc = "files"
    BY <1>0, <1>2 DEF WalkFiles
  <2>2. /\ u.pc = "trash" /\ u.op = v.op /\ u.id = v.id /\ u.aim = v.aim /\ u.then = v.then
        /\ u.new = v.new /\ u.path = v.path /\ u.sum = SumOfFiles /\ Fields \subseteq DOMAIN u
    BY <1>0 DEF Fields
  <2>. HIDE DEF u
  <2>3. InStep(u) /\ Carries(u) /\ u.op # "delete"
    BY <1>0, <2>1, <2>2, SumsNat DEF GoodCall, InStep, Carries, Writing
  <2>. QED BY <2>1, <2>2, <2>3, DataStep
<1>3. CASE WalkTrash(c)
  <2>. DEFINE u == [v EXCEPT !.sum = @ + SumOfTrash, !.pc = IF v.aim = "sync" THEN "sync" ELSE "create"]
  <2>1. call' = [call EXCEPT ![c] = u] /\ v.pc = "trash"
    BY <1>0, <1>3 DEF WalkTrash
  <2>2. /\ u.pc \in {"sync", "create"} /\ u.op = v.op /\ u.id = v.id /\ u.aim = v.aim
        /\ u.then = v.then /\ u.new = v.new /\ u.path = v.path /\ u.sum = v.sum + SumOfTrash /\ Fields \subseteq DOMAIN u
    BY <1>0 DEF Fields
  <2>. HIDE DEF u
  <2>3. InStep(u) /\ Carries(u) /\ u.op # "delete"
    BY <1>0, <2>1, <2>2, SumsNat DEF GoodCall, InStep, Carries, Writing
  <2>. QED BY <2>1, <2>2, <2>3, DataStep
<1>4. CASE Reservation(c) /\ v.pc \in {"create", "reserve"} /\ v.op \in {"put", "commit"}
  <2>. DEFINE u == [v EXCEPT !.pc = "verify", !.led = NoLedger, !.sum = 0,
                             !.token = v.quota # Unlimited]
  <2>1. call' = [call EXCEPT ![c] = u]
    BY <1>0, <1>4 DEF Reservation
  <2>2. /\ u.pc = "verify" /\ u.op = v.op /\ u.id = v.id /\ u.aim = v.aim /\ u.then = v.then
        /\ u.new = v.new /\ u.path = v.path /\ u.sum = 0 /\ Fields \subseteq DOMAIN u
    BY <1>0 DEF Fields
  <2>. HIDE DEF u
  <2>3. InStep(u) /\ Carries(u) /\ u.op # "delete"
    BY <1>0, <1>4, <2>2 DEF GoodCall, InStep, Carries, Writing
  <2>. QED BY <2>1, <2>2, <2>3, DataStep
<1>5. CASE CreateLedger(c)
  <2>1. v.pc = "create" /\ v.op \in {"put", "commit", "quota"}
    BY <1>0, <1>5 DEF CreateLedger, GoodCall, InStep
  <2>2. To(c, "end") \/ To(c, "ledger") \/ (v.aim = "reserve" /\ Reservation(c))
    BY <1>5 DEF CreateLedger
  <2>3. v.aim = "reserve" => v.op \in {"put", "commit"}
    BY <1>0 DEF GoodCall, InStep
  <2>. QED BY <1>4, <2>1, <2>2, <2>3, PlainStep
<1>6. CASE ReserveQuota(c)
  <2>1. v.pc = "reserve" /\ v.op \in {"put", "commit"}
    BY <1>0, <1>6 DEF ReserveQuota, GoodCall, InStep
  <2>2. To(c, "end") \/ To(c, "ledger") \/ Reservation(c)
    BY <1>6 DEF ReserveQuota, Swap
  <2>. QED BY <1>4, <2>1, <2>2, PlainStep
<1>. QED BY <1>1, <1>2, <1>3, <1>5, <1>6

\* The ledger: settling, syncing and adjusting it.
LEMMA SettleMoves ==
  ASSUME IndInv, NEW c \in Calls,
         StatLive(c) \/ SettleQuota(c) \/ SyncQuotaUsage(c) \/ AdjustQuotaLedger(c)
  PROVE  Moved(c) /\ Steady(c)
<1>. DEFINE v == call[c]
<1>0. GoodCall(c, v) /\ DOMAIN call = Calls /\ Fields \subseteq DOMAIN v
  BY DEF IndInv, GoodCall
<1>1. CASE StatLive(c)
  <2>. DEFINE u == [v EXCEPT !.seen = file[v.path], !.pc = "settle"]
  <2>1. call' = [call EXCEPT ![c] = u] /\ v.pc = "live"
    BY <1>0, <1>1 DEF StatLive
  <2>2. /\ u.pc = "settle" /\ u.op = v.op /\ u.id = v.id /\ u.aim = v.aim /\ u.then = v.then
        /\ u.new = v.new /\ u.path = v.path /\ u.sum = v.sum /\ Fields \subseteq DOMAIN u
    BY <1>0 DEF Fields
  <2>. HIDE DEF u
  <2>3. InStep(u) /\ Carries(u) /\ u.op # "delete"
    BY <1>0, <2>1, <2>2 DEF GoodCall, InStep, Carries, Writing
  <2>. QED BY <2>1, <2>2, <2>3, DataStep
<1>2. CASE SettleQuota(c)
  <2>. DEFINE u == [v EXCEPT !.aim = "sync", !.pc = "ledger", !.led = NoLedger]
  <2>1. v.pc = "settle" /\ v.op \in {"put", "commit"}
    BY <1>0, <1>2 DEF SettleQuota, GoodCall, InStep
  <2>2. To(c, "ledger") \/ call' = [call EXCEPT ![c].aim = "sync", ![c].pc = "ledger", ![c].led = NoLedger]
    BY <1>2 DEF SettleQuota, Swap
  <2>3. CASE call' = [call EXCEPT ![c].aim = "sync", ![c].pc = "ledger", ![c].led = NoLedger]
    <3>1. call' = [call EXCEPT ![c] = u]
      BY <1>0, <2>3
    <3>2. /\ u.pc = "ledger" /\ u.op = v.op /\ u.id = v.id /\ u.aim = "sync" /\ u.then = v.then
          /\ u.new = v.new /\ u.path = v.path /\ u.sum = v.sum /\ Fields \subseteq DOMAIN u
      BY <1>0 DEF Fields
    <3>. HIDE DEF u
    <3>3. InStep(u) /\ Carries(u) /\ u.op # "delete"
      BY <1>0, <2>1, <3>2 DEF GoodCall, InStep, Carries, Writing
    <3>. QED BY <3>1, <3>2, <3>3, DataStep
  <2>. QED BY <2>1, <2>2, <2>3, PlainStep
<1>3. CASE SyncQuotaUsage(c)
  <2>. DEFINE u == [v EXCEPT !.pc = v.then, !.led = NoLedger, !.sum = 0]
  <2>1. v.pc = "sync" /\ v.op \in {"put", "commit", "quota"}
    BY <1>0, <1>3 DEF SyncQuotaUsage, GoodCall, InStep
  <2>2. To(c, "ledger") \/ call' = [call EXCEPT ![c].pc = v.then, ![c].led = NoLedger, ![c].sum = 0]
    BY <1>3 DEF SyncQuotaUsage, Swap
  <2>3. CASE call' = [call EXCEPT ![c].pc = v.then, ![c].led = NoLedger, ![c].sum = 0]
    <3>1. call' = [call EXCEPT ![c] = u]
      BY <1>0, <2>3
    <3>2. /\ u.pc = v.then /\ u.op = v.op /\ u.id = v.id /\ u.aim = v.aim /\ u.then = v.then
          /\ u.new = v.new /\ u.path = v.path /\ u.sum = 0 /\ Fields \subseteq DOMAIN u
      BY <1>0 DEF Fields
    <3>. HIDE DEF u
    <3>3. InStep(u) /\ Carries(u) /\ u.op # "delete"
      BY <1>0, <2>1, <3>2 DEF GoodCall, InStep, Carries, Writing
    <3>. QED BY <3>1, <3>2, <3>3, DataStep
  <2>. QED BY <2>1, <2>2, <2>3, PlainStep
<1>4. CASE AdjustQuotaLedger(c)
  <2>1. v.pc = "adjust" /\ v.op \in {"restore", "purge"}
    BY <1>0, <1>4 DEF AdjustQuotaLedger, GoodCall, InStep, Writing
  <2>2. To(c, "end") \/ To(c, "ledger")
    BY <1>4 DEF AdjustQuotaLedger, Swap
  <2>. QED BY <2>1, <2>2, PlainStep
<1>. QED BY <1>1, <1>2, <1>3, <1>4

\* What follows a write, made or refused.
LEMMA RefusedMoves ==
  ASSUME IndInv, NEW c \in Calls, Refused(c) \/ Written(c),
         call[c].op \in {"put", "commit"}, call[c].pc \in {"verify", "write"}
  PROVE  Moved(c) /\ Steady(c)
<1>. DEFINE v == call[c]
<1>0. GoodCall(c, v) /\ DOMAIN call = Calls /\ Fields \subseteq DOMAIN v
  BY DEF IndInv, GoodCall
<1>1. CASE Refused(c)
  <2>. DEFINE u == [v EXCEPT !.aim = "release", !.pc = IF v.token THEN "ledger" ELSE "end"]
  <2>1. call' = [call EXCEPT ![c] = u]
    BY <1>0, <1>1 DEF Refused
  <2>2. /\ u.pc \in {"ledger", "end"} /\ u.op = v.op /\ u.id = v.id /\ u.aim = "release"
        /\ u.then = v.then /\ u.new = v.new /\ u.path = v.path /\ u.sum = v.sum /\ Fields \subseteq DOMAIN u
    BY <1>0 DEF Fields
  <2>. HIDE DEF u
  <2>3. InStep(u) /\ Carries(u) /\ u.op # "delete"
    BY <1>0, <2>1, <2>2 DEF GoodCall, InStep, Carries, Writing
  <2>. QED BY <2>1, <2>2, <2>3, DataStep
<1>2. CASE Written(c)
  <2>. DEFINE then == IF v.op = "commit" THEN "confirm" ELSE "end"
              u == [v EXCEPT !.aim = "commit", !.then = then, !.pc = IF v.token THEN "ledger" ELSE then]
  <2>1. call' = [call EXCEPT ![c] = u]
    BY <1>0, <1>2 DEF Written
  <2>2. /\ u.pc \in {"ledger", then} /\ u.op = v.op /\ u.id = v.id /\ u.aim = "commit"
        /\ u.then = then /\ u.new = v.new /\ u.path = v.path /\ u.sum = v.sum /\ Fields \subseteq DOMAIN u
    BY <1>0 DEF Fields
  <2>. HIDE DEF u
  <2>3. InStep(u) /\ Carries(u) /\ u.op # "delete"
    BY <1>0, <2>1, <2>2 DEF GoodCall, InStep, Carries, Writing
  <2>. QED BY <2>1, <2>2, <2>3, DataStep
<1>. QED BY <1>1, <1>2

\* The steps of a write.
LEMMA WriteMoves ==
  ASSUME IndInv, NEW c \in Calls, StatFile(c) \/ Verify(c) \/ WriteFile(c)
  PROVE  Moved(c) /\ Steady(c)
<1>. DEFINE v == call[c]
<1>0. GoodCall(c, v) /\ DOMAIN call = Calls /\ Fields \subseteq DOMAIN v
  BY DEF IndInv, GoodCall
<1>1. CASE StatFile(c)
  <2>. DEFINE u == [v EXCEPT !.seen = file[v.path], !.aim = "reserve", !.pc = "ledger"]
  <2>1. call' = [call EXCEPT ![c] = u] /\ v.pc = "stat"
    BY <1>0, <1>1 DEF StatFile
  <2>2. /\ u.pc = "ledger" /\ u.op = v.op /\ u.id = v.id /\ u.aim = "reserve" /\ u.then = v.then
        /\ u.new = v.new /\ u.path = v.path /\ u.sum = v.sum /\ Fields \subseteq DOMAIN u
    BY <1>0 DEF Fields
  <2>. HIDE DEF u
  <2>3. InStep(u) /\ Carries(u) /\ u.op # "delete"
    BY <1>0, <2>1, <2>2 DEF GoodCall, InStep, Carries, Writing
  <2>. QED BY <2>1, <2>2, <2>3, DataStep
<1>2. CASE Verify(c)
  <2>1. v.pc = "verify" /\ v.op \in {"put", "commit", "delete", "restore"}
    BY <1>0, <1>2 DEF Verify, GoodCall, InStep
  <2>2. \/ v.op \in {"put", "commit"} /\ (To(c, "write") \/ Refused(c))
        \/ v.op = "delete" /\ (To(c, "remove") \/ To(c, "rollback"))
        \/ v.op = "restore" /\ (To(c, "entry") \/ To(c, "end"))
    BY <1>2, <2>1 DEF Verify
  <2>. QED BY <2>1, <2>2, PlainStep, RefusedMoves
<1>3. CASE WriteFile(c)
  <2>1. v.pc = "write" /\ v.op \in {"put", "commit"}
    BY <1>0, <1>3 DEF WriteFile, GoodCall, InStep
  <2>. QED BY <1>3, <2>1, RefusedMoves DEF WriteFile
<1>. QED BY <1>1, <1>2, <1>3

\* The steps of a delete.
LEMMA DeleteMoves ==
  ASSUME IndInv, NEW c \in Calls,
         Snapshot(c) \/ Archive(c) \/ Look(c) \/ RemoveFile(c) \/ Rollback(c)
  PROVE  Moved(c) /\ Steady(c) /\ call[c].op = "delete" /\ call[c].id = c
<1>. DEFINE v == call[c]
<1>0. GoodCall(c, v) /\ DOMAIN call = Calls /\ Fields \subseteq DOMAIN v
  BY DEF IndInv, GoodCall
<1>1. v.op = "delete" /\ v.id = c /\ v.pc \in {"snapshot", "archive", "look", "remove", "rollback"}
  BY <1>0 DEF Snapshot, Archive, Look, RemoveFile, Rollback, GoodCall, InStep, Writing
<1>2. CASE Snapshot(c)
  <2>. DEFINE x == file[v.path]
              u == [v EXCEPT !.new = x, !.pc = IF x \in Contents THEN "archive" ELSE "end"]
  <2>1. call' = [call EXCEPT ![c] = u] /\ v.pc = "snapshot"
    BY <1>0, <1>2 DEF Snapshot
  <2>2. /\ u.pc \in {"archive", "end"} /\ u.op = v.op /\ u.id = v.id /\ u.aim = v.aim
        /\ u.then = v.then /\ (u.pc = "archive" => u.new \in Contents)
        /\ u.path = v.path /\ u.sum = v.sum /\ Fields \subseteq DOMAIN u
    BY <1>0 DEF Fields
  <2>. HIDE DEF u
  <2>3. InStep(u) /\ Carries(u)
    BY <1>0, <1>1, <2>1, <2>2 DEF GoodCall, InStep, Carries
  <2>. QED BY <1>1, <2>1, <2>2, <2>3, DataStep
<1>3. CASE Archive(c)
  BY <1>1, <1>3, PlainStep DEF Archive
<1>4. CASE Look(c)
  <2>1. v.pc = "look" /\ (To(c, "end") \/ To(c, "verify") \/ To(c, "rollback"))
    BY <1>4 DEF Look
  <2>. QED BY <1>1, <2>1, PlainStep
<1>5. CASE RemoveFile(c)
  BY <1>1, <1>5, PlainStep DEF RemoveFile
<1>6. CASE Rollback(c)
  BY <1>1, <1>6, PlainStep DEF Rollback
<1>. QED BY <1>1, <1>2, <1>3, <1>4, <1>5, <1>6

\* Behind the fence, whatever it found.
LEMMA FencePassed ==
  ASSUME IndInv, NEW c \in Calls, NEW b \in BOOLEAN, call[c].pc = "fence",
         call' = [call EXCEPT ![c].aim = "adjust", ![c].token = b,
                    ![c].pc = IF call[c].op = "restore" THEN "unlink"
                              ELSE IF b THEN "ledger" ELSE "end"]
  PROVE  Moved(c) /\ Steady(c)
<1>. DEFINE v == call[c]
            pc == IF v.op = "restore" THEN "unlink" ELSE IF b THEN "ledger" ELSE "end"
            u == [v EXCEPT !.aim = "adjust", !.token = b, !.pc = pc]
<1>0. GoodCall(c, v) /\ DOMAIN call = Calls /\ Fields \subseteq DOMAIN v
  BY DEF IndInv, GoodCall
<1>1. v.op \in {"restore", "purge"} /\ v.id \in Ids
  BY <1>0 DEF GoodCall, InStep, Writing
<1>2. call' = [call EXCEPT ![c] = u]
  BY <1>0
<1>3. /\ u.pc = pc /\ u.op = v.op /\ u.id = v.id /\ u.aim = "adjust"
      /\ u.then = v.then /\ u.new = v.new /\ u.path = v.path /\ u.sum = v.sum /\ Fields \subseteq DOMAIN u
  BY <1>0 DEF Fields
<1>. HIDE DEF u
<1>4. InStep(u) /\ Carries(u)
  BY <1>0, <1>1, <1>3 DEF GoodCall, InStep, Carries
<1>. QED BY <1>1, <1>2, <1>3, <1>4, DataStep

\* The steps of a restore and of a purge.
LEMMA EntryMoves ==
  ASSUME IndInv, NEW c \in Calls,
         \/ ReadEntry(c) \/ StatTarget(c) \/ CheckEntry(c) \/ PutBack(c) \/ RestatTarget(c)
         \/ Overwrite(c) \/ Fence(c) \/ UnlinkEntry(c) \/ DeletePrefix(c)
  PROVE  Moved(c) /\ Steady(c) /\ call[c].op \in {"restore", "purge"} /\ call[c].id \in Ids
<1>. DEFINE v == call[c]
<1>0. GoodCall(c, v) /\ DOMAIN call = Calls /\ Fields \subseteq DOMAIN v
  BY DEF IndInv, GoodCall
<1>1. v.op \in {"restore", "purge"} /\ v.id \in Ids
  <2>1. v.pc \in {"readEntry", "target", "entry", "putBack", "restat", "overwrite", "fence", "unlink",
                  "purge"}
    BY DEF ReadEntry, StatTarget, CheckEntry, PutBack, RestatTarget, Overwrite, Fence, UnlinkEntry,
           DeletePrefix
  <2>. QED BY <1>0, <2>1 DEF GoodCall, InStep, Writing
<1>2. CASE ReadEntry(c)
  <2>. DEFINE e == trash[v.id]
              u == [v EXCEPT !.path = e.path, !.new = e.content,
                      !.pc = IF e = NoEntry THEN "end" ELSE IF v.op = "purge" THEN "entry" ELSE "lock"]
  <2>1. call' = [call EXCEPT ![c] = u] /\ v.pc = "readEntry"
    BY <1>0, <1>2 DEF ReadEntry
  <2>2. e = NoEntry \/ e.content \in Contents
    BY <1>1 DEF IndInv
  <2>3. /\ u.pc = (IF e = NoEntry THEN "end" ELSE IF v.op = "purge" THEN "entry" ELSE "lock")
        /\ u.op = v.op /\ u.id = v.id /\ u.aim = v.aim
        /\ u.then = v.then /\ u.new = e.content /\ u.sum = v.sum /\ Fields \subseteq DOMAIN u
    BY <1>0 DEF Fields
  <2>. HIDE DEF u, e
  <2>4. InStep(u) /\ Carries(u)
    BY <1>0, <1>1, <2>1, <2>2, <2>3 DEF GoodCall, InStep, Carries
  <2>. QED BY <1>1, <2>1, <2>3, <2>4, DataStep
<1>3. CASE StatTarget(c)
  <2>1. PICK pc \in {"end", "verify"} :
          call' = [call EXCEPT ![c].seen = file[v.path], ![c].pc = pc] /\ v.pc = "target"
    BY <1>3 DEF StatTarget
  <2>. DEFINE u == [v EXCEPT !.seen = file[v.path], !.pc = pc]
  <2>2. call' = [call EXCEPT ![c] = u]
    BY <1>0, <2>1
  <2>3. /\ u.pc = pc /\ u.op = v.op /\ u.id = v.id /\ u.aim = v.aim
        /\ u.then = v.then /\ u.new = v.new /\ u.path = v.path /\ u.sum = v.sum /\ Fields \subseteq DOMAIN u
    BY <1>0 DEF Fields
  <2>. HIDE DEF u
  <2>4. InStep(u) /\ Carries(u)
    BY <1>0, <1>1, <2>1, <2>3 DEF GoodCall, InStep, Carries
  <2>. QED BY <1>1, <2>2, <2>3, <2>4, DataStep
<1>4. CASE CheckEntry(c)
  <2>1. /\ v.pc = "entry"
        /\ \/ To(c, "end")
           \/ v.op = "purge" /\ To(c, "purge")
           \/ v.op = "restore" /\ (To(c, "restat") \/ To(c, "putBack"))
    BY <1>1, <1>4 DEF CheckEntry
  <2>. QED BY <1>1, <2>1, PlainStep
<1>5. CASE PutBack(c) \/ Overwrite(c) \/ RestatTarget(c)
  <2>1. v.pc \in {"putBack", "overwrite", "restat"} /\ v.op = "restore"
    BY <1>0, <1>5 DEF PutBack, Overwrite, RestatTarget, GoodCall, InStep, Writing
  <2>2. To(c, "end") \/ To(c, "fence") \/ To(c, "overwrite")
    BY <1>5 DEF PutBack, Overwrite, RestatTarget
  <2>. QED BY <1>1, <2>1, <2>2, PlainStep
<1>6. CASE Fence(c)
  <2>1. PICK b \in BOOLEAN :
          /\ v.pc = "fence"
          /\ call' = [call EXCEPT ![c].aim = "adjust", ![c].token = b,
                        ![c].pc = IF v.op = "restore" THEN "unlink" ELSE IF b THEN "ledger" ELSE "end"]
    BY <1>6 DEF Fence
  <2>. QED BY <1>1, <2>1, FencePassed
<1>7. CASE UnlinkEntry(c)
  <2>1. v.pc = "unlink" /\ v.op = "restore" /\ (To(c, "ledger") \/ To(c, "end"))
    BY <1>0, <1>7 DEF UnlinkEntry, GoodCall, InStep, Writing
  <2>. QED BY <1>1, <2>1, PlainStep
<1>8. CASE DeletePrefix(c)
  <2>1. v.pc = "purge" /\ v.op = "purge" /\ To(c, "fence")
    BY <1>0, <1>8 DEF DeletePrefix, GoodCall, InStep, Writing
  <2>. QED BY <1>1, <2>1, PlainStep
<1>. QED BY <1>1, <1>2, <1>3, <1>4, <1>5, <1>6, <1>7, <1>8

\* The steps of the commit of an upload.
LEMMA CommitMoves ==
  ASSUME IndInv, NEW c \in Calls, RecheckSession(c) \/ Confirm(c) \/ RecordCommit(c)
  PROVE  Moved(c) /\ Steady(c)
<1>. DEFINE v == call[c]
<1>0. GoodCall(c, v) /\ DOMAIN call = Calls /\ Fields \subseteq DOMAIN v
  BY DEF IndInv, GoodCall
<1>1. v.op = "commit" /\ v.pc \in {"recheck", "confirm", "record"}
  BY <1>0 DEF RecheckSession, Confirm, RecordCommit, GoodCall, InStep, Writing
<1>2. CASE RecheckSession(c) /\ ~To(c, "end")
  <2>. DEFINE x == stage[v.id]
              u == [v EXCEPT !.new = x, !.pc = "stat"]
  <2>1. call' = [call EXCEPT ![c] = u] /\ v.pc = "recheck" /\ x \in Contents
    BY <1>0, <1>2 DEF RecheckSession
  <2>2. /\ u.pc = "stat" /\ u.op = v.op /\ u.id = v.id /\ u.aim = v.aim
        /\ u.then = v.then /\ u.new = x /\ u.path = v.path /\ u.sum = v.sum /\ Fields \subseteq DOMAIN u
    BY <1>0 DEF Fields
  <2>. HIDE DEF u
  <2>3. InStep(u) /\ Carries(u)
    BY <1>0, <1>1, <2>1, <2>2 DEF GoodCall, InStep, Carries, Writing
  <2>. QED BY <1>1, <2>1, <2>2, <2>3, DataStep
<1>3. CASE To(c, "end")
  BY <1>1, <1>3, PlainStep
<1>4. CASE v.pc = "confirm" /\ To(c, "record")
  BY <1>1, <1>4, PlainStep
<1>. QED BY <1>2, <1>3, <1>4 DEF Confirm, RecordCommit

\* The cleanup after an error.
LEMMA FailedMoves ==
  ASSUME IndInv, NEW c \in Calls, Failed(c), call[c].pc \notin {"idle", "done", "end"}
  PROVE  Moved(c) /\ Steady(c)
<1>. DEFINE v == call[c]
<1>0. GoodCall(c, v)
  BY DEF IndInv
<1>1. \/ (v.pc = "write" \/ (v.pc = "verify" /\ v.op \in {"put", "commit"})) /\ Refused(c)
      \/ (v.pc \in {"look", "remove"} \/ (v.pc = "verify" /\ v.op = "delete")) /\ To(c, "rollback")
      \/ v.pc = "unlink" /\ To(c, "ledger")
      \/ /\ v.pc = "fence" /\ v.op = "restore"
         /\ call' = [call EXCEPT ![c].aim = "adjust", ![c].token = FALSE, ![c].pc = "unlink"]
      \/ v.pc = "confirm" /\ To(c, "record")
      \/ To(c, v.then)
      \/ To(c, "end")
  BY DEF Failed
<1>2. CASE (v.pc = "write" \/ (v.pc = "verify" /\ v.op \in {"put", "commit"})) /\ Refused(c)
  <2>1. v.op \in {"put", "commit"}
    BY <1>0, <1>2 DEF GoodCall, InStep
  <2>. QED BY <1>2, <2>1, RefusedMoves
<1>3. CASE (v.pc \in {"look", "remove"} \/ (v.pc = "verify" /\ v.op = "delete")) /\ To(c, "rollback")
  <2>1. v.op = "delete"
    BY <1>0, <1>3 DEF GoodCall, InStep, Writing
  <2>. QED BY <1>3, <2>1, PlainStep
<1>4. CASE v.pc = "unlink" /\ To(c, "ledger")
  <2>1. v.op = "restore"
    BY <1>0, <1>4 DEF GoodCall, InStep, Writing
  <2>. QED BY <1>4, <2>1, PlainStep
<1>5. CASE v.pc = "confirm" /\ To(c, "record")
  <2>1. v.op = "commit"
    BY <1>0, <1>5 DEF GoodCall, InStep, Writing
  <2>. QED BY <1>5, <2>1, PlainStep
<1>6. CASE To(c, v.then)
  <2>1. v.pc \in {"lock", "recheck"} => v.then = "end"
    BY <1>0 DEF GoodCall, InStep, Writing
  <2>. QED BY <1>6, <2>1, PlainStep
<1>7. CASE To(c, "end")
  BY <1>7, PlainStep
<1>8. CASE /\ v.pc = "fence" /\ v.op = "restore"
           /\ call' = [call EXCEPT ![c].aim = "adjust", ![c].token = FALSE, ![c].pc = "unlink"]
  BY <1>8, FencePassed
<1>. QED BY <1>1, <1>2, <1>3, <1>4, <1>5, <1>6, <1>7, <1>8

-----------------------------------------------------------------------------
(***************************************************************************)
(* A step of the request c.                                                *)
(***************************************************************************)
Step(c) == Begin(c) \/ Work(c) \/ StorageError(c) \/ Landed(c) \/ Crash(c)

\* Every step of a request keeps its kind, and a delete keeps what it read.
LEMMA StepMoves ==
  ASSUME IndInv, NEW c \in Calls, Step(c)
  PROVE  Moved(c) /\ Steady(c)
<1>1. CASE Begin(c)
  BY <1>1, BeginMoves DEF Steady
<1>2. CASE Work(c)
  BY <1>2, LockMoves, EndMoves, LedgerMoves, SettleMoves, WriteMoves, DeleteMoves, EntryMoves,
     CommitMoves DEF Work
<1>3. CASE StorageError(c)
  BY <1>3, FailedMoves DEF StorageError, Active
<1>4. CASE Landed(c)
  BY <1>4, FailedMoves DEF Landed
<1>5. CASE Crash(c)
  BY <1>5, EndMoves
<1>. QED BY <1>1, <1>2, <1>3, <1>4, <1>5 DEF Step

(***************************************************************************)
(* What a step does to the recycle bin: a delete writes and rolls back its *)
(* own entry, a restore or a purge removes the one it is about.            *)
(***************************************************************************)
Kept(c) == trash' = trash /\ (call[c].pc = "archive" => call'[c].pc \notin {"look", "verify", "remove"})

Put(c) == /\ call[c].op = "delete" /\ call[c].pc = "archive" /\ call[c].new \in Contents
          /\ trash' = [trash EXCEPT ![c] = [path |-> call[c].path, content |-> call[c].new]]

Undone(c) == /\ call[c].op = "delete" /\ call[c].pc = "rollback"
             /\ trash' = [trash EXCEPT ![c] = NoEntry]

Emptied(c) == /\ call[c].op \in {"restore", "purge"} /\ call[c].id \in Ids
              /\ trash' = [trash EXCEPT ![call[c].id] = NoEntry]

\* Nothing else touches the recycle bin.
LEMMA StepTrash ==
  ASSUME IndInv, NEW c \in Calls, Step(c)
  PROVE  Kept(c) \/ Put(c) \/ Undone(c) \/ Emptied(c)
<1>0. GoodCall(c, call[c])
  BY DEF IndInv
<1>1. CASE Begin(c)
  <2>1. trash' = trash /\ call[c].pc = "idle"
    BY <1>1 DEF Begin, PutFile, DeleteFile, CommitPresigned, RestoreTrash, PurgeTrash, OfEntry,
                PutQuota, CanBegin
  <2>. QED BY <2>1 DEF Kept
<1>2. CASE Work(c)
  <2>1. CASE Archive(c)
    <3>1. call[c].op = "delete" /\ call[c].pc = "archive" /\ call[c].new \in Contents
      BY <1>0, <2>1, DeleteMoves DEF Archive, GoodCall, Carries
    <3>. QED BY <2>1, <3>1 DEF Archive, Put
  <2>2. CASE Rollback(c)
    BY <2>2, DeleteMoves DEF Rollback, Undone
  <2>3. CASE UnlinkEntry(c) \/ DeletePrefix(c)
    BY <2>3, EntryMoves DEF UnlinkEntry, DeletePrefix, Emptied
  <2>4. CASE \/ Lock(c) \/ LockEntry(c) \/ Verify(c) \/ End(c)
             \/ ReadLedger(c) \/ WalkFiles(c) \/ WalkTrash(c) \/ CreateLedger(c) \/ ReserveQuota(c)
             \/ StatLive(c) \/ SettleQuota(c) \/ SyncQuotaUsage(c) \/ AdjustQuotaLedger(c)
    <3>1. trash' = trash /\ call[c].pc # "archive"
      BY <2>4 DEF Lock, LockEntry, Verify, End, ReadLedger, WalkFiles, WalkTrash, CreateLedger,
                  ReserveQuota, StatLive, SettleQuota, SyncQuotaUsage, AdjustQuotaLedger
    <3>. QED BY <3>1 DEF Kept
  <2>5. CASE \/ StatFile(c) \/ WriteFile(c) \/ Snapshot(c) \/ Look(c) \/ RemoveFile(c)
             \/ ReadEntry(c) \/ StatTarget(c) \/ CheckEntry(c) \/ PutBack(c) \/ RestatTarget(c)
             \/ Overwrite(c) \/ Fence(c) \/ RecheckSession(c) \/ Confirm(c) \/ RecordCommit(c)
    <3>1. trash' = trash /\ call[c].pc # "archive"
      BY <2>5 DEF StatFile, WriteFile, Snapshot, Look, RemoveFile, ReadEntry, StatTarget,
         CheckEntry,
                  PutBack, RestatTarget, Overwrite, Fence, RecheckSession, Confirm, RecordCommit
    <3>. QED BY <3>1 DEF Kept
  <2>. QED BY <1>2, <2>1, <2>2, <2>3, <2>4, <2>5 DEF Work
<1>3. CASE StorageError(c)
  <2>1. call[c].pc = "archive" => To(c, "end")
    <3>. SUFFICES ASSUME call[c].pc = "archive" PROVE To(c, "end")
      OBVIOUS
    <3>1. call[c].aim = "none"
      BY <1>0 DEF GoodCall, InStep, Writing
    <3>. QED BY <1>3, <3>1 DEF StorageError, Failed
  <2>. QED BY <1>3, <2>1, ToFacts DEF StorageError, Kept
<1>4. CASE Landed(c)
  BY <1>4 DEF Landed, Kept
<1>5. CASE Crash(c)
  <2>1. call' = [call EXCEPT ![c] = Answer(call[c])] /\ trash' = trash
    BY <1>5 DEF Crash, Answer
  <2>2. call'[c] = Answer(call[c])
    BY <2>1, CallIs
  <2>3. Answer(call[c]).pc = "done"
    BY NewCallFacts DEF Answer, Fields
  <2>. QED BY <2>1, <2>2, <2>3 DEF Kept
<1>. QED BY <1>1, <1>2, <1>3, <1>4, <1>5 DEF Step

\* A restore or a purge of an entry is remembered.
LEMMA TakenStays ==
  ASSUME IndInv, NEW c \in Calls, Moved(c), NEW i, Taken(i)
  PROVE  Taken(i)'
<1>1. PICK d \in Calls : call[d].op \in {"restore", "purge"} /\ call[d].id = i
  BY DEF Taken
<1>2. call'[d].op = call[d].op /\ call'[d].id = call[d].id
  BY <1>1 DEF Moved, Framed
<1>. QED BY <1>1, <1>2 DEF Taken

\* A delete keeps its entry until somebody takes it.
LEMMA StepArchived ==
  ASSUME IndInv, NEW c \in Calls, Step(c), NEW d \in Calls
  PROVE  Archived(d, call[d])'
<1>1. Moved(c) /\ Steady(c) /\ (Kept(c) \/ Put(c) \/ Undone(c) \/ Emptied(c))
  BY StepMoves, StepTrash
<1>2. DOMAIN trash = Ids /\ d \in Ids /\ c \in Ids /\ GoodCall(c, call[c]) /\ Archived(d, call[d])
  BY DEF IndInv, Ids
<1>3. SUFFICES ASSUME call'[d].op = "delete", call'[d].pc \in {"look", "verify", "remove"}
               PROVE  \/ trash'[d] = [path |-> call'[d].path, content |-> call'[d].new]
                      \/ trash'[d] = NoEntry /\ Taken(d)'
  BY DEF Archived, NoEntry
<1>4. Emptied(c) /\ call[c].id = d => Taken(d)
  BY DEF Emptied, Taken
<1>5. Taken(d) => Taken(d)'
  BY <1>1, TakenStays
<1>6. CASE d # c
  <2>1. call'[d] = call[d]
    BY <1>1, <1>6 DEF Moved, Framed
  <2>2. \/ trash[d] = [path |-> call[d].path, content |-> call[d].new]
        \/ trash[d] = NoEntry /\ Taken(d)
    BY <1>2, <1>3, <2>1 DEF Archived
  <2>3. trash'[d] = trash[d] \/ (trash'[d] = NoEntry /\ Taken(d))
    BY <1>1, <1>2, <1>4, <1>6 DEF Kept, Put, Undone, Emptied
  <2>. QED BY <1>5, <2>1, <2>2, <2>3
<1>7. CASE d = c
  <2>1. /\ call[c].pc \in {"archive", "look", "verify"}
        /\ call'[c].path = call[c].path /\ call'[c].new = call[c].new
    BY <1>1, <1>3, <1>7 DEF Steady
  <2>2. call[c].op = "delete"
    BY <1>1, <1>2, <1>3, <1>7, <2>1 DEF Moved, GoodCall, InStep
  <2>3. Kept(c) \/ Put(c)
    BY <1>1, <2>1, <2>2 DEF Undone, Emptied
  <2>4. CASE Put(c)
    BY <1>2, <1>7, <2>1, <2>4 DEF Put
  <2>5. CASE Kept(c)
    <3>1. trash' = trash /\ call[c].pc \in {"look", "verify"}
      BY <1>3, <1>7, <2>1, <2>5 DEF Kept
    <3>2. \/ trash[c] = [path |-> call[c].path, content |-> call[c].new]
          \/ trash[c] = NoEntry /\ Taken(c)
      BY <1>2, <1>7, <2>2, <3>1 DEF Archived
    <3>. QED BY <1>5, <1>7, <2>1, <3>1, <3>2
  <2>. QED BY <2>3, <2>4, <2>5
<1>. QED BY <1>6, <1>7

(***************************************************************************)
(* What a step does to a file: one path gets a content, or a delete puts a *)
(* tombstone where it finds what it archived.                              *)
(***************************************************************************)
Filled(c) == call[c].new \in Contents /\ file' = [file EXCEPT ![call[c].path] = call[c].new]

Buried(c) == /\ call[c].op = "delete" /\ call[c].pc = "remove" /\ file[call[c].path] = call[c].new
             /\ file' = [file EXCEPT ![call[c].path] = Tombstone]

\* Nothing else touches the files.
LEMMA StepFile ==
  ASSUME IndInv, NEW c \in Calls, Step(c)
  PROVE  file' = file \/ Filled(c) \/ Buried(c)
<1>0. GoodCall(c, call[c])
  BY DEF IndInv
<1>1. call[c].pc \in {"write", "overwrite", "putBack"} => call[c].new \in Contents
  BY <1>0 DEF GoodCall, InStep, Carries, Writing
<1>2. call[c].pc = "remove" => call[c].op = "delete"
  BY <1>0 DEF GoodCall, InStep, Writing
<1>3. CASE Begin(c) \/ StorageError(c) \/ Crash(c)
  BY <1>3 DEF Begin, PutFile, DeleteFile, CommitPresigned, RestoreTrash, PurgeTrash, OfEntry,
     PutQuota,
              StorageError, Crash
<1>4. CASE Landed(c)
  BY <1>1, <1>2, <1>4 DEF Landed, Filled, Buried
<1>5. CASE WriteFile(c) \/ PutBack(c) \/ Overwrite(c) \/ RemoveFile(c)
  BY <1>1, <1>2, <1>5 DEF WriteFile, PutBack, Overwrite, RemoveFile, Filled, Buried
<1>6. CASE \/ Lock(c) \/ LockEntry(c) \/ Verify(c) \/ End(c)
           \/ ReadLedger(c) \/ WalkFiles(c) \/ WalkTrash(c) \/ CreateLedger(c) \/ ReserveQuota(c)
           \/ StatLive(c) \/ SettleQuota(c) \/ SyncQuotaUsage(c) \/ AdjustQuotaLedger(c)
  BY <1>6 DEF Lock, LockEntry, Verify, End, ReadLedger, WalkFiles, WalkTrash, CreateLedger,
              ReserveQuota, StatLive, SettleQuota, SyncQuotaUsage, AdjustQuotaLedger
<1>7. CASE \/ StatFile(c) \/ Snapshot(c) \/ Archive(c) \/ Look(c) \/ Rollback(c)
           \/ ReadEntry(c) \/ StatTarget(c) \/ CheckEntry(c) \/ RestatTarget(c) \/ Fence(c)
           \/ UnlinkEntry(c) \/ DeletePrefix(c) \/ RecheckSession(c) \/ Confirm(c) \/ RecordCommit(c)
  BY <1>7 DEF StatFile, Snapshot, Archive, Look, Rollback, ReadEntry, StatTarget, CheckEntry,
              RestatTarget, Fence, UnlinkEntry, DeletePrefix, RecheckSession, Confirm, RecordCommit
<1>. QED BY <1>3, <1>4, <1>5, <1>6, <1>7 DEF Step, Work

\* Only the record of a commit changes the sessions.
LEMMA StepSession ==
  ASSUME NEW c \in Calls, Step(c)
  PROVE  session' = session \/ RecordCommit(c)
<1>1. CASE Begin(c) \/ StorageError(c) \/ Crash(c) \/ Landed(c)
  BY <1>1 DEF Begin, PutFile, DeleteFile, CommitPresigned, RestoreTrash, PurgeTrash, OfEntry,
     PutQuota,
              StorageError, Crash, Landed
<1>2. CASE \/ Lock(c) \/ LockEntry(c) \/ Verify(c) \/ End(c)
           \/ ReadLedger(c) \/ WalkFiles(c) \/ WalkTrash(c) \/ CreateLedger(c) \/ ReserveQuota(c)
           \/ StatLive(c) \/ SettleQuota(c) \/ SyncQuotaUsage(c) \/ AdjustQuotaLedger(c)
  BY <1>2 DEF Lock, LockEntry, Verify, End, ReadLedger, WalkFiles, WalkTrash, CreateLedger,
              ReserveQuota, StatLive, SettleQuota, SyncQuotaUsage, AdjustQuotaLedger
<1>3. CASE \/ StatFile(c) \/ WriteFile(c) \/ Snapshot(c) \/ Archive(c) \/ Look(c) \/ RemoveFile(c)
           \/ Rollback(c) \/ ReadEntry(c) \/ StatTarget(c) \/ CheckEntry(c) \/ PutBack(c)
           \/ RestatTarget(c) \/ Overwrite(c) \/ Fence(c) \/ UnlinkEntry(c) \/ DeletePrefix(c)
           \/ RecheckSession(c) \/ Confirm(c)
  BY <1>3 DEF StatFile, WriteFile, Snapshot, Archive, Look, RemoveFile, Rollback, ReadEntry,
     StatTarget,
              CheckEntry, PutBack, RestatTarget, Overwrite, Fence, UnlinkEntry, DeletePrefix,
              RecheckSession, Confirm
<1>. QED BY <1>1, <1>2, <1>3 DEF Step, Work

-----------------------------------------------------------------------------
\* The invariant holds at the start.
LEMMA InitInv == Init => IndInv
<1>. SUFFICES ASSUME Init PROVE IndInv
  OBVIOUS
<1>1. DOMAIN call = Calls /\ DOMAIN file = Paths /\ DOMAIN trash = Ids /\ DOMAIN session = Paths
  BY DEF Init
<1>2. \A p \in Paths : "ses" \in DOMAIN session[p]
  BY DEF Init
<1>3. \A i \in Ids : trash[i] = NoEntry \/ trash[i].content \in Contents
  <2>1. PICK x \in OldContents, p \in Paths :
          trash = [i \in Ids |-> IF i = Old THEN [path |-> p, content |-> x] ELSE NoEntry]
    BY DEF Init
  <2>. QED BY <2>1, SizeAssumption
<1>4. ASSUME NEW c \in Calls PROVE GoodCall(c, call[c]) /\ Archived(c, call[c])
  <2>1. call[c] = NewCall /\ NewCall.op = "none"
    BY DEF Init, NewCall
  <2>. QED BY <2>1, NewCallFacts DEF Archived
<1>. QED BY <1>1, <1>2, <1>3, <1>4 DEF IndInv

\* The steps of a request keep the invariant.
LEMMA StepInv ==
  ASSUME IndInv, NEW c \in Calls, Step(c)
  PROVE  IndInv'
<1>1. Moved(c) /\ (Kept(c) \/ Put(c) \/ Undone(c) \/ Emptied(c))
  BY StepMoves, StepTrash
<1>2. \A d \in Calls : Archived(d, call[d])'
  BY StepArchived
<1>3. \A d \in Calls : GoodCall(d, call'[d])
  BY <1>1 DEF Moved, Framed, IndInv
<1>4. DOMAIN call' = Calls
  BY <1>1 DEF Moved, Framed
<1>5. DOMAIN file' = Paths
  BY StepFile DEF Filled, Buried, IndInv
<1>6. DOMAIN trash' = Ids /\ \A i \in Ids : trash'[i] = NoEntry \/ trash'[i].content \in Contents
  BY <1>1 DEF Kept, Put, Undone, Emptied, IndInv
<1>7. DOMAIN session' = Paths /\ \A p \in Paths : "ses" \in DOMAIN session'[p]
  <2>1. CASE session' = session
    BY <2>1 DEF IndInv
  <2>2. CASE RecordCommit(c)
    BY <2>2 DEF RecordCommit, Published, IndInv
  <2>. QED BY <2>1, <2>2, StepSession
<1>8. \A d \in Calls : GoodCall(d, call[d])'
  BY <1>3 DEF GoodCall, InStep, Carries
<1>. QED BY <1>2, <1>4, <1>5, <1>6, <1>7, <1>8 DEF IndInv, NoEntry

\* The rest of the area: clients that sign and upload, and leases that run out.
LEMMA OtherInv ==
  ASSUME IndInv, UNCHANGED <<file, trash, call>>,
         \/ UNCHANGED session
         \/ \E s \in Sessions, p \in Paths : session' = [session EXCEPT ![p].ses = s]
  PROVE  IndInv'
<1>1. DOMAIN session' = Paths /\ \A p \in Paths : "ses" \in DOMAIN session'[p]
  BY DEF IndInv
<1>2. \A c \in Calls : Archived(c, call[c])'
  BY DEF IndInv, Archived, Taken, NoEntry
<1>3. \A c \in Calls : GoodCall(c, call[c])'
  BY DEF IndInv, GoodCall, InStep, Carries
<1>. QED BY <1>1, <1>2, <1>3 DEF IndInv, NoEntry

\* A step of Next is one of a request, one of a client, or the end of a lease.
LEMMA NextSteps ==
  ASSUME Next
  PROVE  \/ \E c \in Calls : Step(c)
         \/ /\ UNCHANGED <<file, trash, call>>
            /\ \/ UNCHANGED session
               \/ \E s \in Sessions, p \in Paths : session' = [session EXCEPT ![p].ses = s]
  BY DEF Next, Step, PresignUpload, Upload, Expire

\* The invariant is inductive.
LEMMA Inductive == IndInv /\ [Next]_vars => IndInv'
<1>. SUFFICES ASSUME IndInv, [Next]_vars PROVE IndInv'
  OBVIOUS
<1>1. CASE Next
  BY <1>1, NextSteps, StepInv, OtherInv
<1>2. CASE UNCHANGED vars
  BY <1>2, OtherInv DEF vars
<1>. QED BY <1>1, <1>2

\* IndInv holds in every reachable state.
LEMMA Invariant == Spec => []IndInv
  BY InitInv, Inductive, PTL DEF Spec

-----------------------------------------------------------------------------
(***************************************************************************)
(* The ledger is well formed, and a path is charged for every reservation  *)
(* on it: the bound by which the charge of a path is a maximum at all.     *)
(***************************************************************************)
Tokens == [by : Calls, path : Paths, size : Nat]
Ledgers == [there : BOOLEAN, used : Nat, tok : SUBSET Tokens, cnt : [Paths -> Nat]]

LedgerOK(led) ==
  /\ led \in Ledgers
  /\ \A t \in led.tok : t.size <= led.cnt[t.path]
  /\ ~led.there => led.tok = {}

\* The bytes of an object.
LEMMA BytesNat == \A x : Bytes(x) \in Nat
  BY SizeAssumption DEF Bytes

\* The larger of two numbers.
LEMMA MaxPair ==
  ASSUME NEW a \in Int, NEW b \in Int
  PROVE  Max({a, b}) \in {a, b} /\ Max({a, b}) >= a /\ Max({a, b}) >= b
<1>1. \E x \in {a, b} : \A y \in {a, b} : x >= y
  <2>1. CASE a >= b
    BY <2>1
  <2>2. CASE ~(a >= b)
    BY <2>2
  <2>. QED BY <2>1, <2>2
<1>2. Max({a, b}) \in {a, b} /\ \A y \in {a, b} : Max({a, b}) >= y
  BY <1>1 DEF Max
<1>. QED BY <1>2

\* A usage is never negative.
LEMMA NotNegativeNat ==
  ASSUME NEW n \in Int
  PROVE  NotNegative(n) \in Nat
<1>1. Max({0, n}) \in {0, n} /\ Max({0, n}) >= 0
  BY MaxPair
<1>. QED BY <1>1 DEF NotNegative

\* What a path is charged: its bytes, and every reservation on it.
LEMMA ChargeFacts ==
  ASSUME NEW led, NEW p, NEW live \in Nat, NEW b \in Nat,
         \A t \in Of(led, p) : t.size \in Nat /\ t.size <= b
  PROVE  /\ Charge(led, p, live) \in Nat /\ live <= Charge(led, p, live)
         /\ \A t \in Of(led, p) : t.size <= Charge(led, p, live)
<1>. DEFINE S == {live} \cup {t.size : t \in Of(led, p)}
<1>1. S \in SUBSET Nat /\ S # {} /\ b + live \in Nat
  OBVIOUS
<1>2. \A x \in S : x <= b + live
  OBVIOUS
<1>3. \A t \in Of(led, p) : t.size \in S
  OBVIOUS
<1>4. live \in S
  OBVIOUS
<1>. HIDE DEF S
<1>5. Max(S) \in S /\ \A x \in S : x <= Max(S)
  BY <1>1, <1>2, MaxOf
<1>6. Max(S) \in Nat /\ live <= Max(S) /\ \A t \in Of(led, p) : t.size <= Max(S)
  BY <1>1, <1>3, <1>4, <1>5
<1>. QED BY <1>6 DEF Charge, S

\* The ledger before there is one.
LEMMA NoLedgerOK == LedgerOK(NoLedger)
BY DEF LedgerOK, Ledgers, NoLedger

\* A reservation adds a token at most, and its path is charged for it.
LEMMA ReservedOK ==
  ASSUME NEW c \in Calls, NEW led, LedgerOK(led), call[c].path \in Paths, call[c].new \in Contents
  PROVE  LedgerOK(Reserved(c, led)) /\ led.tok \subseteq Reserved(c, led).tok
<1>. DEFINE p == call[c].path
            size == Size[call[c].new]
            old == IF Of(led, p) # {} THEN led.cnt[p] ELSE Bytes(call[c].seen)
            new == Max({old, size})
            used == NotNegative(led.used - old + new)
            t0 == [by |-> c, path |-> p, size |-> size]
            next == [led EXCEPT !.there = TRUE, !.used = used]
            with == [next EXCEPT !.tok = @ \cup {t0}, !.cnt[p] = new]
<1>1. size \in Nat /\ old \in Nat /\ led.used \in Nat
  BY SizeAssumption, BytesNat DEF LedgerOK, Ledgers
<1>2. new \in Nat /\ new >= old /\ new >= size
  <2>. HIDE DEF old, size
  <2>1. old \in Int /\ size \in Int
    BY <1>1
  <2>2. new \in {old, size} /\ new >= old /\ new >= size
    BY <2>1, MaxPair
  <2>. QED BY <1>1, <2>2
<1>3. used \in Nat
  <2>. HIDE DEF old, new
  <2>1. led.used - old + new \in Int
    BY <1>1, <1>2
  <2>. QED BY <2>1, NotNegativeNat
<1>4. t0 \in Tokens /\ t0.path = p /\ t0.size = size
  BY <1>1 DEF Tokens
<1>5. Of(led, p) # {} => old = led.cnt[p]
  OBVIOUS
<1>6. Reserved(c, led) = IF call[c].quota = Unlimited THEN next ELSE with
  BY DEF Reserved
<1>. HIDE DEF size, old, new, used, t0
<1>7. /\ next \in Ledgers /\ next.there /\ next.tok = led.tok /\ next.cnt = led.cnt
  BY <1>3 DEF LedgerOK, Ledgers
<1>8. LedgerOK(next)
  BY <1>7 DEF LedgerOK
<1>. HIDE DEF next
<1>9. /\ with \in Ledgers /\ with.there /\ with.tok = led.tok \cup {t0}
      /\ with.cnt = [led.cnt EXCEPT ![p] = new]
  BY <1>2, <1>4, <1>7 DEF Ledgers
<1>. HIDE DEF with
<1>10. ASSUME NEW t \in with.tok PROVE t.size <= with.cnt[t.path]
  <2>1. CASE t = t0
    BY <1>2, <1>4, <1>9, <2>1 DEF LedgerOK, Ledgers
  <2>2. CASE t \in led.tok /\ t.path # p
    BY <1>9, <2>2 DEF LedgerOK, Ledgers, Tokens
  <2>3. CASE t \in led.tok /\ t.path = p
    <3>1. t \in Of(led, p)
      BY <2>3 DEF Of
    <3>2. t.size <= old
      BY <1>5, <2>3, <3>1 DEF LedgerOK
    <3>3. with.cnt[p] = new
      BY <1>9 DEF LedgerOK, Ledgers
    <3>4. t.size \in Nat
      BY <2>3 DEF LedgerOK, Ledgers, Tokens
    <3>. QED BY <1>1, <1>2, <2>3, <3>2, <3>3, <3>4
  <2>. QED BY <1>9, <2>1, <2>2, <2>3
<1>11. LedgerOK(with)
  BY <1>9, <1>10 DEF LedgerOK
<1>. QED BY <1>6, <1>7, <1>8, <1>9, <1>11

\* A settlement takes the tokens of c away, and charges its path for the rest.
Settled(c, led, p, used) ==
  LET left == [led EXCEPT !.tok = Rest(c)]
  IN  [left EXCEPT !.used = used,
                   !.cnt[p] = IF Of(left, p) = {} THEN 0 ELSE Charge(left, p, Bytes(call[c].seen))]

\* What is left is charged, and only the tokens of c are gone.
LEMMA SettledOK ==
  ASSUME NEW c \in Calls, NEW led, LedgerOK(led), led = call[c].led, NEW p \in Paths, NEW used \in Nat
  PROVE  /\ LedgerOK(Settled(c, led, p, used))
         /\ \A t \in led.tok : t \in Settled(c, led, p, used).tok \/ t.by = c
<1>. DEFINE new == Settled(c, led, p, used)
<1>. DEFINE left == [led EXCEPT !.tok = Rest(c)]
            count == Charge(left, p, Bytes(call[c].seen))
            n == IF Of(left, p) = {} THEN 0 ELSE count
<1>1. Rest(c) = {t \in led.tok : t.by # c}
  BY DEF Rest
<1>2. /\ left \in Ledgers /\ left.tok = Rest(c) /\ left.cnt = led.cnt /\ left.there = led.there
  BY <1>1 DEF LedgerOK, Ledgers
<1>3. \A t \in Of(left, p) : t \in led.tok /\ t.size \in Nat /\ t.size <= led.cnt[p]
  BY <1>1, <1>2 DEF Of, LedgerOK, Ledgers, Tokens
<1>. HIDE DEF left
<1>4. count \in Nat /\ \A t \in Of(left, p) : t.size <= count
  <2>1. Bytes(call[c].seen) \in Nat /\ led.cnt[p] \in Nat
    BY BytesNat DEF LedgerOK, Ledgers
  <2>. QED BY <1>3, <2>1, ChargeFacts
<1>5. n \in Nat /\ \A t \in Of(left, p) : t.size <= n
  BY <1>4
<1>6. new = [left EXCEPT !.used = used, !.cnt[p] = n]
  BY DEF left, Settled
<1>. HIDE DEF n, new
<1>7. /\ new \in Ledgers /\ new.tok = Rest(c) /\ new.there = led.there
      /\ new.cnt = [led.cnt EXCEPT ![p] = n]
  <2>1. new = [left EXCEPT !.used = used, !.cnt = [left.cnt EXCEPT ![p] = n]]
    BY <1>2, <1>6 DEF Ledgers
  <2>2. [left.cnt EXCEPT ![p] = n] \in [Paths -> Nat]
    BY <1>2, <1>5 DEF Ledgers
  <2>. QED BY <1>2, <2>1, <2>2 DEF Ledgers
<1>8. ASSUME NEW t \in new.tok PROVE t.size <= new.cnt[t.path]
  <2>1. CASE t.path = p
    <3>1. t \in Of(left, p)
      BY <1>2, <1>7, <2>1 DEF Of
    <3>2. new.cnt[p] = n
      BY <1>7 DEF LedgerOK, Ledgers
    <3>. QED BY <1>5, <2>1, <3>1, <3>2
  <2>2. CASE t.path # p
    BY <1>1, <1>7, <2>2 DEF LedgerOK, Ledgers, Tokens
  <2>. QED BY <2>1, <2>2
<1>9. LedgerOK(new)
  BY <1>1, <1>7, <1>8 DEF LedgerOK
<1>. QED BY <1>1, <1>7, <1>9 DEF new

\* A sync keeps the tokens, and charges every path for those on it.
LEMMA SyncedOK ==
  ASSUME NEW led, LedgerOK(led), NEW used \in Nat, NEW new,
         LET busy == {p \in Paths : Of(led, p) # {}}
         IN  new = [led EXCEPT !.used = used,
                     !.cnt = [p \in Paths |-> IF p \in busy THEN Charge(led, p, Bytes(file[p])) ELSE 0]]
  PROVE  LedgerOK(new) /\ new.tok = led.tok
<1>. DEFINE cnt == [p \in Paths |-> IF Of(led, p) # {} THEN Charge(led, p, Bytes(file[p])) ELSE 0]
<1>1. ASSUME NEW p \in Paths
      PROVE  /\ Charge(led, p, Bytes(file[p])) \in Nat
             /\ \A t \in Of(led, p) : t.size <= Charge(led, p, Bytes(file[p]))
  <2>1. \A t \in Of(led, p) : t.size \in Nat /\ t.size <= led.cnt[p]
    BY DEF Of, LedgerOK, Ledgers, Tokens
  <2>2. Bytes(file[p]) \in Nat /\ led.cnt[p] \in Nat
    BY BytesNat DEF LedgerOK, Ledgers
  <2>. QED BY <2>1, <2>2, ChargeFacts
<1>2. cnt \in [Paths -> Nat]
  BY <1>1
<1>3. ASSUME NEW t \in led.tok PROVE t.size <= cnt[t.path]
  <2>1. t.path \in Paths
    BY DEF LedgerOK, Ledgers, Tokens
  <2>2. t \in Of(led, t.path)
    BY DEF Of
  <2>3. cnt[t.path] = Charge(led, t.path, Bytes(file[t.path]))
    BY <2>1, <2>2
  <2>. QED BY <1>1, <2>1, <2>2, <2>3
<1>4. new = [led EXCEPT !.used = used, !.cnt = cnt]
  <2>1. cnt = [p \in Paths |-> IF p \in {q \in Paths : Of(led, q) # {}}
                               THEN Charge(led, p, Bytes(file[p])) ELSE 0]
    OBVIOUS
  <2>. QED BY <2>1
<1>. HIDE DEF cnt
<1>5. new \in Ledgers /\ new.tok = led.tok /\ new.there = led.there /\ new.cnt = cnt
  BY <1>2, <1>4 DEF LedgerOK, Ledgers
<1>. QED BY <1>3, <1>5 DEF LedgerOK

\* What a step may do to the reservations: add some, or settle its own.
KeepsTokens(c) ==
  \A t \in ledger.tok :
    t \in ledger'.tok \/ (t.by = c /\ call[c].pc = "settle" /\ call'[c].pc # "settle")

\* The steps of a request keep the ledger well formed and the tokens of others.
LEMMA StepLedger ==
  ASSUME IndInv, LedgerOK(ledger), NEW c \in Calls, Step(c)
  PROVE  LedgerOK(ledger') /\ KeepsTokens(c)
<1>. DEFINE v == call[c]
            p == call[c].path
            led == call[c].led
<1>0. /\ InStep(v) /\ Carries(v) /\ DOMAIN call = Calls /\ Fields \subseteq DOMAIN v
  BY DEF IndInv, GoodCall
<1>1. v.op \in {"put", "commit"} /\ v.pc \in {"create", "reserve", "settle"} =>
        p \in Paths /\ v.new \in Contents
  BY <1>0 DEF Carries
<1>2. CASE CreateLedger(c)
  <2>. DEFINE first == [NoLedger EXCEPT !.there = TRUE, !.used = v.sum]
  <2>1. LedgerOK(first) /\ v.pc = "create"
    <3>1. v.sum \in Nat
      BY <1>0 DEF Carries
    <3>. QED BY <1>2, <3>1 DEF CreateLedger, NoLedger, LedgerOK, Ledgers
  <2>. HIDE DEF first
  <2>2. \/ ledger' = ledger
        \/ v.aim = "reserve" /\ ~ledger.there /\ ledger' = Reserved(c, first)
        \/ ~ledger.there /\ ledger' = first
    BY <1>2 DEF CreateLedger, first
  <2>3. v.aim = "reserve" => v.op \in {"put", "commit"}
    BY <1>0, <2>1 DEF InStep
  <2>4. ~ledger.there => ledger.tok = {}
    BY DEF LedgerOK
  <2>. QED BY <1>1, <2>1, <2>2, <2>3, <2>4, ReservedOK DEF KeepsTokens
<1>3. CASE ReserveQuota(c)
  <2>1. v.pc = "reserve" /\ v.op \in {"put", "commit"}
    BY <1>0, <1>3 DEF ReserveQuota, InStep
  <2>2. ledger' = ledger \/ (ledger = led /\ ledger' = Reserved(c, led))
    BY <1>3 DEF ReserveQuota, Swap
  <2>. QED BY <1>1, <2>1, <2>2, ReservedOK DEF KeepsTokens
<1>4. CASE SettleQuota(c)
  <2>. DEFINE left == [led EXCEPT !.tok = Rest(c)]
              count == Charge(left, p, Bytes(v.seen))
              used == NotNegative(left.used - led.cnt[p] + count)
              new == [left EXCEPT !.used = used, !.cnt[p] = IF Of(left, p) = {} THEN 0 ELSE count]
  <2>1. v.pc = "settle" /\ v.op \in {"put", "commit"}
    BY <1>0, <1>4 DEF SettleQuota, InStep
  <2>2. \/ ledger' = ledger
        \/ /\ ledger = led /\ ledger' = new
           /\ call' = [call EXCEPT ![c].aim = "sync", ![c].pc = "ledger", ![c].led = NoLedger]
    BY <1>4 DEF SettleQuota, Swap
  <2>3. CASE /\ ledger = led /\ ledger' = new
             /\ call' = [call EXCEPT ![c].aim = "sync", ![c].pc = "ledger", ![c].led = NoLedger]
    <3>1. call'[c].pc = "ledger"
      BY <1>0, <2>3 DEF Fields
    <3>2. count \in Nat
      <4>1. \A t \in Of(left, p) : t.size \in Nat /\ t.size <= led.cnt[p]
        BY <2>3 DEF Of, Rest, LedgerOK, Ledgers, Tokens
      <4>2. Bytes(v.seen) \in Nat /\ led.cnt[p] \in Nat
        BY <1>1, <2>1, <2>3, BytesNat DEF LedgerOK, Ledgers
      <4>. HIDE DEF left
      <4>. QED BY <4>1, <4>2, ChargeFacts
    <3>3. left.used \in Nat /\ led.cnt[p] \in Nat
      BY <1>1, <2>1, <2>3 DEF LedgerOK, Ledgers
    <3>4. used \in Nat
      <4>. HIDE DEF left, count
      <4>1. left.used - led.cnt[p] + count \in Int
        BY <3>2, <3>3
      <4>. QED BY <4>1, NotNegativeNat
    <3>5. p \in Paths /\ LedgerOK(led)
      BY <1>1, <2>1, <2>3
    <3>. HIDE DEF used
    <3>6. new = Settled(c, led, p, used)
      BY DEF Settled
    <3>. HIDE DEF new
    <3>7. LedgerOK(new) /\ \A t \in led.tok : t \in new.tok \/ t.by = c
      BY <3>4, <3>5, <3>6, SettledOK
    <3>. QED BY <2>1, <2>3, <3>1, <3>7 DEF KeepsTokens
  <2>. HIDE DEF new
  <2>. QED BY <2>2, <2>3 DEF KeepsTokens
<1>5. CASE SyncQuotaUsage(c)
  <2>. DEFINE busy == {q \in Paths : Of(led, q) # {}}
              extra == Total([q \in busy |-> Charge(led, q, Bytes(file[q])) - Bytes(file[q])])
              used == NotNegative(v.sum + extra)
              new == [led EXCEPT !.used = used,
                        !.cnt = [q \in Paths |-> IF q \in busy THEN Charge(led, q, Bytes(file[q])) ELSE 0]]
  <2>1. ledger' = ledger \/ (ledger = led /\ ledger' = new)
    BY <1>5 DEF SyncQuotaUsage, Swap
  <2>2. CASE ledger = led /\ ledger' = new
    <3>1. extra \in Nat
      <4>. DEFINE f == [q \in busy |-> Charge(led, q, Bytes(file[q])) - Bytes(file[q])]
      <4>1. ASSUME NEW q \in busy PROVE f[q] \in Nat
        <5>1. \A t \in Of(led, q) : t.size \in Nat /\ t.size <= led.cnt[q]
          BY <2>2 DEF Of, LedgerOK, Ledgers, Tokens
        <5>2. Bytes(file[q]) \in Nat /\ led.cnt[q] \in Nat
          BY <2>2, BytesNat DEF LedgerOK, Ledgers
        <5>3. /\ Charge(led, q, Bytes(file[q])) \in Nat
              /\ Bytes(file[q]) <= Charge(led, q, Bytes(file[q]))
          BY <5>1, <5>2, ChargeFacts
        <5>. QED BY <5>2, <5>3
      <4>2. IsFiniteSet(busy)
        BY FiniteAssumption, FS_Subset
      <4>3. DOMAIN f = busy
        OBVIOUS
      <4>. HIDE DEF f, busy
      <4>4. Total(f) \in Nat
        BY <4>1, <4>2, <4>3, TotalNat
      <4>. QED BY <4>4 DEF f
    <3>2. used \in Nat
      <4>. HIDE DEF extra
      <4>1. v.sum + extra \in Int
        BY <1>0, <3>1 DEF Carries
      <4>. QED BY <4>1, NotNegativeNat
    <3>. HIDE DEF used
    <3>3. LedgerOK(new) /\ new.tok = led.tok
      BY <2>2, <3>2, SyncedOK
    <3>. HIDE DEF new
    <3>. QED BY <2>2, <3>3 DEF KeepsTokens
  <2>. HIDE DEF new
  <2>. QED BY <2>1, <2>2 DEF KeepsTokens
<1>6. CASE AdjustQuotaLedger(c)
  <2>. DEFINE used == NotNegative(led.used - Removed(c))
  <2>1. \/ ledger' = ledger
        \/ ledger = led /\ ledger' = [led EXCEPT !.used = used]
    BY <1>6 DEF AdjustQuotaLedger, Swap
  <2>2. CASE ledger = led /\ ledger' = [led EXCEPT !.used = used]
    <3>1. Removed(c) \in Nat /\ led.used \in Nat
      BY <2>2, BytesNat DEF Removed, LedgerOK, Ledgers
    <3>2. used \in Nat
      <4>1. led.used - Removed(c) \in Int
        BY <3>1
      <4>. QED BY <4>1, NotNegativeNat
    <3>. HIDE DEF used
    <3>. QED BY <2>2, <3>2 DEF LedgerOK, Ledgers, KeepsTokens
  <2>. QED BY <2>1, <2>2 DEF KeepsTokens
<1>7. CASE Begin(c) \/ StorageError(c) \/ Landed(c) \/ Crash(c)
  <2>1. ledger' = ledger
    BY <1>7 DEF Begin, PutFile, DeleteFile, CommitPresigned, RestoreTrash, PurgeTrash, OfEntry,
                PutQuota, StorageError, Landed, Crash
  <2>. QED BY <2>1 DEF KeepsTokens
<1>8. CASE \/ Lock(c) \/ LockEntry(c) \/ Verify(c) \/ End(c) \/ ReadLedger(c) \/ WalkFiles(c)
           \/ WalkTrash(c) \/ StatLive(c) \/ StatFile(c) \/ WriteFile(c)
           \/ Snapshot(c) \/ Archive(c) \/ Look(c) \/ RemoveFile(c) \/ Rollback(c)
  <2>1. ledger' = ledger
    BY <1>8 DEF Lock, LockEntry, Verify, End, ReadLedger, WalkFiles, WalkTrash, StatLive, StatFile,
                WriteFile, Snapshot, Archive, Look, RemoveFile, Rollback
  <2>. QED BY <2>1 DEF KeepsTokens
<1>9. CASE \/ ReadEntry(c) \/ StatTarget(c) \/ CheckEntry(c) \/ PutBack(c) \/ RestatTarget(c)
           \/ Overwrite(c) \/ Fence(c) \/ UnlinkEntry(c) \/ DeletePrefix(c)
           \/ RecheckSession(c) \/ Confirm(c) \/ RecordCommit(c)
  <2>1. ledger' = ledger
    BY <1>9 DEF ReadEntry, StatTarget, CheckEntry, PutBack, RestatTarget, Overwrite, Fence,
                UnlinkEntry, DeletePrefix, RecheckSession, Confirm, RecordCommit
  <2>. QED BY <2>1 DEF KeepsTokens
<1>. QED BY <1>2, <1>3, <1>4, <1>5, <1>6, <1>7, <1>8, <1>9 DEF Step, Work

-----------------------------------------------------------------------------
(***************************************************************************)
(* The objects of the area.                                                *)
(***************************************************************************)
FileSet == [Paths -> Contents \cup {Absent, Tombstone}]
LeaseSet == [Paths \cup Ids -> [owner : Calls \cup {Nobody}, live : BOOLEAN]]
SessionSet == [Paths -> [ses : Sessions \cup {Nobody}, done : Contents \cup {Absent}]]
StageSet == [Sessions -> Contents \cup {Absent, Nobody}]
EntryOK(e) == e = NoEntry \/ e \in [path : Paths, content : Contents]

AreaOK ==
  /\ file \in FileSet /\ lease \in LeaseSet /\ session \in SessionSet /\ stage \in StageSet
  /\ quota \in Quotas
  /\ \A i \in Ids : EntryOK(trash[i])
  /\ LedgerOK(ledger)

\* A call takes a free lease, releases its own, or leaves them alone.
LEMMA StepLease ==
  ASSUME lease \in LeaseSet, NEW c \in Calls, Step(c)
  PROVE  lease' \in LeaseSet
<1>1. CASE Lock(c) \/ LockEntry(c)
  <2>1. PICK k : lease' = lease \/ lease' = [lease EXCEPT ![k] = [owner |-> c, live |-> TRUE]]
    BY <1>1 DEF Lock, LockEntry, Acquire
  <2>. DEFINE l == [owner |-> c, live |-> TRUE]
  <2>2. l \in [owner : Calls \cup {Nobody}, live : BOOLEAN]
    OBVIOUS
  <2>. HIDE DEF l
  <2>3. [lease EXCEPT ![k] = l] \in LeaseSet
    BY <2>2 DEF LeaseSet
  <2>. QED BY <2>1, <2>3 DEF l
<1>2. CASE End(c)
  BY <1>2 DEF End, LeaseSet
<1>3. CASE Begin(c) \/ StorageError(c) \/ Landed(c) \/ Crash(c)
  BY <1>3 DEF Begin, PutFile, DeleteFile, CommitPresigned, RestoreTrash, PurgeTrash, OfEntry,
     PutQuota,
              StorageError, Landed, Crash
<1>4. CASE \/ Verify(c) \/ ReadLedger(c) \/ WalkFiles(c) \/ WalkTrash(c) \/ CreateLedger(c)
           \/ ReserveQuota(c) \/ StatLive(c) \/ SettleQuota(c) \/ SyncQuotaUsage(c)
           \/ AdjustQuotaLedger(c) \/ StatFile(c) \/ WriteFile(c) \/ Snapshot(c) \/ Archive(c)
           \/ Look(c) \/ RemoveFile(c) \/ Rollback(c)
  BY <1>4 DEF Verify, ReadLedger, WalkFiles, WalkTrash, CreateLedger, ReserveQuota, StatLive,
              SettleQuota, SyncQuotaUsage, AdjustQuotaLedger, StatFile, WriteFile, Snapshot,
              Archive,
              Look, RemoveFile, Rollback
<1>5. CASE \/ ReadEntry(c) \/ StatTarget(c) \/ CheckEntry(c) \/ PutBack(c) \/ RestatTarget(c)
           \/ Overwrite(c) \/ Fence(c) \/ UnlinkEntry(c) \/ DeletePrefix(c)
           \/ RecheckSession(c) \/ Confirm(c) \/ RecordCommit(c)
  BY <1>5 DEF ReadEntry, StatTarget, CheckEntry, PutBack, RestatTarget, Overwrite, Fence,
     UnlinkEntry,
              DeletePrefix, RecheckSession, Confirm, RecordCommit
<1>. QED BY <1>1, <1>2, <1>3, <1>4, <1>5 DEF Step, Work

\* A commit takes its upload; putQuota sets the quota.
LEMMA StepStage ==
  ASSUME stage \in StageSet, quota \in Quotas, NEW c \in Calls, Step(c)
  PROVE  stage' \in StageSet /\ quota' \in Quotas
<1>1. CASE Confirm(c)
  <2>1. PICK s : (stage' = stage \/ stage' = [stage EXCEPT ![s] = Absent]) /\ quota' = quota
    BY <1>1 DEF Confirm
  <2>. QED BY <2>1 DEF StageSet
<1>2. CASE Begin(c)
  BY <1>2 DEF Begin, PutFile, DeleteFile, CommitPresigned, RestoreTrash, PurgeTrash, OfEntry,
     PutQuota
<1>3. CASE StorageError(c) \/ Landed(c) \/ Crash(c)
  BY <1>3 DEF StorageError, Landed, Crash
<1>4. CASE \/ Lock(c) \/ LockEntry(c) \/ Verify(c) \/ End(c) \/ ReadLedger(c) \/ WalkFiles(c)
           \/ WalkTrash(c) \/ CreateLedger(c) \/ ReserveQuota(c) \/ StatLive(c) \/ SettleQuota(c)
           \/ SyncQuotaUsage(c) \/ AdjustQuotaLedger(c) \/ StatFile(c) \/ WriteFile(c)
  BY <1>4 DEF Lock, LockEntry, Verify, End, ReadLedger, WalkFiles, WalkTrash, CreateLedger,
              ReserveQuota, StatLive, SettleQuota, SyncQuotaUsage, AdjustQuotaLedger, StatFile,
              WriteFile
<1>5. CASE \/ Snapshot(c) \/ Archive(c) \/ Look(c) \/ RemoveFile(c) \/ Rollback(c)
           \/ ReadEntry(c) \/ StatTarget(c) \/ CheckEntry(c) \/ PutBack(c) \/ RestatTarget(c)
           \/ Overwrite(c) \/ Fence(c) \/ UnlinkEntry(c) \/ DeletePrefix(c)
           \/ RecheckSession(c) \/ RecordCommit(c)
  BY <1>5 DEF Snapshot, Archive, Look, RemoveFile, Rollback, ReadEntry, StatTarget, CheckEntry,
     PutBack,
              RestatTarget, Overwrite, Fence, UnlinkEntry, DeletePrefix, RecheckSession,
              RecordCommit
<1>. QED BY <1>1, <1>2, <1>3, <1>4, <1>5 DEF Step, Work

\* The area is well formed at the start.
LEMMA InitArea == Init => AreaOK
<1>. SUFFICES ASSUME Init PROVE AreaOK
  OBVIOUS
<1>1. file \in FileSet /\ lease \in LeaseSet /\ session \in SessionSet /\ stage \in StageSet
      /\ quota \in Quotas
  BY SizeAssumption DEF Init, FileSet, LeaseSet, SessionSet, StageSet
<1>2. \A i \in Ids : EntryOK(trash[i])
  <2>1. PICK x \in OldContents, p \in Paths :
          trash = [i \in Ids |-> IF i = Old THEN [path |-> p, content |-> x] ELSE NoEntry]
    BY DEF Init
  <2>. QED BY <2>1, SizeAssumption DEF EntryOK
<1>3. LedgerOK(ledger)
  <2>1. SumOfFiles + SumOfTrash \in Nat
    BY SumsNat
  <2>2. LedgerOK([NoLedger EXCEPT !.there = TRUE, !.used = SumOfFiles + SumOfTrash])
    BY <2>1 DEF LedgerOK, Ledgers, NoLedger
  <2>. QED BY <2>2, NoLedgerOK DEF Init
<1>. QED BY <1>1, <1>2, <1>3 DEF AreaOK

\* The steps of a request keep the area well formed.
LEMMA StepArea ==
  ASSUME IndInv, AreaOK, NEW c \in Calls, Step(c)
  PROVE  AreaOK'
<1>1. GoodCall(c, call[c])
  BY DEF IndInv
<1>2. file' \in FileSet
  <2>1. file' = file \/ Filled(c) \/ Buried(c)
    BY StepFile
  <2>. QED BY <2>1 DEF AreaOK, FileSet, Filled, Buried
<1>3. \A i \in Ids : EntryOK(trash'[i])
  <2>1. CASE Put(c)
    <3>1. call[c].path \in Paths /\ call[c].new \in Contents
      BY <1>1, <2>1 DEF GoodCall, Carries, Put
    <3>2. DOMAIN trash = Ids
      BY DEF IndInv
    <3>. QED BY <2>1, <3>1, <3>2 DEF Put, AreaOK, EntryOK
  <2>2. CASE Kept(c) \/ Undone(c) \/ Emptied(c)
    <3>1. DOMAIN trash = Ids
      BY DEF IndInv
    <3>. QED BY <2>2, <3>1 DEF Kept, Undone, Emptied, AreaOK, EntryOK
  <2>. QED BY <2>1, <2>2, StepTrash
<1>4. session' \in SessionSet
  <2>1. CASE RecordCommit(c)
    <3>1. call[c].new \in Contents /\ call[c].path \in Paths
      BY <1>1, <2>1 DEF GoodCall, InStep, Carries, RecordCommit, Writing
    <3>2. Published(c, session[call[c].path]) \in
            [ses : Sessions \cup {Nobody}, done : Contents \cup {Absent}]
      BY <3>1 DEF Published, AreaOK, SessionSet
    <3>3. session' = [session EXCEPT ![call[c].path] = Published(c, session[call[c].path])]
      BY <2>1 DEF RecordCommit
    <3>. QED BY <3>1, <3>2, <3>3 DEF AreaOK, SessionSet
  <2>2. CASE session' = session
    BY <2>2 DEF AreaOK
  <2>. QED BY <2>1, <2>2, StepSession
<1>5. lease' \in LeaseSet /\ stage' \in StageSet /\ quota' \in Quotas
  BY StepLease, StepStage DEF AreaOK
<1>6. LedgerOK(ledger')
  BY StepLedger DEF AreaOK
<1>. QED BY <1>2, <1>3, <1>4, <1>5, <1>6 DEF AreaOK, FileSet, LeaseSet, SessionSet, StageSet,
            EntryOK,
            LedgerOK, NoEntry

\* So do the clients, and the leases that run out.
LEMMA OtherArea ==
  ASSUME IndInv, AreaOK,
         \/ \E s \in Sessions, p \in Paths : PresignUpload(s, p)
         \/ \E s \in Sessions, x \in Contents : Upload(s, x)
         \/ \E k \in DOMAIN lease : Expire(k)
         \/ UNCHANGED vars
  PROVE  AreaOK' /\ ledger' = ledger
<1>1. file' = file /\ trash' = trash /\ ledger' = ledger /\ quota' = quota
  BY DEF PresignUpload, Upload, Expire, vars
<1>2. session' \in SessionSet
  BY DEF PresignUpload, Upload, Expire, vars, AreaOK, SessionSet
<1>3. stage' \in StageSet
  BY DEF PresignUpload, Upload, Expire, vars, AreaOK, StageSet
<1>4. lease' \in LeaseSet
  BY ZenonT(60) DEF PresignUpload, Upload, Expire, vars, AreaOK, LeaseSet
<1>. QED BY <1>1, <1>2, <1>3, <1>4 DEF AreaOK, FileSet, LeaseSet, SessionSet, StageSet, EntryOK,
            LedgerOK, NoEntry

\* The steps of Next, as the proofs tell them apart.
LEMMA NextOrOther ==
  ASSUME [Next]_vars
  PROVE  \/ \E c \in Calls : Step(c)
         \/ \E s \in Sessions, p \in Paths : PresignUpload(s, p)
         \/ \E s \in Sessions, x \in Contents : Upload(s, x)
         \/ \E k \in DOMAIN lease : Expire(k)
         \/ UNCHANGED vars
  BY DEF Next, Step

\* The area is well formed in every reachable state.
LEMMA Area == Spec => []AreaOK
<1>1. IndInv /\ AreaOK /\ [Next]_vars => AreaOK'
  BY NextOrOther, StepArea, OtherArea
<1>. QED BY <1>1, InitArea, Invariant, PTL DEF Spec

(***************************************************************************)
(* Every object of the area is well formed, and the ledger's usage is      *)
(* never negative (I5 of the quota ledger), whatever purges and restores   *)
(* subtract that a sync has left out already.                              *)
(***************************************************************************)
THEOREM TypeCorrect == Spec => []TypeOK
<1>1. AreaOK => TypeOK
  BY DEF AreaOK, FileSet, LeaseSet, SessionSet, StageSet, EntryOK, LedgerOK, Ledgers, Tokens, TypeOK
<1>. QED BY <1>1, Area, PTL

(***************************************************************************)
(* reserveQuota, commitQuota, releaseQuota, syncQuotaUsage and             *)
(* adjustQuotaLedger: a reservation stays in the ledger until its own      *)
(* write settles it, and its path is charged for it as long, whichever     *)
(* requests reserve, settle, sync, fail or die meanwhile.                  *)
(***************************************************************************)
THEOREM ReservationsStand == Spec => ReservationKept
<1>. DEFINE Stands ==
       \A t \in ledger.tok :
         /\ t \in ledger'.tok \/ (call[t.by].pc = "settle" /\ call'[t.by].pc # "settle")
         /\ t \in ledger'.tok => ledger'.cnt[t.path] >= t.size
<1>1. IndInv /\ AreaOK /\ [Next]_vars => [Stands]_vars
  <2>. SUFFICES ASSUME IndInv, AreaOK, Next, NEW t \in ledger.tok
                PROVE  /\ t \in ledger'.tok \/ (call[t.by].pc = "settle" /\ call'[t.by].pc # "settle")
                       /\ t \in ledger'.tok => ledger'.cnt[t.path] >= t.size
    OBVIOUS
  <2>1. LedgerOK(ledger) /\ LedgerOK(ledger')
    BY NextOrOther, StepLedger, OtherArea DEF AreaOK
  <2>2. t \in ledger'.tok \/ (call[t.by].pc = "settle" /\ call'[t.by].pc # "settle")
    <3>1. CASE \E c \in Calls : Step(c)
      BY <2>1, <3>1, StepLedger DEF KeepsTokens
    <3>2. CASE ~ \E c \in Calls : Step(c)
      <4>1. ledger' = ledger
        BY <3>2, NextOrOther, OtherArea
      <4>. QED BY <4>1
    <3>. QED BY <3>1, <3>2
  <2>3. ASSUME t \in ledger'.tok PROVE ledger'.cnt[t.path] >= t.size
    <3>1. t.size <= ledger'.cnt[t.path]
      BY <2>1, <2>3 DEF LedgerOK
    <3>2. t.size \in Nat /\ ledger'.cnt[t.path] \in Nat
      BY <2>1, <2>3 DEF LedgerOK, Ledgers, Tokens
    <3>. QED BY <3>1, <3>2
  <2>. QED BY <2>2, <2>3
<1>. QED BY <1>1, Invariant, Area, PTL DEF Spec, ReservationKept

-----------------------------------------------------------------------------
(***************************************************************************)
(* A delete puts a tombstone only where the recycle bin holds what it      *)
(* takes away (deleteFile: the copy to .trash/, the second HEAD and the    *)
(* conditional replace), whatever leases ran out and however many calls    *)
(* write, restore, purge, fail or die meanwhile.                           *)
(***************************************************************************)
THEOREM NothingLost == Spec => TrashHoldsDeleted
<1>. DEFINE Held ==
       \A p \in Paths : file[p] \in Contents /\ file'[p] = Tombstone =>
         \E c \in Calls : /\ call[c].pc = "remove" /\ call[c].path = p
                          /\ \/ trash[c] = [path |-> p, content |-> file[p]]
                             \/ trash[c] = NoEntry /\ Taken(c)
<1>1. IndInv /\ [Next]_vars => [Held]_vars
  <2>. SUFFICES ASSUME IndInv, Next, NEW p \in Paths, file[p] \in Contents, file'[p] = Tombstone
                PROVE  \E c \in Calls : /\ call[c].pc = "remove" /\ call[c].path = p
                                        /\ \/ trash[c] = [path |-> p, content |-> file[p]]
                                           \/ trash[c] = NoEntry /\ Taken(c)
    OBVIOUS
  <2>1. file'[p] # file[p] /\ Tombstone \notin Contents /\ DOMAIN file = Paths
    BY NameAssumption DEF IndInv
  <2>2. PICK c \in Calls : Step(c)
    BY <2>1, NextSteps
  <2>3. Buried(c)
    BY <2>1, <2>2, StepFile DEF Filled
  <2>4. call[c].path = p /\ call[c].new = file[p]
    BY <2>1, <2>3 DEF Buried
  <2>5. Archived(c, call[c]) /\ call[c].op = "delete" /\ call[c].pc = "remove"
    BY <2>3 DEF IndInv, Buried
  <2>. QED BY <2>4, <2>5 DEF Archived
<1>. QED BY <1>1, Invariant, PTL DEF Spec, TrashHoldsDeleted

(***************************************************************************)
(* A signed upload session is only replaced by a newer one or ended by its *)
(* own commit (writePresignCommitState), whatever commits of older         *)
(* sessions were under way when it was signed.                             *)
(***************************************************************************)
THEOREM SessionsStand == Spec => SessionKept
<1>. DEFINE Stands ==
       \A p \in Paths : session[p].ses # Nobody /\ session'[p].ses # session[p].ses =>
         \/ session'[p].ses # Nobody
         \/ \E c \in Calls : call[c].pc = "record" /\ call[c].id = session[p].ses
<1>1. IndInv /\ [Next]_vars => [Stands]_vars
  <2>. SUFFICES ASSUME IndInv, Next, NEW p \in Paths, session'[p].ses # session[p].ses
                PROVE  \/ session'[p].ses # Nobody
                       \/ \E c \in Calls : call[c].pc = "record" /\ call[c].id = session[p].ses
    OBVIOUS
  <2>1. DOMAIN session = Paths /\ "ses" \in DOMAIN session[p]
    BY DEF IndInv
  <2>2. CASE \E c \in Calls : Step(c)
    <3>1. PICK c \in Calls : RecordCommit(c)
      BY <2>2, StepSession
    <3>2. session'[p] = Published(c, session[p]) /\ call[c].pc = "record"
      BY <2>1, <3>1 DEF RecordCommit
    <3>. QED BY <3>2 DEF Published
  <2>3. CASE \E s \in Sessions, q \in Paths : session' = [session EXCEPT ![q].ses = s]
    <3>1. PICK s \in Sessions, q \in Paths : session' = [session EXCEPT ![q].ses = s]
      BY <2>3
    <3>2. session'[p].ses = s
      BY <2>1, <3>1
    <3>. QED BY <3>2, NameAssumption
  <2>. QED BY <2>2, <2>3, NextSteps
<1>. QED BY <1>1, Invariant, PTL DEF Spec, SessionKept
=============================================================================
