----------------------------- MODULE HumanFiles -----------------------------
(***************************************************************************)
(* The file area of one human: files/, the recycle bin .trash/, direct     *)
(* uploads, the per-path lease lock and the quota ledger, all of them      *)
(* objects in a store that any replica of the Controller writes.           *)
(*                                                                         *)
(* Every request is a call; its name also stands for the random values it  *)
(* draws: the owner of its leases, its token in the ledger, the id of the  *)
(* trash entry it creates.  An ETag is the MD5 of the bytes, so a          *)
(* conditional write compares contents, and so does the compare-and-swap   *)
(* of the ledger: it succeeds while the ledger equals the copy the call    *)
(* read.  Contents are not empty; a tombstone is.                          *)
(*                                                                         *)
(* A lease is live, or it is not: absent, released (a tombstone that has   *)
(* expired) and timed out are alike to whoever wants it.  The retries of a *)
(* CAS loop are not counted; a call that gives up is a StorageError.  The  *)
(* two objects of a trash entry are written and removed together, each of  *)
(* the two areas is walked at once, and a session is signed at once.       *)
(***************************************************************************)
EXTENDS Integers, FiniteSets, FiniteSetsExt

CONSTANTS
  Calls,        \* requests, each served once
  Sessions,     \* ids of upload sessions
  Paths,        \* relative paths below files/
  Contents,     \* what a file may hold
  Size,         \* Size[x]: the bytes of content x
  Old,          \* id of a trash entry from before
  OldContents,  \* bound: what file and trash entry hold at the start
  Quotas,       \* values of spec.workspaceQuotaBytes
  Unlimited,    \* the nil quota
  Ops,          \* the kinds of requests made
  Absent, Tombstone, Nobody,
  MaxOpen,      \* bound: requests served at once
  MaxExpiries,  \* bound: leases that time out while they are held
  MaxUploads,   \* bound: objects sent to a staging key
  MaxFaults     \* bound: storage errors and crashes

ASSUME SizeAssumption == Size \in [Contents -> Nat \ {0}] /\ OldContents \subseteq Contents
ASSUME QuotaAssumption == Quotas \subseteq Nat \cup {Unlimited} /\ Quotas # {}
ASSUME FiniteAssumption == IsFiniteSet(Calls) /\ IsFiniteSet(Paths)
ASSUME NameAssumption == /\ Old \notin Calls /\ Nobody \notin Calls \cup Sessions
                         /\ {Absent, Tombstone} \cap Contents = {}

VARIABLES
  file,     \* file[p]: the object files/p
  trash,    \* trash[i]: .trash/i with its recorded path
  lease,    \* lease[k]: .control/locks, for paths and trash entries
  ledger,   \* .control/quota.json
  session,  \* .control/presign-commits.json
  stage,    \* stage[s]: the object uploaded in session s; Nobody: not issued yet
  quota,    \* spec.workspaceQuotaBytes
  call,     \* the requests under way
  bounds    \* what is left of the bounds

vars == <<file, trash, lease, ledger, session, stage, quota, call, bounds>>

Ids == Calls \cup {Old}
Bytes(x) == IF x \in Contents THEN Size[x] ELSE 0
NoEntry == [path |-> Nobody, content |-> Absent]

(***************************************************************************)
(* tok holds the outstanding reservations; cnt[p] is Counted of the entry  *)
(* of p, 0 when p has none.                                                *)
(***************************************************************************)
NoLedger == [there |-> FALSE, used |-> 0, tok |-> {}, cnt |-> [p \in Paths |-> 0]]

(***************************************************************************)
(* A sum of byte counts, as the number of the bytes.                       *)
(***************************************************************************)
Total(f) == Cardinality(UNION {{k} \X (1..f[k]) : k \in DOMAIN f})

SumOfFiles == Total([p \in Paths |-> Bytes(file[p])])
SumOfTrash == Total([i \in Ids |-> Bytes(trash[i].content)])

NewCall == [op |-> "none", pc |-> "idle", path |-> Nobody, id |-> Nobody, new |-> Absent,
            seen |-> Absent, led |-> NoLedger, sum |-> 0, quota |-> Unlimited, token |-> FALSE,
            aim |-> "none", then |-> "end"]

Init ==
  /\ file \in [Paths -> OldContents \cup {Absent}]
  /\ \E x \in OldContents, p \in Paths :
       trash = [i \in Ids |-> IF i = Old THEN [path |-> p, content |-> x] ELSE NoEntry]
  /\ lease = [k \in Paths \cup Ids |-> [owner |-> Nobody, live |-> FALSE]]
  /\ ledger \in {NoLedger, [NoLedger EXCEPT !.there = TRUE, !.used = SumOfFiles + SumOfTrash]}
  /\ session = [p \in Paths |-> [ses |-> Nobody, done |-> Absent]]
  /\ stage = [s \in Sessions |-> Nobody]
  /\ quota \in Quotas
  /\ call = [c \in Calls |-> NewCall]
  /\ bounds = [expiries |-> MaxExpiries, uploads |-> MaxUploads, faults |-> MaxFaults]

-----------------------------------------------------------------------------
(***************************************************************************)
(* A request begins; authorizeHumanFile reads the quota with the human.    *)
(***************************************************************************)
CanBegin(c, op) ==
  /\ op \in Ops /\ call[c].pc = "idle"
  /\ Cardinality({d \in Calls : call[d].pc \notin {"idle", "done"}}) < MaxOpen

To(c, pc) == call' = [call EXCEPT ![c].pc = pc]

PutFile(c, p, x) ==
  /\ CanBegin(c, "put")
  /\ call' = [call EXCEPT ![c] = [NewCall EXCEPT !.op = "put", !.pc = "lock", !.path = p,
                                                 !.new = x, !.quota = quota]]
  /\ UNCHANGED <<file, trash, lease, ledger, session, stage, quota, bounds>>

DeleteFile(c, p) ==
  /\ CanBegin(c, "delete")
  /\ call' = [call EXCEPT ![c] = [NewCall EXCEPT !.op = "delete", !.pc = "lock", !.path = p, !.id = c]]
  /\ UNCHANGED <<file, trash, lease, ledger, session, stage, quota, bounds>>

OfEntry(c, op, i) ==
  /\ CanBegin(c, op)
  /\ call' = [call EXCEPT ![c] = [NewCall EXCEPT !.op = op, !.pc = "lockEntry", !.id = i]]
  /\ UNCHANGED <<file, trash, lease, ledger, session, stage, quota, bounds>>

RestoreTrash(c, i) == OfEntry(c, "restore", i)
PurgeTrash(c, i) == OfEntry(c, "purge", i)

(***************************************************************************)
(* putQuota: the resource is updated first; a quota that is set has the    *)
(* ledger created and brought up to date (reconcileQuotaLedger).           *)
(***************************************************************************)
PutQuota(c, q) ==
  /\ CanBegin(c, "quota")
  /\ quota' = q
  /\ call' = [call EXCEPT ![c] = [NewCall EXCEPT !.op = "quota", !.aim = "seed", !.quota = q,
                                   !.pc = IF q = Unlimited THEN "done" ELSE "ledger"]]
  /\ UNCHANGED <<file, trash, lease, ledger, session, stage, bounds>>

-----------------------------------------------------------------------------
(***************************************************************************)
(* The lease lock.                                                         *)
(***************************************************************************)
Owns(c, k) == lease[k] = [owner |-> c, live |-> TRUE]

(***************************************************************************)
(* The leases a Release of c still finds in the version c acquired.        *)
(***************************************************************************)
Free(c) == {k \in DOMAIN lease : lease[k].owner = c}

Acquire(c, k, pc) ==
  \/ /\ ~lease[k].live
     /\ lease' = [lease EXCEPT ![k] = [owner |-> c, live |-> TRUE]]
     /\ To(c, pc)
  \/ /\ lease[k].live
     /\ To(c, "end") /\ UNCHANGED lease

Lock(c) ==
  /\ call[c].pc = "lock"
  /\ Acquire(c, call[c].path, CASE call[c].op = "put" -> "stat"
                                [] call[c].op = "delete" -> "snapshot"
                                [] call[c].op = "restore" -> "target"
                                [] call[c].op = "commit" -> "recheck")
  /\ UNCHANGED <<file, trash, ledger, session, stage, quota, bounds>>

LockEntry(c) ==
  /\ call[c].pc = "lockEntry"
  /\ Acquire(c, call[c].id, "readEntry")
  /\ UNCHANGED <<file, trash, ledger, session, stage, quota, bounds>>

(***************************************************************************)
(* The deferred Release, and the answer.                                   *)
(***************************************************************************)
End(c) ==
  /\ call[c].pc = "end"
  /\ lease' = [k \in DOMAIN lease |-> IF k \in Free(c) THEN [owner |-> Nobody, live |-> FALSE]
                                      ELSE lease[k]]
  /\ call' = [call EXCEPT ![c] = [NewCall EXCEPT !.pc = "done", !.op = call[c].op, !.id = call[c].id]]
  /\ UNCHANGED <<file, trash, ledger, session, stage, quota, bounds>>

(***************************************************************************)
(* The TTL of a lease runs out while its holder is at work, or long after  *)
(* it died.                                                                *)
(***************************************************************************)
Expire(k) ==
  /\ lease[k].live /\ bounds.expiries > 0
  /\ lease' = [lease EXCEPT ![k].live = FALSE]
  /\ bounds' = [bounds EXCEPT !.expiries = @ - 1]
  /\ UNCHANGED <<file, trash, ledger, session, stage, quota, call>>

-----------------------------------------------------------------------------
(***************************************************************************)
(* The quota ledger.                                                       *)
(***************************************************************************)
Of(led, p) == {t \in led.tok : t.path = p}
Charge(led, p, live) == Max({live} \cup {t.size : t \in Of(led, p)})

(***************************************************************************)
(* Mutant of NotNegative: no floor.                                        *)
(***************************************************************************)
Signed(n) == n

NotNegative(n) == Max({0, n})

(***************************************************************************)
(* readQuotaLedger and what each user of the ledger does with the answer.  *)
(***************************************************************************)
ReadLedger(c) ==
  /\ call[c].pc = "ledger"
  /\ LET aim == call[c].aim
         mine == \E t \in ledger.tok : t.by = c
     IN  \/ /\ aim = "reserve" /\ ~ledger.there
            /\ To(c, IF call[c].quota = Unlimited THEN "verify" ELSE "files")
         \/ /\ aim = "seed" /\ ~ledger.there /\ To(c, "files")
         \/ /\ aim = "seed" /\ ledger.there /\ call' = [call EXCEPT ![c].aim = "sync"]
         \/ /\ aim \in {"sync", "adjust"} /\ ~ledger.there /\ To(c, call[c].then)
         \/ /\ aim \in {"reserve", "sync", "adjust"} /\ ledger.there
            /\ call' = [call EXCEPT ![c].led = ledger,
                          ![c].pc = IF aim = "sync" THEN "files" ELSE aim]
         \/ /\ aim \in {"commit", "release"} /\ mine
            /\ call' = [call EXCEPT ![c].led = ledger, ![c].pc = "live"]
         \/ /\ aim = "commit" /\ ~mine /\ call' = [call EXCEPT ![c].aim = "sync"]
         \/ /\ aim = "release" /\ ~mine /\ To(c, call[c].then)
  /\ UNCHANGED <<file, trash, lease, ledger, session, stage, quota, bounds>>

(***************************************************************************)
(* usedBytes walks files/ first and .trash/ next.                          *)
(***************************************************************************)
WalkFiles(c) ==
  /\ call[c].pc = "files"
  /\ call' = [call EXCEPT ![c].sum = SumOfFiles, ![c].pc = "trash"]
  /\ UNCHANGED <<file, trash, lease, ledger, session, stage, quota, bounds>>

WalkTrash(c) ==
  /\ call[c].pc = "trash"
  /\ call' = [call EXCEPT ![c].sum = @ + SumOfTrash,
                          ![c].pc = IF call[c].aim = "sync" THEN "sync" ELSE "create"]
  /\ UNCHANGED <<file, trash, lease, ledger, session, stage, quota, bounds>>

(***************************************************************************)
(* The reservation of c on led: a path that has an entry is charged by its *)
(* Counted, not by what the handler saw.                                   *)
(***************************************************************************)
Reserved(c, led) ==
  LET p == call[c].path
      old == IF Of(led, p) # {} THEN led.cnt[p] ELSE Bytes(call[c].seen)
      new == Max({old, Size[call[c].new]})
      next == [led EXCEPT !.there = TRUE, !.used = NotNegative(@ - old + new)]
  IN  IF call[c].quota = Unlimited THEN next
      ELSE [next EXCEPT !.tok = @ \cup {[by |-> c, path |-> p, size |-> Size[call[c].new]]},
                        !.cnt[p] = new]

Fits(c, led) == call[c].quota # Unlimited => Reserved(c, led).used <= call[c].quota

Reservation(c) == call' = [call EXCEPT ![c].pc = "verify", ![c].led = NoLedger, ![c].sum = 0,
                                       ![c].token = call[c].quota # Unlimited]

(***************************************************************************)
(* The first ledger: PutObjectIfAbsent, with the reservation in it.        *)
(***************************************************************************)
CreateLedger(c) ==
  /\ call[c].pc = "create"
  /\ LET first == [NoLedger EXCEPT !.there = TRUE, !.used = call[c].sum] IN
     \/ /\ call[c].aim = "reserve" /\ ~Fits(c, first)
        /\ To(c, "end") /\ UNCHANGED ledger
     \/ /\ call[c].aim = "reserve" /\ Fits(c, first) /\ ~ledger.there
        /\ ledger' = Reserved(c, first) /\ Reservation(c)
     \/ /\ call[c].aim = "seed" /\ ~ledger.there
        /\ ledger' = first /\ To(c, "ledger")
     \/ /\ ledger.there /\ (call[c].aim = "reserve" => Fits(c, first))
        /\ To(c, "ledger") /\ UNCHANGED ledger
  /\ UNCHANGED <<file, trash, lease, session, stage, quota, bounds>>

(***************************************************************************)
(* strictPut: the ledger of copy led becomes new, or the loop goes on.     *)
(***************************************************************************)
Swap(c, new, done) ==
  \/ ledger = call[c].led /\ ledger' = new /\ done
  \/ ledger # call[c].led /\ To(c, "ledger") /\ UNCHANGED ledger

ReserveQuota(c) ==
  /\ call[c].pc = "reserve"
  /\ \/ ~Fits(c, call[c].led) /\ To(c, "end") /\ UNCHANGED ledger
     \/ Fits(c, call[c].led) /\ Swap(c, Reserved(c, call[c].led), Reservation(c))
  /\ UNCHANGED <<file, trash, lease, session, stage, quota, bounds>>

StatLive(c) ==
  /\ call[c].pc = "live"
  /\ call' = [call EXCEPT ![c].seen = file[call[c].path], ![c].pc = "settle"]
  /\ UNCHANGED <<file, trash, lease, ledger, session, stage, quota, bounds>>

(***************************************************************************)
(* Mutant of Rest: the settled write takes the entry of its path along.    *)
(***************************************************************************)
RestWithoutPath(c) == {t \in call[c].led.tok : t.path # call[c].path}

Rest(c) == {t \in call[c].led.tok : t.by # c}

(***************************************************************************)
(* commitQuota and releaseQuota: the token goes, the path is charged by    *)
(* what it holds and what is still in flight, and the usage is synced.     *)
(***************************************************************************)
SettleQuota(c) ==
  /\ call[c].pc = "settle"
  /\ LET p == call[c].path
         left == [call[c].led EXCEPT !.tok = Rest(c)]
         count == Charge(left, p, Bytes(call[c].seen))
     IN  Swap(c, [left EXCEPT !.used = NotNegative(@ - call[c].led.cnt[p] + count),
                              !.cnt[p] = IF Of(left, p) = {} THEN 0 ELSE count],
              call' = [call EXCEPT ![c].aim = "sync", ![c].pc = "ledger", ![c].led = NoLedger])
  /\ UNCHANGED <<file, trash, lease, session, stage, quota, bounds>>

(***************************************************************************)
(* syncQuotaUsage: the walk, and for every path in flight what it is       *)
(* charged beyond what it holds now.                                       *)
(***************************************************************************)
SyncQuotaUsage(c) ==
  /\ call[c].pc = "sync"
  /\ LET led == call[c].led
         busy == {p \in Paths : Of(led, p) # {}}
         extra == Total([p \in busy |-> Charge(led, p, Bytes(file[p])) - Bytes(file[p])])
         new == [led EXCEPT !.used = NotNegative(call[c].sum + extra),
                   !.cnt = [p \in Paths |-> IF p \in busy THEN Charge(led, p, Bytes(file[p])) ELSE 0]]
         synced == call' = [call EXCEPT ![c].pc = call[c].then, ![c].led = NoLedger, ![c].sum = 0]
     IN  \/ new = led /\ synced /\ UNCHANGED ledger
         \/ new # led /\ Swap(c, new, synced)
  /\ UNCHANGED <<file, trash, lease, session, stage, quota, bounds>>

(***************************************************************************)
(* adjustQuotaLedger, after a purge and after a restore over a file.       *)
(***************************************************************************)
Removed(c) == IF call[c].op = "purge" THEN Bytes(call[c].new) ELSE Bytes(call[c].seen)

AdjustQuotaLedger(c) ==
  /\ call[c].pc = "adjust"
  /\ Swap(c, [call[c].led EXCEPT !.used = NotNegative(@ - Removed(c))], To(c, "end"))
  /\ UNCHANGED <<file, trash, lease, session, stage, quota, bounds>>

-----------------------------------------------------------------------------
(***************************************************************************)
(* Writing a file: stat, reserve, verify the lease, write, settle.  An     *)
(* If-Match that fails is answered like an error of the write.             *)
(***************************************************************************)
StatFile(c) ==
  /\ call[c].pc = "stat"
  /\ call' = [call EXCEPT ![c].seen = file[call[c].path], ![c].aim = "reserve", ![c].pc = "ledger"]
  /\ UNCHANGED <<file, trash, lease, ledger, session, stage, quota, bounds>>

(***************************************************************************)
(* The deferred releaseQuota of a call that holds a token; its steps are   *)
(* those of the settlement.                                                *)
(***************************************************************************)
Refused(c) ==
  call' = [call EXCEPT ![c].aim = "release", ![c].pc = IF call[c].token THEN "ledger" ELSE "end"]

Verify(c) ==
  /\ call[c].pc = "verify"
  /\ LET op == call[c].op IN
     IF Owns(c, call[c].path)
     THEN To(c, CASE op \in {"put", "commit"} -> "write"
                  [] op = "delete" -> "remove"
                  [] op = "restore" -> "entry")
     ELSE CASE op \in {"put", "commit"} -> Refused(c)
            [] op = "delete" -> To(c, "rollback")
            [] op = "restore" -> To(c, "end")
  /\ UNCHANGED <<file, trash, lease, ledger, session, stage, quota, bounds>>

Written(c) ==
  LET then == IF call[c].op = "commit" THEN "confirm" ELSE "end" IN
  call' = [call EXCEPT ![c].aim = "commit", ![c].then = then,
                       ![c].pc = IF call[c].token THEN "ledger" ELSE then]

WriteFile(c) ==
  /\ call[c].pc = "write"
  /\ \/ file' = [file EXCEPT ![call[c].path] = call[c].new] /\ Written(c)
     \/ call[c].op = "put" /\ Refused(c) /\ UNCHANGED file
  /\ UNCHANGED <<trash, lease, ledger, session, stage, quota, bounds>>

-----------------------------------------------------------------------------
(***************************************************************************)
(* Soft delete: archive what was read, look again, then replace exactly    *)
(* that version by a tombstone.                                            *)
(***************************************************************************)
Snapshot(c) ==
  /\ call[c].pc = "snapshot"
  /\ LET x == file[call[c].path] IN
       call' = [call EXCEPT ![c].new = x, ![c].pc = IF x \in Contents THEN "archive" ELSE "end"]
  /\ UNCHANGED <<file, trash, lease, ledger, session, stage, quota, bounds>>

Archive(c) ==
  /\ call[c].pc = "archive"
  /\ trash' = [trash EXCEPT ![c] = [path |-> call[c].path, content |-> call[c].new]]
  /\ To(c, "look")
  /\ UNCHANGED <<file, lease, ledger, session, stage, quota, bounds>>

Look(c) ==
  /\ call[c].pc = "look"
  /\ LET x == file[call[c].path] IN
       To(c, CASE x = Absent -> "end" [] x = call[c].new -> "verify" [] OTHER -> "rollback")
  /\ UNCHANGED <<file, trash, lease, ledger, session, stage, quota, bounds>>

(***************************************************************************)
(* Mutant of RemoveFile: whatever is there is removed.                     *)
(***************************************************************************)
RemoveFileBlind(c) ==
  /\ call[c].pc = "remove"
  /\ file' = [file EXCEPT ![call[c].path] = Tombstone] /\ To(c, "end")
  /\ UNCHANGED <<trash, lease, ledger, session, stage, quota, bounds>>

RemoveFile(c) ==
  /\ call[c].pc = "remove"
  /\ \/ /\ file[call[c].path] = call[c].new
        /\ file' = [file EXCEPT ![call[c].path] = Tombstone] /\ To(c, "end")
     \/ /\ file[call[c].path] # call[c].new
        /\ To(c, "rollback") /\ UNCHANGED file
  /\ UNCHANGED <<trash, lease, ledger, session, stage, quota, bounds>>

Rollback(c) ==
  /\ call[c].pc = "rollback"
  /\ trash' = [trash EXCEPT ![c] = NoEntry]
  /\ To(c, "end")
  /\ UNCHANGED <<file, lease, ledger, session, stage, quota, bounds>>

-----------------------------------------------------------------------------
(***************************************************************************)
(* Restore and purge of a trash entry, under the lease of the entry; the   *)
(* restore takes the lease of the path as well.                            *)
(***************************************************************************)
ReadEntry(c) ==
  /\ call[c].pc = "readEntry"
  /\ LET e == trash[call[c].id] IN
       call' = [call EXCEPT ![c].path = e.path, ![c].new = e.content,
                  ![c].pc = IF e = NoEntry THEN "end"
                            ELSE IF call[c].op = "purge" THEN "entry" ELSE "lock"]
  /\ UNCHANGED <<file, trash, lease, ledger, session, stage, quota, bounds>>

(***************************************************************************)
(* The target of a restore; only an admin may write over a file.           *)
(***************************************************************************)
StatTarget(c) ==
  /\ call[c].pc = "target"
  /\ LET x == file[call[c].path] IN
       \E overwrite \in BOOLEAN :
         call' = [call EXCEPT ![c].seen = x,
                    ![c].pc = IF x \in Contents /\ ~overwrite THEN "end" ELSE "verify"]
  /\ UNCHANGED <<file, trash, lease, ledger, session, stage, quota, bounds>>

(***************************************************************************)
(* The recheck at the commit boundary: the entry is there and its lease is *)
(* still ours.                                                             *)
(***************************************************************************)
CheckEntry(c) ==
  /\ call[c].pc = "entry"
  /\ To(c, IF trash[call[c].id] = NoEntry \/ ~Owns(c, call[c].id) THEN "end"
           ELSE IF call[c].op = "purge" THEN "purge"
           ELSE IF call[c].seen \in Contents THEN "restat" ELSE "putBack")
  /\ UNCHANGED <<file, trash, lease, ledger, session, stage, quota, bounds>>

(***************************************************************************)
(* Onto nothing or onto a tombstone: a conditional write.                  *)
(***************************************************************************)
PutBack(c) ==
  /\ call[c].pc = "putBack"
  /\ \/ /\ file[call[c].path] = call[c].seen
        /\ file' = [file EXCEPT ![call[c].path] = call[c].new] /\ To(c, "fence")
     \/ /\ file[call[c].path] # call[c].seen
        /\ To(c, "end") /\ UNCHANGED file
  /\ UNCHANGED <<trash, lease, ledger, session, stage, quota, bounds>>

(***************************************************************************)
(* Onto a file: one more look, and a plain write.                          *)
(***************************************************************************)
RestatTarget(c) ==
  /\ call[c].pc = "restat"
  /\ To(c, IF file[call[c].path] \in {call[c].seen, Absent} THEN "overwrite" ELSE "end")
  /\ UNCHANGED <<file, trash, lease, ledger, session, stage, quota, bounds>>

Overwrite(c) ==
  /\ call[c].pc = "overwrite"
  /\ file' = [file EXCEPT ![call[c].path] = call[c].new]
  /\ To(c, "fence")
  /\ UNCHANGED <<trash, lease, ledger, session, stage, quota, bounds>>

(***************************************************************************)
(* The fence of the accounting: the ledger is adjusted only while the      *)
(* lease of the entry is held.  A restore checks before it removes the     *)
(* entry, a purge afterwards.                                              *)
(***************************************************************************)
Fence(c) ==
  /\ call[c].pc = "fence"
  /\ LET adjust == Owns(c, call[c].id) /\ Removed(c) > 0 IN
       call' = [call EXCEPT ![c].aim = "adjust", ![c].token = adjust,
                  ![c].pc = IF call[c].op = "restore" THEN "unlink"
                            ELSE IF adjust THEN "ledger" ELSE "end"]
  /\ UNCHANGED <<file, trash, lease, ledger, session, stage, quota, bounds>>

UnlinkEntry(c) ==
  /\ call[c].pc = "unlink"
  /\ trash' = [trash EXCEPT ![call[c].id] = NoEntry]
  /\ To(c, IF call[c].token THEN "ledger" ELSE "end")
  /\ UNCHANGED <<file, lease, ledger, session, stage, quota, bounds>>

DeletePrefix(c) ==
  /\ call[c].pc = "purge"
  /\ trash' = [trash EXCEPT ![call[c].id] = NoEntry]
  /\ To(c, "fence")
  /\ UNCHANGED <<file, lease, ledger, session, stage, quota, bounds>>

-----------------------------------------------------------------------------
(***************************************************************************)
(* Direct uploads: presign records a session for the path, the client      *)
(* uploads to the staging key, commit publishes what it finds there.       *)
(***************************************************************************)
PresignUpload(s, p) ==
  /\ "presign" \in Ops /\ stage[s] = Nobody
  /\ quota # Unlimited =>
       (IF ledger.there THEN ledger.used ELSE SumOfFiles + SumOfTrash) < quota
  /\ session' = [session EXCEPT ![p].ses = s]
  /\ stage' = [stage EXCEPT ![s] = Absent]
  /\ UNCHANGED <<file, trash, lease, ledger, quota, call, bounds>>

Upload(s, x) ==
  /\ stage[s] # Nobody /\ bounds.uploads > 0
  /\ stage' = [stage EXCEPT ![s] = x]
  /\ bounds' = [bounds EXCEPT !.uploads = @ - 1]
  /\ UNCHANGED <<file, trash, lease, ledger, session, quota, call>>

(***************************************************************************)
(* Without a session the commit is a retry, which changes nothing.         *)
(***************************************************************************)
CommitPresigned(c, p) ==
  /\ CanBegin(c, "commit")
  /\ LET s == session[p].ses IN
       call' = [call EXCEPT ![c] = [NewCall EXCEPT !.op = "commit", !.path = p, !.id = s,
                  !.quota = quota,
                  !.pc = IF s = Nobody \/ (s # Nobody /\ stage[s] = Absent) THEN "done" ELSE "lock"]]
  /\ UNCHANGED <<file, trash, lease, ledger, session, stage, quota, bounds>>

RecheckSession(c) ==
  /\ call[c].pc = "recheck"
  /\ LET x == stage[call[c].id] IN
       IF session[call[c].path].ses = call[c].id /\ x \in Contents
       THEN call' = [call EXCEPT ![c].new = x, ![c].pc = "stat"]
       ELSE To(c, "end")
  /\ UNCHANGED <<file, trash, lease, ledger, session, stage, quota, bounds>>

Confirm(c) ==
  /\ call[c].pc = "confirm"
  /\ IF file[call[c].path] = call[c].new
     THEN stage' = [stage EXCEPT ![call[c].id] = Absent] /\ To(c, "record")
     ELSE To(c, "end") /\ UNCHANGED stage
  /\ UNCHANGED <<file, trash, lease, ledger, session, quota, bounds>>

(***************************************************************************)
(* Mutant of Published: the entry is replaced whatever it holds.           *)
(***************************************************************************)
PublishedBlind(c, e) == [ses |-> Nobody, done |-> call[c].new]

(***************************************************************************)
(* writePresignCommitState of a commit: a newer session is kept.           *)
(***************************************************************************)
Published(c, e) == [ses |-> IF e.ses = call[c].id THEN Nobody ELSE e.ses, done |-> call[c].new]

RecordCommit(c) ==
  /\ call[c].pc = "record"
  /\ session' = [session EXCEPT ![call[c].path] = Published(c, @)]
  /\ To(c, "end")
  /\ UNCHANGED <<file, trash, lease, ledger, stage, quota, bounds>>

-----------------------------------------------------------------------------
(***************************************************************************)
(* Errors.  A step whose object could not be read or written ends the call *)
(* by the cleanup of its handler; the object of a failed write may be      *)
(* there all the same.  A restore that cannot check its lease takes it for *)
(* lost and removes the entry nevertheless.                                *)
(***************************************************************************)
Spend == /\ bounds.faults > 0
         /\ bounds' = [bounds EXCEPT !.faults = @ - 1]

Active(c) == call[c].pc \notin {"idle", "done"}

Failed(c) ==
  LET pc == call[c].pc IN
  IF pc = "write" \/ (pc = "verify" /\ call[c].op \in {"put", "commit"}) THEN Refused(c)
  ELSE IF pc \in {"look", "remove"} \/ (pc = "verify" /\ call[c].op = "delete") THEN To(c, "rollback")
  ELSE IF pc = "unlink" /\ call[c].token THEN To(c, "ledger")
  ELSE IF pc = "fence" /\ call[c].op = "restore"
       THEN call' = [call EXCEPT ![c].aim = "adjust", ![c].token = FALSE, ![c].pc = "unlink"]
  ELSE IF pc = "confirm" /\ file[call[c].path] = call[c].new THEN To(c, "end") \/ To(c, "record")
  ELSE IF call[c].aim \in {"commit", "sync"} THEN To(c, call[c].then)
  ELSE To(c, "end")

StorageError(c) ==
  /\ Active(c) /\ call[c].pc # "end" /\ Spend
  /\ Failed(c)
  /\ UNCHANGED <<file, trash, lease, ledger, session, stage, quota>>

Landed(c) ==
  /\ Spend /\ Failed(c)
  /\ \/ call[c].pc \in {"write", "overwrite"} /\ file' = [file EXCEPT ![call[c].path] = call[c].new]
     \/ /\ call[c].pc = "remove" /\ file[call[c].path] = call[c].new
        /\ file' = [file EXCEPT ![call[c].path] = Tombstone]
     \/ /\ call[c].pc = "putBack" /\ file[call[c].path] = call[c].seen
        /\ file' = [file EXCEPT ![call[c].path] = call[c].new]
  /\ UNCHANGED <<trash, lease, ledger, session, stage, quota>>

(***************************************************************************)
(* The replica dies, or the client goes away and the context with it: the  *)
(* call ends where it is, and its leases and its token stay.               *)
(***************************************************************************)
Crash(c) ==
  /\ Active(c) /\ Spend
  /\ call' = [call EXCEPT ![c] = [NewCall EXCEPT !.pc = "done", !.op = call[c].op, !.id = call[c].id]]
  /\ UNCHANGED <<file, trash, lease, ledger, session, stage, quota>>

-----------------------------------------------------------------------------
Begin(c) ==
  \/ \E p \in Paths, x \in Contents : PutFile(c, p, x)
  \/ \E p \in Paths : DeleteFile(c, p) \/ CommitPresigned(c, p)
  \/ \E i \in Ids : RestoreTrash(c, i) \/ PurgeTrash(c, i)
  \/ \E q \in Quotas : PutQuota(c, q)

Work(c) ==
  \/ Lock(c) \/ LockEntry(c) \/ Verify(c) \/ End(c)
  \/ ReadLedger(c) \/ WalkFiles(c) \/ WalkTrash(c) \/ CreateLedger(c) \/ ReserveQuota(c)
  \/ StatLive(c) \/ SettleQuota(c) \/ SyncQuotaUsage(c) \/ AdjustQuotaLedger(c)
  \/ StatFile(c) \/ WriteFile(c)
  \/ Snapshot(c) \/ Archive(c) \/ Look(c) \/ RemoveFile(c) \/ Rollback(c)
  \/ ReadEntry(c) \/ StatTarget(c) \/ CheckEntry(c) \/ PutBack(c) \/ RestatTarget(c)
  \/ Overwrite(c) \/ Fence(c) \/ UnlinkEntry(c) \/ DeletePrefix(c)
  \/ RecheckSession(c) \/ Confirm(c) \/ RecordCommit(c)

Next ==
  \/ \E c \in Calls : Begin(c) \/ Work(c) \/ StorageError(c) \/ Landed(c) \/ Crash(c)
  \/ \E s \in Sessions : (\E p \in Paths : PresignUpload(s, p)) \/ (\E x \in Contents : Upload(s, x))
  \/ \E k \in DOMAIN lease : Expire(k)

Spec == Init /\ [][Next]_vars

-----------------------------------------------------------------------------
(***************************************************************************)
(* Types.  The part that can fail is that the usage is never negative (I5):*)
(* a purge and a restore subtract what a sync may have left out already.   *)
(***************************************************************************)
TypeOK ==
  /\ file \in [Paths -> Contents \cup {Absent, Tombstone}]
  /\ \A i \in Ids : trash[i] = NoEntry \/ trash[i] \in [path : Paths, content : Contents]
  /\ lease \in [Paths \cup Ids -> [owner : Calls \cup {Nobody}, live : BOOLEAN]]
  /\ ledger.used \in Nat /\ ledger.cnt \in [Paths -> Nat]
  /\ ledger.tok \subseteq [by : Calls, path : Paths, size : Nat]
  /\ session \in [Paths -> [ses : Sessions \cup {Nobody}, done : Contents \cup {Absent}]]
  /\ stage \in [Sessions -> Contents \cup {Absent, Nobody}]
  /\ quota \in Quotas

(***************************************************************************)
(* I2 and I3 of the ledger: while a write is on its way its reservation is *)
(* in the ledger, and its path is charged for the largest one, whoever     *)
(* else reserves, settles, syncs or adjusts; nobody else removes a token.  *)
(***************************************************************************)
ReservationKept ==
  [][\A t \in ledger.tok :
       /\ t \in ledger'.tok \/ (call[t.by].pc = "settle" /\ call'[t.by].pc # "settle")
       /\ t \in ledger'.tok => ledger'.cnt[t.path] >= t.size]_vars

(***************************************************************************)
(* A delete puts a tombstone only in place of what its trash entry holds,  *)
(* whoever wrote the path since it was read and whether or not its lease   *)
(* is still live; unless the entry was restored or purged meanwhile.       *)
(***************************************************************************)
Taken(i) == \E d \in Calls : call[d].op \in {"restore", "purge"} /\ call[d].id = i

TrashHoldsDeleted ==
  [][\A p \in Paths : file[p] \in Contents /\ file'[p] = Tombstone =>
       \E c \in Calls : /\ call[c].pc = "remove" /\ call[c].path = p
                        /\ \/ trash[c] = [path |-> p, content |-> file[p]]
                           \/ trash[c] = NoEntry /\ Taken(c)]_vars

(***************************************************************************)
(* An upload session that was signed stays committable until its own       *)
(* commit is recorded or a newer one takes its place: a commit of an older *)
(* session that was under way when it was signed does not erase it.        *)
(***************************************************************************)
SessionKept ==
  [][\A p \in Paths : session[p].ses # Nobody /\ session'[p].ses # session[p].ses =>
       \/ session'[p].ses # Nobody
       \/ \E c \in Calls : call[c].pc = "record" /\ call[c].id = session[p].ses]_vars
=============================================================================
