---------------------------- MODULE AtomicCommit ----------------------------
(***************************************************************************)
(* What the commit protocol of a task's meta.json promises its users.      *)
(*                                                                         *)
(* The Controller's check of a commit and its conditional write are two    *)
(* accesses to the store, and a tool call is a loop of reads, PUTs and     *)
(* re-reads.  Seen from outside, a commit is one step: a body that carries *)
(* over the stored cancellation and that the Controller's rules allow      *)
(* replaces the stored meta.  A call answers ok with its sync confirmed    *)
(* only if its own body was stored during the call; an ok of ack_task or   *)
(* report_progress beside synced: False ("unsynced") promises nothing.     *)
(***************************************************************************)
EXTENDS TaskContract

VARIABLES
  meta,     \* the stored meta
  stored,   \* stored[m]: the call of m has stored its body
  answer    \* answer[m]: what the last call of m answered

vars == <<meta, stored, answer>>

Init ==
  /\ meta = InitMeta
  /\ stored = [m \in Members |-> FALSE]
  /\ answer = [m \in Members |-> "none"]

(***************************************************************************)
(* The body of member m is stored, for a call that still waits for it or   *)
(* for one that has been given up.                                         *)
(***************************************************************************)
Commit(m) ==
  /\ meta' \in Metas
  /\ Merge(meta', meta) = meta'
  /\ Guard(Class(m), meta, meta')
  /\ \/ stored' = [stored EXCEPT ![m] = TRUE]
     \/ UNCHANGED stored
  /\ UNCHANGED answer

(***************************************************************************)
(* The console cancels, on top of whatever is stored.                      *)
(***************************************************************************)
Cancel ==
  /\ meta' \in Metas
  /\ meta'.status = "cancelled"
  /\ UNCHANGED <<stored, answer>>

(***************************************************************************)
(* A call is repeated from its read, answers, or is followed by the next.  *)
(***************************************************************************)
Again(m) ==
  /\ stored' = [stored EXCEPT ![m] = FALSE]
  /\ UNCHANGED <<meta, answer>>

Answer(m, a) ==
  /\ a = "ok" => stored[m]
  /\ stored' = [stored EXCEPT ![m] = FALSE]
  /\ answer' = [answer EXCEPT ![m] = a]
  /\ UNCHANGED meta

Next ==
  \/ \E m \in Members : Commit(m) \/ Again(m) \/ \E a \in Answers : Answer(m, a)
  \/ Cancel

Spec == Init /\ [][Next]_vars
=============================================================================
