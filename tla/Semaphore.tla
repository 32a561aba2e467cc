------------------------------ MODULE Semaphore ------------------------------
(***************************************************************************)
(* The Go-derived semaphore of src/unnamed/part_003: an atomic uint32     *)
(* value (permits), an atomic nwait (threads past the slow-path           *)
(* increment), a spinlock and a waiter queue.                              *)
(*                                                                         *)
(* Each thread repeatedly calls semaphore_acquire or semaphore_release    *)
(* (a counted semaphore, as behind the WaitHandle internal calls).  An    *)
(* atomic load, a compare-exchange, a fetch-add and a lock acquire are   *)
(* separate steps; steps under the spinlock that no lock-free reader can *)
(* tell apart are merged.                                                 *)
(*                                                                         *)
(* semaphore_queue reads semaphore->waiters->ticket (or ->wait_tail)      *)
(* without a NULL check, and waiters starts NULL: the first enqueue       *)
(* faults while holding the spinlock.  Dequeue, park, wake and ticket     *)
(* handoff are reachable only after a successful enqueue and so are not  *)
(* steps of this model.                                                   *)
(***************************************************************************)
EXTENDS Integers, FiniteSets

CONSTANTS
  Threads,      \* threads using the semaphore
  InitValue,    \* permits the semaphore is created with
  MaxOps,       \* bound on completed acquires plus started releases
  UINT32,       \* modulus of the uint32 counters (2^32 in the code; TLC's
                \* own integers are 32-bit signed, so a run uses a smaller
                \* power of two: wrap-around happens at 0 and at UINT32)
  NULL

ASSUME InitValue \in Nat /\ MaxOps \in Nat /\ InitValue + MaxOps < UINT32

VARIABLES
  value, nwait, lock,  \* semaphore_t
  pc,                  \* where each thread is in acquire / release
  v,                   \* each thread's local copy of value (the CAS operand)
  acquired, released   \* history: completed acquires, started releases

vars == <<value, nwait, lock, pc, v, acquired, released>>

Pcs == {"idle", "fast_load", "fast_cas", "lock", "recheck_load", "recheck_cas",
        "unwait", "queue", "faulted", "rel_load", "rel_lock"}

Init ==
  /\ value = InitValue
  /\ nwait = 0
  /\ lock = NULL
  /\ pc = [t \in Threads |-> "idle"]
  /\ v = [t \in Threads |-> 0]
  /\ acquired = 0
  /\ released = 0

Goto(t, l) == pc' = [pc EXCEPT ![t] = l]

-----------------------------------------------------------------------------
(* semaphore_acquire                                                       *)

\* a thread calls semaphore_acquire
call_acquire(t) ==
  /\ pc[t] = "idle"
  /\ acquired + released < MaxOps
  /\ Goto(t, "fast_load")
  /\ UNCHANGED <<value, nwait, lock, v, acquired, released>>

\* mutant: the load of semaphore_can_acquire does not return false on 0
fast_load_no_zero_check(t) ==
  /\ pc[t] = "fast_load"
  /\ Goto(t, "fast_cas") /\ v' = [v EXCEPT ![t] = value]
  /\ UNCHANGED <<value, nwait, lock, acquired, released>>

\* semaphore_can_acquire, load: return false on 0 (the slow path follows)
fast_load(t) ==
  /\ pc[t] = "fast_load"
  /\ IF value = 0 THEN Goto(t, "lock") /\ UNCHANGED v
                  ELSE Goto(t, "fast_cas") /\ v' = [v EXCEPT ![t] = value]
  /\ UNCHANGED <<value, nwait, lock, acquired, released>>

\* semaphore_can_acquire, compare-exchange v -> v-1; retry on failure;
\* success returns from semaphore_acquire
fast_cas(t) ==
  /\ pc[t] = "fast_cas"
  /\ IF value = v[t]
       THEN /\ value' = (v[t] - 1) % UINT32
            /\ acquired' = acquired + 1
            /\ Goto(t, "idle")
       ELSE Goto(t, "fast_load") /\ UNCHANGED <<value, acquired>>
  /\ UNCHANGED <<nwait, lock, v, released>>

\* spinlock_lock, then nwait += 1 (both before anyone else takes the lock)
lock_inc(t) ==
  /\ pc[t] = "lock"
  /\ lock = NULL
  /\ lock' = t
  /\ nwait' = nwait + 1
  /\ Goto(t, "recheck_load")
  /\ UNCHANGED <<value, v, acquired, released>>

\* the second semaphore_can_acquire, under the lock
recheck_load(t) ==
  /\ pc[t] = "recheck_load"
  /\ IF value = 0 THEN Goto(t, "queue") /\ UNCHANGED v
                  ELSE Goto(t, "recheck_cas") /\ v' = [v EXCEPT ![t] = value]
  /\ UNCHANGED <<value, nwait, lock, acquired, released>>

recheck_cas(t) ==
  /\ pc[t] = "recheck_cas"
  /\ IF value = v[t]
       THEN /\ value' = (v[t] - 1) % UINT32
            /\ acquired' = acquired + 1
            /\ Goto(t, "unwait")
       ELSE Goto(t, "recheck_load") /\ UNCHANGED <<value, acquired>>
  /\ UNCHANGED <<nwait, lock, v, released>>

\* nwait -= 1, spinlock_unlock, break and return
unwait(t) ==
  /\ pc[t] = "unwait"
  /\ nwait' = nwait - 1
  /\ lock' = NULL
  /\ Goto(t, "idle")
  /\ UNCHANGED <<value, v, acquired, released>>

\* semaphore_queue with waiters = NULL: t->ticket (LIFO) or t->wait_tail
\* (FIFO) reads through NULL; the thread faults holding the spinlock
semaphore_queue(t) ==
  /\ pc[t] = "queue"
  /\ Goto(t, "faulted")
  /\ UNCHANGED <<value, nwait, lock, v, acquired, released>>

-----------------------------------------------------------------------------
(* semaphore_release                                                       *)

\* a thread calls semaphore_release: value += 1 first
call_release(t) ==
  /\ pc[t] = "idle"
  /\ acquired + released < MaxOps
  /\ value' = (value + 1) % UINT32
  /\ released' = released + 1
  /\ Goto(t, "rel_load")
  /\ UNCHANGED <<nwait, lock, v, acquired>>

\* the easy case: no waiters, return
rel_load(t) ==
  /\ pc[t] = "rel_load"
  /\ Goto(t, IF nwait = 0 THEN "idle" ELSE "rel_lock")
  /\ UNCHANGED <<value, nwait, lock, v, acquired, released>>

\* mutant: no re-check of nwait under the lock; a waiter is dequeued
\* and nwait decremented
rel_lock_no_recheck(t) ==
  /\ pc[t] = "rel_lock"
  /\ lock = NULL
  /\ nwait' = nwait - 1
  /\ Goto(t, "idle")
  /\ UNCHANGED <<value, lock, v, acquired, released>>

\* spinlock_lock and the re-check of nwait under it; nwait = 0 means the
\* permit was consumed by the thread that had raised it: unlock, return.
\* (nwait > 0 here would need a queued waiter, which never exists.)
rel_lock(t) ==
  /\ pc[t] = "rel_lock"
  /\ lock = NULL
  /\ nwait = 0
  /\ Goto(t, "idle")
  /\ UNCHANGED <<value, nwait, lock, v, acquired, released>>

Next ==
  \E t \in Threads :
    \/ call_acquire(t) \/ fast_load(t) \/ fast_cas(t) \/ lock_inc(t)
    \/ recheck_load(t) \/ recheck_cas(t) \/ unwait(t) \/ semaphore_queue(t)
    \/ call_release(t) \/ rel_load(t) \/ rel_lock(t)

Spec == Init /\ [][Next]_vars

-----------------------------------------------------------------------------
(* Properties.                                                             *)

TypeOK ==
  /\ value \in 0..(UINT32 - 1)
  /\ nwait \in Nat
  /\ lock \in Threads \cup {NULL}
  /\ pc \in [Threads -> Pcs]
  /\ v \in [Threads -> 0..(UINT32 - 1)]
  /\ acquired \in Nat /\ released \in Nat

(* Spec 8.4: an acquire completes only against a permit: the initial     *)
(* ones or a release that has already added to value.  The load and the  *)
(* compare-exchange of semaphore_can_acquire are separate steps that     *)
(* other threads' acquires and releases interleave with.                  *)
NoAcquireWithoutPermit ==
  /\ acquired <= InitValue + released
  /\ value = InitValue + released - acquired

(* Spec 7: the semaphore cannot fail.  Violated: an acquire that finds no *)
(* permit reaches semaphore_queue with an empty waiter list.              *)
NoThreadFaults == \A t \in Threads : pc[t] # "faulted"
=============================================================================
