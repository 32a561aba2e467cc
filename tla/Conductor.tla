------------------------------ MODULE Conductor ------------------------------
(***************************************************************************)
(* The GC conductor of src/unnamed/part_002 (lines 311-411): the flag     *)
(* m_gc_running, the mutex m_gc_mutex and the condition variables         *)
(* m_gc_wake and m_gc_done, used by the GC thread (gc_thread), the boot   *)
(* thread (init_gc) and mutators (gc_wake, gc_wait).                       *)
(*                                                                         *)
(* conditional_wait / _signal / _broadcast and mutex_lock are not in the  *)
(* repository; they are modelled as a Mesa condition variable over a      *)
(* mutex: a wait releases the mutex and joins the wait set in one step,   *)
(* a signal moves one waiter (if any) out, a broadcast all, a waiter may *)
(* also wake spuriously, and a woken waiter reacquires the mutex before  *)
(* its wait returns.  A step that reacquires, tests m_gc_running and     *)
(* releases the mutex is one step; a re-test that waits again is split   *)
(* from the wait only for the GC thread, whose flag gc_wake writes       *)
(* without the mutex (a mutator's re-wait gives the same result either  *)
(* way).  A collection cycle is one step.                                *)
(***************************************************************************)
EXTENDS Naturals, Sequences

CONSTANTS
  Mutators,     \* threads calling gc_wake / gc_wait
  GC,           \* the thread init_gc creates ("kernel/gc")
  Boot,         \* the thread running init_gc
  Calls,        \* the entry points the mutators use: "gc_wake", "gc_wait"
  MaxCalls,     \* bound on the calls of each mutator
  NULL

ASSUME Calls \subseteq {"gc_wake", "gc_wait"} /\ MaxCalls \in Nat

Threads == Mutators \cup {GC, Boot}

VARIABLES
  m_gc_running,
  owner,        \* holder of m_gc_mutex, or NULL
  wake_waiters, \* threads in conditional_wait(&m_gc_wake)
  done_waiters, \* threads in conditional_wait(&m_gc_done)
  pc,
  calls,        \* calls begun by each mutator
  cycles,       \* history: collection cycles completed
  nexts,        \* history: gc_conductor_next broadcasts made
  stamp         \* history: [cycles, nexts] when a mutator's call began

vars == <<m_gc_running, owner, wake_waiters, done_waiters, pc, calls, cycles, nexts,
          stamp>>

\* where a thread resumes when it leaves the wait it sits in at pc l
Resume(l) == "re_" \o l

Init ==
  /\ m_gc_running = TRUE
  /\ owner = NULL
  /\ wake_waiters = {}
  /\ done_waiters = {}
  /\ pc = [t \in Threads |-> CASE t = GC   -> "unborn"
                               [] t = Boot -> "i_create"
                               [] OTHER    -> "idle"]
  /\ calls = [m \in Mutators |-> 0]
  /\ cycles = 0
  /\ nexts = 0
  /\ stamp = [m \in Mutators |-> [cycles |-> 0, nexts |-> 0]]

\* the threads of S leave their wait and resume
Wake(S) == [t \in Threads |-> IF t \in S THEN Resume(pc[t]) ELSE pc[t]]

\* conditional_signal(&m_gc_wake) by t, which continues at l: at most one
\* waiter resumes
SignalWake(t, l) ==
  \/ /\ wake_waiters = {}
     /\ UNCHANGED wake_waiters
     /\ pc' = [pc EXCEPT ![t] = l]
  \/ \E w \in wake_waiters :
       /\ wake_waiters' = wake_waiters \ {w}
       /\ pc' = [Wake({w}) EXCEPT ![t] = l]

\* mutex_lock by a thread at pc `from`, which continues at `to`
Acquire(t, from, to) ==
  /\ pc[t] = from
  /\ owner = NULL
  /\ owner' = t
  /\ pc' = [pc EXCEPT ![t] = to]

-----------------------------------------------------------------------------
(* gc_thread                                                               *)

gc_lock ==
  /\ Acquire(GC, "lock", "next")
  /\ UNCHANGED <<m_gc_running, wake_waiters, done_waiters, calls, cycles, nexts, stamp>>

\* gc_conductor_next: m_gc_running = false; conditional_broadcast(&m_gc_done)
gc_conductor_next ==
  /\ pc[GC] = "next"
  /\ m_gc_running' = FALSE
  /\ done_waiters' = {}
  /\ nexts' = nexts + 1
  /\ pc' = [Wake(done_waiters) EXCEPT ![GC] = "next_wait"]
  /\ UNCHANGED <<owner, wake_waiters, calls, cycles, stamp>>

\* the do-while's conditional_wait(&m_gc_wake): the first one is
\* unconditional, later ones follow a test of !m_gc_running
gc_next_wait ==
  /\ pc[GC] = "next_wait"
  /\ owner' = NULL
  /\ wake_waiters' = wake_waiters \cup {GC}
  /\ pc' = [pc EXCEPT ![GC] = "wake_wait"]
  /\ UNCHANGED <<m_gc_running, done_waiters, calls, cycles, nexts, stamp>>

\* the wait returns with the mutex: if m_gc_running, mutex_unlock and go
\* collect; else loop back to the wait, still holding the mutex (gc_wake,
\* which takes no mutex, can run between this test and that wait)
gc_rewait ==
  /\ pc[GC] = Resume("wake_wait")
  /\ owner = NULL
  /\ IF m_gc_running
       THEN pc' = [pc EXCEPT ![GC] = "collect"] /\ UNCHANGED owner
       ELSE owner' = GC /\ pc' = [pc EXCEPT ![GC] = "next_wait"]
  /\ UNCHANGED <<m_gc_running, wake_waiters, done_waiters, calls, cycles, nexts, stamp>>

\* gc_collection_cycle, then back to the top of the loop
gc_collect ==
  /\ pc[GC] = "collect"
  /\ cycles' = cycles + 1
  /\ pc' = [pc EXCEPT ![GC] = "lock"]
  /\ UNCHANGED <<m_gc_running, owner, wake_waiters, done_waiters, calls, nexts, stamp>>

-----------------------------------------------------------------------------
(* init_gc: after readying the GC thread, gc_conductor_wait under the     *)
(* mutex                                                                   *)

\* create_thread(gc_thread) and scheduler_ready_thread: the GC thread
\* starts at the top of its loop
init_create ==
  /\ pc[Boot] = "i_create"
  /\ pc' = [pc EXCEPT ![Boot] = "i_lock", ![GC] = "lock"]
  /\ UNCHANGED <<m_gc_running, owner, wake_waiters, done_waiters, calls, cycles, nexts, stamp>>

\* CHECK(thread != NULL) fails: init_gc returns an error without a GC
\* thread and without waiting
init_create_fails ==
  /\ pc[Boot] = "i_create"
  /\ pc' = [pc EXCEPT ![Boot] = "i_error"]
  /\ UNCHANGED <<m_gc_running, owner, wake_waiters, done_waiters, calls, cycles, nexts, stamp>>

init_lock ==
  /\ Acquire(Boot, "i_lock", "i_wait")
  /\ UNCHANGED <<m_gc_running, wake_waiters, done_waiters, calls, cycles, nexts, stamp>>

\* do { conditional_wait(&m_gc_done) } ...: the first wait is unconditional
init_wait ==
  /\ pc[Boot] = "i_wait"
  /\ owner' = NULL
  /\ done_waiters' = done_waiters \cup {Boot}
  /\ pc' = [pc EXCEPT ![Boot] = "i_done_wait"]
  /\ UNCHANGED <<m_gc_running, wake_waiters, calls, cycles, nexts, stamp>>

\* ... while (m_gc_running); then mutex_unlock and return
init_rewait ==
  /\ pc[Boot] = Resume("i_done_wait")
  /\ owner = NULL
  /\ IF m_gc_running
       THEN /\ done_waiters' = done_waiters \cup {Boot}
            /\ pc' = [pc EXCEPT ![Boot] = "i_done_wait"]
       ELSE pc' = [pc EXCEPT ![Boot] = "i_done"] /\ UNCHANGED done_waiters
  /\ UNCHANGED <<m_gc_running, owner, wake_waiters, calls, cycles, nexts, stamp>>
-----------------------------------------------------------------------------
(* Mutators: gc_wake and gc_wait, called once init_gc has returned        *)

\* a mutator enters gc_wake or gc_wait
call(m, f) ==
  /\ pc[m] = "idle"
  /\ pc[Boot] = "i_done"
  /\ f \in Calls
  /\ calls[m] < MaxCalls
  /\ calls' = [calls EXCEPT ![m] = @ + 1]
  /\ stamp' = [stamp EXCEPT ![m] = [cycles |-> cycles, nexts |-> nexts]]
  /\ pc' = [pc EXCEPT ![m] = IF f = "gc_wake" THEN "k_read" ELSE "w_lock"]
  /\ UNCHANGED <<m_gc_running, owner, wake_waiters, done_waiters, cycles, nexts>>

\* gc_wake -> gc_conductor_wake without the mutex: read m_gc_running,
\* return if set
wake_read(m) ==
  /\ pc[m] = "k_read"
  /\ pc' = [pc EXCEPT ![m] = IF m_gc_running THEN "idle" ELSE "k_set"]
  /\ UNCHANGED <<m_gc_running, owner, wake_waiters, done_waiters, calls, cycles, nexts, stamp>>

\* m_gc_running = true
wake_set(m) ==
  /\ pc[m] = "k_set"
  /\ m_gc_running' = TRUE
  /\ pc' = [pc EXCEPT ![m] = "k_signal"]
  /\ UNCHANGED <<owner, wake_waiters, done_waiters, calls, cycles, nexts, stamp>>

\* conditional_signal(&m_gc_wake), then return
wake_signal(m) ==
  /\ pc[m] = "k_signal"
  /\ SignalWake(m, "idle")
  /\ UNCHANGED <<m_gc_running, owner, done_waiters, calls, cycles, nexts, stamp>>

\* gc_wait: mutex_lock
wait_lock(m) ==
  /\ Acquire(m, "w_lock", "w_wake")
  /\ UNCHANGED <<m_gc_running, wake_waiters, done_waiters, calls, cycles, nexts, stamp>>

\* gc_conductor_wake under the mutex (if !m_gc_running: set it, signal
\* m_gc_wake), then gc_conductor_wait's first, unconditional wait
wait_wake(m) ==
  /\ pc[m] = "w_wake"
  /\ IF m_gc_running
       THEN /\ pc' = [pc EXCEPT ![m] = "w_done_wait"]
            /\ UNCHANGED <<m_gc_running, wake_waiters>>
       ELSE /\ m_gc_running' = TRUE
            /\ SignalWake(m, "w_done_wait")
  /\ owner' = NULL
  /\ done_waiters' = done_waiters \cup {m}
  /\ UNCHANGED <<calls, cycles, nexts, stamp>>

\* mutant: the wait returns on any wake-up, without re-testing m_gc_running
wait_rewait_once(m) ==
  /\ pc[m] = Resume("w_done_wait")
  /\ owner = NULL
  /\ pc' = [pc EXCEPT ![m] = "idle"]
  /\ UNCHANGED <<m_gc_running, owner, wake_waiters, done_waiters, calls, cycles, nexts, stamp>>

\* the wait on m_gc_done returns: loop while m_gc_running, else
\* mutex_unlock and return from gc_wait
wait_rewait(m) ==
  /\ pc[m] = Resume("w_done_wait")
  /\ owner = NULL
  /\ IF m_gc_running
       THEN /\ done_waiters' = done_waiters \cup {m}
            /\ pc' = [pc EXCEPT ![m] = "w_done_wait"]
       ELSE pc' = [pc EXCEPT ![m] = "idle"] /\ UNCHANGED done_waiters
  /\ UNCHANGED <<m_gc_running, owner, wake_waiters, calls, cycles, nexts, stamp>>

\* a waiter leaves its wait set without a signal
spurious_wakeup(t) ==
  /\ t \in wake_waiters \cup done_waiters
  /\ wake_waiters' = wake_waiters \ {t}
  /\ done_waiters' = done_waiters \ {t}
  /\ pc' = Wake({t})
  /\ UNCHANGED <<m_gc_running, owner, calls, cycles, nexts, stamp>>

-----------------------------------------------------------------------------

GcThread == gc_lock \/ gc_conductor_next \/ gc_next_wait \/ gc_rewait \/ gc_collect
BootThread == init_create \/ init_create_fails \/ init_lock \/ init_wait \/ init_rewait
Mutator(m) ==
  \/ \E f \in Calls : call(m, f)
  \/ wake_read(m) \/ wake_set(m) \/ wake_signal(m)
  \/ wait_lock(m) \/ wait_wake(m) \/ wait_rewait(m)

Next ==
  \/ GcThread \/ BootThread
  \/ \E m \in Mutators : Mutator(m)
  \/ \E t \in Threads : spurious_wakeup(t)

(* Every thread that can run is eventually scheduled: the scheduler runs *)
(* every ready thread.  A mutex_lock attempt succeeds when the mutex is   *)
(* free infinitely often (m_gc_mutex is held only for a few steps).       *)
(* Calls, and spurious wake-ups, are not assumed to happen.              *)
Fairness ==
  /\ SF_vars(GcThread)
  /\ SF_vars(BootThread)
  /\ \A m \in Mutators :
       SF_vars(wake_read(m) \/ wake_set(m) \/ wake_signal(m)
               \/ wait_lock(m) \/ wait_wake(m) \/ wait_rewait(m))

Spec == Init /\ [][Next]_vars /\ Fairness

-----------------------------------------------------------------------------
(* Properties.                                                             *)

TypeOK ==
  /\ m_gc_running \in BOOLEAN
  /\ owner \in Threads \cup {NULL}
  /\ wake_waiters \subseteq Threads /\ done_waiters \subseteq Threads
  /\ calls \in [Mutators -> 0..MaxCalls]
  /\ cycles \in Nat /\ nexts \in Nat
  /\ stamp \in [Mutators -> [cycles : Nat, nexts : Nat]]

(* gc_wait returns only after the GC thread has gone back to its         *)
(* conductor (broadcasting m_gc_done) after the call, although m_gc_done  *)
(* wait can end spuriously and other callers' waits end at the same       *)
(* broadcasts.                                                            *)
GcWaitReturnsAfterNext ==
  [][\A m \in Mutators :
       pc[m] = Resume("w_done_wait") /\ pc'[m] = "idle" => nexts > stamp[m].nexts]_vars

(* gc_wait returns only once a collection cycle has run after it was      *)
(* called (spec 7: a failed allocation calls gc_wait and retries).        *)
(* Violated: a gc_wait called between the end of a cycle and the GC       *)
(* thread's next gc_conductor_next finds m_gc_running still set, requests *)
(* nothing, and returns at that broadcast.                                *)
GcWaitReturnsAfterCycle ==
  [][\A m \in Mutators :
       pc[m] = Resume("w_done_wait") /\ pc'[m] = "idle" => cycles > stamp[m].cycles]_vars

(* init_gc returns: the boot thread's wait on m_gc_done ends.  Violated:  *)
(* if the GC thread runs gc_conductor_next before init_gc waits, the only *)
(* broadcast is missed and nothing requests another cycle.               *)
InitReturns == <>(pc[Boot] \in {"i_done", "i_error"})

(* A request made through gc_wake is served: a cycle completes after it. *)
(* Violated: gc_wake sets m_gc_running without the mutex, so it can fall  *)
(* between gc_conductor_next's store of false and its wait; the signal    *)
(* finds no waiter and the GC thread sleeps with m_gc_running = true.     *)
GcWakeServed ==
  \A m \in Mutators : pc[m] = "k_signal" ~> cycles > stamp[m].cycles
====
