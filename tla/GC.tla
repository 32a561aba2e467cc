--------------------------------- MODULE GC ---------------------------------
(***************************************************************************)
(* The on-the-fly mark-and-sweep collector of src/unnamed/part_002 and    *)
(* the two entry points the JIT-compiled mutators call into it: gc_new    *)
(* (allocate and link into the all-objects list) and gc_update (the write *)
(* barrier).                                                               *)
(*                                                                         *)
(* The collector thread runs gc_collection_cycle: four handshakes with    *)
(* every thread of g_all_threads (snoop on, trace on, colour flip + snoop *)
(* off + harvest, trace off), a mark from the harvested roots, a sweep of *)
(* the all-objects list that races with the lock-free pushes of gc_new,   *)
(* and prepare_next_collection.  A handshake suspends one thread at a     *)
(* safepoint; gc_new and gc_update run with preemption disabled, so a     *)
(* thread inside them is not at a safepoint.                              *)
(*                                                                         *)
(* Data is abstracted: an object has one managed-pointer field; a thread  *)
(* holds the references in its shadow stack frame as a set.               *)
(***************************************************************************)
EXTENDS Integers, FiniteSets

CONSTANTS
  NumMutators,  \* threads of g_all_threads other than the collector
  Obj,          \* heap slots a run may allocate
  Corelib,      \* g_corelib: a heap object allocated at boot, a runtime root
  NULL,
  BLUE,         \* COLOR_BLUE: an unallocated slot
  MaxCycles,    \* bound on the collection cycles requested of gc_thread
  StorePaths    \* which reference stores the mutators perform: "stfld"
                \* (the JIT's CIL stfld) and/or "gc_update" (native code)

ASSUME NumMutators \in Nat \ {0} /\ MaxCycles \in Nat /\ Corelib \notin Obj
       /\ StorePaths \subseteq {"stfld", "gc_update"}

Mutators == 1..NumMutators
Heap == Obj \cup {Corelib}

VARIABLES
  \* object headers (System_Object, part_001) and the one managed field
  color, log_pointer, field, next,
  m_all_objects,                 \* head of the all-objects list
  m_color_black, m_color_white,
  \* gc_local_data of each mutator (gc.h)
  trace_on, snoop, alloc_color, snooped, buffer,
  \* mutator control: shadow-frame references, pc, object inside gc_new
  frame, mpc, allocating,
  \* collector control
  gcpc, idx, m_thread_count, m_roots, m_mark_stack, swept, last, cycle,
  \* history: references stored while the storing thread snooped, this cycle
  snoop_log

objVars == <<color, log_pointer, field, next, m_all_objects>>
gclVars == <<trace_on, snoop, alloc_color, snooped, buffer>>
mutVars == <<frame, mpc, allocating>>
gcVars  == <<gcpc, idx, m_thread_count, m_roots, m_mark_stack, swept, last, cycle>>
vars    == <<objVars, m_color_black, m_color_white, gclVars, mutVars, gcVars,
            snoop_log>>

Colors == {0, 1, BLUE}
Ref == Heap \cup {NULL}
GcPcs == {"idle", "hs1", "hs2", "flip", "hs3", "harvest", "mark", "tracing",
          "hs4", "sweepStart", "sweep", "prepare"}

-----------------------------------------------------------------------------
(* The all-objects list as a set: the objects reachable from the head.     *)
RECURSIVE ListFrom(_, _)
ListFrom(o, seen) ==
  IF o = NULL \/ o \in seen THEN seen ELSE ListFrom(next[o], seen \cup {o})

ListObjects == ListFrom(m_all_objects, {})

RECURSIVE EndsAtNull(_, _)
EndsAtNull(o, seen) ==
  IF o = NULL THEN TRUE
  ELSE IF o \in seen THEN FALSE ELSE EndsAtNull(next[o], seen \cup {o})

Init ==
  /\ color = [o \in Heap |-> IF o = Corelib THEN 0 ELSE BLUE]
  /\ log_pointer = [o \in Heap |-> FALSE]
  /\ field = [o \in Heap |-> NULL]
  /\ next = [o \in Heap |-> NULL]
  /\ m_all_objects = Corelib
  /\ m_color_black = 0
  /\ m_color_white = 1
  /\ trace_on = [t \in Mutators |-> FALSE]
  /\ snoop = [t \in Mutators |-> FALSE]
  /\ alloc_color = [t \in Mutators |-> 0]
  /\ snooped = [t \in Mutators |-> {}]
  /\ buffer = [t \in Mutators |-> {}]
  /\ frame = [t \in Mutators |-> {}]
  /\ mpc = [t \in Mutators |-> "run"]
  /\ allocating = [t \in Mutators |-> NULL]
  /\ gcpc = "idle"
  /\ idx = 1
  /\ m_thread_count = 0
  /\ m_roots = {}
  /\ m_mark_stack = {}
  /\ swept = NULL
  /\ last = NULL
  /\ cycle = 0
  /\ snoop_log = {}

-----------------------------------------------------------------------------
(* Mutators.                                                               *)

\* mutant: the slot is taken without checking that it is free
heap_alloc_any_slot(t) ==
  /\ mpc[t] = "run"
  /\ \E o \in Heap : allocating' = [allocating EXCEPT ![t] = o]
  /\ mpc' = [mpc EXCEPT ![t] = "init"]
  /\ UNCHANGED <<snoop_log, objVars, m_color_black, m_color_white, gclVars, frame, gcVars>>

\* gc_new, first half: heap_alloc returns a slot it saw blue; the region
\* lock is already released when gc_new starts writing the header
heap_alloc(t) ==
  /\ mpc[t] = "run"
  /\ \E o \in Obj :
       /\ color[o] = BLUE
       /\ allocating' = [allocating EXCEPT ![t] = o]
  /\ mpc' = [mpc EXCEPT ![t] = "init"]
  /\ UNCHANGED <<snoop_log, objVars, m_color_black, m_color_white, gclVars, frame, gcVars>>

\* gc_new: header written, o->next loaded from the list head
gc_new_init(t) ==
  LET o == allocating[t] IN
  /\ mpc[t] = "init"
  /\ color' = [color EXCEPT ![o] = alloc_color[t]]
  /\ next' = [next EXCEPT ![o] = m_all_objects]
  /\ mpc' = [mpc EXCEPT ![t] = "push"]
  /\ UNCHANGED <<snoop_log, log_pointer, field, m_all_objects, m_color_black, m_color_white,
                 gclVars, frame, allocating, gcVars>>

\* mutant: the head is stored without comparing it with o->next
gc_new_push_store(t) ==
  LET o == allocating[t] IN
  /\ mpc[t] = "push"
  /\ m_all_objects' = o
  /\ mpc' = [mpc EXCEPT ![t] = "run"]
  /\ frame' = [frame EXCEPT ![t] = @ \cup {o}]
  /\ allocating' = [allocating EXCEPT ![t] = NULL]
  /\ UNCHANGED <<snoop_log, next, color, log_pointer, field, m_color_black,
                 m_color_white, gclVars, gcVars>>

\* gc_new: one compare-exchange of the head; a failure reloads o->next
gc_new_push(t) ==
  LET o == allocating[t] IN
  /\ mpc[t] = "push"
  /\ IF m_all_objects = next[o]
       THEN /\ m_all_objects' = o
            /\ mpc' = [mpc EXCEPT ![t] = "run"]
            /\ frame' = [frame EXCEPT ![t] = @ \cup {o}]
            /\ allocating' = [allocating EXCEPT ![t] = NULL]
            /\ UNCHANGED next
       ELSE /\ next' = [next EXCEPT ![o] = m_all_objects]
            /\ UNCHANGED <<m_all_objects, mpc, frame, allocating>>
  /\ UNCHANGED <<snoop_log, color, log_pointer, field, m_color_black, m_color_white,
                 gclVars, gcVars>>

\* gc_update(o, offset, v): write barrier, store, snoop
gc_update(t, o, v) ==
  LET dirtyCheck == trace_on[t] /\ color[o] = m_color_white /\ log_pointer[o]
      commit     == dirtyCheck /\ ~log_pointer[o]
  IN
  /\ mpc[t] = "run"
  /\ log_pointer' = IF commit THEN [log_pointer EXCEPT ![o] = TRUE] ELSE log_pointer
  /\ field' = [field EXCEPT ![o] = v]
  /\ snooped' = IF snoop[t] /\ v # NULL
                  THEN [snooped EXCEPT ![t] = @ \cup {v}] ELSE snooped
  /\ snoop_log' = IF snoop[t] /\ v # NULL THEN snoop_log \cup {v} ELSE snoop_log
  /\ UNCHANGED <<color, next, m_all_objects, m_color_black, m_color_white,
                 trace_on, snoop, alloc_color, buffer, mutVars, gcVars>>

\* stfld of a reference field as the JIT emits it: a plain MIR_MOV into
\* the field, with no call to gc_update (no barrier, no snoop)
stfld(t, o, v) ==
  /\ mpc[t] = "run"
  /\ field' = [field EXCEPT ![o] = v]
  /\ snoop_log' = IF snoop[t] /\ v # NULL THEN snoop_log \cup {v} ELSE snoop_log
  /\ UNCHANGED <<color, log_pointer, next, m_all_objects, m_color_black,
                 m_color_white, gclVars, mutVars, gcVars>>

\* ldfld of a reference field: a plain load into the shadow frame
load_field(t, o) ==
  /\ mpc[t] = "run"
  /\ field[o] # NULL
  /\ frame' = [frame EXCEPT ![t] = @ \cup {field[o]}]
  /\ UNCHANGED <<snoop_log, objVars, m_color_black, m_color_white, gclVars, mpc,
                 allocating, gcVars>>

\* a shadow-frame slot is overwritten or its method returns
drop_ref(t, o) ==
  /\ mpc[t] = "run"
  /\ frame' = [frame EXCEPT ![t] = @ \ {o}]
  /\ UNCHANGED <<snoop_log, objVars, m_color_black, m_color_white, gclVars, mpc,
                 allocating, gcVars>>

Mutator(t) ==
  \/ heap_alloc(t)
  \/ gc_new_init(t)
  \/ gc_new_push(t)
  \/ /\ "gc_update" \in StorePaths
     /\ \E o \in frame[t], v \in frame[t] \cup {NULL} : gc_update(t, o, v)
  \/ /\ "stfld" \in StorePaths
     /\ \E o \in frame[t], v \in frame[t] \cup {NULL} : stfld(t, o, v)
  \/ \E o \in frame[t] : load_field(t, o)
  \/ \E o \in frame[t] : drop_ref(t, o)

-----------------------------------------------------------------------------
(* The collector thread: gc_thread and gc_collection_cycle.                *)

\* scheduler_suspend_thread returns only once the thread is at a safepoint
AtSafepoint(t) == mpc[t] = "run"

\* advance the loop over g_all_threads[0 .. m_thread_count-1]
LoopNext(to) ==
  IF idx = m_thread_count
    THEN gcpc' = to /\ idx' = 1
    ELSE idx' = idx + 1 /\ UNCHANGED gcpc

\* gc_thread: woken by a request, starts gc_collection_cycle
start_cycle ==
  /\ gcpc = "idle"
  /\ cycle < MaxCycles
  /\ gcpc' = "hs1"
  /\ idx' = 1
  /\ m_thread_count' = NumMutators
  /\ snoop_log' = {}
  /\ UNCHANGED <<objVars, m_color_black, m_color_white, gclVars, mutVars,
                 m_roots, m_mark_stack, swept, last, cycle>>

\* initiate_collection_cycle, first handshake
handshake_snoop ==
  /\ gcpc = "hs1"
  /\ AtSafepoint(idx)
  /\ snoop' = [snoop EXCEPT ![idx] = TRUE]
  /\ LoopNext("hs2")
  /\ UNCHANGED <<snoop_log, objVars, m_color_black, m_color_white, trace_on, alloc_color,
                 snooped, buffer, mutVars, m_thread_count, m_roots,
                 m_mark_stack, swept, last, cycle>>

\* initiate_collection_cycle, second handshake
handshake_trace ==
  /\ gcpc = "hs2"
  /\ AtSafepoint(idx)
  /\ trace_on' = [trace_on EXCEPT ![idx] = TRUE]
  /\ LoopNext("flip")
  /\ UNCHANGED <<snoop_log, objVars, m_color_black, m_color_white, snoop, alloc_color,
                 snooped, buffer, mutVars, m_thread_count, m_roots,
                 m_mark_stack, swept, last, cycle>>

\* get_roots: swap the colours before the third handshake
flip_colors ==
  /\ gcpc = "flip"
  /\ m_color_black' = 1 - m_color_black
  /\ m_color_white' = 1 - m_color_white
  /\ gcpc' = "hs3"
  /\ UNCHANGED <<snoop_log, objVars, gclVars, mutVars, idx, m_thread_count, m_roots,
                 m_mark_stack, swept, last, cycle>>

\* mutant: the third handshake leaves the snoop flag on
handshake_color_keep_snoop ==
  /\ gcpc = "hs3"
  /\ AtSafepoint(idx)
  /\ alloc_color' = [alloc_color EXCEPT ![idx] = m_color_black]
  /\ LoopNext("harvest")
  /\ UNCHANGED <<snoop_log, objVars, m_color_black, m_color_white, trace_on, snoop,
                 snooped, buffer, mutVars, m_thread_count, m_roots, m_mark_stack,
                 swept, last, cycle>>

\* get_roots, third handshake
handshake_color ==
  /\ gcpc = "hs3"
  /\ AtSafepoint(idx)
  /\ alloc_color' = [alloc_color EXCEPT ![idx] = m_color_black]
  /\ snoop' = [snoop EXCEPT ![idx] = FALSE]
  /\ LoopNext("harvest")
  /\ UNCHANGED <<snoop_log, objVars, m_color_black, m_color_white, trace_on, snooped,
                 buffer, mutVars, m_thread_count, m_roots, m_mark_stack,
                 swept, last, cycle>>

\* get_roots: copy and clear each snooped set (no suspend), then the
\* runtime globals
\* mutant: the corelib root is not added to the roots
harvest_roots_no_corelib ==
  /\ gcpc = "harvest"
  /\ m_roots' = m_roots \cup snooped[idx]
  /\ snooped' = [snooped EXCEPT ![idx] = {}]
  /\ LoopNext("mark")
  /\ UNCHANGED <<snoop_log, objVars, m_color_black, m_color_white, trace_on, snoop,
                 alloc_color, buffer, mutVars, m_thread_count, m_mark_stack,
                 swept, last, cycle>>

harvest_roots ==
  /\ gcpc = "harvest"
  /\ m_roots' = m_roots \cup snooped[idx]
                \cup (IF idx = m_thread_count THEN {Corelib} ELSE {})
  /\ snooped' = [snooped EXCEPT ![idx] = {}]
  /\ LoopNext("mark")
  /\ UNCHANGED <<snoop_log, objVars, m_color_black, m_color_white, trace_on, snoop,
                 alloc_color, buffer, mutVars, m_thread_count, m_mark_stack,
                 swept, last, cycle>>

\* trace_heap: push every root on the mark stack
trace_heap ==
  /\ gcpc = "mark"
  /\ m_mark_stack' = m_roots
  /\ gcpc' = "tracing"
  /\ UNCHANGED <<snoop_log, objVars, m_color_black, m_color_white, gclVars, mutVars, idx,
                 m_thread_count, m_roots, swept, last, cycle>>

\* trace(o) of a popped object: a white object becomes black; no managed
\* pointer is pushed (the offset enumeration is commented out)
trace(o) ==
  /\ gcpc = "tracing"
  /\ o \in m_mark_stack
  /\ m_mark_stack' = m_mark_stack \ {o}
  /\ color' = IF color[o] = m_color_white
                THEN [color EXCEPT ![o] = m_color_black] ELSE color
  /\ UNCHANGED <<snoop_log, log_pointer, field, next, m_all_objects, m_color_black,
                 m_color_white, gclVars, mutVars, gcpc, idx, m_thread_count,
                 m_roots, swept, last, cycle>>

trace_heap_done ==
  /\ gcpc = "tracing"
  /\ m_mark_stack = {}
  /\ gcpc' = "hs4"
  /\ UNCHANGED <<snoop_log, objVars, m_color_black, m_color_white, gclVars, mutVars, idx,
                 m_thread_count, m_roots, m_mark_stack, swept, last, cycle>>

\* sweep, fourth handshake
handshake_untrace ==
  /\ gcpc = "hs4"
  /\ AtSafepoint(idx)
  /\ trace_on' = [trace_on EXCEPT ![idx] = FALSE]
  /\ LoopNext("sweepStart")
  /\ UNCHANGED <<snoop_log, objVars, m_color_black, m_color_white, snoop, alloc_color,
                 snooped, buffer, mutVars, m_thread_count, m_roots,
                 m_mark_stack, swept, last, cycle>>

sweep_start ==
  /\ gcpc = "sweepStart"
  /\ swept' = m_all_objects
  /\ last' = NULL
  /\ gcpc' = "sweep"
  /\ UNCHANGED <<snoop_log, objVars, m_color_black, m_color_white, gclVars, mutVars, idx,
                 m_thread_count, m_roots, m_mark_stack, cycle>>

\* mutant: the re-find walk starts at m_all_objects->next
PredIn_skip_head(s) == {p \in ListFrom(next[m_all_objects], {}) : next[p] = s}

\* the predecessor of s in the list, found by walking from the head
PredIn(s) == {p \in ListObjects : next[p] = s}

\* mutant: an object freed behind a live one is not unlinked
sweep_step_no_unlink ==
  LET s == swept
      n == next[s]
  IN
  /\ gcpc = "sweep"
  /\ s # NULL
  /\ swept' = n
  /\ IF color[s] # m_color_white
       THEN /\ last' = s
            /\ UNCHANGED <<color, next, m_all_objects, gcpc>>
     ELSE IF last # NULL
       THEN /\ color' = [color EXCEPT ![s] = BLUE]
            /\ UNCHANGED <<last, next, m_all_objects, gcpc>>
     ELSE IF m_all_objects = s
       THEN /\ m_all_objects' = n
            /\ color' = [color EXCEPT ![s] = BLUE]
            /\ UNCHANGED <<last, next, gcpc>>
     ELSE \E p \in PredIn(s) :
            /\ last' = p
            /\ next' = [next EXCEPT ![p] = n]
            /\ color' = [color EXCEPT ![s] = BLUE]
            /\ UNCHANGED <<m_all_objects, gcpc>>
  /\ UNCHANGED <<snoop_log, log_pointer, field, m_color_black, m_color_white, gclVars,
                 mutVars, idx, m_thread_count, m_roots, m_mark_stack, cycle>>

\* one iteration of the sweep loop over swept
sweep_step ==
  LET s == swept
      n == next[s]
  IN
  /\ gcpc = "sweep"
  /\ s # NULL
  /\ swept' = n
  /\ IF color[s] # m_color_white
       THEN /\ last' = s
            /\ UNCHANGED <<color, next, m_all_objects, gcpc>>
     ELSE IF last # NULL
       THEN /\ next' = [next EXCEPT ![last] = n]
            /\ color' = [color EXCEPT ![s] = BLUE]
            /\ UNCHANGED <<last, m_all_objects, gcpc>>
     ELSE IF m_all_objects = s
       THEN /\ m_all_objects' = n
            /\ color' = [color EXCEPT ![s] = BLUE]
            /\ UNCHANGED <<last, next, gcpc>>
     \* the compare-exchange failed: re-find the predecessor from the head
     \* (a re-find that misses s walks off the list and never returns)
     ELSE \E p \in PredIn(s) :
            /\ last' = p
            /\ next' = [next EXCEPT ![p] = n]
            /\ color' = [color EXCEPT ![s] = BLUE]
            /\ UNCHANGED <<m_all_objects, gcpc>>
  /\ UNCHANGED <<snoop_log, log_pointer, field, m_color_black, m_color_white, gclVars,
                 mutVars, idx, m_thread_count, m_roots, m_mark_stack, cycle>>

\* the sweep loop ends; prepare_next_collection frees the root set
sweep_done ==
  /\ gcpc = "sweep"
  /\ swept = NULL
  /\ gcpc' = "prepare"
  /\ m_roots' = {}
  /\ UNCHANGED <<snoop_log, objVars, m_color_black, m_color_white, gclVars, mutVars, idx,
                 m_thread_count, m_mark_stack, swept, last, cycle>>

\* prepare_next_collection: clear the log pointers a thread recorded and
\* free its buffer (no suspend)
prepare_next_collection ==
  /\ gcpc = "prepare"
  /\ log_pointer' = [o \in Heap |-> IF o \in buffer[idx] THEN FALSE
                                     ELSE log_pointer[o]]
  /\ buffer' = [buffer EXCEPT ![idx] = {}]
  /\ LoopNext("idle")
  /\ cycle' = IF idx = m_thread_count THEN cycle + 1 ELSE cycle
  /\ UNCHANGED <<snoop_log, color, field, next, m_all_objects, m_color_black,
                 m_color_white, trace_on, snoop, alloc_color, snooped,
                 mutVars, m_thread_count, m_roots, m_mark_stack, swept, last>>

Handshake ==
  handshake_snoop \/ handshake_trace \/ handshake_color \/ handshake_untrace

CollectorStep ==
  \/ flip_colors \/ harvest_roots \/ trace_heap \/ \E o \in Heap : trace(o)
  \/ trace_heap_done \/ sweep_start \/ sweep_step \/ sweep_done
  \/ prepare_next_collection

Collector == start_cycle \/ Handshake \/ CollectorStep

Next == Collector \/ \E t \in Mutators : Mutator(t)

(* The collector thread is scheduled whenever it can run; a suspend waits *)
(* for the thread to reach its next safepoint, so a handshake that is     *)
(* enabled again and again happens; a thread inside gc_new runs with      *)
(* preemption disabled until it returns.  Requests (start_cycle) and the  *)
(* mutators' own work are not assumed to happen.                          *)
Fairness ==
  /\ WF_vars(CollectorStep)
  /\ SF_vars(Handshake)
  /\ \A t \in Mutators : WF_vars(gc_new_init(t) \/ gc_new_push(t))

Spec == Init /\ [][Next]_vars /\ Fairness

-----------------------------------------------------------------------------
(* Properties.                                                             *)

TypeOK ==
  /\ color \in [Heap -> Colors]
  /\ log_pointer \in [Heap -> BOOLEAN]
  /\ field \in [Heap -> Ref]
  /\ next \in [Heap -> Ref]
  /\ m_all_objects \in Ref
  /\ {m_color_black, m_color_white} = {0, 1}
  /\ trace_on \in [Mutators -> BOOLEAN]
  /\ snoop \in [Mutators -> BOOLEAN]
  /\ alloc_color \in [Mutators -> {0, 1}]
  /\ snooped \in [Mutators -> SUBSET Heap]
  /\ buffer \in [Mutators -> SUBSET Heap]
  /\ frame \in [Mutators -> SUBSET Heap]
  /\ mpc \in [Mutators -> {"run", "init", "push"}]
  /\ allocating \in [Mutators -> Obj \cup {NULL}]
  /\ gcpc \in GcPcs
  /\ m_roots \subseteq Heap /\ m_mark_stack \subseteq Heap
  /\ swept \in Ref /\ last \in Ref
  /\ cycle \in 0..MaxCycles
  /\ snoop_log \subseteq Heap

(* The all-objects list is the exact set of allocated objects: it ends    *)
(* at NULL, and an object is linked iff it is coloured and not still      *)
(* inside gc_new.  This is what the lock-free push of gc_new and the      *)
(* head compare-exchange / re-find of sweep must preserve between them.  *)
ListMatchesHeap ==
  /\ EndsAtNull(m_all_objects, {})
  /\ ListObjects = {o \in Heap : color[o] # BLUE}
                     \ {allocating[t] : t \in {u \in Mutators : mpc[u] = "push"}}

(* The all-objects list implements AllObjects: each step of gc_new or of  *)
(* sweep links one new object, unlinks one linked object other than the   *)
(* corelib root, or leaves the linked set as it was.                      *)
AbstractList == INSTANCE AllObjects WITH Objects <- Heap, Boot <- {Corelib},
                                         objects <- ListObjects
AllObjectsRefinement == AbstractList!Spec

(* Every requested collection cycle completes: the handshakes are not     *)
(* blocked forever by a thread inside gc_new, and the sweep walk, which   *)
(* races with pushes at the head, reaches the end of the list.            *)
CycleCompletes == (gcpc # "idle") ~> (gcpc = "idle")

(* Every reference a thread stored while it snooped during this cycle is  *)
(* a root of the cycle's mark: no snooped store is lost between the first *)
(* handshake and the harvest, although the threads are handshaken one at  *)
(* a time and the harvest reads each snooped set without suspending it.   *)
SnoopedStoresRooted ==
  gcpc \in {"mark", "tracing", "hs4"} => snoop_log \subseteq m_roots

(* Two threads inside gc_new never hold the same slot (spec 8, scenario  *)
(* 6: each allocating core gets a distinct blue slot).                    *)
DistinctAllocations ==
  \A t, u \in Mutators :
    t # u /\ mpc[t] # "run" /\ mpc[u] # "run" => allocating[t] # allocating[u]

(* No object a thread holds in its shadow frame is ever freed (spec 8.2: *)
(* after a cycle no object reachable from a shadow stack is white, so     *)
(* sweep never recolours such an object blue).                            *)
FrameObjectsLive ==
  \A t \in Mutators : \A o \in frame[t] : color[o] # BLUE

(* The write barrier: when a tracing thread writes a white object, the   *)
(* object carries a log pointer afterwards (spec 4.2 step 1, spec 8.5).  *)
BarrierLogsWhite ==
  [][\A t \in Mutators, o \in Heap, v \in Ref :
       (gc_update(t, o, v) /\ trace_on[t] /\ color[o] = m_color_white)
         => log_pointer'[o]]_vars
=============================================================================
