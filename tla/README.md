# TLA+ models of Pentagon's managed runtime

This directory holds TLA+ models of the concurrent core of Pentagon's .NET runtime, with the TLC configurations that check them. The core is the on-the-fly garbage collector with its lock-free all-objects list, the Go-derived semaphore, the object heap's allocator and address arithmetic, the GC conductor, and the JIT's evaluation stack and shadow frames. Every definition is translated from the C source under `src/`. `PROJECT.json` maps each definition to the lines it models and lists the runs, mutants, findings and hazards.

## The system and how its parts interact

| Part | Source | State it keeps | Operations |
|---|---|---|---|
| Object header | `src/unnamed/part_001` (`System_Object`) | `color`, `log_pointer`, `next`, managed fields | written by gc_new, gc_update, trace, sweep |
| GC mutator entry points | `src/unnamed/part_002` 37-86 | all-objects head `m_all_objects` | `gc_new` (heap_alloc, header, CAS push), `gc_update` (barrier, store, snoop) |
| GC collector | `src/unnamed/part_002` 97-309 | colours, `m_thread_count`, `m_roots`, `m_mark_stack`, per-thread `gc_local_data` (gc.h) | four handshakes, colour flip, harvest, trace, sweep, prepare_next_collection |
| GC conductor | `src/unnamed/part_002` 311-411 | `m_gc_running`, `m_gc_mutex`, `m_gc_wake`, `m_gc_done` | gc_wake, gc_wait, gc_thread, init_gc |
| Semaphore | `src/unnamed/part_003` 1-184 | `value`, `nwait`, spinlock, waiter queue | acquire (fast path, slow path, queue, park), release (easy case, dequeue, handoff) |
| Heap | `src/kernel/runtime/dotnet/gc/heap.c` 1-526 | page tables (present/dirty), region try-locks | heap_alloc, heap_find, iterate (dirty) objects |
| JIT | `heap.c` 700-1573 | compile-time evaluation stack (`ctx->stack`: items, register count `i`, slot count `o`, `max_o`, temps), `might_throw_exception` | one handler per CIL opcode; the emitted code calls gc_new, constructors, callees and set_top_frame, and uses a shadow frame |

A mutator allocates with `gc_new`. It takes a blue slot from `heap_alloc`, colours it with its `alloc_color` and pushes it onto the all-objects list with a compare-exchange. A JIT-compiled store (`stfld`) is a plain store. Native code may store through `gc_update`, which runs the log-pointer barrier and records the value in the thread's `snooped` set while `snoop` is on.

The collector thread runs four handshakes. Each one suspends the mutators one at a time at a safepoint. The first turns `snoop` on. The second turns `trace_on` on. The third follows the colour flip; it sets `alloc_color` to the new black and turns `snoop` off. The fourth turns `trace_on` off. Between the third and the fourth handshake, the collector harvests the snooped sets, without suspending the threads, plus the corelib root, and marks from them. After the fourth handshake, the sweep walks the list and unlinks white objects. This walk races with pushes at the head: its head compare-exchange can fail, and it then re-finds the predecessor from the new head. The semaphore is the primitive under every mutex and wait handle.

Hard behaviours: interleavings of the pushes with the sweep; a handshake reaching a thread inside gc_new; stores racing the handshakes and the lock-free harvest; the CAS loops of the semaphore against releases; uint32 wrap of the semaphore value.

## Modules

* **AllObjects.tla** is the abstract specification of the all-objects list. It is a set of objects that starts as `{corelib}`; a step links one new object or unlinks one linked object other than the boot root.
* **GC.tla** models the collector and the mutator entry points. Its variables are the object headers, one managed field per object, the list links, the per-thread `gc_local_data`, the shadow frames (`frame[t]`, a set) and the collector's control.
  - The collector's actions follow the code's loops one iteration at a time: `handshake_snoop`, `handshake_trace`, `flip_colors`, `handshake_color`, `harvest_roots`, `trace_heap`, `trace`, `trace_heap_done`, `handshake_untrace`, `sweep_start`, `sweep_step`, `sweep_done`, `prepare_next_collection`.
  - gc_new is three mutator steps: `heap_alloc` (a blue slot, region lock already released), `gc_new_init` (header and `next = head`) and `gc_new_push` (one compare-exchange; a failure reloads `next`).
  - The other mutator steps are `gc_update`, `stfld`, `load_field` and `drop_ref`.
  - A handshake waits for `AtSafepoint`: the thread is not inside gc_new. The scheduler's implementation is not in `src/`. The model follows the contract of `scheduler_suspend_thread` declared in gc.h (84-91) and spec 4.3: the thread is suspended at a safe point.
  - GC refines AllObjects through `objects <- ListObjects`, the set reachable from the head.
* **MC_GC.tla** supplies the model values.
* **Semaphore.tla** models semaphore_acquire and semaphore_release as steps per atomic operation: the load and the CAS of `semaphore_can_acquire`, the lock plus `nwait` increment, the re-check, the `nwait` decrement plus unlock, `semaphore_queue`, and the release's fetch-add, lock-free `nwait` test and locked re-test. `semaphore_queue` dereferences `waiters`, which is NULL on the first enqueue, so the thread faults holding the lock. Dequeue, park and handoff are therefore unreachable and are not actions.
* **MC_Semaphore.tla** declares three threads and the symmetry over them. The symmetry is sound because no property names a thread and no liveness is checked.

* **Conductor.tla** models the GC conductor (part_002 311-411).
  - Its variables are `m_gc_running`, the owner of `m_gc_mutex`, the wait sets of `m_gc_wake` and `m_gc_done`, a pc per thread, and history counters: completed cycles, `gc_conductor_next` broadcasts, and each mutator's stamp of both at the start of its call.
  - The GC thread's loop is `gc_lock`, `gc_conductor_next`, `gc_next_wait`, `gc_rewait` and `gc_collect`; a whole collection cycle is the one step `gc_collect`, since GC models the cycle. After a wake-up, `gc_rewait` reacquires the mutex and tests `!m_gc_running` (line 343). When the test loops, the next wait is the separate step `gc_next_wait`. gc_wake runs without the mutex and can set the flag and signal between the two. A mutator's re-test in `wait_rewait` stays one step with its wait: the only write it can miss is gc_wake setting the flag, and that leads to the same next wait.
  - init_gc is `init_create` (create_thread and scheduler_ready_thread: the GC thread starts at the top of its loop), `init_create_fails` (the `CHECK(thread != NULL)` error path: init_gc returns an error, there is no GC thread, and no mutator call begins), `init_lock`, `init_wait` and `init_rewait`. gc_wake (which takes no mutex) is `wake_read`, `wake_set` and `wake_signal`. gc_wait is `wait_lock`, `wait_wake` and `wait_rewait`.
  - `conditional_*` and `mutex_lock` are not in `src/`. They follow spec 4.2 as a Mesa condition variable: a wait releases the mutex and joins the wait set in one step, signal and broadcast move waiters out, `spurious_wakeup` can end any wait, and a woken thread reacquires the mutex before its wait returns.
* **MC_Conductor.tla** supplies the model values.
* **HeapSize.tla** holds the address arithmetic of heap.c as operators: `AlignedSize` and `PoolIdx` (clzll), `calc_object_size`, `heap_find`, `SUBPOOLS_PER_LOCK` and `LockIndex`, one iteration `LoopStep` of heap_alloc's region loop when no slot is free, and the object stride of `heap_iterate_dirty_objects` (`DirtyVisited`).
  - They are checked against reference definitions from the layout comment at the top of heap.c: pool p holds 2^(p+4)-byte objects, and there are 512/cpu_count subpools per lock.
  - The specification only enumerates inputs: Init picks one record `[size, cpus, busy, ptr]`, and nothing changes after that.
  - `LoopFrom` builds the loop's 512 iterations by halves, which keeps TLC's recursion depth at 10.
* **MC_HeapSize.tla** defines the input sets.
* **Heap.tla** models heap_alloc (heap.c 136-367) on several cores, in all three of its paths.
  - Each pool has its own geometry. Objects of 2MB or more span `pages` huge pages, each a PML2 entry directly under the subpool's PML3 entry (lines 196-245). Objects from 4KB up to 2MB span `pages` 4KB pages under a PML2 entry (lines 253-316). Smaller objects share a page, `objs` to a page (lines 317-356). The pools have separate page tables and locks, and share palloc's frames.
  - Its state is the region try-locks, the PML3 and PML2 entries of each subpool, the page entries of each unit (the huge PML2 entries of a 2MB object, the PML1 entries of a 4KB+ object, or the PML1 entry of a page of small objects), the free frames of palloc, the header colours in each frame, and heap_alloc's locals per core.
  - Its actions are `call` (gc_new picks a pool); `loop_head` (unlock the last region, try-lock the next, skip it on failure); `pml3` and `pml2` (present / set up / palloc failed, which continues with the next subpool); for 2MB objects `huge_slot`, `huge_page`, `huge_rollback` and `huge_color`; `slot_step`; then, for objects of 4KB or more, `page` (one palloc of the materialisation), `rollback` (palloc failed) and `color`; for smaller objects `card` (palloc of the page, or continue on failure) and `scan` (one object of the page); and `exit`.
  - The two multi-page paths share `Materialise`, `RollBack` and `ColorTest`, which take the pc label, because lines 205-245 repeat lines 271-316 with huge pages.
  - The rollback frees nothing the model can see. Its loop reads each taken entry's `.frame`, which holds the physical address >> 12. It passes that frame number through PHYS_TO_DIRECT to vmm_map and pfree, as if it were an address. That is an address in the first megabyte, not a page palloc handed out. The model assumes palloc never hands out those low pages, which is not in `src/`. So the taken pages stay allocated and their entries stay present.
  - The callers are `gc_new_color` (gc_new colours the result after heap_alloc unlocked) and `sweep_free` (sweep recolours blue without a heap lock).
  - A fresh page reads as blue headers. COLOR_BLUE and palloc's page contents are not in `src/`; the model takes the reading the allocator relies on.
  - `Fairness` is weak fairness on each core's steps inside heap_alloc and gc_new. The code runs them with preemption disabled (the comment at heap.c 178-180). New calls and sweeps are not assumed to happen.
* **MC_Heap.tla** declares two cores and the symmetry over them, a pool of 2MB objects (one huge page), a pool of 4KB objects and a pool of 2KB objects, and a pool of 8KB (two-page) objects for the rollback. The symmetry is sound in the safety-only configurations because no property names a core. heap_alloc.cfg checks liveness and does not use it.
* **Jit.tla** models `jitter_jit_method` (heap.c 991-1573) compiling one method.
  - Its state is the compile-time stack `ctx` (items `[type, op]`, where `op` is the register `si<i>` or frame slot `objects[o]` jit_push gave the item; the counters `i`, `o`, `max_o`, `temp`; the slots used), `pc` into the IL, `might_throw`, whether a `set_top_frame` was emitted (`linked`), the emitted calls as `safepoints`, the frame prepended after the loop, and `status`.
  - `jit_push_temp`, `jit_pop_temp`, `jit_push`, `jit_pop` (with its ASSERT, `PopFault`), `jit_newobj` and `validate_binary_comparison_or_branch` are operators. There is one action per handler: `ldc`, `ldnull`, `ldstr`, `nop`, `ldarg`, `pop`, `ret`, `dup`, `conv`, `bcc`, `call`, `newobj`, `ldfld`, `stfld`, `invalid` (default), plus `fetch_past_end` (the do-while's first fetch of an empty body) and `finish` (the frame set-up after the loop).
  - Each handler is the whole case: every CHECK (status `error`), every pop (an empty stb_ds array is status `ub`, the value-type ASSERT status `assert`), the pushes, and the calls it emits. ldarg includes its `CHECK_FAIL("TODO: value type arguments")` for a parameter that is a value type and not a primitive.
  - `ctx.tref` is the set of temp registers that hold an object reference no frame slot holds. jit_newobj adds its temp when gc_new writes it. The MOV of NEWOBJ into the pushed slot removes it. The base temps of ldfld and stfld copy a slot that still holds the object, so they are not added. Each emitted call is recorded as a safepoint, together with `Unrooted`, the number of such temps live across it.
  - `Init` includes `setup_mir_func_info` (heap.c 827-899), which runs before the loop. A non-primitive value-type return is a CHECK_FAIL there (`SetupFails`), so the method ends in status `error` before its first opcode. With `PtrIsValueType`, a method returning a pointer ends this way.
  - Type descriptors are consumed, not computed, by this code. `is_value_type` of a pointer type is the constant `PtrIsValueType`. `type_has_field` and `is_type_assignable_to` are not in `src/` and follow spec 3.
  - Branch targets are not modelled: the model compiles straight-line code, and `bcc` only pops and validates.
* **MC_Jit.tla** enumerates every method of at most three instructions over 21 instructions. The instructions cover the ldc.i4 and ldc.i8 forms, ldarg of a reference and of a pointer parameter, conv, beq and blt, a void callee without arguments and an int callee with one, constructors with and without an argument, and int and object fields. Methods return void, object or a pointer.

## Runs

`PROJECT.json` lists twelve runs: seven that pass and five that reproduce a finding.

| Run | Expect | Bounds | What it shows |
|---|---|---|---|
| gc_list | pass | 1 mutator, 2 slots, 2 cycles, both store paths | `ListMatchesHeap`: the list ends at NULL and its members are exactly the coloured slots that are not mid-push, however pushes interleave with sweep's head CAS and re-find. `AllObjectsRefinement`: the list implements AllObjects. `CycleCompletes`: every started cycle returns to idle. 172k states. |
| gc_snoop | pass | 2 mutators, gc_update stores | `SnoopedStoresRooted`: every reference a snooping thread stored this cycle is in `m_roots` by the mark, although the threads are handshaken one by one and the harvest does not suspend them. 7.5M states, about 80 s. |
| gc_double_alloc | violation | 2 mutators | two threads get the same slot (finding 1). |
| sem_permits | pass | 3 threads, 1 permit, 6 operations | `NoAcquireWithoutPermit` (spec 8.4, value in uint32 arithmetic): racing loads and CASes never take a permit that was not there. `TypeOK` keeps `nwait` a natural number, which depends on release's re-test of `nwait` under the lock (part_003 153). |
| sem_fault | violation | same | the first waiting acquire faults (finding 5). |
| cond_mixed | pass | 2 mutators, 2 calls each of gc_wake or gc_wait | `GcWaitReturnsAfterNext`: a gc_wait returns only after a `gc_conductor_next` broadcast that began after the call, despite spurious wake-ups and unlocked gc_wake calls. Fires every conductor action. 35k states. |
| cond_wake | violation | 1 mutator, 2 gc_wake calls | a gc_wake request is lost (finding 6). |
| heap_layout | pass | sizes 17..4200 and 2^k-1..2^k+1 up to 512MB; cpu counts 1..511 with every subset of regions 0-2 busy | `AllocSizeClass`, `AllocScansUnderOwnLock` (each scanned subpool under its own region's lock, for cpu counts that do not divide 512 too). 8,321 inputs. |
| heap_alloc | pass | 2 cores, a 2MB, a 4KB and a 2KB pool, each of 2 lock regions of 2 subpools, 1 unit per subpool, 5 frames, 3 calls | `FramesConserved`: every frame is free or behind exactly one page-table entry, through PML3, PML2, huge-page, page and rollback failures in all three paths. `RegionLockDiscipline`: a core works on a subpool only while holding its region's lock (taken at the region's first subpool, kept across the second), and a region lock is held only by the core inside heap_alloc that took it. `AllocReturns`: every heap_alloc call returns, an object or NULL. 304k states, about 50 s. |
| heap_rollback | violation | 2 cores, an 8KB (2-page) pool, 3 frames | `ReturnedObjectsMapped`: the rollback keeps the first page and its entry, and a later call returns the object with its second page unmapped (finding 12). |
| jit_frame | pass | every method of ≤ 3 instructions, pointers as value types | `FrameCoversUse`: a method that links its frame or uses slots allocates one, and `object_count` covers every slot used. 125k states. |
| jit_newobj | violation | same | `RefsRootedAtSafepoints`: at the constructor call, the temp of jit_newobj is the only holder of the new object, so `Unrooted` is 1 (finding 14). |

**Further configurations.** Twelve configurations beside the runs reproduce the other findings:
- `gc_stfld_snoop.cfg` (`SnoopedStoresRooted` with JIT stores);
- `gc_frame_freed.cfg` (`FrameObjectsLive`);
- `gc_barrier.cfg` (`BarrierLogsWhite`);
- `cond_init.cfg` (`InitReturns`);
- `cond_wait_cycle.cfg` (`GcWaitReturnsAfterCycle`);
- `heap_small_size.cfg` (`AllocSizeClass` for sizes 2-16);
- `heap_find.cfg` (`FindContainsPointer`);
- `heap_dirty_stride.cfg` (`DirtyPageVisitsAllSlots`);
- `heap_lock_bounds.cfg` (`LockIndexInBounds`, cpu counts 1..511);
- `heap_null.cfg` (`NoSpuriousNull`, 2 cores, the 4KB and 2KB pools, 2 regions of 2 units each, 6 frames);
- `jit_pointer.cfg` (`OperandsMatchStack` with pointers as reference types). With pointers as value types the property holds by the shape of jit_push and jit_pop, because ldarg CHECK_FAILs before a pointer reaches the stack; so no passing run checks it;
- `jit_underflow.cfg` (`ReadsWithinBounds`).

Each of them ends with the stated violation: `tlc -config X.cfg MC_<module>`.

**Bounds.**
- Two slots are enough for every list shape the sweep distinguishes: the head is freed; an object is freed behind a live one; a push lands between sweep_start and the head CAS and forces the re-find.
- Two cycles make the colour flip matter: the first cycle's black is the second cycle's white.
- gc_list uses one mutator because two mutators can be handed the same slot (gc_double_alloc). The list then becomes cyclic, which is a consequence of that finding, not a separate question.
- For the semaphore, one permit and three threads give a waiter that raises `nwait` while a release is in flight. Six operations allow two full acquire/release rounds plus contention.
- The uint32 modulus is a constant (256 in the runs) because TLC's integers are 32-bit signed. Only the wrap at 0 can be reached, and only when the zero check is missing.
- For the conductor, two calls per mutator are enough for a call to start while the previous cycle is ending, which is where the flag is stale.
- HeapSize enumerates every value the code can be given for cpus (1..511, the CHECK in init_heap), and every power-of-two boundary of the size. The pool span is 2^22 instead of 512GB, a power of two that is a multiple of every object size checked, so the arithmetic is the same.
- For Heap, two regions with two cores give the busy-region skip. Regions of two subpools give the loop head's second branch: a subpool that is not the first of its region is scanned under the lock already held. The skip then lands on the next region's first subpool. Five frames are shared by three pools. A 2MB subpool needs one setup page and the others need two, so the frames run out within three calls. So the PML3 and PML2 setups, the huge page, the page of a small object and the first page of a 4KB object all fail somewhere. Objects of one page keep the rollback empty. With two pages and three frames, the rollback leaves a partial object, and the next call returns it (heap_rollback). Two objects to a page are enough for the scan to pass a used object and return the next one.
- For the JIT, three instructions are enough for every pair of handlers to meet on a stack they built. Examples: a pointer pushed and then popped by pop or ret or a call's arguments (jit_pointer.cfg); a reference pushed after a pop, so that its slot is reused; a call with no slots in use (the frame then exists only because of `might_throw`); a newobj whose constructor takes an argument pushed before it. Longer methods repeat these shapes with deeper stacks.

**Fairness.**
- gc_list's `CycleCompletes`:
  - `WF` on the collector's internal steps, since the GC thread runs whenever it is runnable;
  - `SF` on the handshakes: a suspend waits until the thread reaches a safepoint, and a thread that keeps returning to one is eventually caught;
  - `WF` on the steps of gc_new, which runs with preemption disabled;
  - requests and the mutators' own work are not assumed to happen.
- Conductor: `SF` per thread on the steps of the calls it has begun. The scheduler runs every ready thread, and a thread waiting for the mutex gets it when it is free infinitely often. New calls and spurious wake-ups are not assumed to happen.
- Heap: weak fairness per core on the steps of heap_alloc and of gc_new's colouring, which run with preemption disabled. `AllocReturns` needs nothing more: the try-lock never waits. HeapSize has no fairness.

**Deadlock.** CHECK_DEADLOCK is FALSE in every configuration except those of HeapSize, whose states all stutter.
- In GC, once MaxCycles requests have been served the collector parks in gc_conductor_next, and a mutator whose frame is empty and whose heap is full has nothing to do.
- In the semaphore, the operation bound ends the run, and the fault halts the faulting thread with the spinlock held.
- In the conductor, the call bound ends the run with the GC thread parked.
- In Heap, the call bound ends the run, and a core that got NULL stops: gc_new would dereference it.
- In Jit, a compilation ends: `done`, or aborted by a CHECK, an ASSERT or undefined behaviour.

**Mutants.** Each property of a passing run is broken by one plausible code bug, defined next to the definition it replaces:
- heap_alloc taking a non-free slot;
- sweep not unlinking behind a live object;
- harvest_roots without the corelib root;
- the re-find starting at head->next;
- the third handshake not clearing snoop;
- semaphore_can_acquire without its zero check;
- release without the nwait re-check;
- gc_wait returning after one wait, without re-testing `m_gc_running`;
- the next power of two computed from size instead of size - 1;
- the region skip adding SUBPOOLS_PER_LOCK before the loop's increment (in HeapSize and in Heap);
- heap_alloc's goto exit path returning without unlocking;
- the unit loop without its `present` test, which materialises a mapped unit again;
- the rollback retrying the same object instead of continuing with the next;
- the CALL handler not setting `might_throw_exception`.

## Findings

1. `heap_alloc` releases the region lock (heap.c 362) before `gc_new` colours the slot (part_002 42). Two threads can get the same slot (gc_double_alloc).
2. The third handshake does not scan thread stacks (part_002 146, a TODO). An object held only in a shadow frame and allocated in the flip window is freed (gc_frame_freed.cfg).
3. `gc_update` tests `if (o->log_pointer)` where it means "not dirty" (part_002 58), so the barrier never logs (gc_barrier.cfg).
4. JIT `stfld` is a plain `MIR_MOV` (heap.c 1491), not a call to gc_update as spec 4.4 states. JIT stores are neither barriered nor snooped (gc_stfld_snoop.cfg).
5. `semaphore_queue` dereferences a NULL `waiters` on the first enqueue (part_003 44). The semaphore "cannot fail" (spec 7), yet every contended acquire faults (sem_fault).
6. `gc_wake` sets `m_gc_running` and signals without `m_gc_mutex` (part_002 370). It can fall between the GC thread's store of false and its unconditional wait. It can also fall between the re-test of `!m_gc_running` after a spurious wake-up (line 343) and the next wait. The GC thread then sleeps with the flag set, and every later gc_wake returns early (cond_wake). The same race also hangs a concurrent gc_wait. Under cond_mixed's bounds, a one-off check of the liveness property "every gc_wake or gc_wait call returns" fails: a mutator sits in `gc_wait` on `m_gc_done`, and no `gc_conductor_next` broadcast ever comes. This property is not among the runs, because the run cap is reached and the trace is the same race.
7. init_gc's wait on `m_gc_done` (part_002 406) misses the GC thread's first broadcast if that comes first; boot then waits until some mutator requests a cycle (cond_init.cfg).
8. gc_wait called while `m_gc_running` is still set returns on the broadcast that ends the current cycle or parks the GC thread, with no cycle since the call (part_002 375; cond_wait_cycle.cfg). The weaker `GcWaitReturnsAfterNext` holds.
9. The lock index `pool_idx * POOL_COUNT + subpool_idx / SUBPOOLS_PER_LOCK` (heap.c 172) exceeds the `POOL_COUNT * SUBPOOLS_PER_LOCK` locks allocated when there are 20 or more cpus (heap_lock_bounds.cfg).
10. Sizes 2 to 8 get a negative pool index (heap.c 148; heap_small_size.cfg).
11. `calc_object_size` is twice the object size (heap.c 116). heap_find returns the preceding object for pointers into odd objects (heap_find.cfg), and the dirty iteration visits every other object (heap.c 375; heap_dirty_stride.cfg).
12. A palloc failure part-way through a multi-page object does not free the pages taken (heap.c 279). The rollback passes each entry's frame number (address >> 12) to pfree as if it were an address, and leaves the entries present. The next call sees the first entry present and returns the object with its later pages unmapped (heap_rollback). The comment says the rollback frees "all the pages that we tried to allocate". The 2MB path repeats the code at line 213.
13. A region found busy is skipped for the rest of the call (heap.c 181). heap_alloc can return NULL while that region has free objects; gc_new dereferences it (heap_null.cfg).
14. `jit_newobj` keeps gc_new's result only in a temp register (heap.c 912-920) while it calls the constructor (heap.c 935). NEWOBJ moves it into a frame slot only afterwards (heap.c 1437). A collection started inside the constructor does not see the object. Spec 4.4 says the gc_new result is immediately stored to a shadow-frame slot (jit_newobj).
15. `jit_push` gives a pointer a register and counts it in `i` (heap.c 727). `jit_pop` does not test `is_pointer` (heap.c 767-773). If pointer types are value types, ldarg of a pointer parameter CHECK_FAILs first (heap.c 1219), but a pointer returned by a call would reach `ASSERT(false)`; otherwise it decrements `o`, so the next reference reuses a live slot or gets slot -1 (jit_pointer.cfg: ldarg of a pointer, then ret).
16. `pop`, `ret`, `conv` (arrlast) and the argument loops of `call` and `newobj` have no length CHECK, unlike dup, ldfld, stfld and b<cc>. The do-while also fetches an opcode from an empty IL body. Malformed IL is undefined behaviour rather than the range error spec 6 names for JIT sanity checks (jit_underflow.cfg).

## Not modelled

- Thread creation during a cycle (a hazard, not yet modelled).
- The trace of children. The child loop is commented out; it is listed as a hazard, because every mark-closure counterexample first goes through the missing stack scan.
- The unreachable semaphore paths: dequeue, park and handoff. Their bugs (the `&` at line 164, the FIFO `wait_link` at line 59) are hazards masked by the fault.
- In the heap, each subpool's units lie under its first PML2 entry, so the loop over the other 511 PML2 entries is not taken. heap_iterate_objects has no caller (its small-object loop also starts at PML2_BASE instead of PML1_BASE, heap.c 512). The dirty bits are not state: the 2MB dirty-clear bug (heap.c 422) and the subpool index of the iteration (heap.c 380) are listed as hazards.
- Conductor composed with GC. gc_wait and gc_wake have no callers in `src/`, and the collection cycle runs outside m_gc_mutex. So Conductor's single `gc_collect` step stands for the whole cycle without hiding any interaction.
- In the JIT: branch targets (labels, and `stacks_by_cil`, which is never filled); the MIR operands themselves (dup's garbage source operand at heap.c 1198, the swapped ushort/byte extensions of ldfld); value-type and static fields, which CHECK_FAIL; `jitter_jit_assembly`'s loop over methods and the MIR link step.
- The CIL opcode tables and disassembler, the generic list helpers, the TSC calibration and the C# corelib wrappers. They hold no concurrent state that these properties tell apart.

## Plan

1. Threads created during a cycle (alloc_color 0 and a missed handshake). Thread creation is outside `src/`, so this would be modelled from the spec.
2. The dirty bits as Heap state, set by stores to the page and cleared by heap_iterate_dirty_objects. Neither iterator has a caller in `src/` yet.
3. Compose Jit's safepoints with GC: a mutator running compiled code whose calls are handshake points.
4. Branch targets in Jit, with the stack shape at each label.
