------------------------------ MODULE HeapSize ------------------------------
(***************************************************************************)
(* The address arithmetic of the object heap (heap.c): size classes, the  *)
(* object size a pool address implies, heap_find's align-down, the lock   *)
(* striping of heap_alloc's region loop and the object stride of          *)
(* heap_iterate_dirty_objects.  Each is a pure operator translated from   *)
(* the code and checked against a reference definition taken from the     *)
(* heap layout the code's own header comment gives (pool p holds objects  *)
(* of 2^(p+4) bytes, regions of 512 / cpu_count subpools, one lock each). *)
(*                                                                         *)
(* The specification only enumerates inputs: every state is one input     *)
(* (a request size, a cpu count with a set of busy regions, a pointer     *)
(* into the heap) and nothing changes after Init.                         *)
(***************************************************************************)
EXTENDS Integers, FiniteSets, Sequences

CONSTANTS
  Inputs,     \* records [size, cpus, busy, ptr]: a request size given to
              \* heap_alloc, a value of get_cpu_count(), the regions whose
              \* try-lock fails (another core holds them), an offset from
              \* OBJECT_HEAP_START given to heap_find
  PoolSpan,   \* bytes per top-level pool (SIZE_512GB in the code; a smaller
              \* power of two here, still a multiple of every size checked)
  NULL

ASSUME \A in \in Inputs :
         /\ in.size \in 2..(2^29)
         /\ in.cpus \in 1..511             \* CHECK(get_cpu_count() < 512)
         /\ in.busy \subseteq 0..511
         /\ in.ptr \in Nat

VARIABLE input

vars == <<input>>

size == input.size
cpus == input.cpus
busy == input.busy
ptr == input.ptr

-----------------------------------------------------------------------------
(* The code.                                                               *)

POOL_COUNT == 26
SUBPOOLS_COUNT == 512
SIZE_4KB == 4096

\* SUBPOOLS_PER_LOCK: 512 / get_cpu_count(), rounded down
SUBPOOLS_PER_LOCK(c) == 512 \div c

\* the length of m_heap_locks: malloc(POOL_COUNT * SUBPOOLS_PER_LOCK * ...)
LockCount(c) == POOL_COUNT * SUBPOOLS_PER_LOCK(c)

\* &m_heap_locks[pool_idx * POOL_COUNT + subpool_idx / SUBPOOLS_PER_LOCK]
LockIndex(pool, s, c) == pool * POOL_COUNT + s \div SUBPOOLS_PER_LOCK(c)

RECURSIVE BitLength(_)
BitLength(x) == IF x = 0 THEN 0 ELSE 1 + BitLength(x \div 2)

\* __builtin_clzll on a non-zero 64-bit value
Clzll(x) == 64 - BitLength(x)

\* mutant: the next power of two computed from size instead of size - 1
AlignedSize_no_dec(s) == 2^(64 - Clzll(s))

\* aligned_size = 1ull << (64 - __builtin_clzll(size - 1))
AlignedSize(s) == 2^(64 - Clzll(s - 1))

\* pool_idx = (64 - __builtin_clzll(aligned_size - 1)) - 4
PoolIdx(s) == (64 - Clzll(AlignedSize(s) - 1)) - 4

\* calc_object_size: the pool of the address, then 2 << (4 + poolidx)
calc_object_size(p) == 2 * 2^(4 + p \div PoolSpan)

\* heap_find on an address whose page-table entries are present:
\* ALIGN_DOWN(ptr, size)
heap_find(p) == p - (p % calc_object_size(p))

\* One iteration of heap_alloc's subpool loop when no free slot is found,
\* from the loop head <<subpool_idx, last_lock_taken>>.  At the first
\* subpool of a region it try-locks the region's lock; on failure it sets
\* last_lock_taken = NULL and adds SUBPOOLS_PER_LOCK - 1 to subpool_idx
\* before the loop's increment.  After the loop (subpool_idx = 512) the
\* state no longer changes.  bs are the regions whose try-lock fails.
IsSkipped(x, c, bs) ==
  x[1] % SUBPOOLS_PER_LOCK(c) = 0 /\ x[1] \div SUBPOOLS_PER_LOCK(c) \in bs

\* the lock held while subpool x[1] is scanned
ScanLock(x, c, pool) ==
  IF x[1] % SUBPOOLS_PER_LOCK(c) = 0 THEN LockIndex(pool, x[1], c) ELSE x[2]

\* mutant: a failed try-lock skips SUBPOOLS_PER_LOCK subpools before the
\* loop's own increment
LoopStep_skip_one_more(x, c, bs, pool) ==
  IF x[1] >= SUBPOOLS_COUNT THEN x
  ELSE IF IsSkipped(x, c, bs) THEN <<x[1] + SUBPOOLS_PER_LOCK(c) + 1, NULL>>
  ELSE <<x[1] + 1, ScanLock(x, c, pool)>>

LoopStep(x, c, bs, pool) ==
  IF x[1] >= SUBPOOLS_COUNT THEN x
  ELSE IF IsSkipped(x, c, bs) THEN <<x[1] + (SUBPOOLS_PER_LOCK(c) - 1) + 1, NULL>>
  ELSE <<x[1] + 1, ScanLock(x, c, pool)>>

\* the 2^k loop heads from x on (built by halves to keep the recursion
\* depth at k)
RECURSIVE LoopFrom(_, _, _, _, _)
LoopFrom(k, x, c, bs, pool) ==
  IF k = 0 THEN <<x>>
  ELSE LET h == LoopFrom(k - 1, x, c, bs, pool)
       IN h \o LoopFrom(k - 1, LoopStep(h[Len(h)], c, bs, pool), c, bs, pool)

\* the subpools the loop scans, each with the lock held while scanning it
AllocScanned(c, bs, pool) ==
  LET heads == LoopFrom(10, <<0, NULL>>, c, bs, pool)
  IN {<<heads[i][1], ScanLock(heads[i], c, pool)>> :
        i \in {j \in DOMAIN heads : heads[j][1] < SUBPOOLS_COUNT
                                    /\ ~IsSkipped(heads[j], c, bs)}}

\* the objects heap_iterate_dirty_objects hands to the callback for a dirty
\* 4KB page pml1i of pool p: from ALIGN_DOWN(pml1i << 12, pool_object_size)
\* in steps of pool_object_size = 2 << (4 + pool_idx), below (pml1i+1) << 12
DirtyVisited(p, pml1i) ==
  LET sz == 2 * 2^(4 + p)
      base == (pml1i * SIZE_4KB) - ((pml1i * SIZE_4KB) % sz)
  IN {base + k * sz : k \in 0..((SIZE_4KB \div sz) + 1)}
       \cap {a \in Nat : a < (pml1i + 1) * SIZE_4KB}

\* the slots heap_alloc hands out on the same page: PML1_BASE(pml1i) in
\* steps of aligned_size (the < 4KB path)
AllocSlots(p, pml1i) ==
  {pml1i * SIZE_4KB + k * 2^(p + 4) : k \in 0..(SIZE_4KB \div 2^(p + 4) - 1)}

-----------------------------------------------------------------------------
Init == input \in Inputs

Next == UNCHANGED vars

Spec == Init /\ [][Next]_vars

-----------------------------------------------------------------------------
(* Reference definitions (the layout comment at the top of heap.c).       *)

Pow2s == {2^k : k \in 0..30}

\* the least power of two not below s
RefAligned(s) == CHOOSE a \in Pow2s : a >= s /\ \A b \in Pow2s : b >= s => a <= b

\* "0 - 16 byte objects", "1 - 32 byte objects", ...: the pool whose
\* objects are the smallest that hold s bytes
RefPool(s) == CHOOSE p \in 0..(POOL_COUNT - 1) :
                /\ 2^(p + 4) >= s
                /\ \A q \in 0..(POOL_COUNT - 1) : 2^(q + 4) >= s => p <= q

\* the size of the objects of the pool containing heap offset a
RefObjectSize(a) == 2^(4 + a \div PoolSpan)

-----------------------------------------------------------------------------
(* Properties.                                                             *)

(* heap_alloc's clzll arithmetic rounds a request up to the next power   *)
(* of two and picks the pool of that size class: the pool whose objects  *)
(* are the smallest that hold it.  Sizes of one byte either side of each *)
(* power of two are where an off-by-one shows.                            *)
AllocSizeClass ==
  /\ AlignedSize(size) = RefAligned(size)
  /\ PoolIdx(size) = RefPool(size)

(* heap_alloc's region loop scans exactly the subpools whose region it   *)
(* could try-lock, each while holding the lock of its own region: the    *)
(* skip after a failed try-lock lands on the next region's first subpool *)
(* for every cpu count, including those that do not divide 512.           *)
AllocScansUnderOwnLock ==
  LET spl == SUBPOOLS_PER_LOCK(cpus)
      scanned == AllocScanned(cpus, busy, 0)
  IN /\ {sc[1] : sc \in scanned} = {s \in 0..511 : s \div spl \notin busy}
     /\ \A sc \in scanned : sc[2] = LockIndex(0, sc[1], cpus)

(* Every lock heap_alloc and the iterators take is inside m_heap_locks.  *)
LockIndexInBounds ==
  \A pool \in 0..(POOL_COUNT - 1), s \in 0..511 :
    LockIndex(pool, s, cpus) < LockCount(cpus)

(* heap_find of a pointer into an object returns that object: its start  *)
(* is at or below the pointer and the object covers it (spec 8.1).       *)
(* ptr is an offset into an object of the size class its pool holds.     *)
FindContainsPointer ==
  LET o == heap_find(ptr) IN o <= ptr /\ ptr < o + RefObjectSize(ptr)

(* heap_iterate_dirty_objects visits every object heap_alloc may have    *)
(* placed on a dirty page (spec scenario 5: a written object is visited). *)
(* ptr selects the pool and the page.                                     *)
DirtyPageVisitsAllSlots ==
  LET p == ptr \div PoolSpan
      pg == (ptr % PoolSpan) \div SIZE_4KB
  IN AllocSlots(p, pg) \subseteq DirtyVisited(p, pg)
=============================================================================
