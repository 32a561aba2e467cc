-------------------------------- MODULE Heap --------------------------------
(***************************************************************************)
(* heap_alloc (heap.c 136-367) on several cores.  Below the PML3 level a *)
(* pool takes one of three paths: objects of 2MB or more (lines 196-245)  *)
(* span Geometry[p].pages huge PML2 pages; objects from 4KB to 2MB (the  *)
(* PML2 level, lines 253-259, then 261-316) span Geometry[p].pages 4KB    *)
(* pages; both are materialised page by page.  Smaller objects (lines    *)
(* 317-356) share a 4KB page, Geometry[p].objs to a page, materialised   *)
(* as a whole.  An object is free when the colour in its header is blue. *)
(*                                                                         *)
(* A pool has NumSub subpools; SPL consecutive subpools (one lock region) *)
(* share a spinlock taken with try-lock.  A subpool's PML3 entry and,    *)
(* below 2MB, its PML2 entry each need a page; the subpool's SlotsPerSub  *)
(* units (objects, or pages of small objects) lie under its first PML2   *)
(* entry, or directly under the PML3 entry for huge objects.  palloc,    *)
(* shared by every pool and page size, hands out the lowest free frame   *)
(* and fails when none is left; a fresh page reads as blue headers.      *)
(*                                                                         *)
(* The caller is gc_new (part_002 40-42), which colours the object after *)
(* heap_alloc has returned and unlocked, and which dereferences a NULL    *)
(* result.  The collector's sweep (part_002 269) recolours an object blue *)
(* without taking any heap lock.                                          *)
(***************************************************************************)
EXTENDS Naturals, FiniteSets

CONSTANTS
  Cores,         \* cores calling gc_new
  Pools,         \* the size classes allocated from
  Geometry,      \* per pool: [pages, objs, huge], pages per object (4KB
                 \* and up) or objects per page (below 4KB), and whether
                 \* the pages are 2MB PML2 pages
  NumSub,        \* subpools of a pool
  SPL,           \* SUBPOOLS_PER_LOCK
  SlotsPerSub,   \* objects (or pages of small objects) per subpool
  NumFrames,     \* physical pages palloc can hand out
  MaxAllocs,     \* bound on heap_alloc calls
  NULL

ASSUME /\ NumSub % SPL = 0
       /\ \A p \in Pools : Geometry[p].pages >= 1 /\ Geometry[p].objs >= 1
                           /\ (Geometry[p].pages = 1 \/ Geometry[p].objs = 1)
                           /\ (Geometry[p].huge => Geometry[p].objs = 1)

\* aligned_size < SIZE_4KB: the pool's objects share pages
Small(p) == Geometry[p].objs > 1

\* aligned_size >= SIZE_2MB: the objects' pages are PML2 entries
Huge(p) == Geometry[p].huge

Subs == Pools \X (0..(NumSub - 1))
Regions == Pools \X (0..(NumSub \div SPL - 1))
Slots == Pools \X (0..(NumSub - 1)) \X (0..(SlotsPerSub - 1))
Pages(p) == 0..(Geometry[p].pages - 1)
InPage(p) == 0..(Geometry[p].objs - 1)
Frames == 1..NumFrames
MaxObjs == CHOOSE n \in {Geometry[p].objs : p \in Pools} :
             \A p \in Pools : Geometry[p].objs <= n
Objects == {<<o, k>> \in Slots \X (0..(MaxObjs - 1)) : k \in InPage(o[1])}

VARIABLES
  lock,      \* m_heap_locks: the owning core or NULL, per region
  l3,        \* PAGE_TABLE_PML3 entry of each subpool: frame or NULL
  l2,        \* PAGE_TABLE_PML2 entry of each subpool: frame or NULL
  pte,       \* PAGE_TABLE_PML1 entries of each unit: frame or NULL
  free,      \* frames palloc may hand out
  mem,       \* the colour of each object header in each frame
  pc, pool, sub, held, slot, pg, ret,  \* heap_alloc's locals, per core
  allocs     \* heap_alloc calls so far

vars == <<lock, l3, l2, pte, free, mem, pc, pool, sub, held, slot, pg, ret, allocs>>

Init ==
  /\ lock = [r \in Regions |-> NULL]
  /\ l3 = [s \in Subs |-> NULL]
  /\ l2 = [s \in Subs |-> NULL]
  /\ pte = [o \in Slots |-> [i \in Pages(o[1]) |-> NULL]]
  /\ free = Frames
  /\ mem = [f \in Frames |-> [k \in 0..(MaxObjs - 1) |-> "blue"]]
  /\ pc = [c \in Cores |-> "idle"]
  /\ pool = [c \in Cores |-> CHOOSE p \in Pools : TRUE]
  /\ sub = [c \in Cores |-> 0]
  /\ held = [c \in Cores |-> NULL]
  /\ slot = [c \in Cores |-> 0]
  /\ pg = [c \in Cores |-> 0]
  /\ ret = [c \in Cores |-> NULL]
  /\ allocs = 0

Goto(c, l) == pc' = [pc EXCEPT ![c] = l]

\* palloc: the lowest free frame (a fresh page reads as blue headers)
Palloc == CHOOSE f \in free : \A g \in free : f <= g
Fresh == [k \in 0..(MaxObjs - 1) |-> "blue"]

Sub(c) == <<pool[c], sub[c]>>
Obj(c) == <<pool[c], sub[c], slot[c]>>

\* the colour read from the header of the k-th object of a unit
Color(o, k) == mem[pte[o][0]][k]

\* the next subpool: the for loop's ++ after a continue or the last unit
NextSub(c) == sub' = [sub EXCEPT ![c] = sub[c] + 1] /\ Goto(c, "head")

\* the next unit of the subpool (the ptr += aligned_size of either loop)
NextSlot(c) == /\ slot' = [slot EXCEPT ![c] = slot[c] + 1]
               /\ Goto(c, IF Huge(pool[c]) THEN "hslot" ELSE "slot")

\* below the PML3 entry: the 2MB path's object loop, or the PML2 loop
BelowPML3(c) ==
  IF Huge(pool[c]) THEN Goto(c, "hslot") /\ slot' = [slot EXCEPT ![c] = 0]
  ELSE Goto(c, "pml2") /\ UNCHANGED slot

-----------------------------------------------------------------------------
(* heap_alloc                                                              *)

\* gc_new calls heap_alloc for an object of pool p
call(c, p) ==
  /\ pc[c] = "idle" /\ allocs < MaxAllocs
  /\ allocs' = allocs + 1
  /\ Goto(c, "head")
  /\ pool' = [pool EXCEPT ![c] = p]
  /\ sub' = [sub EXCEPT ![c] = 0]
  /\ held' = [held EXCEPT ![c] = NULL]
  /\ ret' = [ret EXCEPT ![c] = NULL]
  /\ UNCHANGED <<lock, l3, l2, pte, free, mem, slot, pg>>

\* mutant: the skip adds SUBPOOLS_PER_LOCK before the loop's own ++
SkipRegion_one_more(c) == sub[c] + SPL + 1

\* subpool_idx += SUBPOOLS_PER_LOCK - 1, then the loop's ++
SkipRegion(c) == sub[c] + (SPL - 1) + 1

\* the last lock taken, released
Unlocked(c) == IF held[c] = NULL THEN lock ELSE [lock EXCEPT ![held[c]] = NULL]

\* the head of the subpool loop: at the first subpool of a region, unlock
\* the last lock taken and try-lock the region's; on failure skip the
\* region (subpool_idx += SUBPOOLS_PER_LOCK - 1, then the loop's ++)
loop_head(c) ==
  /\ pc[c] = "head"
  /\ IF sub[c] >= NumSub
       THEN Goto(c, "exit") /\ UNCHANGED <<lock, sub, held>>
     ELSE IF sub[c] % SPL # 0
       THEN Goto(c, "pml3") /\ UNCHANGED <<lock, sub, held>>
     ELSE LET r == <<pool[c], sub[c] \div SPL>> IN
          IF Unlocked(c)[r] = NULL
            THEN /\ lock' = [Unlocked(c) EXCEPT ![r] = c]
                 /\ held' = [held EXCEPT ![c] = r]
                 /\ Goto(c, "pml3") /\ UNCHANGED sub
            ELSE /\ lock' = Unlocked(c)
                 /\ held' = [held EXCEPT ![c] = NULL]
                 /\ sub' = [sub EXCEPT ![c] = SkipRegion(c)]
                 /\ Goto(c, "head")
  /\ UNCHANGED <<l3, l2, pte, free, mem, pool, slot, pg, ret, allocs>>

\* the subpool's PML3 entry: set it up (vmm_setup_level) if absent; on
\* failure continue with the next subpool
pml3(c) ==
  /\ pc[c] = "pml3"
  /\ \/ /\ l3[Sub(c)] # NULL
        /\ BelowPML3(c)
        /\ UNCHANGED <<l3, free, sub>>
     \/ /\ l3[Sub(c)] = NULL /\ free # {}
        /\ l3' = [l3 EXCEPT ![Sub(c)] = Palloc]
        /\ free' = free \ {Palloc}
        /\ BelowPML3(c)
        /\ UNCHANGED sub
     \/ /\ l3[Sub(c)] = NULL /\ free = {}
        /\ NextSub(c)
        /\ UNCHANGED <<l3, free, slot>>
  /\ UNCHANGED <<lock, l2, pte, mem, pool, held, pg, ret, allocs>>

\* the PML2 entry over the subpool's units: set it up if absent; on
\* failure continue (the loop over the subpool's PML2 entries ends)
pml2(c) ==
  /\ pc[c] = "pml2"
  /\ \/ /\ l2[Sub(c)] # NULL
        /\ Goto(c, "slot") /\ slot' = [slot EXCEPT ![c] = 0]
        /\ UNCHANGED <<l2, free, sub>>
     \/ /\ l2[Sub(c)] = NULL /\ free # {}
        /\ l2' = [l2 EXCEPT ![Sub(c)] = Palloc]
        /\ free' = free \ {Palloc}
        /\ Goto(c, "slot") /\ slot' = [slot EXCEPT ![c] = 0]
        /\ UNCHANGED sub
     \/ /\ l2[Sub(c)] = NULL /\ free = {}
        /\ NextSub(c)
        /\ UNCHANGED <<l2, free, slot>>
  /\ UNCHANGED <<lock, l3, pte, mem, pool, held, pg, ret, allocs>>

\* mutant: the present test dropped; every unit is materialised again
slot_step_no_present(c) ==
  /\ pc[c] = "slot"
  /\ IF slot[c] >= SlotsPerSub
       THEN NextSub(c)
     ELSE Goto(c, IF Small(pool[c]) THEN "card" ELSE "page") /\ UNCHANGED sub
  /\ pg' = [pg EXCEPT ![c] = 0]
  /\ UNCHANGED <<lock, l3, l2, pte, free, mem, pool, held, slot, ret, allocs>>

\* the unit loop of the subpool: a unit whose first PML1 entry is absent
\* is materialised, otherwise its header(s) are read
slot_step(c) ==
  /\ pc[c] = "slot"
  /\ IF slot[c] >= SlotsPerSub
       THEN NextSub(c)
     ELSE /\ Goto(c, IF pte[Obj(c)][0] # NULL
                       THEN IF Small(pool[c]) THEN "scan" ELSE "color"
                     ELSE IF Small(pool[c]) THEN "card" ELSE "page")
          /\ UNCHANGED sub
  /\ pg' = [pg EXCEPT ![c] = 0]
  /\ UNCHANGED <<lock, l3, l2, pte, free, mem, pool, held, slot, ret, allocs>>

\* one palloc of an object's materialisation loop, at label at: the page
\* and its entry (PML1, or a huge PML2 entry); after the last page, done
Materialise(c, at, done) ==
  /\ pc[c] = at
  /\ free # {}
  /\ pte' = [pte EXCEPT ![Obj(c)][pg[c]] = Palloc]
  /\ free' = free \ {Palloc}
  /\ mem' = [mem EXCEPT ![Palloc] = Fresh]
  /\ pg' = [pg EXCEPT ![c] = pg[c] + 1]
  /\ Goto(c, IF pg[c] + 1 = Geometry[pool[c]].pages THEN done ELSE at)
  /\ UNCHANGED <<lock, l3, l2, pool, sub, held, slot, ret, allocs>>

\* palloc failed at label at.  The loop while (i--) reads each taken
\* page's entry .frame, which holds the physical address >> 12, and passes
\* PHYS_TO_DIRECT of that frame number to vmm_map and pfree: an address in
\* the first megabyte, not a page palloc handed out.  The taken pages stay
\* allocated and their entries stay present; the loop continues with the
\* next object.
RollBack(c, at) ==
  /\ pc[c] = at
  /\ free = {}
  /\ NextSlot(c)
  /\ UNCHANGED <<lock, l3, l2, pte, free, mem, pool, sub, held, pg, ret, allocs>>

\* a blue header at label at is the result, goto exit
ColorTest(c, at) ==
  /\ pc[c] = at
  /\ IF Color(Obj(c), 0) = "blue"
       THEN ret' = [ret EXCEPT ![c] = <<Obj(c), 0>>] /\ Goto(c, "exit")
            /\ UNCHANGED slot
       ELSE NextSlot(c) /\ UNCHANGED ret
  /\ UNCHANGED <<lock, l3, l2, pte, free, mem, pool, sub, held, pg, allocs>>

\* 2MB path: the object loop over the PML3 range; an object whose first
\* PML2 entry is absent is materialised, otherwise its header is read
huge_slot(c) ==
  /\ pc[c] = "hslot"
  /\ IF slot[c] >= SlotsPerSub
       THEN NextSub(c)
     ELSE Goto(c, IF pte[Obj(c)][0] # NULL THEN "hcolor" ELSE "hpage")
          /\ UNCHANGED sub
  /\ pg' = [pg EXCEPT ![c] = 0]
  /\ UNCHANGED <<lock, l3, l2, pte, free, mem, pool, held, slot, ret, allocs>>

\* 2MB path: palloc(SIZE_2MB) and the huge PML2 entry
huge_page(c) == Materialise(c, "hpage", "hcolor")

\* 2MB path: palloc failed
huge_rollback(c) == RollBack(c, "hpage")

\* 2MB path: the colour test
huge_color(c) == ColorTest(c, "hcolor")

\* objects of 4KB or more: palloc(SIZE_4KB) and the PML1 entry
page(c) == Materialise(c, "page", "color")

\* mutant: after the rollback the same object is tried again
rollback_retry(c) ==
  /\ pc[c] = "page"
  /\ free = {}
  /\ Goto(c, "slot")
  /\ UNCHANGED <<lock, l3, l2, pte, free, mem, pool, sub, held, slot, pg, ret, allocs>>

\* objects of 4KB or more: palloc failed
rollback(c) == RollBack(c, "page")

\* objects of 4KB or more: the colour test
color(c) == ColorTest(c, "color")

\* objects below 4KB: palloc the page and set its PML1 entry; on failure
\* continue with the next page
card(c) ==
  /\ pc[c] = "card"
  /\ \/ /\ free # {}
        /\ pte' = [pte EXCEPT ![Obj(c)][0] = Palloc]
        /\ free' = free \ {Palloc}
        /\ mem' = [mem EXCEPT ![Palloc] = Fresh]
        /\ Goto(c, "scan")
        /\ UNCHANGED slot
     \/ /\ free = {}
        /\ NextSlot(c)
        /\ UNCHANGED <<pte, free, mem>>
  /\ UNCHANGED <<lock, l3, l2, pool, sub, held, pg, ret, allocs>>

\* objects below 4KB: one iteration of the loop over the page's objects;
\* a blue header is the result, goto exit
scan(c) ==
  /\ pc[c] = "scan"
  /\ IF pg[c] >= Geometry[pool[c]].objs
       THEN NextSlot(c) /\ UNCHANGED <<pg, ret>>
     ELSE IF Color(Obj(c), pg[c]) = "blue"
       THEN ret' = [ret EXCEPT ![c] = <<Obj(c), pg[c]>>] /\ Goto(c, "exit")
            /\ UNCHANGED <<slot, pg>>
     ELSE pg' = [pg EXCEPT ![c] = pg[c] + 1] /\ UNCHANGED <<pc, slot, ret>>
  /\ UNCHANGED <<lock, l3, l2, pte, free, mem, pool, sub, held, allocs>>

\* mutant: the goto exit path returns without unlocking
exit_no_unlock(c) ==
  /\ pc[c] = "exit"
  /\ Goto(c, IF ret[c] = NULL THEN "null" ELSE "ret")
  /\ UNCHANGED <<lock, l3, l2, pte, free, mem, pool, sub, held, slot, pg, ret, allocs>>

\* exit: unlock the last lock taken and return
exit(c) ==
  /\ pc[c] = "exit"
  /\ lock' = Unlocked(c)
  /\ held' = [held EXCEPT ![c] = NULL]
  /\ Goto(c, IF ret[c] = NULL THEN "null" ELSE "ret")
  /\ UNCHANGED <<l3, l2, pte, free, mem, pool, sub, slot, pg, ret, allocs>>

-----------------------------------------------------------------------------
(* The callers.                                                            *)

\* gc_new: o->color = alloc_color on the returned object
gc_new_color(c) ==
  /\ pc[c] = "ret"
  /\ mem' = [mem EXCEPT ![pte[ret[c][1]][0]][ret[c][2]] = "used"]
  /\ Goto(c, "idle")
  /\ UNCHANGED <<lock, l3, l2, pte, free, pool, sub, held, slot, pg, ret, allocs>>

\* sweep: swept->color = COLOR_BLUE, no heap lock taken
sweep_free(o, k) ==
  /\ pte[o][0] # NULL /\ Color(o, k) = "used"
  /\ mem' = [mem EXCEPT ![pte[o][0]][k] = "blue"]
  /\ UNCHANGED <<lock, l3, l2, pte, free, pc, pool, sub, held, slot, pg, ret, allocs>>

\* one step of a core inside heap_alloc
Search(c) ==
  \/ loop_head(c) \/ pml3(c) \/ huge_slot(c) \/ huge_page(c)
  \/ huge_rollback(c) \/ huge_color(c) \/ pml2(c) \/ slot_step(c)
  \/ page(c) \/ rollback(c) \/ color(c) \/ card(c) \/ scan(c) \/ exit(c)

Core(c) == (\E p \in Pools : call(c, p)) \/ Search(c) \/ gc_new_color(c)

Next == (\E c \in Cores : Core(c)) \/ (\E x \in Objects : sweep_free(x[1], x[2]))

\* heap_alloc and the rest of gc_new run with preemption disabled (heap.c
\* 180): a core inside them keeps running.  New calls and sweeps are not
\* assumed to happen.
Fairness == \A c \in Cores : WF_vars(Search(c) \/ gc_new_color(c))

Spec == Init /\ [][Next]_vars /\ Fairness

-----------------------------------------------------------------------------
(* Properties.                                                             *)

Pcs == {"idle", "head", "pml3", "hslot", "hpage", "hcolor", "pml2", "slot",
        "page", "color", "card", "scan", "exit", "ret", "null"}

TypeOK ==
  /\ lock \in [Regions -> Cores \cup {NULL}]
  /\ l3 \in [Subs -> Frames \cup {NULL}]
  /\ l2 \in [Subs -> Frames \cup {NULL}]
  /\ \A o \in Slots : pte[o] \in [Pages(o[1]) -> Frames \cup {NULL}]
  /\ free \subseteq Frames
  /\ mem \in [Frames -> [0..(MaxObjs - 1) -> {"blue", "used"}]]
  /\ pc \in [Cores -> Pcs]
  /\ held \in [Cores -> Regions \cup {NULL}]
  /\ \A c \in Cores : sub[c] \in 0..NumSub
  /\ ret \in [Cores -> Objects \cup {NULL}]

\* the steps between the region loop's head and exit, which touch the
\* subpool's page tables and headers
Inner == {"pml3", "hslot", "hpage", "hcolor", "pml2", "slot", "page", "color",
          "card", "scan"}

RegionOf(c) == <<pool[c], sub[c] \div SPL>>

(* The region loop's lock discipline on every core: a core works on a    *)
(* subpool only while it holds the lock of that subpool's region, taken *)
(* at the region's first subpool and kept across the others, across     *)
(* setup failures and busy-region skips; and a region lock is held only *)
(* by the core inside heap_alloc that took it last, so none survives    *)
(* the call that took it.                                                *)
RegionLockDiscipline ==
  /\ \A c \in Cores : pc[c] \in Inner => held[c] = RegionOf(c) /\ lock[RegionOf(c)] = c
  /\ \A r \in Regions : lock[r] # NULL =>
       held[lock[r]] = r /\ pc[lock[r]] \notin {"idle", "ret", "null"}

\* the page-table entries that are present, and the frames behind them
Entries == {<<"l3", s>> : s \in {t \in Subs : l3[t] # NULL}}
             \cup {<<"l2", s>> : s \in {t \in Subs : l2[t] # NULL}}
             \cup {x \in UNION {{o} \X Pages(o[1]) : o \in Slots} : pte[x[1]][x[2]] # NULL}
Frame(e) == CASE e[1] = "l3" -> l3[e[2]]
              [] e[1] = "l2" -> l2[e[2]]
              [] OTHER       -> pte[e[1]][e[2]]
Mapped == {Frame(e) : e \in Entries}

(* Every physical page is either free for palloc or behind exactly one   *)
(* page-table entry of the heap: materialisation on two cores, in all    *)
(* three paths, never maps the same unit twice (the region lock), setup  *)
(* failures leak no page, and no entry points at a page given back.      *)
FramesConserved ==
  /\ free \cap Mapped = {}
  /\ free \cup Mapped = Frames
  /\ Cardinality(Mapped) = Cardinality(Entries)

(* Every heap_alloc call returns, an object or NULL: the try-lock never  *)
(* waits, a busy region is skipped, and every setup failure, rollback and *)
(* non-blue header moves the loops on, while other cores allocate, fail  *)
(* and sweep recolours objects concurrently.                              *)
AllocReturns == \A c \in Cores : pc[c] = "head" ~> pc[c] \in {"ret", "null"}

(* The header comment of the rollback, "free all the pages that we      *)
(* tried to allocate": an object heap_alloc returns has every one of its *)
(* pages mapped, so gc_new and the constructor can touch all of it.  A   *)
(* failed materialisation must not leave a partial object that a later   *)
(* call takes for a complete one.                                         *)
ReturnedObjectsMapped ==
  \A c \in Cores : pc[c] = "ret" => \A i \in Pages(pool[c]) : pte[ret[c][1]][i] # NULL

\* free objects of pool p that need no memory: materialised, blue header
FreeObjects(p) ==
  {x \in Objects : x[1][1] = p /\ pte[x[1]][0] # NULL /\ Color(x[1], x[2]) = "blue"}

\* cores inside heap_alloc for pool p
Searching(p) ==
  {c \in Cores : pool[c] = p /\ pc[c] \in Pcs \ {"idle", "ret", "null"}}

(* Spec 4.1: heap_alloc returns NULL only on out-of-memory.  When a core  *)
(* gets NULL its pool has no more materialised free objects than the     *)
(* other cores still searching it could take, although the region loop   *)
(* skips a region another core holds.                                     *)
NoSpuriousNull ==
  [][\A c \in Cores :
       (pc[c] = "exit" /\ pc'[c] = "null")
         => Cardinality(FreeObjects(pool[c])) <= Cardinality(Searching(pool[c]) \ {c})]_vars
=============================================================================
