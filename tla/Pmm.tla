-------------------------------- MODULE Pmm --------------------------------
(***************************************************************************)
(* The physical memory manager of BoredOS (mem/pmm.c): a buddy allocator   *)
(* per zone, guarded by a spinlock per zone, under per-CPU pools of single *)
(* frames that are used with interrupts off and without a lock.            *)
(*                                                                         *)
(* A thread runs one operation at a time.  Everything between taking and   *)
(* releasing a zone lock is cut into one step per loop iteration, so every *)
(* iteration interleaves with the other threads as it does in the kernel.  *)
(* A free list is a set: the list order decides which block is taken and   *)
(* nothing else, so the choice is left open.  Page contents are left out.  *)
(***************************************************************************)
EXTENDS Integers, Sequences, FiniteSets

CONSTANTS
    Threads,          \* kernel contexts that may be inside the allocator
    Cpus,             \* CPUs, each with one pool
    total_page_count, \* number of page frames
    PMM_DMA_LIMIT,    \* first frame above the DMA zone
    PMM_DMA32_LIMIT,  \* first frame above the DMA32 zone
    PMM_MAX_ORDER,
    PCP_BATCH_SIZE,
    PCP_MAX_PAGES,
    Size,             \* Size[o] is 1 << o
    UsableRanges,     \* the frame ranges pmm_init passes to ingest_usable_range
    Requests,         \* the (order, flags) pairs callers ask for
    MaxRefs,          \* bound: references a client takes on one block
    NoThread

PMM_ZONE_DMA == 0
PMM_ZONE_DMA32 == 1
PMM_ZONE_NORMAL == 2

Zones == {PMM_ZONE_DMA, PMM_ZONE_DMA32, PMM_ZONE_NORMAL}
Frames == 0 .. total_page_count - 1
Orders == 0 .. PMM_MAX_ORDER - 1

\* The allocation flags the code tells apart: no flag (or only ZERO), a flag
\* that does not name a zone, and the two that do.
AllocFlags == {"NONE", "KERNEL", "DMA", "DMA32"}

ASSUME SizesAssumption ==
    /\ total_page_count \in Nat
    /\ PMM_MAX_ORDER \in Nat \ {0}
    /\ Size \in [0 .. PMM_MAX_ORDER -> Nat \ {0}]
    /\ Size[0] = 1
    /\ \A o \in Orders : Size[o + 1] = 2 * Size[o]

ASSUME LimitsAssumption ==
    /\ PMM_DMA_LIMIT \in Nat
    /\ PMM_DMA32_LIMIT \in Nat
    /\ PMM_DMA_LIMIT <= PMM_DMA32_LIMIT

\* The memory map: frame ranges in ascending order that do not overlap.
ASSUME RangesAssumption ==
    /\ UsableRanges \in Seq([lo : Nat, hi : Nat])
    /\ \A i \in 1 .. Len(UsableRanges) :
           UsableRanges[i].lo < UsableRanges[i].hi /\ UsableRanges[i].hi <= total_page_count
    /\ \A i, j \in 1 .. Len(UsableRanges) :
           i < j => UsableRanges[i].hi <= UsableRanges[j].lo

\* PCP_BATCH_SIZE is 16 and PCP_MAX_PAGES is 32.  What the code relies on is
\* that a drained batch never reaches down to the pages of a refill.
ASSUME PoolAssumption ==
    /\ PCP_BATCH_SIZE \in Nat \ {0}
    /\ PCP_MAX_PAGES \in Nat
    /\ 2 * PCP_BATCH_SIZE <= PCP_MAX_PAGES + 1

ASSUME RequestsAssumption == Requests \subseteq [order : Orders, flags : AllocFlags]

ASSUME ThreadsAssumption == NoThread \notin Threads

VARIABLES
    boot,       \* progress of pmm_init through UsableRanges
    free,       \* frames whose descriptor has PAGE_FLAG_FREE
    refcount,
    order,
    zone,
    free_lists, \* free_lists[z][o]: first frames of the free blocks
    free_pages,
    pcp,        \* the pool of a CPU, bottom to top
    mode,       \* "smp" once pmm_smp_ready is set
    lock,       \* holder of a zone's spinlock
    pc,
    op,         \* the locals of a thread's operation
    held        \* environment: references that callers hold on a block

pageVars == <<free, refcount, order, zone>>
zoneVars == <<free_lists, free_pages>>
vars == <<boot, free, refcount, order, zone, free_lists, free_pages, pcp, mode,
          lock, pc, op, held>>

paddr_to_zone_id(p) ==
    IF p < PMM_DMA_LIMIT THEN PMM_ZONE_DMA
    ELSE IF p < PMM_DMA32_LIMIT THEN PMM_ZONE_DMA32
    ELSE PMM_ZONE_NORMAL

\* pfn ^ (1UL << o)
Buddy(p, o) ==
    IF (p \div Size[o]) % 2 = 0 THEN p + Size[o] ELSE p - Size[o]

IdleOp == [cpu |-> NoThread, want |-> 0, z |-> PMM_ZONE_DMA, kind |-> "one",
           page |-> 0, cur |-> 0, batch |-> <<>>]

Init ==
    /\ boot = [range |-> 1, curr |-> IF Len(UsableRanges) = 0 THEN 0 ELSE UsableRanges[1].lo]
    /\ free = {}
    /\ refcount = [p \in Frames |-> 1]
    /\ order = [p \in Frames |-> 0]
    /\ zone = [p \in Frames |-> paddr_to_zone_id(p)]
    /\ free_lists = [z \in Zones |-> [o \in Orders |-> {}]]
    /\ free_pages = [z \in Zones |-> 0]
    /\ pcp = [c \in Cpus |-> <<>>]
    /\ mode = "boot"
    /\ lock = [z \in Zones |-> NoThread]
    /\ pc = [t \in Threads |-> "idle"]
    /\ op = [t \in Threads |-> IdleOp]
    /\ held = [p \in Frames |-> 0]

Booted == boot.range > Len(UsableRanges)

-----------------------------------------------------------------------------
(* Boot. *)

\* Mutant: the comparison with the end is off by one frame.
MayGrow_PastEnd(p, o, hi) ==
    /\ p % Size[o] = 0
    /\ p + Size[o] - 1 <= hi
    /\ paddr_to_zone_id(p) = paddr_to_zone_id(p + Size[o] - 1)

\* May the block that starts at frame p grow to order o within frames < hi?
MayGrow(p, o, hi) ==
    /\ p % Size[o] = 0
    /\ p + Size[o] <= hi
    /\ paddr_to_zone_id(p) = paddr_to_zone_id(p + Size[o] - 1)

\* The order at which the inner loop of ingest_usable_range stops.
IngestStopsAt(p, o, hi) ==
    /\ \A k \in 1 .. o : MayGrow(p, k, hi)
    /\ o + 1 \in Orders => ~ MayGrow(p, o + 1, hi)

add_free_block(p, o) ==
    /\ order' = [order EXCEPT ![p] = o]
    /\ free' = free \cup {p}
    /\ refcount' = [refcount EXCEPT ![p] = 0]
    /\ free_lists' = [free_lists EXCEPT ![zone[p]][o] = @ \cup {p}]
    /\ free_pages' = [free_pages EXCEPT ![zone[p]] = @ + Size[o]]

ingest_usable_range ==
    /\ ~ Booted
    /\ \E o \in Orders :
          LET r == UsableRanges[boot.range]
              next == boot.curr + Size[o]
          IN /\ IngestStopsAt(boot.curr, o, r.hi)
             /\ add_free_block(boot.curr, o)
             /\ boot' = IF next < r.hi
                        THEN [boot EXCEPT !.curr = next]
                        ELSE [range |-> boot.range + 1,
                              curr |-> IF boot.range < Len(UsableRanges)
                                       THEN UsableRanges[boot.range + 1].lo ELSE 0]
    /\ UNCHANGED <<zone, pcp, mode, lock, pc, op, held>>

\* Run once by the boot CPU before the other CPUs start.
pmm_init_percpu ==
    /\ Booted
    /\ mode = "boot"
    /\ \A t \in Threads : pc[t] = "idle"
    /\ pcp' = [c \in Cpus |-> <<>>]
    /\ mode' = "smp"
    /\ UNCHANGED <<boot, pageVars, zoneVars, lock, pc, op, held>>

-----------------------------------------------------------------------------
(* Helpers of the operations. *)

\* A thread that refills a pool has interrupts off: no other thread runs on
\* its CPU meanwhile.
CpuFree(t, c) ==
    \A u \in Threads \ {t} :
        ~ (op[u].kind = "refill" /\ op[u].cpu = c)

Finish(t) ==
    /\ pc' = [pc EXCEPT ![t] = "idle"]
    /\ op' = [op EXCEPT ![t] = IdleOp]

HandOut(p) ==
    held' = [held EXCEPT ![p] = 1]

StartZone(f) ==
    CASE f = "DMA" -> PMM_ZONE_DMA
      [] f = "DMA32" -> PMM_ZONE_DMA32
      [] OTHER -> PMM_ZONE_NORMAL

-----------------------------------------------------------------------------
(* pmm_alloc_order *)

\* Mutant: the reference count of a pooled frame is not set again.
AllocFromPool_KeepsCount(t, c) ==
    /\ Booted
    /\ pc[t] = "idle"
    /\ [order |-> 0, flags |-> "NONE"] \in Requests
    /\ mode = "smp"
    /\ CpuFree(t, c)
    /\ Len(pcp[c]) > 0
    /\ LET p == pcp[c][Len(pcp[c])]
       IN /\ pcp' = [pcp EXCEPT ![c] = SubSeq(@, 1, Len(@) - 1)]
          /\ order' = [order EXCEPT ![p] = 0]
          /\ free' = free \ {p}
          /\ HandOut(p)
    /\ UNCHANGED <<boot, refcount, zone, zoneVars, mode, lock, pc, op>>

\* The pool of the CPU has a frame: it is taken without any lock.
AllocFromPool(t, c) ==
    /\ Booted
    /\ pc[t] = "idle"
    /\ [order |-> 0, flags |-> "NONE"] \in Requests
    /\ mode = "smp"
    /\ CpuFree(t, c)
    /\ Len(pcp[c]) > 0
    /\ LET p == pcp[c][Len(pcp[c])]
       IN /\ pcp' = [pcp EXCEPT ![c] = SubSeq(@, 1, Len(@) - 1)]
          /\ order' = [order EXCEPT ![p] = 0]
          /\ free' = free \ {p}
          /\ refcount' = [refcount EXCEPT ![p] = 1]
          /\ HandOut(p)
    /\ UNCHANGED <<boot, zone, zoneVars, mode, lock, pc, op>>

\* The pool is empty: it is refilled, interrupts stay off until that is done.
AllocEmptyPool(t, c) ==
    /\ Booted
    /\ pc[t] = "idle"
    /\ [order |-> 0, flags |-> "NONE"] \in Requests
    /\ mode = "smp"
    /\ CpuFree(t, c)
    /\ Len(pcp[c]) = 0
    /\ pc' = [pc EXCEPT ![t] = "lock"]
    /\ op' = [op EXCEPT ![t] = [IdleOp EXCEPT !.cpu = c, !.kind = "refill",
                                               !.z = PMM_ZONE_NORMAL]]
    /\ UNCHANGED <<boot, pageVars, zoneVars, pcp, mode, lock, held>>

\* Any other request goes to the zones, from the flag's zone downwards.
AllocFromZones(t, o, f) ==
    /\ Booted
    /\ pc[t] = "idle"
    /\ ~ (o = 0 /\ f = "NONE" /\ mode = "smp")
    /\ pc' = [pc EXCEPT ![t] = "lock"]
    /\ op' = [op EXCEPT ![t] = [IdleOp EXCEPT !.want = o, !.z = StartZone(f)]]
    /\ UNCHANGED <<boot, pageVars, zoneVars, pcp, mode, lock, held>>

\* A refill finds the NORMAL zone, which it has just locked, without free pages.
NormalExhausted(t) ==
    op[t].kind = "refill" /\ op[t].z = PMM_ZONE_NORMAL /\ free_pages[PMM_ZONE_NORMAL] = 0

\* Take the zone's lock.
LockZone(t) ==
    /\ pc[t] = "lock"
    /\ lock[op[t].z] = NoThread
    /\ ~ NormalExhausted(t)
    /\ lock' = [lock EXCEPT ![op[t].z] = t]
    /\ pc' = [pc EXCEPT ![t] = "take"]
    /\ UNCHANGED <<boot, pageVars, zoneVars, pcp, mode, op, held>>

\* The refill gives the lock back and turns to DMA32.
RefillFromDma32(t) ==
    /\ pc[t] = "lock"
    /\ lock[op[t].z] = NoThread
    /\ NormalExhausted(t)
    /\ op' = [op EXCEPT ![t].z = PMM_ZONE_DMA32]
    /\ UNCHANGED <<boot, pageVars, zoneVars, pcp, mode, lock, pc, held>>

\* The orders at which alloc_from_zone_locked could take a block.
Candidates(z, o) ==
    {co \in Orders : co >= o /\ free_lists[z][co] # {}}

\* alloc_from_zone_locked finds a block: the smallest order that has one.
TakeBlock(t) ==
    /\ pc[t] = "take"
    /\ \E co \in Candidates(op[t].z, op[t].want) :
          /\ \A k \in Candidates(op[t].z, op[t].want) : co <= k
          /\ \E p \in free_lists[op[t].z][co] :
                /\ free_lists' = [free_lists EXCEPT ![op[t].z][co] = @ \ {p}]
                /\ op' = [op EXCEPT ![t].page = p, ![t].cur = co]
    /\ pc' = [pc EXCEPT ![t] = "split"]
    /\ UNCHANGED <<boot, pageVars, free_pages, pcp, mode, lock, held>>

\* The upper half of the block goes back to the list one order down.
SplitBlock(t) ==
    /\ pc[t] = "split"
    /\ op[t].cur > op[t].want
    /\ LET o == op[t].cur - 1
           buddy == op[t].page + Size[o]
       IN /\ order' = [order EXCEPT ![buddy] = o]
          /\ zone' = [zone EXCEPT ![buddy] = zone[op[t].page]]
          /\ free' = free \cup {buddy}
          /\ refcount' = [refcount EXCEPT ![buddy] = 0]
          /\ free_lists' = [free_lists EXCEPT ![op[t].z][o] = @ \cup {buddy}]
          /\ op' = [op EXCEPT ![t].cur = o]
    /\ UNCHANGED <<boot, free_pages, pcp, mode, lock, pc, held>>

\* Mutant: the counter drops by one frame whatever the order.
TakenBlock_CountsOne(t) ==
    LET p == op[t].page
        o == op[t].want
    IN /\ order' = [order EXCEPT ![p] = o]
       /\ free' = free \ {p}
       /\ refcount' = [refcount EXCEPT ![p] = 1]
       /\ free_pages' = [free_pages EXCEPT ![op[t].z] = @ - 1]

\* What alloc_from_zone_locked writes into the block it returns.
TakenBlock(t) ==
    LET p == op[t].page
        o == op[t].want
    IN /\ order' = [order EXCEPT ![p] = o]
       /\ free' = free \ {p}
       /\ refcount' = [refcount EXCEPT ![p] = 1]
       /\ free_pages' = [free_pages EXCEPT ![op[t].z] = @ - Size[o]]

\* The end of a refill that fetched something: the first page of the batch is
\* returned, the rest fills the pool.
EndRefill(t, batch) ==
    /\ lock' = [lock EXCEPT ![op[t].z] = NoThread]
    /\ pcp' = [pcp EXCEPT ![op[t].cpu] = @ \o SubSeq(batch, 2, Len(batch))]
    /\ HandOut(batch[1])
    /\ Finish(t)

\* The block has the wanted order and is no part of a refill: hand it out.
TakeDone(t) ==
    /\ pc[t] = "split"
    /\ op[t].cur = op[t].want
    /\ op[t].kind = "one"
    /\ TakenBlock(t)
    /\ HandOut(op[t].page)
    /\ lock' = [lock EXCEPT ![op[t].z] = NoThread]
    /\ Finish(t)
    /\ UNCHANGED <<boot, zone, free_lists, pcp, mode>>

\* The block is one page of a refill, whose batch is not full yet.
TakeForRefill(t) ==
    /\ pc[t] = "split"
    /\ op[t].cur = op[t].want
    /\ op[t].kind = "refill"
    /\ Len(op[t].batch) + 1 < PCP_BATCH_SIZE
    /\ TakenBlock(t)
    /\ op' = [op EXCEPT ![t].batch = Append(@, op[t].page)]
    /\ pc' = [pc EXCEPT ![t] = "take"]
    /\ UNCHANGED <<boot, zone, free_lists, pcp, mode, lock, held>>

\* The block is the last page of a full batch.
BatchFull(t) ==
    /\ pc[t] = "split"
    /\ op[t].cur = op[t].want
    /\ op[t].kind = "refill"
    /\ Len(op[t].batch) + 1 = PCP_BATCH_SIZE
    /\ TakenBlock(t)
    /\ EndRefill(t, Append(op[t].batch, op[t].page))
    /\ UNCHANGED <<boot, zone, free_lists, mode>>

\* alloc_from_zone_locked returns NULL.
ZoneEmpty(t) ==
    /\ pc[t] = "take"
    /\ Candidates(op[t].z, op[t].want) = {}

\* The refill ends early with what it has.
BatchShort(t) ==
    /\ ZoneEmpty(t)
    /\ op[t].kind = "refill"
    /\ Len(op[t].batch) > 0
    /\ EndRefill(t, op[t].batch)
    /\ UNCHANGED <<boot, pageVars, zoneVars, mode>>

\* The refill has fetched nothing: the request falls through to the zones.
RefillFails(t) ==
    /\ ZoneEmpty(t)
    /\ op[t].kind = "refill"
    /\ Len(op[t].batch) = 0
    /\ lock' = [lock EXCEPT ![op[t].z] = NoThread]
    /\ pc' = [pc EXCEPT ![t] = "lock"]
    /\ op' = [op EXCEPT ![t] = [IdleOp EXCEPT !.z = PMM_ZONE_NORMAL]]
    /\ UNCHANGED <<boot, pageVars, zoneVars, pcp, mode, held>>

\* Mutant: the walk down the zones does not stop at the last one.
NextZone_PastLastZone(t) ==
    /\ ZoneEmpty(t)
    /\ op[t].kind = "one"
    /\ lock' = [lock EXCEPT ![op[t].z] = NoThread]
    /\ op' = [op EXCEPT ![t].z = @ - 1]
    /\ pc' = [pc EXCEPT ![t] = "lock"]
    /\ UNCHANGED <<boot, pageVars, zoneVars, pcp, mode, held>>

\* The request tries the next lower zone.
NextZone(t) ==
    /\ ZoneEmpty(t)
    /\ op[t].kind = "one"
    /\ op[t].z > PMM_ZONE_DMA
    /\ lock' = [lock EXCEPT ![op[t].z] = NoThread]
    /\ op' = [op EXCEPT ![t].z = @ - 1]
    /\ pc' = [pc EXCEPT ![t] = "lock"]
    /\ UNCHANGED <<boot, pageVars, zoneVars, pcp, mode, held>>

\* No zone has a block: return NULL.
AllocFails(t) ==
    /\ ZoneEmpty(t)
    /\ op[t].kind = "one"
    /\ op[t].z = PMM_ZONE_DMA
    /\ lock' = [lock EXCEPT ![op[t].z] = NoThread]
    /\ Finish(t)
    /\ UNCHANGED <<boot, pageVars, zoneVars, pcp, mode, held>>

-----------------------------------------------------------------------------
(* pmm_free_order, pmm_page_ref and pmm_page_unref *)

pmm_page_ref(p) ==
    /\ held[p] \in 1 .. MaxRefs - 1
    /\ refcount' = [refcount EXCEPT ![p] = @ + 1]
    /\ held' = [held EXCEPT ![p] = @ + 1]
    /\ UNCHANGED <<boot, free, order, zone, zoneVars, pcp, mode, lock, pc, op>>

\* A caller gives up a reference that is not the last.
pmm_page_unref(t, p) ==
    /\ pc[t] = "idle"
    /\ held[p] > 0
    /\ refcount[p] > 1
    /\ refcount' = [refcount EXCEPT ![p] = @ - 1]
    /\ held' = [held EXCEPT ![p] = @ - 1]
    /\ UNCHANGED <<boot, free, order, zone, zoneVars, pcp, mode, lock, pc, op>>

\* A caller gives up the last reference: the block is to be freed.
pmm_free_order(t, p) ==
    /\ pc[t] = "idle"
    /\ held[p] > 0
    /\ refcount[p] = 1
    /\ refcount' = [refcount EXCEPT ![p] = 0]
    /\ held' = [held EXCEPT ![p] = @ - 1]
    /\ pc' = [pc EXCEPT ![t] = "free"]
    /\ op' = [op EXCEPT ![t] = [IdleOp EXCEPT !.page = p, !.want = order[p], !.z = zone[p]]]
    /\ UNCHANGED <<boot, free, order, zone, zoneVars, pcp, mode, lock>>

ToPool(t) == op[t].want = 0 /\ zone[op[t].page] = PMM_ZONE_NORMAL /\ mode = "smp"

\* The pool of the CPU has room for the frame.
FreeToPool(t, c) ==
    /\ pc[t] = "free"
    /\ ToPool(t)
    /\ CpuFree(t, c)
    /\ Len(pcp[c]) < PCP_MAX_PAGES
    /\ pcp' = [pcp EXCEPT ![c] = Append(@, op[t].page)]
    /\ Finish(t)
    /\ UNCHANGED <<boot, pageVars, zoneVars, mode, lock, held>>

\* Mutant: the frame that caused the drain is dropped.
DrainPool_DropsFrame(t, c) ==
    /\ pc[t] = "free"
    /\ ToPool(t)
    /\ CpuFree(t, c)
    /\ Len(pcp[c]) >= PCP_MAX_PAGES
    /\ LET left == Len(pcp[c]) - PCP_BATCH_SIZE
       IN /\ pcp' = [pcp EXCEPT ![c] = SubSeq(@, 1, left)]
          /\ op' = [op EXCEPT ![t] =
                       [IdleOp EXCEPT !.z = PMM_ZONE_NORMAL,
                                      !.batch = SubSeq(pcp[c], left + 1, Len(pcp[c]))]]
    /\ pc' = [pc EXCEPT ![t] = "flock"]
    /\ UNCHANGED <<boot, pageVars, zoneVars, mode, lock, held>>

\* The pool is full: its top PCP_BATCH_SIZE frames leave it for the NORMAL
\* zone and the frame takes their place.
DrainPool(t, c) ==
    /\ pc[t] = "free"
    /\ ToPool(t)
    /\ CpuFree(t, c)
    /\ Len(pcp[c]) >= PCP_MAX_PAGES
    /\ LET left == Len(pcp[c]) - PCP_BATCH_SIZE
       IN /\ pcp' = [pcp EXCEPT ![c] = Append(SubSeq(@, 1, left), op[t].page)]
          /\ op' = [op EXCEPT ![t] =
                       [IdleOp EXCEPT !.z = PMM_ZONE_NORMAL,
                                      !.batch = SubSeq(pcp[c], left + 1, Len(pcp[c]))]]
    /\ pc' = [pc EXCEPT ![t] = "flock"]
    /\ UNCHANGED <<boot, pageVars, zoneVars, mode, lock, held>>

\* The block goes straight back to the zone its descriptor names.
FreeToZone(t) ==
    /\ pc[t] = "free"
    /\ ~ ToPool(t)
    /\ op' = [op EXCEPT ![t].batch = <<op[t].page>>]
    /\ pc' = [pc EXCEPT ![t] = "flock"]
    /\ UNCHANGED <<boot, pageVars, zoneVars, pcp, mode, lock, held>>

LockForFree(t) ==
    /\ pc[t] = "flock"
    /\ lock[op[t].z] = NoThread
    /\ lock' = [lock EXCEPT ![op[t].z] = t]
    /\ op' = [op EXCEPT ![t].page = op[t].batch[Len(op[t].batch)], ![t].cur = op[t].want]
    /\ pc' = [pc EXCEPT ![t] = "merge"]
    /\ UNCHANGED <<boot, pageVars, zoneVars, pcp, mode, held>>

\* Mutant: a block merges only with a buddy above it.
CanMerge_UpperOnly(p, o) ==
    LET b == Buddy(p, o)
    IN /\ o < PMM_MAX_ORDER - 1
       /\ b > p
       /\ b < total_page_count
       /\ b \in free
       /\ order[b] = o
       /\ zone[b] = zone[p]
       /\ refcount[b] = 0

\* The loop condition and the breaks of free_to_zone_locked.
CanMerge(p, o) ==
    LET b == Buddy(p, o)
    IN /\ o < PMM_MAX_ORDER - 1
       /\ b < total_page_count
       /\ b \in free
       /\ order[b] = o
       /\ zone[b] = zone[p]
       /\ refcount[b] = 0

MergeBuddy(t) ==
    /\ pc[t] = "merge"
    /\ CanMerge(op[t].page, op[t].cur)
    /\ LET b == Buddy(op[t].page, op[t].cur)
       IN /\ free_lists' = [free_lists EXCEPT ![op[t].z][op[t].cur] = @ \ {b}]
          /\ op' = [op EXCEPT ![t].page = IF b < op[t].page THEN b ELSE @,
                              ![t].cur = @ + 1]
    /\ UNCHANGED <<boot, pageVars, free_pages, pcp, mode, lock, pc, held>>

\* No more merging: the block enters its list.
InsertBlock(t) ==
    LET p == op[t].page
        o == op[t].cur
    IN /\ pc[t] = "merge"
       /\ ~ CanMerge(p, o)
       /\ order' = [order EXCEPT ![p] = o]
       /\ free' = free \cup {p}
       /\ refcount' = [refcount EXCEPT ![p] = 0]
       /\ free_lists' = [free_lists EXCEPT ![op[t].z][o] = @ \cup {p}]
       /\ free_pages' = [free_pages EXCEPT ![op[t].z] = @ + Size[op[t].want]]

\* The next page of a drained batch follows under the same lock.
NextOfBatch(t) ==
    /\ InsertBlock(t)
    /\ Len(op[t].batch) > 1
    /\ op' = [op EXCEPT ![t].batch = SubSeq(@, 1, Len(@) - 1),
                        ![t].page = op[t].batch[Len(op[t].batch) - 1],
                        ![t].cur = op[t].want]
    /\ UNCHANGED <<boot, zone, pcp, mode, lock, pc, held>>

FreeDone(t) ==
    /\ InsertBlock(t)
    /\ Len(op[t].batch) = 1
    /\ lock' = [lock EXCEPT ![op[t].z] = NoThread]
    /\ Finish(t)
    /\ UNCHANGED <<boot, zone, pcp, mode, held>>

-----------------------------------------------------------------------------

Alloc(t) ==
    \/ \E c \in Cpus : AllocFromPool(t, c) \/ AllocEmptyPool(t, c)
    \/ \E r \in Requests : AllocFromZones(t, r.order, r.flags)

LockedStep(t) ==
    \/ TakeBlock(t) \/ SplitBlock(t) \/ TakeDone(t) \/ TakeForRefill(t) \/ BatchFull(t)
    \/ BatchShort(t) \/ RefillFails(t) \/ NextZone(t) \/ AllocFails(t)
    \/ MergeBuddy(t) \/ NextOfBatch(t) \/ FreeDone(t)

FreeStep(t) ==
    \/ \E p \in Frames : pmm_page_unref(t, p) \/ pmm_free_order(t, p)
    \/ \E c \in Cpus : FreeToPool(t, c) \/ DrainPool(t, c)
    \/ FreeToZone(t)

Next ==
    \/ ingest_usable_range
    \/ pmm_init_percpu
    \/ \E p \in Frames : pmm_page_ref(p)
    \/ \E t \in Threads :
          \/ Alloc(t)
          \/ FreeStep(t)
          \/ LockZone(t)
          \/ RefillFromDma32(t)
          \/ LockForFree(t)
          \/ LockedStep(t)

Spec == Init /\ [][Next]_vars

\* A thread that holds a spinlock has interrupts off, so it keeps running.
FairSpec == Spec /\ \A t \in Threads : WF_vars(LockedStep(t))

-----------------------------------------------------------------------------
(* Properties. *)

\* The frames of the block that starts at p.
BlockFrames(p, o) == p .. p + Size[o] - 1

\* A block of order 0 for every page in the batch of a thread: the pages a
\* refill has fetched, or the pages still to be freed.
BatchLeft(t) ==
    IF pc[t] = "merge" THEN SubSeq(op[t].batch, 1, Len(op[t].batch) - 1) ELSE op[t].batch

\* Every block the allocator or a caller has, with the place that has it.
ListBlocks ==
    UNION {UNION {{[at |-> <<"list", z, 0>>, first |-> p, order |-> o] : p \in free_lists[z][o]} :
                      o \in Orders} : z \in Zones}
PoolBlocks ==
    UNION {{[at |-> <<"pool", c, i>>, first |-> pcp[c][i], order |-> 0] :
                i \in 1 .. Len(pcp[c])} : c \in Cpus}
HeldBlocks ==
    {[at |-> <<"held", 0, 0>>, first |-> p, order |-> order[p]] : p \in {q \in Frames : held[q] > 0}}
OpBlocks ==
    {[at |-> <<"op", t, 0>>, first |-> op[t].page,
      order |-> IF pc[t] = "free" THEN op[t].want ELSE op[t].cur] :
          t \in {u \in Threads : pc[u] \in {"split", "merge", "free"}}}
BatchBlocks ==
    UNION {{[at |-> <<"batch", t, i>>, first |-> BatchLeft(t)[i], order |-> op[t].want] :
                i \in 1 .. Len(BatchLeft(t))} : t \in Threads}
Blocks == ListBlocks \cup PoolBlocks \cup HeldBlocks \cup OpBlocks \cup BatchBlocks

OpLocals ==
    [cpu : Cpus \cup {NoThread}, want : Orders, z : Zones, kind : {"one", "refill"},
     page : Nat, cur : Orders, batch : Seq(Frames)]
TypeOK ==
    /\ boot \in [range : 1 .. Len(UsableRanges) + 1, curr : Nat]
    /\ free \subseteq Frames
    /\ refcount \in [Frames -> Int]
    /\ order \in [Frames -> Orders]
    /\ zone \in [Frames -> Zones]
    /\ free_lists \in [Zones -> [Orders -> SUBSET Frames]]
    /\ free_pages \in [Zones -> Int]
    /\ pcp \in [Cpus -> Seq(Frames)]
    /\ mode \in {"boot", "smp"}
    /\ lock \in [Zones -> Threads \cup {NoThread}]
    /\ pc \in [Threads -> {"idle", "lock", "take", "split", "free", "flock", "merge"}]
    /\ op \in [Threads -> OpLocals]
    /\ held \in [Frames -> Nat]

OpInRange(t) ==
    /\ pc[t] \in {"split", "merge"} => op[t].page + Size[op[t].cur] <= total_page_count
    /\ pc[t] = "free" => op[t].page + Size[op[t].want] <= total_page_count
    /\ pc[t] \in {"flock", "merge"} =>
          /\ Len(op[t].batch) > 0
          /\ \A i \in 1 .. Len(op[t].batch) :
                op[t].batch[i] + Size[op[t].want] <= total_page_count

\* No operation reaches past the page array: every descriptor's order, every
\* listed block, every block a split or a merge works on and every page of a
\* batch lies below total_page_count.
BlocksInRange ==
    /\ ~ Booted => boot.curr < UsableRanges[boot.range].hi
    /\ \A p \in Frames : p + Size[order[p]] <= total_page_count
    /\ \A z \in Zones, o \in Orders : \A p \in free_lists[z][o] :
           p + Size[o] <= total_page_count
    /\ \A t \in Threads : OpInRange(t)

\* Every usable page frame is in exactly one block once pmm_init is done: a free
\* list's, a CPU pool's, a caller's, or that of a split, merge, refill or drain
\* under way.  No frame is given out twice and none is lost, and the order in a
\* caller's descriptor, which frees the block, is that of the whole block.
EachFrameOnce ==
    /\ \A a, b \in Blocks :
          a # b => BlockFrames(a.first, a.order) \cap BlockFrames(b.first, b.order) = {}
    /\ Booted => UNION {BlockFrames(b.first, b.order) : b \in Blocks}
                    = UNION {UsableRanges[i].lo .. UsableRanges[i].hi - 1 : i \in DOMAIN UsableRanges}

\* The descriptor of a block that callers hold is not marked free and counts
\* exactly their references.
HeldBlocksCounted ==
    \A p \in Frames : held[p] > 0 => refcount[p] = held[p] /\ p \notin free

ListedFrames(z) ==
    UNION {UNION {BlockFrames(p, o) : p \in free_lists[z][o]} : o \in Orders}

\* The lists of a zone hold only frames of the zone, although a pool mixes NORMAL
\* and DMA32 frames and is drained into the NORMAL zone; and the free-page counter
\* that a refill trusts is their number while nobody has the lock.
FreeListsExact ==
    \A z \in Zones :
        /\ \A q \in ListedFrames(z) : paddr_to_zone_id(q) = z
        /\ lock[z] = NoThread => free_pages[z] = Cardinality(ListedFrames(z))

\* Memory is not left fragmented: in an unlocked zone two buddies of one order
\* are never both free, since the later of the two merged them.
NoBuddiesUnmerged ==
    \A z \in Zones, o \in Orders : \A p \in free_lists[z][o] :
        (lock[z] = NoThread /\ o < PMM_MAX_ORDER - 1) => Buddy(p, o) \notin free_lists[z][o]

\* Every frame is at one place, the references that callers hold are those that
\* the descriptor of their block counts, and the free lists hold exactly the free
\* blocks, no two of them buddies that could be one block.
FramesAccounted == EachFrameOnce /\ HeldBlocksCounted /\ FreeListsExact /\ NoBuddiesUnmerged
=============================================================================
