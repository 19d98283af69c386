----------------------------- MODULE PmmProofs -----------------------------
(***************************************************************************)
(* Proofs about the physical memory manager, for every number of frames,   *)
(* threads and CPUs and every memory map.                                  *)
(***************************************************************************)
EXTENDS Pmm, TLAPS

LEMMA ElementOfSeq ==
    ASSUME NEW S, NEW s \in Seq(S), NEW i \in 1..Len(s)
    PROVE  s[i] \in S
OBVIOUS

LEMMA SizeFacts ==
    ASSUME NEW o \in Orders
    PROVE  /\ Size[o] \in Nat /\ Size[o] >= 1
           /\ Size[o + 1] = 2 * Size[o]
           /\ o - 1 \in Orders => Size[o] = 2 * Size[o - 1]
  BY SizesAssumption DEF Orders

LEMMA RangeFacts ==
    ASSUME NEW i \in 1 .. Len(UsableRanges)
    PROVE  /\ UsableRanges[i].lo \in Nat /\ UsableRanges[i].hi \in Nat
           /\ UsableRanges[i].lo < UsableRanges[i].hi
           /\ UsableRanges[i].hi <= total_page_count
  <1>1. UsableRanges[i] \in [lo : Nat, hi : Nat]
    BY RangesAssumption, ElementOfSeq, Zenon
  <1> QED BY <1>1, RangesAssumption

LEMMA TotalIsNat == total_page_count \in Nat
  BY SizesAssumption

\* The lower one of two buddies, with the block of both.
LEMMA LowerBuddy ==
    ASSUME NEW p \in Nat, NEW b \in Nat, NEW s \in Nat, NEW n \in Nat,
           p + s <= n, b + s <= n, b = p + s \/ b = p - s
    PROVE  /\ (IF b < p THEN b ELSE p) \in Nat
           /\ (IF b < p THEN b ELSE p) + 2 * s <= n
  OBVIOUS

LEMMA ZeroOrder == 0 \in Orders
  BY SizesAssumption DEF Orders

LEMMA IdleOpType == IdleOp \in OpLocals
  BY ZeroOrder DEF IdleOp, OpLocals, Zones

LEMMA InitTypeOK == Init => TypeOK /\ BlocksInRange
  <1> SUFFICES ASSUME Init PROVE TypeOK /\ BlocksInRange
    OBVIOUS
  <1>1. \A p \in Frames : paddr_to_zone_id(p) \in Zones
    BY DEF paddr_to_zone_id, Zones
  <1>2. boot \in [range : 1 .. Len(UsableRanges) + 1, curr : Nat]
    <2>1. Len(UsableRanges) \in Nat
      BY RangesAssumption
    <2>2. Len(UsableRanges) # 0 => UsableRanges[1].lo \in Nat
      BY <2>1, RangeFacts
    <2> QED BY <2>1, <2>2 DEF Init
  <1>3. free_lists \in [Zones -> [Orders -> SUBSET Frames]] /\ free_pages \in [Zones -> Int]
    BY DEF Init
  <1>4. pcp \in [Cpus -> Seq(Frames)] /\ lock \in [Zones -> Threads \cup {NoThread}]
    BY DEF Init
  <1>5. /\ refcount \in [Frames -> Int] /\ held \in [Frames -> Nat]
        /\ order \in [Frames -> Orders] /\ zone \in [Frames -> Zones]
    BY <1>1, ZeroOrder DEF Init
  <1>6. /\ pc \in [Threads -> {"idle", "lock", "take", "split", "free", "flock", "merge"}]
        /\ op \in [Threads -> OpLocals]
        /\ free \subseteq Frames /\ mode \in {"boot", "smp"}
    BY IdleOpType DEF Init
  <1>7. TypeOK
    BY <1>2, <1>3, <1>4, <1>5, <1>6 DEF TypeOK
  <1>8. ~ Booted => boot.curr < UsableRanges[boot.range].hi
    BY RangesAssumption, RangeFacts DEF Init, Booted
  <1>9. BlocksInRange
    BY <1>8, SizesAssumption DEF Init, BlocksInRange, OpInRange, Frames
  <1> QED BY <1>7, <1>9

LEMMA OpFacts ==
    ASSUME TypeOK, BlocksInRange, NEW t \in Threads
    PROVE  /\ op[t] \in OpLocals
           /\ op[t].want \in Orders /\ op[t].cur \in Orders /\ op[t].z \in Zones
           /\ op[t].page \in Nat /\ op[t].batch \in Seq(Frames)
           /\ Len(op[t].batch) \in Nat
           /\ pc[t] \in {"split", "merge", "free"} => op[t].page \in Frames
  <1>1. op[t] \in OpLocals
    BY DEF TypeOK
  <1>2. /\ op[t].want \in Orders /\ op[t].cur \in Orders /\ op[t].z \in Zones
        /\ op[t].page \in Nat /\ op[t].batch \in Seq(Frames) /\ Len(op[t].batch) \in Nat
    BY <1>1 DEF OpLocals
  <1>3. pc[t] \in {"split", "merge", "free"} => op[t].page \in Frames
    <2>1. /\ Size[op[t].want] \in Nat /\ Size[op[t].want] >= 1
          /\ Size[op[t].cur] \in Nat /\ Size[op[t].cur] >= 1
      BY <1>2, SizeFacts
    <2>2. ASSUME NEW s \in Nat, s >= 1, op[t].page + s <= total_page_count
          PROVE  op[t].page \in Frames
      BY <1>2, <2>2, SizesAssumption DEF Frames
    <2> QED BY <2>1, <2>2 DEF BlocksInRange, OpInRange
  <1> QED BY <1>1, <1>2, <1>3

\* A step of thread t leaves the locals of the other threads alone.
LEMMA OthersInRange ==
    ASSUME BlocksInRange, NEW t \in Threads, OpInRange(t)',
           \A u \in Threads \ {t} : pc'[u] = pc[u] /\ op'[u] = op[u]
    PROVE  \A u \in Threads : OpInRange(u)'
  BY DEF BlocksInRange, OpInRange

LEMMA Type_pmm_init_percpu ==
    ASSUME TypeOK, BlocksInRange, pmm_init_percpu
    PROVE  TypeOK' /\ BlocksInRange'
  <1>1. TypeOK'
    BY DEF TypeOK, pmm_init_percpu, pageVars, zoneVars
  <1>2. BlocksInRange'
    BY DEF BlocksInRange, OpInRange, Booted, pmm_init_percpu, pageVars, zoneVars
  <1> QED BY <1>1, <1>2

LEMMA Type_AllocFromPool ==
    ASSUME TypeOK, BlocksInRange, NEW t \in Threads, NEW c \in Cpus, AllocFromPool(t, c)
    PROVE  TypeOK' /\ BlocksInRange'
  <1> DEFINE p == pcp[c][Len(pcp[c])]
  <1>1. pcp[c] \in Seq(Frames) /\ p \in Frames
    BY DEF TypeOK, AllocFromPool
  <1>2. pcp' \in [Cpus -> Seq(Frames)]
    BY <1>1 DEF TypeOK, AllocFromPool
  <1>3. order' \in [Frames -> Orders] /\ refcount' \in [Frames -> Int] /\ held' \in [Frames -> Nat]
    BY <1>1, ZeroOrder DEF TypeOK, AllocFromPool, HandOut
  <1>4. TypeOK'
    BY <1>2, <1>3, Zenon DEF TypeOK, AllocFromPool, zoneVars
  <1>5. \A q \in Frames : q + Size[order'[q]] <= total_page_count
    <2>1. order' = [order EXCEPT ![p] = 0] /\ order \in [Frames -> Orders]
      BY DEF AllocFromPool, TypeOK
    <2>2. p + Size[0] <= total_page_count
      BY <1>1, SizesAssumption DEF Frames
    <2> QED BY <1>1, <2>1, <2>2 DEF BlocksInRange
  <1>6. BlocksInRange'
    BY <1>5 DEF BlocksInRange, OpInRange, Booted, AllocFromPool, zoneVars
  <1> QED BY <1>4, <1>6

LEMMA Type_AllocEmptyPool ==
    ASSUME TypeOK, BlocksInRange, NEW t \in Threads, NEW c \in Cpus, AllocEmptyPool(t, c)
    PROVE  TypeOK' /\ BlocksInRange'
  <1>1. [IdleOp EXCEPT !.cpu = c, !.kind = "refill", !.z = PMM_ZONE_NORMAL] \in OpLocals
    BY IdleOpType, Zenon DEF OpLocals, Zones
  <1>2. TypeOK'
    BY <1>1 DEF TypeOK, AllocEmptyPool, pageVars, zoneVars
  <1>3. BlocksInRange'
    BY DEF TypeOK, BlocksInRange, OpInRange, Booted, AllocEmptyPool, pageVars, zoneVars
  <1> QED BY <1>2, <1>3

LEMMA Type_AllocFromZones ==
    ASSUME TypeOK, BlocksInRange, NEW t \in Threads, NEW r \in Requests,
           AllocFromZones(t, r.order, r.flags)
    PROVE  TypeOK' /\ BlocksInRange'
  <1>1. StartZone(r.flags) \in Zones
    BY DEF StartZone, Zones
  <1>2. [IdleOp EXCEPT !.want = r.order, !.z = StartZone(r.flags)] \in OpLocals
    BY <1>1, IdleOpType, RequestsAssumption, Zenon DEF OpLocals
  <1>3. TypeOK'
    BY <1>2 DEF TypeOK, AllocFromZones, pageVars, zoneVars
  <1>4. BlocksInRange'
    BY DEF TypeOK, BlocksInRange, OpInRange, Booted, AllocFromZones, pageVars, zoneVars
  <1> QED BY <1>3, <1>4

LEMMA Type_LockZone ==
    ASSUME TypeOK, BlocksInRange, NEW t \in Threads, LockZone(t)
    PROVE  TypeOK' /\ BlocksInRange'
  <1>1. TypeOK'
    BY OpFacts DEF TypeOK, LockZone, pageVars, zoneVars
  <1>2. BlocksInRange'
    BY DEF TypeOK, BlocksInRange, OpInRange, Booted, LockZone, pageVars, zoneVars
  <1> QED BY <1>1, <1>2

LEMMA Type_RefillFromDma32 ==
    ASSUME TypeOK, BlocksInRange, NEW t \in Threads, RefillFromDma32(t)
    PROVE  TypeOK' /\ BlocksInRange'
  <1>1. [op[t] EXCEPT !.z = PMM_ZONE_DMA32] \in OpLocals
    BY OpFacts DEF OpLocals, Zones
  <1>2. op' = [op EXCEPT ![t] = [op[t] EXCEPT !.z = PMM_ZONE_DMA32]]
    BY DEF RefillFromDma32
  <1>3. TypeOK'
    BY <1>1, <1>2 DEF TypeOK, RefillFromDma32, pageVars, zoneVars
  <1>4. BlocksInRange'
    BY <1>2, OpFacts, ZenonT(40) DEF TypeOK, OpLocals, BlocksInRange, OpInRange, Booted, RefillFromDma32, pageVars, zoneVars
  <1> QED BY <1>3, <1>4

LEMMA Type_TakeBlock ==
    ASSUME TypeOK, BlocksInRange, NEW t \in Threads, TakeBlock(t)
    PROVE  TypeOK' /\ BlocksInRange'
  <1>0. PICK co \in Candidates(op[t].z, op[t].want) : \E p \in free_lists[op[t].z][co] :
           /\ free_lists' = [free_lists EXCEPT ![op[t].z][co] = @ \ {p}]
           /\ op' = [op EXCEPT ![t].page = p, ![t].cur = co]
    BY Zenon DEF TakeBlock
  <1>1. PICK p \in free_lists[op[t].z][co] :
           /\ free_lists' = [free_lists EXCEPT ![op[t].z][co] = @ \ {p}]
           /\ op' = [op EXCEPT ![t].page = p, ![t].cur = co]
    BY <1>0, Zenon
  <1>a. co \in Orders
    BY DEF Candidates
  <1>2. /\ free_lists' = [free_lists EXCEPT ![op[t].z][co] = @ \ {p}]
        /\ op' = [op EXCEPT ![t] = [op[t] EXCEPT !.page = p, !.cur = co]]
    BY <1>1, OpFacts, Zenon DEF TypeOK
  <1>3. p \in Frames /\ p \in Nat /\ p + Size[co] <= total_page_count
    BY <1>a, OpFacts DEF TypeOK, BlocksInRange, OpInRange, Frames
  <1>4. [op[t] EXCEPT !.page = p, !.cur = co] \in OpLocals
    BY <1>a, <1>3, OpFacts, Zenon DEF OpLocals
  <1>5. free_lists' \in [Zones -> [Orders -> SUBSET Frames]]
    BY <1>a, <1>2, OpFacts DEF TypeOK
  <1>6. TypeOK'
    BY <1>2, <1>4, <1>5, Zenon DEF TypeOK, TakeBlock, pageVars
  <1>7. \A z \in Zones, o \in Orders : \A q \in free_lists'[z][o] : q + Size[o] <= total_page_count
    BY <1>a, <1>2, OpFacts DEF TypeOK, BlocksInRange
  <1>8. op'[t] = [op[t] EXCEPT !.page = p, !.cur = co] /\ pc'[t] = "split"
    BY <1>2, Zenon DEF TypeOK, TakeBlock
  <1>9. op'[t].page = p /\ op'[t].cur = co
    BY <1>8, OpFacts DEF OpLocals
  <1>10. OpInRange(t)'
    BY <1>3, <1>8, <1>9 DEF OpInRange
  <1>11. \A u \in Threads : OpInRange(u)'
    BY <1>2, <1>10, OthersInRange, Zenon DEF TypeOK, TakeBlock
  <1>12. BlocksInRange'
    BY <1>7, <1>11 DEF BlocksInRange, Booted, TakeBlock, pageVars
  <1> QED BY <1>6, <1>12

LEMMA HalfInRange ==
    ASSUME NEW p \in Frames, NEW s \in Nat, s >= 1, p + 2 * s <= total_page_count
    PROVE  p + s \in Frames /\ (p + s) + s <= total_page_count
  BY SizesAssumption DEF Frames

LEMMA ListsAdd ==
    ASSUME free_lists \in [Zones -> [Orders -> SUBSET Frames]],
           NEW z \in Zones, NEW o \in Orders, NEW p \in Frames,
           free_lists' = [free_lists EXCEPT ![z][o] = @ \cup {p}]
    PROVE  free_lists' \in [Zones -> [Orders -> SUBSET Frames]]
  <1>1. [free_lists[z] EXCEPT ![o] = @ \cup {p}] \in [Orders -> SUBSET Frames]
    OBVIOUS
  <1> QED BY <1>1

LEMMA ListsRemove ==
    ASSUME free_lists \in [Zones -> [Orders -> SUBSET Frames]],
           NEW z \in Zones, NEW o \in Orders, NEW p,
           free_lists' = [free_lists EXCEPT ![z][o] = @ \ {p}]
    PROVE  free_lists' \in [Zones -> [Orders -> SUBSET Frames]]
  <1>1. [free_lists[z] EXCEPT ![o] = @ \ {p}] \in [Orders -> SUBSET Frames]
    OBVIOUS
  <1> QED BY <1>1

LEMMA Type_SplitBlock ==
    ASSUME TypeOK, BlocksInRange, NEW t \in Threads, SplitBlock(t)
    PROVE  TypeOK' /\ BlocksInRange'
  <1> DEFINE o == op[t].cur - 1
             buddy == op[t].page + Size[o]
  <1>1. /\ o \in Orders /\ Size[o] \in Nat /\ Size[o] >= 1
        /\ Size[op[t].cur] = 2 * Size[o]
        /\ op[t].page \in Frames
    <2>1. o \in Orders
      BY OpFacts, SizesAssumption DEF SplitBlock, Orders
    <2>2. op[t].page \in Frames
      BY OpFacts DEF SplitBlock
    <2> QED BY <2>1, <2>2, OpFacts, SizeFacts
  <1>2. buddy + Size[o] <= total_page_count /\ buddy \in Frames
    <2>1. op[t].page + Size[op[t].cur] <= total_page_count
      BY DEF SplitBlock, BlocksInRange, OpInRange
    <2> HIDE DEF o
    <2> QED BY <1>1, <2>1, HalfInRange
  <1>3. /\ order' = [order EXCEPT ![buddy] = o]
        /\ zone' = [zone EXCEPT ![buddy] = zone[op[t].page]]
        /\ free' = free \cup {buddy}
        /\ refcount' = [refcount EXCEPT ![buddy] = 0]
        /\ free_lists' = [free_lists EXCEPT ![op[t].z][o] = @ \cup {buddy}]
        /\ op' = [op EXCEPT ![t] = [op[t] EXCEPT !.cur = o]]
        /\ UNCHANGED <<boot, free_pages, pcp, mode, lock, pc, held>>
    BY OpFacts DEF SplitBlock, TypeOK
  <1>4. [op[t] EXCEPT !.cur = o] \in OpLocals
    BY <1>1, OpFacts DEF OpLocals
  <1> HIDE DEF o, buddy
  <1>5. free_lists' \in [Zones -> [Orders -> SUBSET Frames]]
    BY <1>1, <1>2, <1>3, OpFacts, ListsAdd, Zenon DEF TypeOK
  <1>6. /\ order' \in [Frames -> Orders] /\ zone' \in [Frames -> Zones]
        /\ free' \subseteq Frames /\ refcount' \in [Frames -> Int]
    BY <1>1, <1>2, <1>3 DEF TypeOK
  <1>7. TypeOK'
    BY <1>3, <1>4, <1>5, <1>6 DEF TypeOK
  <1>8. \A q \in Frames : q + Size[order'[q]] <= total_page_count
    BY <1>2, <1>3 DEF TypeOK, BlocksInRange
  <1>9. \A z \in Zones, k \in Orders : \A q \in free_lists'[z][k] : q + Size[k] <= total_page_count
    BY <1>1, <1>2, <1>3, OpFacts DEF TypeOK, BlocksInRange
  <1>10. op'[t] = [op[t] EXCEPT !.cur = o] /\ pc'[t] = "split"
    BY <1>3, ZenonT(40) DEF TypeOK, SplitBlock
  <1>11. op'[t].page = op[t].page /\ op'[t].cur = o
    BY <1>10, OpFacts DEF OpLocals
  <1>12. op[t].page + Size[o] <= total_page_count
    BY <1>1, <1>2, OpFacts, SizesAssumption DEF buddy, Frames
  <1>13. OpInRange(t)'
    BY <1>10, <1>11, <1>12 DEF OpInRange
  <1>14. \A u \in Threads : OpInRange(u)'
    BY <1>3, <1>13, OthersInRange DEF TypeOK, SplitBlock
  <1>15. BlocksInRange'
    BY <1>8, <1>9, <1>14 DEF BlocksInRange, Booted, SplitBlock
  <1> QED BY <1>7, <1>15

\* What TakenBlock writes keeps the page descriptors in range.
LEMMA TakenBlockInRange ==
    ASSUME TypeOK, BlocksInRange, NEW t \in Threads, TakenBlock(t),
           pc[t] = "split", op[t].cur = op[t].want
    PROVE  /\ op[t].page \in Frames
           /\ order' \in [Frames -> Orders] /\ free' \subseteq Frames
           /\ refcount' \in [Frames -> Int] /\ free_pages' \in [Zones -> Int]
           /\ \A q \in Frames : q + Size[order'[q]] <= total_page_count
  <1>1. /\ op[t].page \in Frames /\ Size[op[t].want] \in Nat
        /\ op[t].page + Size[op[t].want] <= total_page_count
    BY OpFacts, SizeFacts DEF BlocksInRange, OpInRange
  <1>2. /\ order' = [order EXCEPT ![op[t].page] = op[t].want]
        /\ free' = free \ {op[t].page}
        /\ refcount' = [refcount EXCEPT ![op[t].page] = 1]
        /\ free_pages' = [free_pages EXCEPT ![op[t].z] = @ - Size[op[t].want]]
    BY DEF TakenBlock
  <1>3. /\ order' \in [Frames -> Orders] /\ free' \subseteq Frames
        /\ refcount' \in [Frames -> Int] /\ free_pages' \in [Zones -> Int]
    BY <1>1, <1>2, OpFacts DEF TypeOK
  <1>4. \A q \in Frames : q + Size[order'[q]] <= total_page_count
    BY <1>1, <1>2 DEF TypeOK, BlocksInRange
  <1> QED BY <1>1, <1>3, <1>4

\* A thread that finishes has nothing left that could be out of range.
LEMMA FinishInRange ==
    ASSUME TypeOK, BlocksInRange, NEW t \in Threads, Finish(t)
    PROVE  /\ op' \in [Threads -> OpLocals]
           /\ pc' \in [Threads -> {"idle", "lock", "take", "split", "free", "flock", "merge"}]
           /\ \A u \in Threads : OpInRange(u)'
  <1>1. /\ op' \in [Threads -> OpLocals]
        /\ pc' \in [Threads -> {"idle", "lock", "take", "split", "free", "flock", "merge"}]
    BY IdleOpType DEF TypeOK, Finish
  <1>2. OpInRange(t)'
    BY DEF OpInRange, Finish, TypeOK
  <1> QED BY <1>1, <1>2, OthersInRange DEF TypeOK, Finish

LEMMA Type_TakeDone ==
    ASSUME TypeOK, BlocksInRange, NEW t \in Threads, TakeDone(t)
    PROVE  TypeOK' /\ BlocksInRange'
  <1>1. /\ TakenBlock(t) /\ Finish(t) /\ HandOut(op[t].page)
        /\ pc[t] = "split" /\ op[t].cur = op[t].want
        /\ lock' = [lock EXCEPT ![op[t].z] = NoThread]
        /\ UNCHANGED <<boot, zone, free_lists, pcp, mode>>
    BY DEF TakeDone
  <1>2. lock' \in [Zones -> Threads \cup {NoThread}] /\ held' \in [Frames -> Nat]
    BY <1>1, OpFacts DEF TypeOK, HandOut
  <1>3. TypeOK'
    BY <1>1, <1>2, TakenBlockInRange, FinishInRange DEF TypeOK
  <1>4. BlocksInRange'
    BY <1>1, TakenBlockInRange, FinishInRange DEF BlocksInRange, Booted
  <1> QED BY <1>3, <1>4

LEMMA Type_TakeForRefill ==
    ASSUME TypeOK, BlocksInRange, NEW t \in Threads, TakeForRefill(t)
    PROVE  TypeOK' /\ BlocksInRange'
  <1> DEFINE r == [op[t] EXCEPT !.batch = Append(op[t].batch, op[t].page)]
  <1>1. /\ TakenBlock(t) /\ pc[t] = "split" /\ op[t].cur = op[t].want
        /\ op' = [op EXCEPT ![t] = r]
        /\ pc' = [pc EXCEPT ![t] = "take"]
        /\ UNCHANGED <<boot, zone, free_lists, pcp, mode, lock, held>>
    BY DEF TakeForRefill
  <1>2. r \in OpLocals
    <2>1. Append(op[t].batch, op[t].page) \in Seq(Frames)
      BY <1>1, OpFacts
    <2> QED BY <2>1, OpFacts, Zenon DEF OpLocals
  <1>3. TypeOK'
    BY <1>1, <1>2, TakenBlockInRange DEF TypeOK
  <1>4. \A u \in Threads : OpInRange(u)'
    BY <1>1, OthersInRange DEF OpInRange, TypeOK
  <1>5. BlocksInRange'
    BY <1>1, <1>4, TakenBlockInRange DEF BlocksInRange, Booted
  <1> QED BY <1>3, <1>5

LEMMA EndRefillInRange ==
    ASSUME TypeOK, BlocksInRange, NEW t \in Threads,
           NEW batch \in Seq(Frames), Len(batch) > 0, EndRefill(t, batch)
    PROVE  /\ op' \in [Threads -> OpLocals]
           /\ pc' \in [Threads -> {"idle", "lock", "take", "split", "free", "flock", "merge"}]
           /\ lock' \in [Zones -> Threads \cup {NoThread}]
           /\ pcp' \in [Cpus -> Seq(Frames)]
           /\ held' \in [Frames -> Nat]
           /\ \A u \in Threads : OpInRange(u)'
  <1>1. batch[1] \in Frames /\ SubSeq(batch, 2, Len(batch)) \in Seq(Frames)
    OBVIOUS
  <1>2. pcp' \in [Cpus -> Seq(Frames)]
    <2>1. pcp' = [pcp EXCEPT ![op[t].cpu] = pcp[op[t].cpu] \o SubSeq(batch, 2, Len(batch))]
      BY DEF EndRefill
    <2>2. \A c \in Cpus : pcp[c] \o SubSeq(batch, 2, Len(batch)) \in Seq(Frames)
      BY <1>1 DEF TypeOK
    <2> QED BY <2>1, <2>2, Zenon DEF TypeOK
  <1>3. lock' \in [Zones -> Threads \cup {NoThread}] /\ held' \in [Frames -> Nat]
    BY <1>1, OpFacts DEF EndRefill, HandOut, TypeOK
  <1>4. Finish(t)
    BY DEF EndRefill
  <1> QED BY <1>2, <1>3, <1>4, FinishInRange

LEMMA Type_BatchFull ==
    ASSUME TypeOK, BlocksInRange, NEW t \in Threads, BatchFull(t)
    PROVE  TypeOK' /\ BlocksInRange'
  <1> DEFINE b == Append(op[t].batch, op[t].page)
  <1>1. /\ TakenBlock(t) /\ pc[t] = "split" /\ op[t].cur = op[t].want
        /\ EndRefill(t, b)
        /\ UNCHANGED <<boot, zone, free_lists, mode>>
    BY DEF BatchFull
  <1>2. b \in Seq(Frames) /\ Len(b) > 0
    BY <1>1, OpFacts
  <1> HIDE DEF b
  <1>3. TypeOK'
    BY <1>1, <1>2, EndRefillInRange, TakenBlockInRange, ZenonT(40) DEF TypeOK
  <1>4. BlocksInRange'
    BY <1>1, <1>2, EndRefillInRange, TakenBlockInRange DEF BlocksInRange, Booted
  <1> QED BY <1>3, <1>4

LEMMA Type_BatchShort ==
    ASSUME TypeOK, BlocksInRange, NEW t \in Threads, BatchShort(t)
    PROVE  TypeOK' /\ BlocksInRange'
  <1>1. /\ EndRefill(t, op[t].batch) /\ Len(op[t].batch) > 0
        /\ UNCHANGED <<boot, free, refcount, order, zone, free_lists, free_pages, mode>>
    BY DEF BatchShort, pageVars, zoneVars
  <1>2. TypeOK'
    BY <1>1, EndRefillInRange, OpFacts, Zenon DEF TypeOK
  <1>3. BlocksInRange'
    BY <1>1, EndRefillInRange, OpFacts DEF BlocksInRange, Booted
  <1> QED BY <1>2, <1>3

LEMMA Type_RefillFails ==
    ASSUME TypeOK, BlocksInRange, NEW t \in Threads, RefillFails(t)
    PROVE  TypeOK' /\ BlocksInRange'
  <1>1. [IdleOp EXCEPT !.z = PMM_ZONE_NORMAL] \in OpLocals
    BY IdleOpType DEF OpLocals, Zones
  <1>2. TypeOK'
    BY <1>1, OpFacts DEF TypeOK, RefillFails, pageVars, zoneVars
  <1>3. BlocksInRange'
    BY DEF TypeOK, BlocksInRange, OpInRange, Booted, RefillFails, pageVars, zoneVars
  <1> QED BY <1>2, <1>3

LEMMA Type_NextZone ==
    ASSUME TypeOK, BlocksInRange, NEW t \in Threads, NextZone(t)
    PROVE  TypeOK' /\ BlocksInRange'
  <1>1. [op[t] EXCEPT !.z = op[t].z - 1] \in OpLocals
    <2>1. op[t].z - 1 \in Zones
      BY OpFacts DEF NextZone, Zones, PMM_ZONE_DMA, PMM_ZONE_DMA32, PMM_ZONE_NORMAL
    <2> QED BY <2>1, OpFacts DEF OpLocals
  <1>2. op' = [op EXCEPT ![t] = [op[t] EXCEPT !.z = op[t].z - 1]]
    BY DEF NextZone
  <1>3. TypeOK'
    BY <1>1, <1>2, OpFacts DEF TypeOK, NextZone, pageVars, zoneVars
  <1>4. \A u \in Threads : OpInRange(u)'
    BY <1>2, OthersInRange DEF OpInRange, TypeOK, NextZone
  <1>5. BlocksInRange'
    BY <1>4 DEF BlocksInRange, Booted, NextZone, pageVars, zoneVars
  <1> QED BY <1>3, <1>5

LEMMA Type_AllocFails ==
    ASSUME TypeOK, BlocksInRange, NEW t \in Threads, AllocFails(t)
    PROVE  TypeOK' /\ BlocksInRange'
  <1>1. /\ Finish(t) /\ lock' = [lock EXCEPT ![op[t].z] = NoThread]
        /\ UNCHANGED <<boot, free, refcount, order, zone, free_lists, free_pages, pcp, mode, held>>
    BY DEF AllocFails, pageVars, zoneVars
  <1>2. TypeOK'
    BY <1>1, FinishInRange, OpFacts DEF TypeOK
  <1>3. BlocksInRange'
    BY <1>1, FinishInRange DEF BlocksInRange, Booted
  <1> QED BY <1>2, <1>3

LEMMA Type_pmm_page_ref ==
    ASSUME TypeOK, BlocksInRange, NEW p \in Frames, pmm_page_ref(p)
    PROVE  TypeOK' /\ BlocksInRange'
  <1>1. TypeOK'
    BY DEF TypeOK, pmm_page_ref, zoneVars
  <1>2. BlocksInRange'
    BY DEF BlocksInRange, OpInRange, Booted, pmm_page_ref, zoneVars
  <1> QED BY <1>1, <1>2

LEMMA Type_pmm_page_unref ==
    ASSUME TypeOK, BlocksInRange, NEW t \in Threads, NEW p \in Frames, pmm_page_unref(t, p)
    PROVE  TypeOK' /\ BlocksInRange'
  <1>1. TypeOK'
    BY DEF TypeOK, pmm_page_unref, zoneVars
  <1>2. BlocksInRange'
    BY DEF BlocksInRange, OpInRange, Booted, pmm_page_unref, zoneVars
  <1> QED BY <1>1, <1>2

LEMMA Type_pmm_free_order ==
    ASSUME TypeOK, BlocksInRange, NEW t \in Threads, NEW p \in Frames, pmm_free_order(t, p)
    PROVE  TypeOK' /\ BlocksInRange'
  <1> DEFINE r == [IdleOp EXCEPT !.page = p, !.want = order[p], !.z = zone[p]]
  <1>1. r \in OpLocals
    <2>1. p \in Nat /\ order[p] \in Orders /\ zone[p] \in Zones
      BY DEF TypeOK, Frames
    <2> QED BY <2>1, IdleOpType, ZenonT(40) DEF OpLocals
  <1>2. r.page = p /\ r.want = order[p]
    BY DEF IdleOp
  <1> HIDE DEF r
  <1>3. op' = [op EXCEPT ![t] = r] /\ pc' = [pc EXCEPT ![t] = "free"]
    BY DEF pmm_free_order, r
  <1>4. TypeOK'
    BY <1>1, <1>3 DEF TypeOK, pmm_free_order, zoneVars
  <1>5. OpInRange(t)'
    BY <1>2, <1>3 DEF OpInRange, BlocksInRange, TypeOK
  <1>6. BlocksInRange'
    BY <1>3, <1>5, OthersInRange DEF BlocksInRange, Booted, TypeOK, pmm_free_order, zoneVars
  <1> QED BY <1>4, <1>6

LEMMA Type_FreeToPool ==
    ASSUME TypeOK, BlocksInRange, NEW t \in Threads, NEW c \in Cpus, FreeToPool(t, c)
    PROVE  TypeOK' /\ BlocksInRange'
  <1>1. /\ Finish(t) /\ pc[t] = "free"
        /\ pcp' = [pcp EXCEPT ![c] = Append(pcp[c], op[t].page)]
        /\ UNCHANGED <<boot, free, refcount, order, zone, free_lists, free_pages, mode, lock, held>>
    BY DEF FreeToPool, pageVars, zoneVars
  <1>2. pcp' \in [Cpus -> Seq(Frames)]
    <2>1. Append(pcp[c], op[t].page) \in Seq(Frames)
      BY <1>1, OpFacts DEF TypeOK
    <2> QED BY <1>1, <2>1 DEF TypeOK
  <1>3. TypeOK'
    BY <1>1, <1>2, FinishInRange, ZenonT(40) DEF TypeOK
  <1>4. BlocksInRange'
    BY <1>1, FinishInRange, Zenon DEF BlocksInRange, Booted
  <1> QED BY <1>3, <1>4

LEMMA Type_DrainPool ==
    ASSUME TypeOK, BlocksInRange, NEW t \in Threads, NEW c \in Cpus, DrainPool(t, c)
    PROVE  TypeOK' /\ BlocksInRange'
  <1> DEFINE left == Len(pcp[c]) - PCP_BATCH_SIZE
             b == SubSeq(pcp[c], left + 1, Len(pcp[c]))
             r == [IdleOp EXCEPT !.z = PMM_ZONE_NORMAL, !.batch = b]
  <1>1. /\ pc[t] = "free" /\ Len(pcp[c]) >= PCP_MAX_PAGES
        /\ pcp' = [pcp EXCEPT ![c] = Append(SubSeq(pcp[c], 1, left), op[t].page)]
        /\ op' = [op EXCEPT ![t] = r]
        /\ pc' = [pc EXCEPT ![t] = "flock"]
        /\ UNCHANGED <<boot, free, refcount, order, zone, free_lists, free_pages, mode, lock, held>>
    BY DEF DrainPool, pageVars, zoneVars
  <1>2. pcp[c] \in Seq(Frames) /\ Len(pcp[c]) \in Nat
    BY DEF TypeOK
  <1>3. left \in Nat /\ left < Len(pcp[c])
    BY <1>1, <1>2, PoolAssumption
  <1>4. b \in Seq(Frames) /\ Len(b) = PCP_BATCH_SIZE /\ SubSeq(pcp[c], 1, left) \in Seq(Frames)
    BY <1>2, <1>3, PoolAssumption
  <1>5. pcp' \in [Cpus -> Seq(Frames)]
    <2>1. Append(SubSeq(pcp[c], 1, left), op[t].page) \in Seq(Frames)
      BY <1>1, <1>4, OpFacts
    <2> QED BY <1>1, <2>1 DEF TypeOK
  <1> HIDE DEF b
  <1>6. r \in OpLocals
    BY <1>4, IdleOpType, Zenon DEF OpLocals, Zones
  <1>7. r.batch = b /\ r.want = 0
    BY DEF IdleOp
  <1> HIDE DEF r
  <1>8. TypeOK'
    BY <1>1, <1>5, <1>6 DEF TypeOK
  <1>9. \A i \in 1 .. Len(b) : b[i] + Size[0] <= total_page_count
    BY <1>4, SizesAssumption DEF Frames
  <1>10. OpInRange(t)'
    <2>1. op'[t] = r /\ pc'[t] = "flock"
      BY <1>1 DEF TypeOK
    <2>2. Len(b) > 0
      BY <1>4, PoolAssumption
    <2> QED BY <1>7, <1>9, <2>1, <2>2 DEF OpInRange
  <1>11. BlocksInRange'
    BY <1>1, <1>10, OthersInRange DEF BlocksInRange, Booted, TypeOK
  <1> QED BY <1>8, <1>11

LEMMA Type_FreeToZone ==
    ASSUME TypeOK, BlocksInRange, NEW t \in Threads, FreeToZone(t)
    PROVE  TypeOK' /\ BlocksInRange'
  <1> DEFINE r == [op[t] EXCEPT !.batch = <<op[t].page>>]
  <1>1. /\ pc[t] = "free" /\ op' = [op EXCEPT ![t] = r] /\ pc' = [pc EXCEPT ![t] = "flock"]
        /\ UNCHANGED <<boot, free, refcount, order, zone, free_lists, free_pages, pcp, mode, lock, held>>
    BY DEF FreeToZone, pageVars, zoneVars
  <1>2. r \in OpLocals /\ r.batch = <<op[t].page>> /\ r.want = op[t].want
    <2>1. <<op[t].page>> \in Seq(Frames)
      BY <1>1, OpFacts
    <2> QED BY <2>1, OpFacts, Zenon DEF OpLocals
  <1> HIDE DEF r
  <1>3. TypeOK'
    BY <1>1, <1>2 DEF TypeOK
  <1>4. OpInRange(t)'
    <2>1. op'[t] = r /\ pc'[t] = "flock"
      BY <1>1 DEF TypeOK
    <2>2. op[t].page + Size[op[t].want] <= total_page_count
      BY <1>1 DEF BlocksInRange, OpInRange
    <2>3. Len(r.batch) = 1 /\ \A i \in 1 .. Len(r.batch) : r.batch[i] = op[t].page
      BY <1>2
    <2>4. \A i \in 1 .. Len(r.batch) : r.batch[i] + Size[r.want] <= total_page_count
      BY <1>2, <2>2, <2>3
    <2> QED BY <2>1, <2>3, <2>4 DEF OpInRange
  <1>5. BlocksInRange'
    BY <1>1, <1>4, OthersInRange DEF BlocksInRange, Booted, TypeOK
  <1> QED BY <1>3, <1>5

LEMMA Type_LockForFree ==
    ASSUME TypeOK, BlocksInRange, NEW t \in Threads, LockForFree(t)
    PROVE  TypeOK' /\ BlocksInRange'
  <1> DEFINE p == op[t].batch[Len(op[t].batch)]
             r == [op[t] EXCEPT !.page = p, !.cur = op[t].want]
  <1>1. /\ pc[t] = "flock" /\ lock' = [lock EXCEPT ![op[t].z] = t]
        /\ op' = [op EXCEPT ![t] = r] /\ pc' = [pc EXCEPT ![t] = "merge"]
        /\ UNCHANGED <<boot, free, refcount, order, zone, free_lists, free_pages, pcp, mode, held>>
    BY Zenon DEF LockForFree, pageVars, zoneVars
  <1>2. /\ p \in Frames /\ p \in Nat
        /\ p + Size[op[t].want] <= total_page_count
        /\ Len(op[t].batch) > 0
    <2>1. /\ Len(op[t].batch) > 0
          /\ \A i \in 1 .. Len(op[t].batch) :
                op[t].batch[i] + Size[op[t].want] <= total_page_count
      BY <1>1 DEF BlocksInRange, OpInRange
    <2>2. Len(op[t].batch) \in 1 .. Len(op[t].batch)
      BY <2>1, OpFacts
    <2>3. p \in Frames
      BY <2>2, OpFacts, ElementOfSeq
    <2> QED BY <2>1, <2>2, <2>3 DEF Frames
  <1> HIDE DEF p
  <1>3. /\ r \in OpLocals /\ r.page = p /\ r.cur = op[t].want
        /\ r.want = op[t].want /\ r.batch = op[t].batch
    BY <1>2, OpFacts, Zenon DEF OpLocals
  <1> HIDE DEF r
  <1>4. TypeOK'
    BY <1>1, <1>3, OpFacts DEF TypeOK
  <1>5. OpInRange(t)'
    BY <1>1, <1>2, <1>3 DEF OpInRange, TypeOK, BlocksInRange
  <1>6. BlocksInRange'
    BY <1>1, <1>5, OthersInRange DEF BlocksInRange, Booted, TypeOK
  <1> QED BY <1>4, <1>6

LEMMA NextOrder ==
    ASSUME NEW o \in Orders, o < PMM_MAX_ORDER - 1
    PROVE  o + 1 \in Orders
  BY SizesAssumption DEF Orders

LEMMA BuddyFacts ==
    ASSUME NEW p \in Nat, NEW o \in Orders
    PROVE  Buddy(p, o) \in Int /\ (Buddy(p, o) = p + Size[o] \/ Buddy(p, o) = p - Size[o])
  BY SizeFacts DEF Buddy

LEMMA Type_MergeBuddy ==
    ASSUME TypeOK, BlocksInRange, NEW t \in Threads, MergeBuddy(t)
    PROVE  TypeOK' /\ BlocksInRange'
  <1> DEFINE p == op[t].page
             o == op[t].cur
             b == Buddy(p, o)
             q == IF b < p THEN b ELSE p
             r == [op[t] EXCEPT !.page = q, !.cur = o + 1]
  <1>1. /\ pc[t] = "merge" /\ CanMerge(p, o)
        /\ free_lists' = [free_lists EXCEPT ![op[t].z][o] = @ \ {b}]
        /\ op' = [op EXCEPT ![t] = r]
        /\ UNCHANGED <<boot, free, refcount, order, zone, free_pages, pcp, mode, lock, pc, held>>
    BY ZenonT(40) DEF MergeBuddy, pageVars
  <1>2. /\ p \in Frames /\ p \in Nat /\ o \in Orders /\ op[t].z \in Zones
        /\ Size[o] \in Nat /\ Size[o] >= 1 /\ Size[o + 1] = 2 * Size[o]
        /\ p + Size[o] <= total_page_count
    BY <1>1, OpFacts, SizeFacts DEF BlocksInRange, OpInRange
  <1>3. o + 1 \in Orders /\ b \in Frames /\ order[b] = o
    <2>1. o < PMM_MAX_ORDER - 1 /\ b \in free /\ order[b] = o
      BY <1>1 DEF CanMerge
    <2>2. o + 1 \in Orders
      BY <1>2, <2>1, NextOrder
    <2> QED BY <2>1, <2>2 DEF TypeOK
  <1>4. b = p + Size[o] \/ b = p - Size[o]
    BY <1>2, BuddyFacts
  <1>5. b + Size[o] <= total_page_count
    BY <1>3 DEF BlocksInRange
  <1>6. q \in Nat /\ q + Size[o + 1] <= total_page_count
    <2> HIDE DEF b, p, o
    <2>1. b \in Nat
      BY <1>3 DEF Frames
    <2> QED BY <1>2, <1>4, <1>5, <2>1, TotalIsNat, LowerBuddy, Zenon
  <1> HIDE DEF q, b
  <1>7. /\ r \in OpLocals /\ r.page = q /\ r.cur = o + 1
        /\ r.want = op[t].want /\ r.batch = op[t].batch
    BY <1>3, <1>6, OpFacts, ZenonT(40) DEF OpLocals
  <1> HIDE DEF r
  <1>8. free_lists' \in [Zones -> [Orders -> SUBSET Frames]]
    BY <1>1, <1>2, ListsRemove, Zenon DEF TypeOK
  <1>9. TypeOK'
    BY <1>1, <1>7, <1>8 DEF TypeOK
  <1>10. \A z \in Zones, k \in Orders : \A x \in free_lists'[z][k] : x + Size[k] <= total_page_count
    BY <1>1, <1>2 DEF TypeOK, BlocksInRange
  <1>11. OpInRange(t)'
    <2>1. op'[t] = r /\ pc'[t] = "merge"
      BY <1>1 DEF TypeOK
    <2> QED BY <1>1, <1>6, <1>7, <2>1 DEF OpInRange, BlocksInRange
  <1>12. BlocksInRange'
    BY <1>1, <1>10, <1>11, OthersInRange, ZenonT(40) DEF BlocksInRange, Booted, TypeOK
  <1> QED BY <1>9, <1>12

LEMMA InsertBlockInRange ==
    ASSUME TypeOK, BlocksInRange, NEW t \in Threads, InsertBlock(t)
    PROVE  /\ order' \in [Frames -> Orders] /\ free' \subseteq Frames
           /\ refcount' \in [Frames -> Int] /\ free_pages' \in [Zones -> Int]
           /\ free_lists' \in [Zones -> [Orders -> SUBSET Frames]]
           /\ \A x \in Frames : x + Size[order'[x]] <= total_page_count
           /\ \A z \in Zones, k \in Orders : \A x \in free_lists'[z][k] :
                 x + Size[k] <= total_page_count
  <1> DEFINE p == op[t].page
             o == op[t].cur
  <1>1. /\ pc[t] = "merge"
        /\ order' = [order EXCEPT ![p] = o]
        /\ free' = free \cup {p}
        /\ refcount' = [refcount EXCEPT ![p] = 0]
        /\ free_lists' = [free_lists EXCEPT ![op[t].z][o] = @ \cup {p}]
        /\ free_pages' = [free_pages EXCEPT ![op[t].z] = @ + Size[op[t].want]]
    BY DEF InsertBlock
  <1>2. /\ p \in Frames /\ o \in Orders /\ op[t].z \in Zones
        /\ p + Size[o] <= total_page_count /\ Size[op[t].want] \in Nat
    BY <1>1, OpFacts, SizeFacts DEF BlocksInRange, OpInRange
  <1> HIDE DEF p, o
  <1>3. /\ order' \in [Frames -> Orders] /\ free' \subseteq Frames
        /\ refcount' \in [Frames -> Int] /\ free_pages' \in [Zones -> Int]
    BY <1>1, <1>2 DEF TypeOK
  <1>4. free_lists' \in [Zones -> [Orders -> SUBSET Frames]]
    BY <1>1, <1>2, ListsAdd DEF TypeOK
  <1>5. \A x \in Frames : x + Size[order'[x]] <= total_page_count
    BY <1>1, <1>2 DEF TypeOK, BlocksInRange
  <1>6. \A z \in Zones, k \in Orders : \A x \in free_lists'[z][k] : x + Size[k] <= total_page_count
    BY <1>1, <1>2 DEF TypeOK, BlocksInRange
  <1> QED BY <1>3, <1>4, <1>5, <1>6

LEMMA Type_NextOfBatch ==
    ASSUME TypeOK, BlocksInRange, NEW t \in Threads, NextOfBatch(t)
    PROVE  TypeOK' /\ BlocksInRange'
  <1> DEFINE n == Len(op[t].batch) - 1
             b == SubSeq(op[t].batch, 1, n)
             p == op[t].batch[n]
             r == [op[t] EXCEPT !.batch = b, !.page = p, !.cur = op[t].want]
  <1>1. /\ InsertBlock(t) /\ pc[t] = "merge" /\ Len(op[t].batch) > 1
        /\ op' = [op EXCEPT ![t] = r]
        /\ UNCHANGED <<boot, zone, pcp, mode, lock, pc, held>>
    BY ZenonT(40) DEF NextOfBatch, InsertBlock
  <1>2. n \in 1 .. Len(op[t].batch) /\ n > 0 /\ n \in Nat
    BY <1>1, OpFacts
  <1>3. \A i \in 1 .. Len(op[t].batch) : op[t].batch[i] + Size[op[t].want] <= total_page_count
    BY <1>1 DEF BlocksInRange, OpInRange
  <1>4. p \in Frames /\ p \in Nat
    <2>1. p \in Frames
      BY <1>2, OpFacts, ElementOfSeq
    <2> QED BY <2>1 DEF Frames
  <1>5. b \in Seq(Frames) /\ Len(b) = n /\ \A i \in 1 .. n : b[i] = op[t].batch[i]
    BY <1>2, OpFacts
  <1>6. p + Size[op[t].want] <= total_page_count
    BY <1>2, <1>3, Zenon
  <1> HIDE DEF n, b, p
  <1>7. /\ r \in OpLocals /\ r.page = p /\ r.cur = op[t].want
        /\ r.want = op[t].want /\ r.batch = b
    BY <1>4, <1>5, OpFacts, ZenonT(40) DEF OpLocals
  <1> HIDE DEF r
  <1>8. TypeOK'
    BY <1>1, <1>7, InsertBlockInRange DEF TypeOK
  <1>9. OpInRange(t)'
    <2>1. op'[t] = r /\ pc'[t] = "merge"
      BY <1>1 DEF TypeOK
    <2>2. \A i \in 1 .. n : b[i] + Size[op[t].want] <= total_page_count
      BY <1>2, <1>3, <1>5, OpFacts
    <2> QED BY <1>2, <1>5, <1>6, <1>7, <2>1, <2>2 DEF OpInRange
  <1>10. BlocksInRange'
    BY <1>1, <1>9, OthersInRange, InsertBlockInRange, ZenonT(40) DEF BlocksInRange, Booted, TypeOK
  <1> QED BY <1>8, <1>10

LEMMA Type_FreeDone ==
    ASSUME TypeOK, BlocksInRange, NEW t \in Threads, FreeDone(t)
    PROVE  TypeOK' /\ BlocksInRange'
  <1>1. /\ InsertBlock(t) /\ Finish(t) /\ lock' = [lock EXCEPT ![op[t].z] = NoThread]
        /\ UNCHANGED <<boot, zone, pcp, mode, held>>
    BY DEF FreeDone
  <1>2. TypeOK'
    BY <1>1, InsertBlockInRange, FinishInRange, OpFacts, ZenonT(40) DEF TypeOK
  <1>3. BlocksInRange'
    BY <1>1, InsertBlockInRange, FinishInRange DEF BlocksInRange, Booted
  <1> QED BY <1>2, <1>3

LEMMA Type_ingest_usable_range ==
    ASSUME TypeOK, BlocksInRange, ingest_usable_range
    PROVE  TypeOK' /\ BlocksInRange'
  <1> DEFINE r == UsableRanges[boot.range]
             p == boot.curr
  <1>1. PICK o \in Orders :
           /\ IngestStopsAt(p, o, r.hi)
           /\ add_free_block(p, o)
           /\ boot' = IF p + Size[o] < r.hi
                      THEN [boot EXCEPT !.curr = p + Size[o]]
                      ELSE [range |-> boot.range + 1,
                            curr |-> IF boot.range < Len(UsableRanges)
                                     THEN UsableRanges[boot.range + 1].lo ELSE 0]
    BY DEF ingest_usable_range
  <1>2. UNCHANGED <<zone, pcp, mode, lock, pc, op, held>>
    BY DEF ingest_usable_range
  <1>3. /\ Len(UsableRanges) \in Nat /\ boot.range \in 1 .. Len(UsableRanges)
        /\ p \in Nat /\ p < r.hi
    <2>1. Len(UsableRanges) \in Nat
      BY RangesAssumption
    <2>2. ~ Booted
      BY DEF ingest_usable_range
    <2>3. boot \in [range : 1 .. Len(UsableRanges) + 1, curr : Nat]
      BY DEF TypeOK
    <2>4. boot.range \in 1 .. Len(UsableRanges)
      BY <2>1, <2>2, <2>3 DEF Booted
    <2>5. p < r.hi
      BY <2>2 DEF BlocksInRange
    <2> QED BY <2>1, <2>3, <2>4, <2>5
  <1>4. r.hi \in Nat /\ r.hi <= total_page_count
    BY <1>3, RangeFacts
  <1>5. Size[o] \in Nat /\ Size[o] >= 1 /\ p + Size[o] <= r.hi
    <2>1. o = 0 => p + Size[o] <= r.hi
      BY <1>3, <1>4, SizesAssumption
    <2>2. o # 0 => p + Size[o] <= r.hi
      BY <1>1 DEF IngestStopsAt, MayGrow, Orders
    <2> QED BY <2>1, <2>2, SizeFacts
  <1>6. p \in Frames /\ p + Size[o] <= total_page_count
    BY <1>3, <1>4, <1>5, TotalIsNat DEF Frames
  <1>7. /\ order' = [order EXCEPT ![p] = o] /\ free' = free \cup {p}
        /\ refcount' = [refcount EXCEPT ![p] = 0]
        /\ free_lists' = [free_lists EXCEPT ![zone[p]][o] = @ \cup {p}]
        /\ free_pages' = [free_pages EXCEPT ![zone[p]] = @ + Size[o]]
        /\ zone[p] \in Zones
    BY <1>1, <1>6 DEF add_free_block, TypeOK
  <1>8. /\ boot' \in [range : 1 .. Len(UsableRanges) + 1, curr : Nat]
        /\ boot'.range <= Len(UsableRanges) => boot'.curr < UsableRanges[boot'.range].hi
    <2>1. CASE p + Size[o] < r.hi
      <3>1. boot' = [boot EXCEPT !.curr = p + Size[o]]
        BY <1>1, <2>1
      <3>2. boot' = [range |-> boot.range, curr |-> p + Size[o]]
        BY <3>1 DEF TypeOK
      <3>3. boot.range \in 1 .. Len(UsableRanges) + 1 /\ p + Size[o] \in Nat
        BY <1>3, <1>5
      <3> QED BY <2>1, <3>2, <3>3
    <2>2. CASE ~ (p + Size[o] < r.hi)
      <3>1. CASE boot.range < Len(UsableRanges)
        <4>1. boot' = [range |-> boot.range + 1, curr |-> UsableRanges[boot.range + 1].lo]
          BY <1>1, <2>2, <3>1
        <4>2. boot.range + 1 \in 1 .. Len(UsableRanges)
          BY <1>3, <3>1
        <4>3. /\ UsableRanges[boot.range + 1].lo \in Nat
              /\ UsableRanges[boot.range + 1].lo < UsableRanges[boot.range + 1].hi
          BY <4>2, RangeFacts
        <4>4. boot'.range = boot.range + 1 /\ boot'.curr = UsableRanges[boot.range + 1].lo
          BY <4>1
        <4> QED BY <1>3, <4>1, <4>2, <4>3, <4>4
      <3>2. CASE ~ (boot.range < Len(UsableRanges))
        <4>1. boot' = [range |-> boot.range + 1, curr |-> 0]
          BY <1>1, <2>2, <3>2
        <4> QED BY <1>3, <3>2, <4>1
      <3> QED BY <3>1, <3>2
    <2> QED BY <2>1, <2>2
  <1> HIDE DEF p, r
  <1>9. /\ order' \in [Frames -> Orders] /\ free' \subseteq Frames
        /\ refcount' \in [Frames -> Int] /\ free_pages' \in [Zones -> Int]
    BY <1>5, <1>6, <1>7 DEF TypeOK
  <1>10. free_lists' \in [Zones -> [Orders -> SUBSET Frames]]
    BY <1>6, <1>7, ListsAdd DEF TypeOK
  <1>11. TypeOK'
    BY <1>2, <1>8, <1>9, <1>10 DEF TypeOK
  <1>12. \A x \in Frames : x + Size[order'[x]] <= total_page_count
    BY <1>6, <1>7 DEF TypeOK, BlocksInRange
  <1>13. \A z \in Zones, k \in Orders : \A x \in free_lists'[z][k] : x + Size[k] <= total_page_count
    BY <1>6, <1>7 DEF TypeOK, BlocksInRange
  <1>14. ~ Booted' => boot'.curr < UsableRanges[boot'.range].hi
    BY <1>3, <1>8 DEF Booted
  <1>15. BlocksInRange'
    BY <1>2, <1>12, <1>13, <1>14 DEF BlocksInRange, OpInRange
  <1> QED BY <1>11, <1>15

LEMMA StepTypeOK == TypeOK /\ BlocksInRange /\ [Next]_vars => TypeOK' /\ BlocksInRange'
  <1> SUFFICES ASSUME TypeOK, BlocksInRange, [Next]_vars PROVE TypeOK' /\ BlocksInRange'
    OBVIOUS
  <1>1. CASE ingest_usable_range
    BY <1>1, Type_ingest_usable_range
  <1>2. CASE pmm_init_percpu
    BY <1>2, Type_pmm_init_percpu
  <1>3. ASSUME NEW p \in Frames, pmm_page_ref(p) PROVE TypeOK' /\ BlocksInRange'
    BY <1>3, Type_pmm_page_ref
  <1>4. ASSUME NEW t \in Threads, Alloc(t) PROVE TypeOK' /\ BlocksInRange'
    BY <1>4, Type_AllocFromPool, Type_AllocEmptyPool, Type_AllocFromZones DEF Alloc
  <1>5. ASSUME NEW t \in Threads, FreeStep(t) PROVE TypeOK' /\ BlocksInRange'
    BY <1>5, Type_pmm_page_unref, Type_pmm_free_order, Type_FreeToPool, Type_DrainPool,
       Type_FreeToZone DEF FreeStep
  <1>6. ASSUME NEW t \in Threads, LockZone(t) \/ RefillFromDma32(t) \/ LockForFree(t)
        PROVE  TypeOK' /\ BlocksInRange'
    BY <1>6, Type_LockZone, Type_RefillFromDma32, Type_LockForFree
  <1>7. ASSUME NEW t \in Threads, LockedStep(t) PROVE TypeOK' /\ BlocksInRange'
    BY <1>7, Type_TakeBlock, Type_SplitBlock, Type_TakeDone, Type_TakeForRefill, Type_BatchFull,
       Type_BatchShort, Type_RefillFails, Type_NextZone, Type_AllocFails, Type_MergeBuddy,
       Type_NextOfBatch, Type_FreeDone DEF LockedStep
  <1>8. CASE UNCHANGED vars
    BY <1>8 DEF vars, TypeOK, BlocksInRange, OpInRange, Booted
  <1> QED BY <1>1, <1>2, <1>3, <1>4, <1>5, <1>6, <1>7, <1>8 DEF Next

\* pmm.c keeps its data structures well formed, whatever the memory map and
\* however many CPUs and threads use it.
THEOREM TypeCorrect == Spec => []TypeOK
  BY InitTypeOK, StepTypeOK, PTL DEF Spec

\* No split, merge, refill or drain of pmm.c ever touches a page descriptor past
\* the end of the page array.
THEOREM InRange == Spec => []BlocksInRange
  BY InitTypeOK, StepTypeOK, PTL DEF Spec
=============================================================================
