---------------------------- MODULE AddressSpace ----------------------------
(***************************************************************************)
(* Address spaces (mem/vmm.c, mem/vma.c, mem/mmu.c): the areas of a space, *)
(* its page table and the page frames behind it, shared copy-on-write      *)
(* between the spaces that fork made.                                      *)
(*                                                                         *)
(* A space has one process.  Operations that take mmap_sem for writing are *)
(* one step; the copy-on-write fault, which races with faults and exits of *)
(* other spaces on the same frames, is broken up where it reads and        *)
(* changes the reference count.  Addresses are page numbers.               *)
(***************************************************************************)
EXTENDS Integers, Sequences, FiniteSets, FiniteSetsExt

CONSTANTS
    Spaces,
    first,               \* the space that exists at the start
    Frames, Zero,        \* the frames, and zero_page_desc
    Values,              \* what a page can contain; pmm zeroes with 0
    BRK_START,           \* brk_start, 0x20000000
    MMAP_BASE, MMAP_END, \* the range of mmap
    STACK_TOP,           \* the end of the stack
    MAX_STACK,           \* MAX_STACK_SIZE in pages
    MapWrites,           \* the values of PROT_WRITE given to mmap
    Mappers,             \* bound: the spaces that change their areas
    Scenarios            \* bounds: the pages that processes touch in a behaviour,
                         \* the breaks they set, the hints they give to mmap, where
                         \* they start a munmap, the lengths in pages, and the
                         \* values of PROT_WRITE they give to mprotect

VARIABLES
    vmas,       \* the areas of each space; {} for a space that does not exist
    brk,        \* brk_current, rounded up to pages
    pte,        \* the entries of each page table
    refcount,   \* of each frame; 0 is free
    content,    \* what each frame contains
    fault,      \* the copy-on-write fault a space's process is in
    scenario,   \* the bounds of this behaviour
    written,    \* what each space should read: its own writes and those inherited
    heap_lost   \* has a break been moved over a mapping that a hint put in its way?

vars == <<vmas, brk, pte, refcount, content, fault, scenario, written, heap_lost>>

Pages == BRK_START .. STACK_TOP - 1
None == [frame |-> Zero, present |-> FALSE, rw |-> FALSE]
Idle == [page |-> 0, at |-> "idle", frame |-> Zero]

Area(s, e, w, k) == [start |-> s, end |-> e, write |-> w, cow |-> FALSE, kind |-> k]
StackArea == Area(STACK_TOP - 1, STACK_TOP, TRUE, "stack")

Init ==
    /\ vmas = [s \in Spaces |-> IF s = first THEN {StackArea} ELSE {}]
    /\ brk = [s \in Spaces |-> BRK_START]
    /\ pte = [s \in Spaces |-> [v \in Pages |-> None]]
    /\ refcount = [f \in Frames |-> 0]
    /\ content = [f \in Frames |-> 0]
    /\ fault = [s \in Spaces |-> Idle]
    /\ scenario \in Scenarios
    /\ written = [s \in Spaces |-> [v \in Pages |-> 0]]
    /\ heap_lost = FALSE

Exists(s) == vmas[s] # {}
Running(s) == Exists(s) /\ fault[s].at = "idle"

-----------------------------------------------------------------------------
(* Areas: mem/vma.c.  The list and the tree of a space hold the same areas. *)

Overlap(a, b) == a.start < b.end /\ b.start < a.end

vma_find(s, v) == {a \in vmas[s] : a.start <= v /\ v < a.end}

\* vma_insert: an area that overlaps another one is not inserted.
Refused(areas, a) == \E b \in areas : Overlap(a, b)

vma_insert(areas, a) == IF Refused(areas, a) THEN areas ELSE areas \cup {a}

\* The start of the area after a, or the end of the range.
GapEnd(areas, a) ==
    LET later == {b.start : b \in {c \in areas : c.start >= a.end}}
    IN IF later = {} \/ Min(later) > MMAP_END THEN MMAP_END ELSE Min(later)

Candidate(a) == IF a.end < MMAP_BASE THEN MMAP_BASE ELSE a.end

\* Mutant: the gap before the first area is not looked at.
FirstGap_Skipped(areas, n) == {}

FirstGap(areas, n) == IF \A a \in areas : a.start >= MMAP_BASE + n THEN {MMAP_BASE} ELSE {}

\* The places vma_find_unmapped_area looks at, the first of which it returns.
Holes(areas, n) ==
    FirstGap(areas, n)
       \cup {Candidate(a) : a \in {b \in areas : GapEnd(areas, b) - Candidate(b) >= n}}

vma_find_unmapped_area(areas, n) ==
    IF n > MMAP_END - MMAP_BASE \/ Holes(areas, n) = {} THEN 0 ELSE Min(Holes(areas, n))

-----------------------------------------------------------------------------
(* Frames: the references that page tables have to them. *)

Mapped(table, pages) == {v \in pages : table[v].present}

InAreas(areas, pages) == {v \in pages : \E a \in areas : a.start <= v /\ v < a.end}

\* The references a space gives up for these pages: pmm_page_unref of each
\* frame but the zero page.
Unref(count, table, pages) ==
    [f \in Frames |-> count[f] - Cardinality({v \in Mapped(table, pages) : table[v].frame = f})]

\* Mutant: the entries stay in the table.
Cleared_Kept(table, pages) == table

Cleared(table, pages) == [v \in Pages |-> IF v \in pages THEN None ELSE table[v]]

-----------------------------------------------------------------------------
(* mmap, munmap, mprotect, brk *)

vmm_map(s, hint, n, w) ==
    LET start == IF hint = 0 THEN vma_find_unmapped_area(vmas[s], n) ELSE hint IN
    /\ Running(s)
    /\ start # 0 /\ start + n <= MMAP_END
    /\ vmas' = [vmas EXCEPT ![s] = vma_insert(@, Area(start, start + n, w, "anon"))]
    /\ UNCHANGED <<brk, pte, refcount, content, fault, written, heap_lost>>

\* What is left of an area when lo..hi-1 is taken out of it.
Remains(a, lo, hi) ==
    {b \in {[a EXCEPT !.end = Min({a.end, lo})], [a EXCEPT !.start = Max({a.start, hi})]} :
        b.start < b.end}

vmm_unmap(s, lo, n) ==
    LET gone == lo .. lo + n - 1 IN
    /\ Running(s)
    /\ UNION {Remains(a, lo, lo + n) : a \in vmas[s]} # {}
    /\ vmas' = [vmas EXCEPT ![s] = UNION {Remains(a, lo, lo + n) : a \in vmas[s]}]
    /\ refcount' = Unref(refcount, pte[s], InAreas(vmas[s], gone))
    /\ pte' = [pte EXCEPT ![s] = Cleared(@, gone)]
    /\ written' = [written EXCEPT ![s] = [v \in Pages |-> IF v \in gone THEN 0 ELSE @[v]]]
    /\ UNCHANGED <<brk, content, fault, heap_lost>>

\* vmm_protect: the flags of every area that the range touches, whole, and the
\* entries of the range.
vmm_protect(s, lo, n, w) ==
    LET range == lo .. lo + n - 1 IN
    /\ Running(s)
    /\ vmas' = [vmas EXCEPT ![s] =
          {IF a.start < lo + n /\ a.end > lo THEN [a EXCEPT !.write = w] ELSE a : a \in @}]
    /\ pte' = [pte EXCEPT ![s] =
          [v \in Pages |-> IF v \in range /\ @[v].present THEN [@[v] EXCEPT !.rw = w] ELSE @[v]]]
    /\ UNCHANGED <<brk, refcount, content, fault, written, heap_lost>>

\* heap_vma: the first area with VMA_FLAG_HEAP.
Heap(s) ==
    LET heaps == {a \in vmas[s] : a.kind = "heap"}
    IN {a \in heaps : \A b \in heaps : a.start <= b.start}

\* Mutant: the frames of the pages given back are not.
HeapRefs_Kept(s, gone) == refcount

HeapRefs(s, gone) == Unref(refcount, pte[s], gone)

\* The heap's area is taken out and put back with its new end; what vma_insert
\* returns is not looked at, so that an area in the way makes the heap disappear.
vmm_brk(s, new) ==
    LET gone == IF Heap(s) = {} THEN {} ELSE new .. brk[s] - 1
        area == IF Heap(s) = {} THEN Area(BRK_START, new, TRUE, "heap")
                ELSE [(CHOOSE a \in Heap(s) : TRUE) EXCEPT !.end = new]
        others == vmas[s] \ Heap(s)
    IN
    /\ Running(s)
    /\ new # brk[s]
    /\ vmas' = [vmas EXCEPT ![s] = IF new > area.start THEN vma_insert(others, area) ELSE others]
    /\ heap_lost' = (heap_lost \/ (new > area.start /\ Refused(others, area)))
    /\ refcount' = HeapRefs(s, gone)
    /\ pte' = [pte EXCEPT ![s] = Cleared(@, gone)]
    /\ brk' = [brk EXCEPT ![s] = new]
    /\ written' = [written EXCEPT ![s] = [v \in Pages |-> IF v \in gone THEN 0 ELSE @[v]]]
    /\ UNCHANGED <<content, fault>>

-----------------------------------------------------------------------------
(* fork and exit *)

\* Mutant: the entries of the parent stay writable.
Downgraded_ChildOnly(e) == e

\* A writable entry becomes read-only in the parent too.
Downgraded(e) == [e EXCEPT !.rw = FALSE]

vmm_clone_space(parent, child) ==
    LET areas == {IF a.write THEN [a EXCEPT !.cow = TRUE] ELSE a : a \in vmas[parent]}
        table == [v \in Pages |-> Downgraded(pte[parent][v])]
    IN
    /\ Running(parent) /\ ~Exists(child)
    /\ vmas' = [vmas EXCEPT ![parent] = areas, ![child] = areas]
    /\ brk' = [brk EXCEPT ![child] = brk[parent]]
    /\ pte' = [pte EXCEPT ![parent] = table,
                          ![child] = [v \in Pages |-> [table[v] EXCEPT !.rw = FALSE]]]
    /\ refcount' = [f \in Frames |->
          refcount[f] + Cardinality({v \in Mapped(table, Pages) : table[v].frame = f})]
    /\ written' = [written EXCEPT ![child] = written[parent]]
    /\ UNCHANGED <<content, fault, heap_lost>>

\* exec and exit; another process exists, so that the system goes on.
vmm_destroy_space(s) ==
    /\ Running(s)
    /\ \E t \in Spaces \ {s} : Exists(t)
    /\ vmas' = [vmas EXCEPT ![s] = {}]
    /\ brk' = [brk EXCEPT ![s] = BRK_START]
    /\ refcount' = Unref(refcount, pte[s], UNION {a.start .. a.end - 1 : a \in vmas[s]})
    /\ pte' = [pte EXCEPT ![s] = [v \in Pages |-> None]]
    /\ written' = [written EXCEPT ![s] = [v \in Pages |-> 0]]
    /\ UNCHANGED <<content, fault, heap_lost>>

-----------------------------------------------------------------------------
(* vmm_handle_page_fault *)

\* The areas a fault at v may use: the one v is in, or the stack above it,
\* which grows down to v.
Grown(s, v) ==
    LET above == {a \in vmas[s] : a.start > v}
        next == {a \in above : \A b \in above : a.start <= b.start}
    IN {a \in next : a.kind = "stack" /\ a.end - v <= MAX_STACK}

FaultArea(s, v) ==
    IF vma_find(s, v) # {} THEN vma_find(s, v)
    ELSE {[a EXCEPT !.start = v] : a \in Grown(s, v)}

AreasAfter(s, v) ==
    IF vma_find(s, v) # {} THEN vmas[s]
    ELSE (vmas[s] \ Grown(s, v)) \cup FaultArea(s, v)

\* A read of a page without entry maps the zero page.
FaultRead(s, v) ==
    /\ Running(s) /\ ~pte[s][v].present
    /\ FaultArea(s, v) # {}
    /\ vmas' = [vmas EXCEPT ![s] = AreasAfter(s, v)]
    /\ pte' = [pte EXCEPT ![s][v] = [frame |-> Zero, present |-> TRUE, rw |-> FALSE]]
    /\ UNCHANGED <<brk, refcount, content, fault, written, heap_lost>>

MayWrite(a) == a.write \/ a.cow

\* A write to a page without entry maps a new frame of zeros.
FaultWrite(s, v) ==
    /\ Running(s) /\ ~pte[s][v].present
    /\ \E a \in FaultArea(s, v), f \in {g \in Frames : refcount[g] = 0} :
         /\ MayWrite(a)
         /\ refcount' = [refcount EXCEPT ![f] = 1]
         /\ content' = [content EXCEPT ![f] = 0]
         /\ pte' = [pte EXCEPT ![s][v] = [frame |-> f, present |-> TRUE, rw |-> a.write]]
    /\ vmas' = [vmas EXCEPT ![s] = AreasAfter(s, v)]
    /\ UNCHANGED <<brk, fault, written, heap_lost>>

\* A write to a page that is mapped read-only.
FaultCow(s, v) ==
    /\ Running(s) /\ pte[s][v].present /\ ~pte[s][v].rw
    /\ \E a \in vma_find(s, v) : MayWrite(a)
    /\ fault' = [fault EXCEPT ![s] = [page |-> v, at |-> "count", frame |-> Zero]]
    /\ UNCHANGED <<vmas, brk, pte, refcount, content, written, heap_lost>>

OldFrame(s) == pte[s][fault[s].page].frame
InFault(s, label) == fault[s].at = label

OnlyReference(f) == f # Zero /\ refcount[f] = 1

CowReuse(s) ==
    /\ InFault(s, "count")
    /\ OnlyReference(OldFrame(s))
    /\ pte' = [pte EXCEPT ![s][fault[s].page].rw = TRUE]
    /\ fault' = [fault EXCEPT ![s] = Idle]
    /\ UNCHANGED <<vmas, brk, refcount, content, written, heap_lost>>

CowAlloc(s) ==
    /\ InFault(s, "count")
    /\ ~OnlyReference(OldFrame(s))
    /\ \E f \in {g \in Frames : refcount[g] = 0} :
         /\ refcount' = [refcount EXCEPT ![f] = 1]
         /\ fault' = [fault EXCEPT ![s].at = "copy", ![s].frame = f]
    /\ UNCHANGED <<vmas, brk, pte, content, written, heap_lost>>

\* -ENOMEM: the process is killed.
CowFails(s) ==
    /\ InFault(s, "count")
    /\ ~OnlyReference(OldFrame(s))
    /\ \A g \in Frames : refcount[g] # 0
    /\ fault' = [fault EXCEPT ![s] = Idle]
    /\ UNCHANGED <<vmas, brk, pte, refcount, content, written, heap_lost>>

CowCopy(s) ==
    /\ InFault(s, "copy")
    /\ content' = [content EXCEPT ![fault[s].frame] =
                      IF OldFrame(s) = Zero THEN 0 ELSE content[OldFrame(s)]]
    /\ fault' = [fault EXCEPT ![s].at = "swap"]
    /\ UNCHANGED <<vmas, brk, pte, refcount, written, heap_lost>>

\* The compare-and-exchange of the entry, then the old frame's reference.
CowSwap(s) ==
    /\ InFault(s, "swap")
    /\ pte' = [pte EXCEPT ![s][fault[s].page] =
                  [frame |-> fault[s].frame, present |-> TRUE, rw |-> TRUE]]
    /\ refcount' = IF OldFrame(s) = Zero THEN refcount
                   ELSE [refcount EXCEPT ![OldFrame(s)] = @ - 1]
    /\ fault' = [fault EXCEPT ![s] = Idle]
    /\ UNCHANGED <<vmas, brk, content, written, heap_lost>>

-----------------------------------------------------------------------------
(* The process writes to a page that its table lets it write to. *)

Write(s, v, x) ==
    /\ Running(s) /\ pte[s][v].present /\ pte[s][v].rw
    /\ content' = [content EXCEPT ![pte[s][v].frame] = x]
    /\ written' = [written EXCEPT ![s][v] = x]
    /\ UNCHANGED <<vmas, brk, pte, refcount, fault, heap_lost>>

MapCalls(s) ==
    \/ \E hint \in scenario.hints, n \in scenario.lens, w \in MapWrites : vmm_map(s, hint, n, w)
    \/ \E lo \in scenario.unmaps, n \in scenario.lens :
          vmm_unmap(s, lo, n) \/ \E w \in scenario.protects : vmm_protect(s, lo, n, w)
    \/ \E new \in scenario.breaks : vmm_brk(s, new)

Access(s, v) ==
    FaultRead(s, v) \/ FaultWrite(s, v) \/ FaultCow(s, v) \/ \E x \in Values : Write(s, v, x)

\* No fork once a heap is lost: each one would leave its frames a reference more,
\* without bound.
Next ==
    /\ UNCHANGED scenario
    /\ \E s \in Spaces :
         \/ s \in Mappers /\ MapCalls(s)
         \/ ~heap_lost /\ \E t \in Spaces : vmm_clone_space(s, t)
         \/ vmm_destroy_space(s)
         \/ \E v \in scenario.pages : Access(s, v)
         \/ CowReuse(s) \/ CowAlloc(s) \/ CowFails(s) \/ CowCopy(s) \/ CowSwap(s)

Spec == Init /\ [][Next]_vars

-----------------------------------------------------------------------------
(* Properties. *)

\* The areas of a space are in order and do not overlap, and a page is mapped
\* only inside an area: unmapping, splitting and moving the break take the
\* entries with them, unless a break is moved over a mapping: vmm_brk then drops
\* the heap's area and keeps its pages.
AreasOrdered ==
    \A s \in Spaces :
       /\ \A a, b \in vmas[s] : a.start < a.end /\ (a # b => ~Overlap(a, b))
       /\ ~heap_lost => \A v \in Mapped(pte[s], Pages) : vma_find(s, v) # {}

\* A space reads what it wrote, or what it inherited at the fork: a frame that
\* is shared is never written to, a frame that is freed is in no table, and
\* new pages are zero.
MemoryKept ==
    \A s \in Spaces, v \in Pages :
       IF pte[s][v].present /\ pte[s][v].frame # Zero
       THEN content[pte[s][v].frame] = written[s][v]
       ELSE written[s][v] = 0

\* Every frame counts the entries that name it and the copies under way: none
\* is freed early, and none is lost but those of a heap whose area vmm_brk dropped.
FramesCounted ==
    ~heap_lost => \A f \in Frames :
       refcount[f] = Cardinality({<<s, v>> \in Spaces \X Pages :
                                     pte[s][v].present /\ pte[s][v].frame = f})
                     + Cardinality({s \in Spaces : fault[s].at # "idle" /\ fault[s].frame = f})

\* The search for room finds the lowest hole, and fails only when no hole of
\* the range is large enough.
LowestHole ==
    \A s \in Spaces, n \in 1..(MMAP_END - MMAP_BASE) :
       LET free == {p \in MMAP_BASE .. MMAP_END - n :
                       \A a \in vmas[s] : a.end <= p \/ a.start >= p + n}
       IN vma_find_unmapped_area(vmas[s], n) = IF free = {} THEN 0 ELSE Min(free)
=============================================================================
