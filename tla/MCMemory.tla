------------------------------ MODULE MCMemory ------------------------------
(* Physical and virtual memory.  A behaviour is one of the page allocator    *)
(* (Pmm) or one of address spaces that share frames (AddressSpace); the      *)
(* variables of the other rest.                                              *)
EXTENDS Pmm, TLC

CONSTANTS Zero, NONE

VARIABLES part, vmas, brk, pte, frame_refs, content, fault, scenario, written,
    heap_lost

MCSize == [o \in 0 .. PMM_MAX_ORDER |-> 2 ^ o]

\* Two frames in zone DMA32, three in zone NORMAL and none usable in zone DMA; the
\* border of the zones is between two buddies of order 1.
MCRanges == <<[lo |-> 4, hi |-> 9]>>

MCRequests == {[order |-> 0, flags |-> "NONE"], [order |-> 0, flags |-> "DMA32"],
               [order |-> 1, flags |-> "KERNEL"]}

\* The heap grows and shrinks below the range of mmap, a hint puts a mapping in the
\* way of the heap, mappings of three pages are split, the stack grows, and a
\* mapping becomes read-only.
MCScenarios ==
    {[pages |-> {1}, breaks |-> {1, 2}, hints |-> {0}, unmaps |-> {3}, lens |-> {1}, protects |-> {}],
     [pages |-> {1}, breaks |-> {2, 3}, hints |-> {2}, unmaps |-> {2}, lens |-> {1}, protects |-> {}],
     [pages |-> {4}, breaks |-> {}, hints |-> {0, 4}, unmaps |-> {3, 4, 5}, lens |-> {1, 3},
      protects |-> {}],
     [pages |-> {6}, breaks |-> {}, hints |-> {}, unmaps |-> {}, lens |-> {}, protects |-> {}],
     [pages |-> {3}, breaks |-> {}, hints |-> {0}, unmaps |-> {3}, lens |-> {1}, protects |-> {FALSE}]}

\* A process and its child, a heap of up to two pages, room for mappings of three
\* pages and a stack that grows by a page.  The two frames have the names of the
\* threads of the other part, so that one symmetry serves both.
Space == INSTANCE AddressSpace
    WITH Spaces <- {"parent", "child"}, first <- "parent", Frames <- Threads, Values <- {1},
         BRK_START <- 1, MMAP_BASE <- 3, MMAP_END <- 6, STACK_TOP <- 8, MAX_STACK <- 2,
         MapWrites <- {TRUE}, Mappers <- {"parent"}, Scenarios <- MCScenarios,
         refcount <- frame_refs

space_vars == <<vmas, brk, pte, frame_refs, content, fault, scenario, written, heap_lost>>

space_rests ==
    /\ vmas = NONE /\ brk = NONE /\ pte = NONE /\ frame_refs = NONE /\ content = NONE
    /\ fault = NONE /\ scenario = NONE /\ written = NONE /\ heap_lost = NONE

MCInit ==
    \/ part = "frames" /\ Init /\ space_rests
    \/ part = "spaces" /\ Space!Init /\ Init

MCNext ==
    /\ UNCHANGED part
    /\ \/ part = "frames" /\ Next /\ UNCHANGED space_vars
       \/ part = "spaces" /\ Space!Next /\ UNCHANGED vars

MCSpec == MCInit /\ [][MCNext]_<<part, vars, space_vars>>

Symmetry == Permutations(Threads)

----------------------------------------------------------------------------
\* AddressSpace: a process reads what it wrote, its areas do not overlap, a new
\* mapping takes the lowest hole, and a frame counts the entries that map it.
SpacesKept ==
    part = "spaces" =>
        Space!MemoryKept /\ Space!AreasOrdered /\ Space!LowestHole /\ Space!FramesCounted
=============================================================================
