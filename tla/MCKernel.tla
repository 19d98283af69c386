------------------------------ MODULE MCKernel ------------------------------
(* Structures and services of the kernel.  A behaviour is one of a           *)
(* read-write semaphore (RwSem), of kmalloc or a slab cache that creates     *)
(* slabs (Kmalloc), both with the sizes of mem/slab.c, of the                *)
(* radix tree of the page cache (RadixTree), of the tree of the areas of an  *)
(* address space (VmaTree), of a socket buffer (SockBuf), a pipe (Pipe) or a *)
(* terminal (Terminal), of futexes (Futex), signals (Signals), or of         *)
(* processes that kill (Process); the variables of the others rest.          *)
EXTENDS RwSem, Sequences, TLC

CONSTANTS NONE, init, user1, user2

VARIABLES part,
    block, asked, owed, intact,
    cache,
    height, entries, tree_count, tags, fault, marked, unheld,
    tree, areas,
    packets, sb_cc, consumed, partial, busy, peeked, sent, got,
    data, read_pos, write_pos, filled, pipe_sent, pipe_got,
    line, cpu, used, fg, buffer, head, tail, last_char_was_cr, storing, loading, typed,
    dropped, queued, taken,
    word, bucket, node, sleep_state, until, expects, owes, spared, stores,
    proc, panicked,
    current, free_later, next, running_cpu, run_state, kill_pending, exited, refcount, table,
    parent, wait_exit, dev_q, kernel_pc, target

MCPageSize == 4096
MCSizes == <<16, 32, 64, 128, 192, 256, 512, 1024, 2048>>

\* A size_t as wide as TLC's integers allow: twice the largest block does not wrap.
MCMaxOrder == 18
MCSizeMax == 3 * 2^29 - 1

\* Zero, both sides of every boundary between two caches, of the caches and pages, of
\* the first orders and of the last, and of where adding a page less one wraps around.
MCRequests ==
    {0, 1, MCSizeMax} \cup {MCSizes[i] + d : i \in DOMAIN MCSizes, d \in {-1, 0, 1}}
    \cup {k * MCPageSize + d : k \in {1, 2, 2^17}, d \in {-1, 0, 1}}
    \cup {MCSizeMax + 1 - MCPageSize + d : d \in {-1, 0, 1}}

\* kmalloc_sizes, slab_magazine and slab_metadata, and odd sizes.
MCObjectSizes ==
    {16, 32, 64, 128, 192, 256, 512, 1024, 2048, 1048, 112}
    \cup {1, 7, 24, 40, 72, 100, 208, 300, 340, 500, 700, 800, 1000, 1023, 1025, 1500, 3000, 4096}

Heap == INSTANCE Kmalloc
    WITH kmalloc_sizes <- MCSizes, PMM_PAGE_SIZE <- MCPageSize, PMM_MAX_ORDER <- MCMaxOrder,
         SIZE_MAX <- MCSizeMax, Sizes <- MCRequests, Counts <- {0, 1, 3, 8, 5461, 65000},
         ObjSizes <- MCObjectSizes, Alignments <- {1, 16, 64}, SIZEOF_SLAB <- 80,
         SLAB_MIN_ALIGN <- 16, NULL <- NONE

Tree == INSTANCE RadixTree
    WITH RADIX_TREE_MAP_SIZE <- 2, MaxHeight <- 3, count <- tree_count

\* Eight pages and as many areas.
Areas == INSTANCE VmaTree
    WITH Pages <- 1..8, MAX_LEN <- 2, MAX_AREAS <- 8, Careful <- TRUE

\* Packets of 0 to 4 bytes; reads that end before, at and after the end of a
\* packet.  Every ring wraps around more than once.
Socket == INSTANCE SockBuf
    WITH HIWAT <- 5, PARTIAL <- 2, PEEK <- 1, PacketLens <- {0, 1, 2, 4}, ReadLens <- {1, 2, 3, 5},
         NBYTES <- 3, MAXSENT <- 8, MAXPACKETS <- 3

Pipes == INSTANCE Pipe
    WITH SIZE <- 3, Lens <- 1..4, NBYTES <- 5, MAXSENT <- 9,
         count <- filled, sent <- pipe_sent, got <- pipe_got

Console == INSTANCE Terminal
    WITH SIZE <- 3, Lines <- {"pty", "serial", "keyboard", "output"}, Producers <- {1, 2},
         Placements <- {<<0, 0>>, <<0, 1>>}, Keys <- {"CR", "LF", "DEL", "ETX"}, MAXTYPED <- 3,
         sent <- queued, got <- taken

\* Two words of one bucket; wakes of one thread and of all.
Sleep == INSTANCE Futex
    WITH Threads <- {1, 2, 3}, Words <- {11, 12}, Counts <- {1, 3}, MAXSTORES <- 3,
         Careful <- TRUE, head <- bucket, state <- sleep_state

\* Init, its child and the child's child, which has another user; the last two
\* are a group.  Handlers, one of them for a single use, a mask, SIGKILL and a
\* fault.
Signal == INSTANCE Signals
    WITH Procs <- {1, 2, 3}, Parent <- <<0, 1, 2>>, Group <- <<1, 2, 2>>, Uid <- <<0, 0, 5>>,
         Elevated <- {}, Sigs <- {2, 9, 11, 17}, Masks <- <<{}, {{2, 9}}, {}>>,
         Actions <- <<{<<17, "function", FALSE>>},
                      {<<2, "function", TRUE>>, <<2, "ignore", FALSE>>, <<9, "function", FALSE>>},
                      {<<2, "function", FALSE>>}>>,
         Careful <- TRUE

\* Init and two processes on two CPUs, one of which kills.
Kill == INSTANCE Process
    WITH Cpus <- {1, 2}, Users <- {init, user1, user2}, Killers <- {user2},
         Careful <- TRUE, NULL <- NONE, state <- run_state, pc <- kernel_pc

heap_vars == <<block, asked, owed, intact>>
layout_vars == <<cache>>
radix_vars == <<height, entries, tree_count, tags, fault, marked, unheld>>
vma_vars == <<tree, areas>>
socket_vars == <<packets, sb_cc, consumed, partial, busy, peeked, sent, got>>
pipe_vars == <<data, read_pos, write_pos, filled, pipe_sent, pipe_got>>
console_vars == <<line, cpu, used, fg, buffer, head, tail, last_char_was_cr, storing,
                  loading, typed, dropped, queued, taken>>
futex_vars == <<word, bucket, node, sleep_state, until, expects, owes, spared, stores>>
signal_vars == <<proc, panicked>>
kill_vars == <<current, free_later, next, running_cpu, run_state, kill_pending, exited,
               refcount, table, parent, wait_exit, dev_q, kernel_pc, target>>

heap_rests ==
    /\ block = NONE /\ asked = NONE /\ owed = NONE /\ intact = NONE
layout_rests ==
    /\ cache = NONE
radix_rests ==
    /\ height = NONE /\ entries = NONE /\ tree_count = NONE /\ tags = NONE
    /\ fault = NONE /\ marked = NONE /\ unheld = NONE
vma_rests ==
    /\ tree = NONE /\ areas = NONE
socket_rests ==
    /\ packets = NONE /\ sb_cc = NONE /\ consumed = NONE /\ partial = NONE
    /\ busy = NONE /\ peeked = NONE /\ sent = NONE /\ got = NONE
pipe_rests ==
    /\ data = NONE /\ read_pos = NONE /\ write_pos = NONE /\ filled = NONE
    /\ pipe_sent = NONE /\ pipe_got = NONE
console_rests ==
    /\ line = NONE /\ cpu = NONE /\ used = NONE /\ fg = NONE /\ buffer = NONE
    /\ head = NONE /\ tail = NONE /\ last_char_was_cr = NONE /\ storing = NONE
    /\ loading = NONE /\ typed = NONE /\ dropped = NONE /\ queued = NONE /\ taken = NONE
futex_rests ==
    /\ word = NONE /\ bucket = NONE /\ node = NONE /\ sleep_state = NONE /\ until = NONE
    /\ expects = NONE /\ owes = NONE /\ spared = NONE /\ stores = NONE
signal_rests ==
    /\ proc = NONE /\ panicked = NONE
kill_rests ==
    /\ current = NONE /\ free_later = NONE /\ next = NONE /\ running_cpu = NONE
    /\ run_state = NONE /\ kill_pending = NONE /\ exited = NONE /\ refcount = NONE
    /\ table = NONE /\ parent = NONE /\ wait_exit = NONE /\ dev_q = NONE
    /\ kernel_pc = NONE /\ target = NONE

\* The variables of RwSem, when it is not what runs, are as they are at the start.
MCInit ==
    /\ Init
    /\ \/ /\ part = "rwsem"
          /\ heap_rests /\ layout_rests /\ radix_rests /\ vma_rests /\ socket_rests
          /\ pipe_rests /\ console_rests /\ futex_rests /\ signal_rests /\ kill_rests
       \/ /\ part = "heap" /\ Heap!Init
          /\ layout_rests /\ radix_rests /\ vma_rests /\ socket_rests /\ pipe_rests
          /\ console_rests /\ futex_rests /\ signal_rests /\ kill_rests
       \/ /\ part = "layout" /\ Heap!CacheInit
          /\ heap_rests /\ radix_rests /\ vma_rests /\ socket_rests /\ pipe_rests
          /\ console_rests /\ futex_rests /\ signal_rests /\ kill_rests
       \/ /\ part = "radix" /\ Tree!Init
          /\ heap_rests /\ layout_rests /\ vma_rests /\ socket_rests /\ pipe_rests
          /\ console_rests /\ futex_rests /\ signal_rests /\ kill_rests
       \/ /\ part = "areas" /\ Areas!Init
          /\ heap_rests /\ layout_rests /\ radix_rests /\ socket_rests /\ pipe_rests
          /\ console_rests /\ futex_rests /\ signal_rests /\ kill_rests
       \/ /\ part = "socket" /\ Socket!Init
          /\ heap_rests /\ layout_rests /\ radix_rests /\ vma_rests /\ pipe_rests
          /\ console_rests /\ futex_rests /\ signal_rests /\ kill_rests
       \/ /\ part = "pipe" /\ Pipes!Init
          /\ heap_rests /\ layout_rests /\ radix_rests /\ vma_rests /\ socket_rests
          /\ console_rests /\ futex_rests /\ signal_rests /\ kill_rests
       \/ /\ part = "console" /\ Console!Init
          /\ heap_rests /\ layout_rests /\ radix_rests /\ vma_rests /\ socket_rests
          /\ pipe_rests /\ futex_rests /\ signal_rests /\ kill_rests
       \/ /\ part = "futex" /\ Sleep!Init
          /\ heap_rests /\ layout_rests /\ radix_rests /\ vma_rests /\ socket_rests
          /\ pipe_rests /\ console_rests /\ signal_rests /\ kill_rests
       \/ /\ part = "signal" /\ Signal!Init
          /\ heap_rests /\ layout_rests /\ radix_rests /\ vma_rests /\ socket_rests
          /\ pipe_rests /\ console_rests /\ futex_rests /\ kill_rests
       \/ /\ part = "kill" /\ Kill!Init
          /\ heap_rests /\ layout_rests /\ radix_rests /\ vma_rests /\ socket_rests
          /\ pipe_rests /\ console_rests /\ futex_rests /\ signal_rests

MCNext ==
    /\ UNCHANGED part
    /\ \/ /\ part = "rwsem" /\ Next
          /\ UNCHANGED <<heap_vars, layout_vars, radix_vars, vma_vars, socket_vars, pipe_vars,
                        console_vars, futex_vars, signal_vars, kill_vars>>
       \/ /\ part = "heap" /\ Heap!Next
          /\ UNCHANGED <<vars, layout_vars, radix_vars, vma_vars, socket_vars, pipe_vars,
                        console_vars, futex_vars, signal_vars, kill_vars>>
       \/ /\ part = "layout" /\ Heap!slab_create_page
          /\ UNCHANGED <<vars, heap_vars, radix_vars, vma_vars, socket_vars, pipe_vars,
                        console_vars, futex_vars, signal_vars, kill_vars>>
       \/ /\ part = "radix" /\ Tree!Next
          /\ UNCHANGED <<vars, heap_vars, layout_vars, vma_vars, socket_vars, pipe_vars,
                        console_vars, futex_vars, signal_vars, kill_vars>>
       \/ /\ part = "areas" /\ Areas!Next
          /\ UNCHANGED <<vars, heap_vars, layout_vars, radix_vars, socket_vars, pipe_vars,
                        console_vars, futex_vars, signal_vars, kill_vars>>
       \/ /\ part = "socket" /\ Socket!Next
          /\ UNCHANGED <<vars, heap_vars, layout_vars, radix_vars, vma_vars, pipe_vars,
                        console_vars, futex_vars, signal_vars, kill_vars>>
       \/ /\ part = "pipe" /\ Pipes!Next
          /\ UNCHANGED <<vars, heap_vars, layout_vars, radix_vars, vma_vars, socket_vars,
                        console_vars, futex_vars, signal_vars, kill_vars>>
       \/ /\ part = "console" /\ Console!Next
          /\ UNCHANGED <<vars, heap_vars, layout_vars, radix_vars, vma_vars, socket_vars,
                        pipe_vars, futex_vars, signal_vars, kill_vars>>
       \/ /\ part = "futex" /\ Sleep!Next
          /\ UNCHANGED <<vars, heap_vars, layout_vars, radix_vars, vma_vars, socket_vars,
                        pipe_vars, console_vars, signal_vars, kill_vars>>
       \/ /\ part = "signal" /\ Signal!Next
          /\ UNCHANGED <<vars, heap_vars, layout_vars, radix_vars, vma_vars, socket_vars,
                        pipe_vars, console_vars, futex_vars, kill_vars>>
       \/ /\ part = "kill" /\ Kill!Next
          /\ UNCHANGED <<vars, heap_vars, layout_vars, radix_vars, vma_vars, socket_vars,
                        pipe_vars, console_vars, futex_vars, signal_vars>>

all_vars == <<part, vars, heap_vars, layout_vars, radix_vars, vma_vars, socket_vars,
              pipe_vars, console_vars, futex_vars, signal_vars, kill_vars>>

MCSpec == MCInit /\ [][MCNext]_all_vars

----------------------------------------------------------------------------
\* Kmalloc: a block is as large as was asked for, krealloc loses
\* none of the data that the client counts on, and with every colour the objects
\* of a slab are inside the page and outside the slab header.
BlocksFit ==
    /\ part = "heap" => Heap!BlockLargeEnough /\ Heap!ContentsKept
    /\ part = "layout" => Heap!ObjectsFit

\* RadixTree and VmaTree: through any insertions, deletions and shortages of
\* memory every page of a mapping is found at its index, and the walk for the
\* dirty tag finds exactly the pages tagged since the tree has nodes, wherever it
\* grew or shrank since; the tree and the list of a space hold exactly its areas, in order and
\* balanced, and the gaps that the search for room goes by are exact.
TreesExact ==
    /\ part = "radix" => Tree!TreeExact /\ Tree!TagsKept
    /\ part = "areas" => Areas!AreasIndexed

\* SockBuf and Pipe: the buffer of a socket and a pipe are bounded streams of
\* bytes, and a byte that was peeked at is the next that a read delivers.
IsByteStream ==
    /\ part = "socket" => Socket!Stream!Init
    /\ part = "pipe" => Pipes!Stream!Init
    /\ [][part = "socket" => Socket!Stream!Next]_<<sent, got, consumed, partial>>
    /\ [][part = "pipe" => Pipes!Stream!Next]_<<pipe_sent, pipe_got>>
    /\ [](part = "socket" => Socket!PeekIsNext)

\* Terminal: the reader gets the characters that were queued, once and in order,
\* and a serial line ends each line once.
CharactersPassed ==
    part = "console" => Console!CharactersInOrder /\ Console!LinesEndOnce

\* Futex: the list of a bucket is the threads that sleep, and none of them
\* sleeps on a change that has already been made and announced.
WaitersServed == part = "futex" => Sleep!WaitersServed

\* Signals: no signal is lost or acted on twice, SIGKILL cannot be put off, and no
\* process sleeps on a signal that should wake it.
SignalsAct == part = "signal" => Signal!SignalsAct

\* Process, with fatal signals: no CPU switches to a process that is dead, and
\* none is behind a living one in the run queue, even one that a device wakes
\* after its death; the living form one circle, and every reference is counted.
DeadNeverRunAgain ==
    [][part = "kill" => Kill!NoneDeadRunAgain /\ Kill!LivingQueued']_all_vars
=============================================================================
