------------------------------ MODULE FileTable ------------------------------
(***************************************************************************)
(* File descriptors (sys/syscall_file.c, sys/process.c): the tables of the *)
(* processes, the open files and pipes they share through dup and fork,    *)
(* and poll on the ends of a pipe.  A "file" is an object with one counter: *)
(* an open file or a socket.                                               *)
(*                                                                         *)
(* A system call runs with interrupts off: processes of one CPU interleave *)
(* only where they return or sleep, those of different CPUs anywhere.      *)
(***************************************************************************)
EXTENDS Integers, FiniteSets, FiniteSetsExt

CONSTANTS
    Procs, first,     \* the processes, and the one at the start
    Files, Pipes,     \* the objects that can be allocated
    MAX_FDS,          \* MAX_PROCESS_FDS
    STDIO,            \* the descriptors that exec keeps: 3 in the code
    PIPE_SIZE,        \* sizeof(pipe->data)
    Cpus              \* the CPUs that the processes may be on; the first one is on CPU 0

VARIABLES
    cpu,              \* the CPU of each process
    alive,            \* the processes that exist
    fds,              \* proc->fds and fd_kind
    refs,             \* of a process_fd_file_ref_t
    readers, writers, count,  \* of a process_fd_pipe_t
    freed,            \* how often an object was given to kfree
    used,             \* the objects that were allocated
    pc, slot,         \* where a process is in a call, and the descriptor it closes
    todo, old,        \* the call the close is part of, and oldfd of dup2
    queued, blocked   \* the wait queues a process is linked in, and its state

\* The first process exists, and a table has room for a descriptor.
ASSUME FileTableAssumption ==
    /\ IsFiniteSet(Procs) /\ first \in Procs
    /\ Files \cap Pipes = {}
    /\ MAX_FDS \in Nat \ {0}

objects == <<refs, readers, writers, count, freed, used>>
call == <<pc, slot, todo, old>>
sleep == <<queued, blocked>>
vars == <<cpu, alive, fds, objects, call, sleep>>

Slots == 0 .. MAX_FDS - 1
Empty == [kind |-> "none"]
End(k, o) == [kind |-> k, obj |-> o]
Fd(p, i) == fds[p][i]

Init ==
    /\ cpu \in [Procs -> Cpus] /\ cpu[first] = 0
    /\ alive = {first}
    /\ fds = [p \in Procs |-> [i \in Slots |-> Empty]]
    /\ refs = [f \in Files |-> 0]
    /\ readers = [o \in Pipes |-> 0] /\ writers = [o \in Pipes |-> 0]
    /\ count = [o \in Pipes |-> 0]
    /\ freed = [o \in Files \cup Pipes |-> 0]
    /\ used = {}
    /\ pc = [p \in Procs |-> "user"]
    /\ slot = [p \in Procs |-> 0]
    /\ todo = [p \in Procs |-> "none"]
    /\ old = [p \in Procs |-> 0]
    /\ queued = [p \in Procs |-> {}]
    /\ blocked = [p \in Procs |-> FALSE]

OneCpu == \A p, q \in Procs : cpu[p] = cpu[q]

\* Nobody else of this CPU is inside the kernel.
Runs(p) ==
    /\ p \in alive
    /\ \A q \in alive \ {p} : cpu[q] = cpu[p] => pc[q] \in {"user", "asleep"}
User(p) == Runs(p) /\ pc[p] = "user"
At(p, label) == Runs(p) /\ pc[p] = label
Open(p, i) == Fd(p, i).kind # "none"

-----------------------------------------------------------------------------
(* References. *)

\* How many descriptors of a table name an object through this kind of end.
Names(table, k, o) == Cardinality({i \in Slots : table[i] = End(k, o)})

\* Mutant: a duplicate of a write end counts as a reader.
AddRefs_AsReaders(table) ==
    /\ refs' = [f \in Files |-> refs[f] + Names(table, "file", f)]
    /\ readers' = [o \in Pipes |-> readers[o] + Names(table, "read", o) + Names(table, "write", o)]
    /\ writers' = writers

\* fd_addref for every descriptor of a table.
AddRefs(table) ==
    /\ refs' = [f \in Files |-> refs[f] + Names(table, "file", f)]
    /\ readers' = [o \in Pipes |-> readers[o] + Names(table, "read", o)]
    /\ writers' = [o \in Pipes |-> writers[o] + Names(table, "write", o)]

Only(i, d) == [j \in Slots |-> IF j = i THEN d ELSE Empty]

\* fs_alloc_fd_slot
FreeSlots(p) == {i \in Slots : ~Open(p, i)}

-----------------------------------------------------------------------------
(* open, pipe, dup, dup2, fork *)

fs_cmd_open(p, f) ==
    /\ User(p) /\ f \notin used /\ FreeSlots(p) # {}
    /\ fds' = [fds EXCEPT ![p][Min(FreeSlots(p))] = End("file", f)]
    /\ refs' = [refs EXCEPT ![f] = 1]
    /\ used' = used \cup {f}
    /\ UNCHANGED <<cpu, alive, readers, writers, count, freed, call, sleep>>

fs_cmd_pipe(p, o) ==
    LET rfd == Min(FreeSlots(p))
        wfd == Min(FreeSlots(p) \ {rfd})
    IN
    /\ User(p) /\ o \notin used /\ Cardinality(FreeSlots(p)) > 1
    /\ fds' = [fds EXCEPT ![p][rfd] = End("read", o), ![p][wfd] = End("write", o)]
    /\ readers' = [readers EXCEPT ![o] = 1]
    /\ writers' = [writers EXCEPT ![o] = 1]
    /\ used' = used \cup {o}
    /\ UNCHANGED <<cpu, alive, refs, count, freed, call, sleep>>

\* The copy, from dup or at the end of dup2.
Copy(p, from, to) ==
    /\ fds' = [fds EXCEPT ![p][to] = Fd(p, from)]
    /\ AddRefs(Only(from, Fd(p, from)))
    /\ UNCHANGED <<cpu, alive, count, freed, used, sleep>>

fs_cmd_dup(p, oldfd) ==
    /\ User(p) /\ Open(p, oldfd) /\ FreeSlots(p) # {}
    /\ Copy(p, oldfd, Min(FreeSlots(p)))
    /\ UNCHANGED call

fs_cmd_dup2(p, oldfd, newfd) ==
    /\ User(p) /\ Open(p, oldfd) /\ oldfd # newfd
    /\ \/ ~Open(p, newfd) /\ Copy(p, oldfd, newfd) /\ UNCHANGED call
       \/ /\ Open(p, newfd)
          /\ pc' = [pc EXCEPT ![p] = "drop"]
          /\ slot' = [slot EXCEPT ![p] = newfd]
          /\ todo' = [todo EXCEPT ![p] = "dup2"]
          /\ old' = [old EXCEPT ![p] = oldfd]
          /\ UNCHANGED <<cpu, alive, fds, objects, sleep>>

Dup2Copies(p) ==
    /\ At(p, "closed") /\ todo[p] = "dup2"
    /\ Copy(p, old[p], slot[p])
    /\ pc' = [pc EXCEPT ![p] = "user"]
    /\ todo' = [todo EXCEPT ![p] = "none"]
    /\ slot' = [slot EXCEPT ![p] = 0]
    /\ old' = [old EXCEPT ![p] = 0]

\* The descriptors of process_duplicate.
Fork(p, child) ==
    /\ User(p) /\ child \notin alive
    /\ fds' = [fds EXCEPT ![child] = fds[p]]
    /\ AddRefs(fds[p])
    /\ alive' = alive \cup {child}
    /\ UNCHANGED <<cpu, count, freed, used, call, sleep>>

\* The descriptors of process_create_elf: those of the standard streams are
\* inherited, or none are when the caller names a terminal.  One reference to an
\* open file, the terminal's or the console's, is shared by those that are
\* missing then; they stay empty when it cannot be opened.
Inherited(p) == [i \in Slots |-> IF i < STDIO THEN Fd(p, i) ELSE Empty]
NoFds == [i \in Slots |-> Empty]
Missing(table) == {i \in Slots : i < STDIO /\ table[i].kind = "none"}
WithConsole(table, f) == [i \in Slots |-> IF i \in Missing(table) THEN End("file", f) ELSE table[i]]

Spawn(p, child) ==
    /\ User(p) /\ child \notin alive
    /\ \E table \in {Inherited(p), NoFds} :
         \/ /\ fds' = [fds EXCEPT ![child] = table]
            /\ AddRefs(table)
            /\ UNCHANGED used
         \/ \E f \in Files \ used :
              /\ Missing(table) # {}
              /\ fds' = [fds EXCEPT ![child] = WithConsole(table, f)]
              /\ AddRefs(WithConsole(table, f))
              /\ used' = used \cup {f}
    /\ alive' = alive \cup {child}
    /\ UNCHANGED <<cpu, count, freed, call, sleep>>

-----------------------------------------------------------------------------
(* close, exec, exit: process_close_fd_inner *)

Close(p, i) ==
    /\ User(p) /\ Open(p, i)
    /\ pc' = [pc EXCEPT ![p] = "drop"]
    /\ slot' = [slot EXCEPT ![p] = i]
    /\ UNCHANGED <<cpu, alive, fds, objects, todo, old, sleep>>

\* The descriptors that exec and exit close.
Closed(p, what) == {i \in Slots : Open(p, i) /\ (what = "exit" \/ i >= STDIO)}

Leave(p, what) ==
    /\ User(p)
    /\ pc' = [pc EXCEPT ![p] = "closed"]
    /\ todo' = [todo EXCEPT ![p] = what]
    /\ UNCHANGED <<cpu, alive, fds, objects, slot, old, sleep>>

CloseNext(p) ==
    /\ At(p, "closed") /\ todo[p] \in {"exec", "exit"}
    /\ Closed(p, todo[p]) # {}
    /\ slot' = [slot EXCEPT ![p] = Min(Closed(p, todo[p]))]
    /\ pc' = [pc EXCEPT ![p] = "drop"]
    /\ UNCHANGED <<cpu, alive, fds, objects, todo, old, sleep>>

CloseDone(p) ==
    /\ At(p, "closed") /\ todo[p] # "dup2"
    /\ todo[p] = "none" \/ Closed(p, todo[p]) = {}
    /\ alive' = IF todo[p] = "exit" THEN alive \ {p} ELSE alive
    /\ pc' = [pc EXCEPT ![p] = "user"]
    /\ todo' = [todo EXCEPT ![p] = "none"]
    /\ slot' = [slot EXCEPT ![p] = 0]
    /\ UNCHANGED <<cpu, fds, objects, old, sleep>>

Kfree(o) == [freed EXCEPT ![o] = @ + 1]

LastRef(f) == refs[f] = 1

DropFile(p) ==
    LET d == Fd(p, slot[p]) IN
    /\ At(p, "drop") /\ d.kind = "file"
    /\ refs' = [refs EXCEPT ![d.obj] = @ - 1]
    /\ freed' = IF LastRef(d.obj) THEN Kfree(d.obj) ELSE freed
    /\ fds' = [fds EXCEPT ![p][slot[p]] = Empty]
    /\ pc' = [pc EXCEPT ![p] = "closed"]
    /\ UNCHANGED <<cpu, alive, readers, writers, count, used, slot, todo, old, sleep>>

DropPipe(p) ==
    LET d == Fd(p, slot[p]) IN
    /\ At(p, "drop") /\ d.kind \in {"read", "write"}
    /\ readers' = [readers EXCEPT ![d.obj] = IF d.kind = "read" THEN @ - 1 ELSE @]
    /\ writers' = [writers EXCEPT ![d.obj] = IF d.kind = "write" THEN @ - 1 ELSE @]
    /\ pc' = [pc EXCEPT ![p] = "check"]
    /\ UNCHANGED <<cpu, alive, fds, refs, count, freed, used, slot, todo, old, sleep>>

\* Mutant: the ends are never seen gone both.
Unused_Never(o) == readers[o] < 0 /\ writers[o] < 0

Unused(o) == readers[o] <= 0 /\ writers[o] <= 0

FreePipe(p) ==
    LET d == Fd(p, slot[p]) IN
    /\ At(p, "check")
    /\ freed' = IF Unused(d.obj) THEN Kfree(d.obj) ELSE freed
    /\ fds' = [fds EXCEPT ![p][slot[p]] = Empty]
    /\ pc' = [pc EXCEPT ![p] = "closed"]
    /\ UNCHANGED <<cpu, alive, refs, readers, writers, count, used, slot, todo, old, sleep>>

-----------------------------------------------------------------------------
(* read, write and poll of a pipe.  Its bytes are in module Pipe. *)

\* Mutant: a write wakes the writers.
WokenBy_Swapped(kind) == kind

\* A read wakes the pollers of the write end, a write those of the read end.
WokenBy(kind) == IF kind = "read" THEN "write" ELSE "read"

Transfer(p, i, n) ==
    LET d == Fd(p, i) IN
    /\ User(p) /\ d.kind \in {"read", "write"}
    /\ d.kind = "write" => readers[d.obj] > 0
    /\ n <= (IF d.kind = "read" THEN count[d.obj] ELSE PIPE_SIZE - count[d.obj])
    /\ count' = [count EXCEPT ![d.obj] = IF d.kind = "read" THEN @ - n ELSE @ + n]
    /\ blocked' = [q \in Procs |-> blocked[q] /\ End(WokenBy(d.kind), d.obj) \notin queued[q]]
    /\ UNCHANGED <<cpu, alive, fds, refs, readers, writers, freed, used, call, queued>>

\* POLLIN or POLLHUP, POLLOUT or POLLERR.
Ready(d) ==
    CASE d.kind = "file" -> TRUE
      [] d.kind = "read" -> count[d.obj] > 0 \/ writers[d.obj] = 0
      [] d.kind = "write" -> count[d.obj] < PIPE_SIZE \/ readers[d.obj] = 0

\* fs_cmd_poll without timeout: link into the queue, then look.
fs_cmd_poll(p, i) ==
    /\ User(p) /\ Open(p, i) /\ ~Ready(Fd(p, i))
    /\ queued' = [queued EXCEPT ![p] = {Fd(p, i)}]
    /\ pc' = [pc EXCEPT ![p] = "poll"]
    /\ UNCHANGED <<cpu, alive, fds, objects, slot, todo, old, blocked>>

PollBlocks(p) ==
    /\ At(p, "poll")
    /\ blocked' = [blocked EXCEPT ![p] = TRUE]
    /\ pc' = [pc EXCEPT ![p] = "asleep"]
    /\ UNCHANGED <<cpu, alive, fds, objects, slot, todo, old, queued>>

\* Woken, poll looks once more, cleans up and returns in any case.
PollReturns(p) ==
    /\ At(p, "asleep") /\ ~blocked[p]
    /\ queued' = [queued EXCEPT ![p] = {}]
    /\ pc' = [pc EXCEPT ![p] = "user"]
    /\ UNCHANGED <<cpu, alive, fds, objects, slot, todo, old, blocked>>

\* The scheduler wakes a sleeper whose sleep_until has passed.
PollTimesOut(p) ==
    /\ At(p, "asleep") /\ blocked[p]
    /\ blocked' = [blocked EXCEPT ![p] = FALSE]
    /\ UNCHANGED <<cpu, alive, fds, objects, call, queued>>

InKernel(p) ==
    \/ Dup2Copies(p) \/ CloseNext(p) \/ CloseDone(p)
    \/ DropFile(p) \/ DropPipe(p) \/ FreePipe(p)
    \/ PollBlocks(p) \/ PollReturns(p)

Next ==
    \E p \in Procs :
       \/ \E f \in Files : fs_cmd_open(p, f)
       \/ \E o \in Pipes : fs_cmd_pipe(p, o)
       \/ \E i \in Slots :
             \/ fs_cmd_dup(p, i) \/ Close(p, i) \/ fs_cmd_poll(p, i)
             \/ \E j \in Slots : fs_cmd_dup2(p, i, j)
             \/ \E n \in 1..PIPE_SIZE : Transfer(p, i, n)
       \/ \E q \in Procs : Fork(p, q) \/ Spawn(p, q)
       \/ p # first /\ Leave(p, "exit")
       \/ Leave(p, "exec")
       \/ PollTimesOut(p)
       \/ InKernel(p)

Spec == Init /\ [][Next]_vars

\* A call in the kernel runs on; the scheduler takes turns among the processes
\* that can run.
FairSpec == Spec /\ \A p \in Procs : WF_vars(InKernel(p)) /\ SF_vars(PollReturns(p))

-----------------------------------------------------------------------------
(* Properties. *)

\* What the descriptors of all processes name, without those that close has
\* already taken off a counter.
Places == Procs \X Slots
Held == [d \in Places |-> IF pc[d[1]] = "check" /\ slot[d[1]] = d[2] THEN Empty ELSE Fd(d[1], d[2])]

\* The descriptors that name an object through this kind of end, or through any.
Naming(held, k, o) == {d \in Places : held[d] = End(k, o)}
Named(held, o) == \E d \in Places : held[d].kind # "none" /\ held[d].obj = o
Closing(o) == \E p \in Procs : pc[p] = "check" /\ Fd(p, slot[p]).obj = o

\* Through any sequence of open, pipe, dup, dup2, fork, exec, exit and close on
\* any CPUs the counters of an object are the descriptors that name it, and an
\* object that a descriptor names has not been freed.
DescriptorsCounted ==
    /\ \A f \in Files : refs[f] = Cardinality(Naming(Held, "file", f))
    /\ \A o \in Pipes : readers[o] = Cardinality(Naming(Held, "read", o))
    /\ \A o \in Pipes : writers[o] = Cardinality(Naming(Held, "write", o))
    /\ \A o \in Files \cup Pipes : Named(Held, o) => freed[o] = 0

\* An object that nothing names any more is freed, and only once.  On two CPUs
\* the last two ends of a pipe can both see the other one gone; there the
\* property is about open files only.
FreedOnce ==
    \A o \in used :
       (o \in Files \/ OneCpu) => freed[o] = IF Closing(o) \/ Named(Held, o) THEN 0 ELSE 1

\* An open file counts the descriptors that name it, and is freed once, when the
\* last is gone.
FilesCounted == DescriptorsCounted /\ FreedOnce

\* On one CPU a process that polls the end of a pipe returns when the pipe
\* fills or drains; the hang-up of the other end wakes nobody.
PollServed ==
    \A p \in Procs :
       (/\ OneCpu /\ pc[p] \in {"poll", "asleep"}
        /\ \E d \in queued[p] : \/ d.kind = "read" /\ count[d.obj] > 0
                                \/ d.kind = "write" /\ count[d.obj] < PIPE_SIZE)
          ~> pc[p] = "user"
=============================================================================
