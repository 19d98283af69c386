------------------------------ MODULE Process ------------------------------
(***************************************************************************)
(* Processes and the SMP scheduler (sys/process.c): the circular run queue *)
(* that all CPUs share, process_schedule, fork, exit, kill, waitpid and    *)
(* the reference counts that decide when a process_t is freed.             *)
(*                                                                         *)
(* System calls and interrupts run with interrupts off, so a process that  *)
(* is inside the kernel keeps its CPU until it reschedules; the other CPUs *)
(* run meanwhile.  A section under a spinlock is one step, and so is every *)
(* unlocked read or write of shared state between two such sections.       *)
(***************************************************************************)
EXTENDS Integers, FiniteSets

CONSTANTS
    Cpus,
    Users,         \* the process_t's of user processes, init among them
    init,          \* PID 1
    Killers,       \* the processes that send fatal signals
    Careful,       \* whether a target that was found not to run stays off the CPUs
    NULL

\* For each CPU the process of PID 0 it idles in.
idle_process == [c \in Cpus |-> [idles |-> c]]
Idles == {idle_process[c] : c \in Cpus}
Procs == Users \cup Idles

ASSUME ProcessAssumption ==
    /\ init \in Users
    /\ Users \cap Idles = {}
    /\ NULL \notin Procs /\ NULL \notin Cpus
    /\ Careful \in BOOLEAN
    /\ IsFiniteSet(Users) /\ IsFiniteSet(Cpus)

VARIABLES
    current,      \* the process each CPU runs
    free_later,   \* the dead process each CPU has to drop a reference of
    next,         \* the links of the circular run queue
    running_cpu,
    state,
    kill_pending,
    exited,
    refcount,
    table,        \* the processes in the PID table
    parent,
    wait_exit,    \* the processes linked into their own wait_exit_queue
    dev_q,        \* the processes linked into the wait queue of a device
    pc,           \* where a process is in the kernel
    target        \* the process that kill or waitpid works on

sched == <<current, next, running_cpu, state, kill_pending, exited>>
life == <<free_later, refcount, table, parent>>
queues == <<wait_exit, dev_q>>
vars == <<sched, life, queues, pc, target>>

-----------------------------------------------------------------------------
(* A machine that has booted: every CPU idles, init is ready to run.  The    *)
(* CPUs have joined the run queue in some order.                             *)

\* f links the processes of S into one circle: f leads out of every part of S.
IsRing(f, S) ==
    /\ \A p \in S : f[p] \in S
    /\ \A T \in SUBSET S : T # {} /\ (\A p \in T : f[p] \in T) => T = S

Booted == Idles \cup {init}

Init ==
    /\ current = idle_process
    /\ free_later = [c \in Cpus |-> NULL]
    /\ \E ring \in [Booted -> Booted] :
         /\ IsRing(ring, Booted)
         /\ next = [p \in Procs |-> IF p \in Booted THEN ring[p] ELSE NULL]
    /\ running_cpu = [p \in Procs |-> NULL]
    /\ state = [p \in Procs |-> IF p \in Booted THEN "running" ELSE "none"]
    /\ kill_pending = {}
    /\ exited = {}
    /\ refcount = [p \in Procs |-> IF p \in Booted THEN 1 ELSE 0]
    /\ table = Booted
    /\ parent = [p \in Procs |-> NULL]
    /\ wait_exit = {}
    /\ dev_q = {}
    /\ pc = [p \in Procs |-> "user"]
    /\ target = [p \in Procs |-> NULL]

-----------------------------------------------------------------------------
(* The run queue. *)

\* The scan of the run queue from first on: the n-th process it meets; NULL once
\* it is back at from or at a process that is not linked any more.
Scan(from, first) ==
    LET after == [p \in Procs \cup {NULL} |-> IF p = NULL THEN NULL
                                             ELSE IF next[p] = from THEN NULL ELSE next[p]]
        hop[n \in 0..Cardinality(Procs)] == IF n = 0 THEN first ELSE after[hop[n-1]]
    IN hop

\* The processes that a walk from p meets before it is back at p: those of every
\* set that the walk enters and does not leave.
Met(p) ==
    IF next[p] = NULL THEN {}
    ELSE {q \in Procs : \A S \in SUBSET Procs :
            next[p] \in S /\ (\A x \in S : next[x] \notin {p, NULL} => next[x] \in S) => q \in S}

\* The first process of a scan that is in S, or NULL.
FirstIn(S, scan) ==
    LET first == {n \in 0..Cardinality(Procs) :
                    scan[n] \in S /\ \A m \in 0..(n-1) : scan[m] \notin S}
    IN IF first = {} THEN NULL ELSE scan[CHOOSE n \in first : TRUE]

\* Mutant: a process that runs on another CPU is not passed over.
Schedulable_Elsewhere(c) ==
    {p \in Procs : /\ p \in Idles => p = idle_process[c]
                   /\ p \notin kill_pending /\ p \notin exited
                   /\ p \in Idles \/ state[p] = "running"}

\* What process_schedule may switch CPU c to.
Schedulable(c) ==
    {p \in Procs : /\ p \in Idles => p = idle_process[c]
                   /\ running_cpu[p] \in {NULL, c}
                   /\ p \notin kill_pending /\ p \notin exited
                   /\ p \in Idles \/ state[p] = "running"}

\* Mutant: the process before p keeps its link.
Unlinked_KeepsLink(p) == [next EXCEPT ![p] = NULL]

\* runqueue_unlink_locked: the process before p is looked for from p on.
Unlinked(p) ==
    [q \in Procs |-> CASE q = p -> NULL
                       [] q # p /\ next[q] = p /\ q \in Met(p) -> next[p]
                       [] OTHER -> next[q]]

-----------------------------------------------------------------------------
(* Reference counts. *)

\* process_put: the last reference frees the process_t.
Put(refs, p, n) == IF p = NULL THEN refs ELSE [refs EXCEPT ![p] = @ - n]
Hold(refs, p) == [refs EXCEPT ![p] = @ + 1]

-----------------------------------------------------------------------------
(* Wake-ups.  W is the set of processes to wake. *)

Woken(W) == [p \in Procs |-> IF p \in W THEN "running" ELSE state[p]]

\* Tell the process r that a child is dead: wake its wait_exit_queue, and wake
\* it if it is blocked anywhere else.
Told(st, r) == [st EXCEPT ![r] = IF r \in wait_exit \/ @ = "blocked" THEN "running" ELSE @]

\* Who is told of the death of p.
Notified(p) == IF parent[p] # NULL /\ parent[p] \in table THEN parent[p] ELSE init

\* process_cleanup_inner: the children of p become children of init, which is
\* woken when one of them is already dead.
Children(p) == {q \in table : parent[q] = p}

\* Mutant: only the children that are alive are handed over.
ReparentedTo_Alive(p) ==
    [q \in Procs |-> IF q \in Children(p) /\ state[q] # "zombie" THEN init ELSE parent[q]]

ReparentedTo(p) == [q \in Procs |-> IF q \in Children(p) THEN init ELSE parent[q]]

ReparentWakes(p) ==
    IF init \in wait_exit /\ \E q \in Children(p) : state[q] = "zombie"
    THEN Woken({init}) ELSE state

-----------------------------------------------------------------------------
(* process_schedule *)

\* Where a process goes on that gave up its CPU inside the kernel.
Resumed(p) == IF pc[p] = "wait_resched" THEN "wait_remove"
              ELSE IF pc[p] = "dev_resched" THEN "dev_remove" ELSE "user"

MayReschedule(p) == pc[p] \in {"user", "wait_resched", "dev_resched"}

\* Mutant: a process that can go on is not preempted.
Chosen_StaysPut(c) ==
    LET p == current[c]
        n == FirstIn(Schedulable(c), Scan(p, next[p]))
    IN IF state[p] = "running" /\ p \in Users THEN p
       ELSE IF n # NULL THEN n ELSE idle_process[c]

Chosen(c) ==
    LET p == current[c]
        n == FirstIn(Schedulable(c), Scan(p, next[p]))
    IN IF n # NULL THEN n
       ELSE IF state[p] \in {"zombie", "blocked"} THEN idle_process[c] ELSE p

process_schedule(c) ==
    LET p == current[c]
        chosen == Chosen(c)
    IN /\ MayReschedule(p)
       /\ p \notin kill_pending
       /\ refcount' = Put(refcount, free_later[c], 1)
       /\ free_later' = [free_later EXCEPT ![c] = NULL]
       /\ current' = [current EXCEPT ![c] = chosen]
       /\ running_cpu' = IF chosen = p THEN running_cpu
                         ELSE [running_cpu EXCEPT ![p] = NULL, ![chosen] = c]
       /\ pc' = [pc EXCEPT ![p] = Resumed(p)]
       /\ UNCHANGED <<next, state, kill_pending, exited, table, parent, queues, target>>

\* A process with a pending kill dies instead of being switched away.
ScheduleKilled(c) ==
    LET p == current[c]
    IN /\ MayReschedule(p)
       /\ p \in kill_pending
       /\ refcount' = Put(refcount, free_later[c], 1)
       /\ free_later' = [free_later EXCEPT ![c] = NULL]
       /\ pc' = [pc EXCEPT ![p] = "exit"]
       /\ UNCHANGED <<sched, table, parent, queues, target>>

-----------------------------------------------------------------------------
(* System calls of the process p that CPU c runs. *)

Running(c, p) == current[c] = p /\ p \in Users

\* Back to user mode; a kill that arrived meanwhile is served first.
Return(p) == [pc EXCEPT ![p] = IF p \in kill_pending THEN "exit" ELSE "user"]

\* process_duplicate: the child is linked behind its parent.
process_duplicate(c, p) ==
    /\ Running(c, p) /\ pc[p] = "user"
    /\ \E child \in Users :
         /\ state[child] = "none"
         /\ state' = [state EXCEPT ![child] = "running"]
         /\ refcount' = [refcount EXCEPT ![child] = 1]
         /\ parent' = [parent EXCEPT ![child] = p]
         /\ next' = [next EXCEPT ![child] = next[p], ![p] = child]
         /\ target' = [target EXCEPT ![p] = child]
    /\ pc' = [pc EXCEPT ![p] = "insert"]
    /\ UNCHANGED <<current, running_cpu, kill_pending, exited, free_later, table, queues>>

pid_table_insert(c, p) ==
    /\ Running(c, p) /\ pc[p] = "insert"
    /\ table' = table \cup {target[p]}
    /\ target' = [target EXCEPT ![p] = NULL]
    /\ pc' = Return(p)
    /\ UNCHANGED <<sched, free_later, refcount, parent, queues>>

\* wait_queue_wait on the queue of a device; init only polls.
DevBlock(c, p) ==
    /\ Running(c, p) /\ pc[p] = "user" /\ p # init
    /\ state' = [state EXCEPT ![p] = "blocked"]
    /\ pc' = [pc EXCEPT ![p] = "dev_add"]
    /\ UNCHANGED <<current, next, running_cpu, kill_pending, exited, life, queues, target>>

DevAdd(c, p) ==
    /\ Running(c, p) /\ pc[p] = "dev_add"
    /\ dev_q' = dev_q \cup {p}
    /\ pc' = [pc EXCEPT ![p] = "dev_resched"]
    /\ UNCHANGED <<sched, life, wait_exit, target>>

DevRemove(c, p) ==
    /\ Running(c, p) /\ pc[p] = "dev_remove"
    /\ dev_q' = dev_q \ {p}
    /\ pc' = Return(p)
    /\ UNCHANGED <<sched, life, wait_exit, target>>

\* wait_queue_wake_all by the device: it runs over whoever is linked.
DevWake ==
    /\ dev_q # {}
    /\ state' = Woken(dev_q)
    /\ UNCHANGED <<current, next, running_cpu, kill_pending, exited, life, queues, pc, target>>

-----------------------------------------------------------------------------
(* Death of the current process: process_terminate_current_with_status *)

Exit(c, p) ==
    /\ Running(c, p) /\ pc[p] = "user" /\ p # init
    /\ pc' = [pc EXCEPT ![p] = "exit"]
    /\ UNCHANGED <<sched, life, queues, target>>

\* Mutant: the dying process holds no reference of its own.
ExitCleanup_NoHold(c, p) ==
    /\ Running(c, p) /\ pc[p] = "exit"
    /\ parent' = ReparentedTo(p)
    /\ state' = ReparentWakes(p)
    /\ pc' = [pc EXCEPT ![p] = "exit_switch"]
    /\ UNCHANGED <<current, next, running_cpu, kill_pending, exited, free_later, refcount, table, queues, target>>

ExitCleanup(c, p) ==
    /\ Running(c, p) /\ pc[p] = "exit"
    /\ refcount' = Hold(refcount, p)
    /\ parent' = ReparentedTo(p)
    /\ state' = ReparentWakes(p)
    /\ pc' = [pc EXCEPT ![p] = "exit_switch"]
    /\ UNCHANGED <<current, next, running_cpu, kill_pending, exited, free_later, table, queues, target>>

\* Whom the dying process leaves its CPU to.
Successor(c, p) ==
    LET n == FirstIn({q \in Schedulable(c) \ {p} : state[q] = "running"},
                     Scan(next[p], next[p]))
    IN IF n = NULL THEN idle_process[c] ELSE n

ExitSwitch(c, p) ==
    LET n == Successor(c, p)
    IN /\ Running(c, p) /\ pc[p] = "exit_switch"
       /\ exited' = exited \cup {p}
       /\ kill_pending' = kill_pending \ {p}
       /\ state' = Told([state EXCEPT ![p] = "zombie"], Notified(p))
       /\ next' = Unlinked(p)
       /\ current' = [current EXCEPT ![c] = n]
       /\ running_cpu' = [running_cpu EXCEPT ![p] = NULL, ![n] = c]
       /\ free_later' = [free_later EXCEPT ![c] = p]
       /\ pc' = [pc EXCEPT ![p] = "dead"]
       /\ UNCHANGED <<refcount, table, parent, queues, target>>

-----------------------------------------------------------------------------
(* waitpid *)

Zombies(p) == {q \in Children(p) : state[q] = "zombie"}

\* Only init polls with WNOHANG; the others block.
WaitPid(c, p) ==
    /\ Running(c, p) /\ pc[p] = "user"
    /\ pc' = [pc EXCEPT ![p] = "wait_scan"]
    /\ UNCHANGED <<sched, life, queues, target>>

WaitFound(c, p) ==
    /\ Running(c, p) /\ pc[p] = "wait_scan"
    /\ \E z \in Zombies(p) :
         /\ refcount' = Hold(refcount, z)
         /\ target' = [target EXCEPT ![p] = z]
    /\ pc' = [pc EXCEPT ![p] = "wait_reap"]
    /\ UNCHANGED <<sched, free_later, table, parent, queues>>

\* No zombie: without children, and with WNOHANG, the call returns.
WaitReturns(c, p) ==
    /\ Running(c, p) /\ pc[p] = "wait_scan"
    /\ Zombies(p) = {}
    /\ Children(p) = {} \/ p = init
    /\ pc' = Return(p)
    /\ UNCHANGED <<sched, life, queues, target>>

WaitSleeps(c, p) ==
    /\ Running(c, p) /\ pc[p] = "wait_scan"
    /\ Zombies(p) = {}
    /\ Children(p) # {} /\ p # init
    /\ pc' = [pc EXCEPT ![p] = "wait_add"]
    /\ UNCHANGED <<sched, life, queues, target>>

WaitAdd(c, p) ==
    /\ Running(c, p) /\ pc[p] = "wait_add"
    /\ wait_exit' = wait_exit \cup {p}
    /\ pc' = [pc EXCEPT ![p] = "wait_block"]
    /\ UNCHANGED <<sched, life, dev_q, target>>

WaitBlock(c, p) ==
    /\ Running(c, p) /\ pc[p] = "wait_block"
    /\ state' = [state EXCEPT ![p] = "blocked"]
    /\ pc' = [pc EXCEPT ![p] = "wait_resched"]
    /\ UNCHANGED <<current, next, running_cpu, kill_pending, exited, life, queues, target>>

WaitRemove(c, p) ==
    /\ Running(c, p) /\ pc[p] = "wait_remove"
    /\ wait_exit' = wait_exit \ {p}
    /\ pc' = [pc EXCEPT ![p] = "wait_scan"]
    /\ UNCHANGED <<sched, life, dev_q, target>>

\* The zombie leaves the PID table and loses two references: the one of the
\* scan and the one it was born with.
WaitReap(c, p) ==
    /\ Running(c, p) /\ pc[p] = "wait_reap"
    /\ table' = table \ {target[p]}
    /\ refcount' = Put(refcount, target[p], 2)
    /\ target' = [target EXCEPT ![p] = NULL]
    /\ pc' = Return(p)
    /\ UNCHANGED <<sched, free_later, parent, queues>>

-----------------------------------------------------------------------------
(* A fatal signal: process_terminate_with_status *)

KillStart(c, p) ==
    /\ Running(c, p) /\ pc[p] = "user" /\ p \in Killers
    /\ \E t \in (table \cap Users) \ {init} :
         /\ state[t] # "zombie" /\ t \notin exited
         /\ refcount' = Hold(refcount, t)
         /\ target' = [target EXCEPT ![p] = t]
    /\ pc' = [pc EXCEPT ![p] = "kill_scan"]
    /\ UNCHANGED <<sched, free_later, table, parent, queues>>

\* Which way the signal takes: nothing to do, the target runs, or it does not.
KillScan(c, p) ==
    /\ Running(c, p) /\ pc[p] = "kill_scan"
    /\ LET t == target[p]
       IN pc' = [pc EXCEPT ![p] = IF state[t] = "zombie" \/ t \in kill_pending THEN "kill_put"
                                  ELSE IF \E d \in Cpus : current[d] = t THEN "kill_mark"
                                  ELSE "kill_cleanup"]
    /\ UNCHANGED <<sched, life, queues, target>>

KillMark(c, p) ==
    /\ Running(c, p) /\ pc[p] = "kill_mark"
    /\ kill_pending' = kill_pending \cup {target[p]}
    /\ pc' = [pc EXCEPT ![p] = "kill_put"]
    /\ UNCHANGED <<current, next, running_cpu, state, exited, life, queues, target>>

\* The code looks once whether the target runs.  When it does after all, what
\* follows happens to a running process; with Careful it does not.
Settled(t) == Careful => \A d \in Cpus : current[d] # t

KillCleanup(c, p) ==
    /\ Running(c, p) /\ pc[p] = "kill_cleanup"
    /\ Settled(target[p])
    /\ parent' = ReparentedTo(target[p])
    /\ state' = ReparentWakes(target[p])
    /\ pc' = [pc EXCEPT ![p] = "kill_zombie"]
    /\ UNCHANGED <<current, next, running_cpu, kill_pending, exited, free_later, refcount, table, queues, target>>

KillZombie(c, p) ==
    /\ Running(c, p) /\ pc[p] = "kill_zombie"
    /\ Settled(target[p])
    /\ state' = [state EXCEPT ![target[p]] = "zombie"]
    /\ exited' = exited \cup {target[p]}
    /\ kill_pending' = kill_pending \ {target[p]}
    /\ next' = Unlinked(target[p])
    /\ pc' = [pc EXCEPT ![p] = "kill_notify"]
    /\ UNCHANGED <<current, running_cpu, life, queues, target>>

KillNotify(c, p) ==
    /\ Running(c, p) /\ pc[p] = "kill_notify"
    /\ state' = Told(state, Notified(target[p]))
    /\ pc' = [pc EXCEPT ![p] = "kill_put"]
    /\ UNCHANGED <<current, next, running_cpu, kill_pending, exited, life, queues, target>>

KillPut(c, p) ==
    /\ Running(c, p) /\ pc[p] = "kill_put"
    /\ refcount' = Put(refcount, target[p], 1)
    /\ target' = [target EXCEPT ![p] = NULL]
    /\ pc' = Return(p)
    /\ UNCHANGED <<sched, free_later, table, parent, queues>>

-----------------------------------------------------------------------------

Syscall(c, p) ==
    \/ process_duplicate(c, p) \/ DevBlock(c, p) \/ Exit(c, p)
    \/ WaitPid(c, p)

InKernel(c, p) ==
    \/ pid_table_insert(c, p) \/ DevAdd(c, p) \/ DevRemove(c, p)
    \/ ExitCleanup(c, p) \/ ExitSwitch(c, p)
    \/ WaitFound(c, p) \/ WaitReturns(c, p) \/ WaitSleeps(c, p) \/ WaitAdd(c, p)
    \/ WaitBlock(c, p) \/ WaitRemove(c, p) \/ WaitReap(c, p)

Kill(c, p) ==
    \/ KillStart(c, p) \/ KillScan(c, p) \/ KillMark(c, p) \/ KillCleanup(c, p)
    \/ KillZombie(c, p) \/ KillNotify(c, p) \/ KillPut(c, p)

\* Nobody sends fatal signals.
Peaceful ==
    \/ \E c \in Cpus : process_schedule(c)
    \/ \E c \in Cpus, p \in Users : Syscall(c, p) \/ InKernel(c, p)
    \/ DevWake

Next ==
    \/ Peaceful
    \/ \E c \in Cpus : ScheduleKilled(c)
    \/ \E c \in Cpus, p \in Users : Kill(c, p)

Spec == Init /\ [][Next]_vars

\* Without fatal signals: code in the kernel runs on.  The timer ticks on every
\* CPU: an interrupt that arrives during a system call stays pending until
\* interrupts are on again.  init polls whenever it gets to run again and again.
FairSpec ==
    /\ Init /\ [][Peaceful]_vars
    /\ \A c \in Cpus : SF_vars(process_schedule(c))
    /\ \A c \in Cpus : WF_vars(current[c] \in Users /\ InKernel(c, current[c]))
    /\ SF_vars(\E c \in Cpus : WaitPid(c, init))

-----------------------------------------------------------------------------
(* Properties. *)

Pcs == {"user", "insert", "dev_add", "dev_resched", "dev_remove", "exit", "exit_switch", "dead",
        "wait_scan", "wait_add", "wait_block", "wait_resched", "wait_remove", "wait_reap",
        "kill_scan", "kill_mark", "kill_cleanup", "kill_zombie", "kill_notify", "kill_put"}

TypeOK ==
    /\ current \in [Cpus -> Procs]
    /\ free_later \in [Cpus -> Users \cup {NULL}]
    /\ next \in [Procs -> Procs \cup {NULL}]
    /\ running_cpu \in [Procs -> Cpus \cup {NULL}]
    /\ state \in [Procs -> {"none", "running", "blocked", "zombie"}]
    /\ kill_pending \subseteq Users
    /\ exited \subseteq Users
    /\ refcount \in [Procs -> Int]
    /\ table \subseteq Procs
    /\ parent \in [Procs -> Users \cup {NULL}]
    /\ wait_exit \subseteq Users
    /\ dev_q \subseteq Users
    /\ pc \in [Procs -> Pcs]
    /\ target \in [Procs -> Users \cup {NULL}]

\* A process runs on one CPU at most, and running_cpu, which keeps the other
\* CPUs away from it, says which.
OneCpuEach ==
    /\ \A c \in Cpus : \A p \in Users : current[c] = p <=> running_cpu[p] = c
    /\ \A c, d \in Cpus : current[c] = current[d] => c = d

\* The processes that are alive form one circle, so that every CPU's scan
\* comes by every one of them.
Linked == {p \in Procs : next[p] # NULL}
RunQueueIsARing ==
    /\ Linked = {p \in Procs : state[p] \in {"running", "blocked"} /\ p \notin exited}
    /\ IsRing(next, Linked)

\* The references a process_t has: the PID table (or the parent that is about
\* to enter it there), a call that holds it, and its last CPU.
Holders(p) ==
    Cardinality({q \in Users : target[q] = p}) + (IF p \in table THEN 1 ELSE 0)
       + Cardinality({c \in Cpus : free_later[c] = p})
       + (IF pc[p] = "exit_switch" THEN 1 ELSE 0)

\* Nobody uses a process_t that was freed: exit, waitpid, fork and the drop of
\* the dead process at the next process_schedule count every reference they use.
ReferencesCounted == \A p \in Users : refcount[p] >= Holders(p)

\* The run queue is one circle of the living, and every process_t counts the
\* references to it, through fork, exit, kill, waitpid and process_schedule.
LivingQueued == RunQueueIsARing /\ ReferencesCounted

\* A dead process is off the run queue, and no CPU switches to it, even when a
\* device that does not know of its death wakes it up again.  With Careful: a
\* target that is unlinked while it runs can fork outside the circle.
NoneDeadRunAgain ==
    /\ \A c \in Cpus : current'[c] # current[c] => current'[c] \notin exited
    /\ \A p \in Procs \ exited' : next'[p] \notin exited'

DeadNeverRunAgain == [][NoneDeadRunAgain]_vars

\* The round-robin scan serves every process: one that can run gets a CPU.
Served ==
    \A p \in Users \ {init} :
       (state[p] = "running" /\ p \in table)
          ~> (p \in exited \/ state[p] # "running" \/ \E c \in Cpus : current[c] = p)

\* A dead process without a parent that lives is adopted by init and reaped.
Orphan(p) == parent[p] = init \/ parent[p] \in exited

OrphansReaped ==
    \A p \in Users \ {init} : (p \in exited /\ Orphan(p)) ~> p \notin table

\* A process that blocks in waitpid sees the death of its child.
ChildAwaited ==
    \A p \in Users \ {init} :
       (pc[p] \in {"wait_add", "wait_block", "wait_resched", "wait_remove"} /\ Zombies(p) # {})
          ~> pc[p] = "wait_reap"
=============================================================================
