------------------------------- MODULE RwSem -------------------------------
(***************************************************************************)
(* The reader-writer semaphore that guards an address space (mmap_sem,     *)
(* mem/vmm.c) on top of the kernel's wait queues (sys/wait_queue.c).       *)
(*                                                                         *)
(* The threads run on different CPUs.  A section under the semaphore's     *)
(* spinlock is one step; everything between two such sections, and every   *)
(* step of wait_queue_wait, is a step of its own.                          *)
(***************************************************************************)
EXTENDS Integers, FiniteSets

CONSTANTS Threads

ASSUME ThreadsFinite == IsFiniteSet(Threads)

VARIABLES
    count,        \* readers that hold the semaphore, or -1 for a writer
    wait_readers,
    wait_writers,
    wait_q,       \* the threads linked into the wait queue
    state,        \* the scheduler's view of a thread
    pc,
    want          \* what the thread's call of vmm_down_* asks for

vars == <<count, wait_readers, wait_writers, wait_q, state, pc, want>>

Init ==
    /\ count = 0
    /\ wait_readers = 0
    /\ wait_writers = 0
    /\ wait_q = {}
    /\ state = [t \in Threads |-> "running"]
    /\ pc = [t \in Threads |-> "idle"]
    /\ want = [t \in Threads |-> "read"]

-----------------------------------------------------------------------------
(* vmm_down_read and vmm_down_write *)

Call(t) ==
    /\ pc[t] = "idle"
    /\ pc' = [pc EXCEPT ![t] = "try"]
    /\ \E m \in {"read", "write"} : want' = [want EXCEPT ![t] = m]
    /\ UNCHANGED <<count, wait_readers, wait_writers, wait_q, state>>

MayRead == count >= 0 /\ wait_writers = 0

DownRead(t) ==
    /\ pc[t] = "try" /\ want[t] = "read"
    /\ MayRead
    /\ count' = count + 1
    /\ pc' = [pc EXCEPT ![t] = "held"]
    /\ UNCHANGED <<wait_readers, wait_writers, wait_q, state, want>>

\* Mutant: a writer does not look for readers.
DownWrite_IgnoresReaders(t) ==
    /\ pc[t] = "try" /\ want[t] = "write"
    /\ count >= 0
    /\ count' = -1
    /\ pc' = [pc EXCEPT ![t] = "held"]
    /\ UNCHANGED <<wait_readers, wait_writers, wait_q, state, want>>

DownWrite(t) ==
    /\ pc[t] = "try" /\ want[t] = "write"
    /\ count = 0
    /\ count' = -1
    /\ pc' = [pc EXCEPT ![t] = "held"]
    /\ UNCHANGED <<wait_readers, wait_writers, wait_q, state, want>>

MustWaitToRead(t) ==
    /\ pc[t] = "try" /\ want[t] = "read"
    /\ ~ MayRead
    /\ wait_readers' = wait_readers + 1
    /\ pc' = [pc EXCEPT ![t] = "block"]
    /\ UNCHANGED <<count, wait_writers, wait_q, state, want>>

MustWaitToWrite(t) ==
    /\ pc[t] = "try" /\ want[t] = "write"
    /\ count # 0
    /\ wait_writers' = wait_writers + 1
    /\ pc' = [pc EXCEPT ![t] = "block"]
    /\ UNCHANGED <<count, wait_readers, wait_q, state, want>>

-----------------------------------------------------------------------------
(* wait_queue_wait: block, enqueue, give up the CPU, dequeue.  Nothing      *)
(* looks at the semaphore again before the thread sleeps.                   *)

SetBlocked(t) ==
    /\ pc[t] = "block"
    /\ state' = [state EXCEPT ![t] = "blocked"]
    /\ pc' = [pc EXCEPT ![t] = "add"]
    /\ UNCHANGED <<count, wait_readers, wait_writers, wait_q, want>>

wait_queue_add(t) ==
    /\ pc[t] = "add"
    /\ wait_q' = wait_q \cup {t}
    /\ pc' = [pc EXCEPT ![t] = "sleep"]
    /\ UNCHANGED <<count, wait_readers, wait_writers, state, want>>

\* The scheduler runs only threads that are not blocked.
wait_queue_remove(t) ==
    /\ pc[t] = "sleep"
    /\ state[t] = "running"
    /\ wait_q' = wait_q \ {t}
    /\ pc' = [pc EXCEPT ![t] = "woken"]
    /\ UNCHANGED <<count, wait_readers, wait_writers, state, want>>

\* Mutant: a woken writer stays counted as waiting.
StopWaiting_KeepsWriter(t) ==
    /\ pc[t] = "woken"
    /\ pc' = [pc EXCEPT ![t] = "try"]
    /\ wait_readers' = wait_readers - (IF want[t] = "read" THEN 1 ELSE 0)
    /\ UNCHANGED <<count, wait_writers, wait_q, state, want>>

\* The end of the wait loop: the thread is no longer counted and tries again.
StopWaiting(t) ==
    /\ pc[t] = "woken"
    /\ pc' = [pc EXCEPT ![t] = "try"]
    /\ wait_readers' = wait_readers - (IF want[t] = "read" THEN 1 ELSE 0)
    /\ wait_writers' = wait_writers - (IF want[t] = "write" THEN 1 ELSE 0)
    /\ UNCHANGED <<count, wait_q, state, want>>

-----------------------------------------------------------------------------
(* vmm_up_read and vmm_up_write; the queue is woken under both locks. *)

WokenBy(q) == [t \in Threads |-> IF t \in q THEN "running" ELSE state[t]]

wait_queue_wake_all(wake) ==
    state' = IF wake THEN WokenBy(wait_q) ELSE state

\* Mutant: the last reader wakes nobody.
UpRead_NoWake(t) ==
    /\ pc[t] = "held" /\ want[t] = "read"
    /\ count' = IF count > 0 THEN count - 1 ELSE count
    /\ pc' = [pc EXCEPT ![t] = "idle"]
    /\ UNCHANGED <<wait_readers, wait_writers, wait_q, state, want>>

UpRead(t) ==
    /\ pc[t] = "held" /\ want[t] = "read"
    /\ count' = IF count > 0 THEN count - 1 ELSE count
    /\ wait_queue_wake_all(count = 1 /\ wait_writers > 0)
    /\ pc' = [pc EXCEPT ![t] = "idle"]
    /\ UNCHANGED <<wait_readers, wait_writers, wait_q, want>>

UpWrite(t) ==
    /\ pc[t] = "held" /\ want[t] = "write"
    /\ count' = 0
    /\ wait_queue_wake_all(wait_writers > 0 \/ wait_readers > 0)
    /\ pc' = [pc EXCEPT ![t] = "idle"]
    /\ UNCHANGED <<wait_readers, wait_writers, wait_q, want>>

-----------------------------------------------------------------------------

\* A signal or the exit of a child makes a blocked thread runnable although
\* the semaphore did not change: wait_queue_wait returns early.
Interrupted(t) ==
    /\ state[t] = "blocked"
    /\ state' = [state EXCEPT ![t] = "running"]
    /\ UNCHANGED <<count, wait_readers, wait_writers, wait_q, pc, want>>

Step(t) ==
    \/ DownRead(t) \/ DownWrite(t) \/ MustWaitToRead(t) \/ MustWaitToWrite(t)
    \/ SetBlocked(t) \/ wait_queue_add(t) \/ wait_queue_remove(t) \/ StopWaiting(t)
    \/ UpRead(t) \/ UpWrite(t)

Next == \E t \in Threads : Call(t) \/ Step(t) \/ Interrupted(t)

Spec == Init /\ [][Next]_vars

-----------------------------------------------------------------------------
(* Properties. *)

Readers == {t \in Threads : pc[t] = "held" /\ want[t] = "read"}
Writers == {t \in Threads : pc[t] = "held" /\ want[t] = "write"}
Waiting(m) == {t \in Threads : pc[t] \in {"block", "add", "sleep", "woken"} /\ want[t] = m}

TypeOK ==
    /\ count \in Nat \cup {-1}
    /\ wait_readers \in Nat
    /\ wait_writers \in Nat
    /\ wait_q \subseteq Threads
    /\ state \in [Threads -> {"running", "blocked"}]
    /\ pc \in [Threads -> {"idle", "try", "held", "block", "add", "sleep", "woken"}]
    /\ want \in [Threads -> {"read", "write"}]

\* The word the kernel keeps in the semaphore tells exactly who holds it: a
\* writer is alone, otherwise count is the number of readers.
CountIsHolders ==
    \/ count = -1 /\ Readers = {} /\ \E t \in Threads : Writers = {t}
    \/ count = Cardinality(Readers) /\ Writers = {}

\* The waiting counters, which decide whether up wakes the queue, count the
\* threads inside the wait loop, also while they race with wake-ups.
WaitersCounted ==
    /\ wait_readers = Cardinality(Waiting("read"))
    /\ wait_writers = Cardinality(Waiting("write"))

\* When the semaphore becomes free, vmm_up_read and vmm_up_write leave no
\* writer asleep on the queue, and the release of a writer leaves nobody
\* asleep there.  (A thread that was told to wait and is not on the queue yet
\* misses the wake-up.)
FreeWakesSleepers ==
    [][(count # 0 /\ count' = 0) =>
          \A t \in wait_q : (want[t] = "write" \/ count = -1) => state'[t] = "running"]_vars

=============================================================================
