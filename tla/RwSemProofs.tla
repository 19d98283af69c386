---------------------------- MODULE RwSemProofs ----------------------------
(***************************************************************************)
(* The reader-writer semaphore keeps its promise for any finite set of     *)
(* threads: its word says who holds it, its waiting counters say who       *)
(* waits.  The invariant is inductive together with a weak type invariant; *)
(* that the counters are natural numbers follows from it.                  *)
(***************************************************************************)
EXTENDS RwSem, FiniteSetTheorems, TLAPS

Typed ==
    /\ count \in Int
    /\ wait_readers \in Int
    /\ wait_writers \in Int
    /\ wait_q \subseteq Threads
    /\ state \in [Threads -> {"running", "blocked"}]
    /\ pc \in [Threads -> {"idle", "try", "held", "block", "add", "sleep", "woken"}]
    /\ want \in [Threads -> {"read", "write"}]

IInv == Typed /\ CountIsHolders /\ WaitersCounted

-----------------------------------------------------------------------------

\* The sets the invariant counts are finite sets of threads.
LEMMA FiniteParts ==
    /\ IsFiniteSet(Readers) /\ Cardinality(Readers) \in Nat
    /\ IsFiniteSet(Writers)
    /\ \A m : IsFiniteSet(Waiting(m)) /\ Cardinality(Waiting(m)) \in Nat
<1>1. \A S : S \subseteq Threads => IsFiniteSet(S) /\ Cardinality(S) \in Nat
  BY ThreadsFinite, FS_Subset, FS_CardinalityType
<1>2. Readers \subseteq Threads /\ Writers \subseteq Threads
  BY DEF Readers, Writers
<1>3. \A m : Waiting(m) \subseteq Threads
  BY DEF Waiting
<1> QED
  BY <1>1, <1>2, <1>3

\* A step that leaves pc and want alone changes none of the counted sets.
LEMMA SameHolders ==
    ASSUME IInv, Typed', UNCHANGED <<count, wait_readers, wait_writers, pc, want>>
    PROVE  IInv'
<1>1. Readers' = Readers /\ Writers' = Writers
  BY DEF Readers, Writers
<1>2. Waiting("read")' = Waiting("read") /\ Waiting("write")' = Waiting("write")
  BY DEF Waiting
<1> QED
  BY <1>1, <1>2 DEF IInv, CountIsHolders, WaitersCounted

\* Every step keeps the types.
LEMMA NextTyped ==
    ASSUME Typed, [Next]_vars
    PROVE  Typed'
<1>1. CASE UNCHANGED vars
  BY <1>1 DEF Typed, vars
<1>2. ASSUME NEW t \in Threads, Call(t)
      PROVE  Typed'
  <2>1. PICK m \in {"read", "write"} : want' = [want EXCEPT ![t] = m]
    BY <1>2, Zenon DEF Call
  <2> QED
    BY <1>2, <2>1 DEF Typed, Call
<1>3. ASSUME NEW t \in Threads, DownRead(t) \/ DownWrite(t)
      PROVE  Typed'
  BY <1>3 DEF Typed, DownRead, DownWrite
<1>4. ASSUME NEW t \in Threads, MustWaitToRead(t) \/ MustWaitToWrite(t)
      PROVE  Typed'
  BY <1>4 DEF Typed, MustWaitToRead, MustWaitToWrite
<1>5. ASSUME NEW t \in Threads, SetBlocked(t) \/ wait_queue_add(t) \/ wait_queue_remove(t)
      PROVE  Typed'
  BY <1>5 DEF Typed, SetBlocked, wait_queue_add, wait_queue_remove
<1>6. ASSUME NEW t \in Threads, StopWaiting(t)
      PROVE  Typed'
  BY <1>6 DEF Typed, StopWaiting
<1>7. ASSUME NEW t \in Threads, UpRead(t) \/ UpWrite(t)
      PROVE  Typed'
  <2>1. WokenBy(wait_q) \in [Threads -> {"running", "blocked"}]
    BY DEF Typed, WokenBy
  <2>2. state' \in [Threads -> {"running", "blocked"}]
    BY <1>7, <2>1 DEF Typed, UpRead, UpWrite, wait_queue_wake_all
  <2> QED
    BY <1>7, <2>2 DEF Typed, UpRead, UpWrite
<1>8. ASSUME NEW t \in Threads, Interrupted(t)
      PROVE  Typed'
  BY <1>8 DEF Typed, Interrupted
<1> QED
  BY <1>1, <1>2, <1>3, <1>4, <1>5, <1>6, <1>7, <1>8 DEF Next, Step

\* A call decides what it wants before it is counted anywhere.
LEMMA CallInv ==
    ASSUME IInv, Typed', NEW t \in Threads, Call(t)
    PROVE  IInv'
<1>1. Readers' = Readers /\ Writers' = Writers
  BY DEF IInv, Typed, Call, Readers, Writers
<1>2. Waiting("read")' = Waiting("read") /\ Waiting("write")' = Waiting("write")
  BY DEF IInv, Typed, Call, Waiting
<1>3. UNCHANGED <<count, wait_readers, wait_writers>>
  BY DEF Call
<1> QED
  BY <1>1, <1>2, <1>3 DEF IInv, CountIsHolders, WaitersCounted

\* A thread that enters or leaves the critical section is not waiting.
LEMMA NobodyWaits ==
    ASSUME IInv, NEW t \in Threads, NEW b,
           pc[t] \in {"idle", "try", "held"}, b \in {"idle", "try", "held"},
           pc' = [pc EXCEPT ![t] = b], want' = want,
           UNCHANGED <<wait_readers, wait_writers>>
    PROVE  WaitersCounted'
<1>1. Waiting("read")' = Waiting("read") /\ Waiting("write")' = Waiting("write")
  BY DEF IInv, Typed, Waiting
<1> QED
  BY <1>1 DEF IInv, WaitersCounted

LEMMA DownReadInv ==
    ASSUME IInv, Typed', NEW t \in Threads, DownRead(t)
    PROVE  IInv'
<1>1. t \notin Readers /\ Readers' = Readers \cup {t} /\ Writers' = Writers
  BY DEF IInv, Typed, DownRead, Readers, Writers
<1>2. Cardinality(Readers') = Cardinality(Readers) + 1
  BY <1>1, FiniteParts, FS_AddElement, Zenon
<1>3. count >= 0 /\ count' = count + 1
  BY DEF DownRead, MayRead
<1>4. CountIsHolders'
  <2>1. count = Cardinality(Readers) /\ Writers = {}
    BY <1>3 DEF IInv, CountIsHolders
  <2> QED
    BY <1>1, <1>2, <1>3, <2>1, FiniteParts DEF CountIsHolders
<1>5. WaitersCounted'
  BY NobodyWaits, Zenon DEF DownRead, IInv, Typed
<1> QED
  BY <1>4, <1>5 DEF IInv

LEMMA DownWriteInv ==
    ASSUME IInv, Typed', NEW t \in Threads, DownWrite(t)
    PROVE  IInv'
<1>1. Readers' = Readers /\ Writers' = Writers \cup {t}
  BY DEF IInv, Typed, DownWrite, Readers, Writers
<1>2. count = 0 /\ count' = -1
  BY DEF DownWrite
<1>3. Readers = {} /\ Writers = {}
  BY <1>2, FiniteParts, FS_EmptySet DEF IInv, CountIsHolders
<1>4. Writers' = {t}
  BY <1>1, <1>3
<1>5. CountIsHolders'
  BY <1>1, <1>2, <1>3, <1>4 DEF CountIsHolders
<1>6. WaitersCounted'
  BY NobodyWaits, Zenon DEF DownWrite, IInv, Typed
<1> QED
  BY <1>5, <1>6 DEF IInv

\* What a step that only moves t among the steps of the wait loop keeps.
LEMMA HoldersStay ==
    ASSUME IInv, NEW t \in Threads, NEW b,
           pc[t] # "held", b # "held",
           pc' = [pc EXCEPT ![t] = b], want' = want, count' = count
    PROVE  CountIsHolders'
<1>1. Readers' = Readers /\ Writers' = Writers
  BY DEF IInv, Typed, Readers, Writers
<1> QED
  BY <1>1 DEF IInv, CountIsHolders

LEMMA MustWaitInv ==
    ASSUME IInv, Typed', NEW t \in Threads, MustWaitToRead(t) \/ MustWaitToWrite(t)
    PROVE  IInv'
<1>1. CountIsHolders'
  BY HoldersStay DEF MustWaitToRead, MustWaitToWrite, IInv
<1>2. CASE MustWaitToRead(t)
  <2>1. /\ t \notin Waiting("read") /\ Waiting("read")' = Waiting("read") \cup {t}
        /\ Waiting("write")' = Waiting("write")
    BY <1>2 DEF IInv, Typed, MustWaitToRead, Waiting
  <2>2. Cardinality(Waiting("read")') = Cardinality(Waiting("read")) + 1
    BY <2>1, FiniteParts, FS_AddElement
  <2>3. wait_readers' = wait_readers + 1 /\ wait_writers' = wait_writers
    BY <1>2 DEF MustWaitToRead
  <2> QED
    BY <1>1, <2>1, <2>2, <2>3 DEF IInv, WaitersCounted
<1>3. CASE MustWaitToWrite(t)
  <2>1. /\ t \notin Waiting("write") /\ Waiting("write")' = Waiting("write") \cup {t}
        /\ Waiting("read")' = Waiting("read")
    BY <1>3 DEF IInv, Typed, MustWaitToWrite, Waiting
  <2>2. Cardinality(Waiting("write")') = Cardinality(Waiting("write")) + 1
    BY <2>1, FiniteParts, FS_AddElement
  <2>3. wait_writers' = wait_writers + 1 /\ wait_readers' = wait_readers
    BY <1>3 DEF MustWaitToWrite
  <2> QED
    BY <1>1, <2>1, <2>2, <2>3 DEF IInv, WaitersCounted
<1> QED
  BY <1>2, <1>3

LEMMA WaitInv ==
    ASSUME IInv, Typed', NEW t \in Threads,
           SetBlocked(t) \/ wait_queue_add(t) \/ wait_queue_remove(t)
    PROVE  IInv'
<1>1. Readers' = Readers /\ Writers' = Writers
  BY DEF IInv, Typed, SetBlocked, wait_queue_add, wait_queue_remove, Readers, Writers
<1>2. Waiting("read")' = Waiting("read") /\ Waiting("write")' = Waiting("write")
  BY DEF IInv, Typed, SetBlocked, wait_queue_add, wait_queue_remove, Waiting
<1>3. UNCHANGED <<count, wait_readers, wait_writers>>
  BY DEF SetBlocked, wait_queue_add, wait_queue_remove
<1> QED
  BY <1>1, <1>2, <1>3 DEF IInv, CountIsHolders, WaitersCounted

LEMMA StopWaitingInv ==
    ASSUME IInv, Typed', NEW t \in Threads, StopWaiting(t)
    PROVE  IInv'
<1>1. CountIsHolders'
  BY HoldersStay, Zenon DEF StopWaiting, IInv
<1>2. CASE want[t] = "read"
  <2>1. /\ t \in Waiting("read") /\ Waiting("read")' = Waiting("read") \ {t}
        /\ Waiting("write")' = Waiting("write")
    BY <1>2 DEF IInv, Typed, StopWaiting, Waiting
  <2>2. Cardinality(Waiting("read")') = Cardinality(Waiting("read")) - 1
    BY <2>1, FiniteParts, FS_RemoveElement
  <2>3. wait_readers' = wait_readers - 1 /\ wait_writers' = wait_writers
    BY <1>2 DEF StopWaiting, IInv, Typed
  <2> QED
    BY <1>1, <2>1, <2>2, <2>3 DEF IInv, WaitersCounted
<1>3. CASE want[t] = "write"
  <2>1. /\ t \in Waiting("write") /\ Waiting("write")' = Waiting("write") \ {t}
        /\ Waiting("read")' = Waiting("read")
    BY <1>3 DEF IInv, Typed, StopWaiting, Waiting
  <2>2. Cardinality(Waiting("write")') = Cardinality(Waiting("write")) - 1
    BY <2>1, FiniteParts, FS_RemoveElement
  <2>3. wait_writers' = wait_writers - 1 /\ wait_readers' = wait_readers
    BY <1>3 DEF StopWaiting, IInv, Typed
  <2> QED
    BY <1>1, <2>1, <2>2, <2>3 DEF IInv, WaitersCounted
<1> QED
  BY <1>2, <1>3 DEF IInv, Typed

LEMMA UpReadInv ==
    ASSUME IInv, Typed', NEW t \in Threads, UpRead(t)
    PROVE  IInv'
<1>1. t \in Readers /\ Readers' = Readers \ {t} /\ Writers' = Writers
  BY DEF IInv, Typed, UpRead, Readers, Writers
<1>2. Cardinality(Readers') = Cardinality(Readers) - 1
  BY <1>1, FiniteParts, FS_RemoveElement, Zenon
<1>3. count = Cardinality(Readers) /\ Writers = {}
  BY <1>1 DEF IInv, CountIsHolders
<1>4. Cardinality(Readers) > 0
  BY <1>1, FiniteParts, FS_EmptySet
<1>5. count' = count - 1
  BY <1>3, <1>4 DEF UpRead
<1>6. CountIsHolders'
  BY <1>1, <1>2, <1>3, <1>5 DEF CountIsHolders
<1>7. WaitersCounted'
  BY NobodyWaits, Zenon DEF UpRead, IInv, Typed
<1> QED
  BY <1>6, <1>7 DEF IInv

LEMMA UpWriteInv ==
    ASSUME IInv, Typed', NEW t \in Threads, UpWrite(t)
    PROVE  IInv'
<1>1. t \in Writers /\ Readers' = Readers /\ Writers' = Writers \ {t}
  BY DEF IInv, Typed, UpWrite, Readers, Writers
<1>2. Readers = {} /\ Writers = {t}
  BY <1>1 DEF IInv, CountIsHolders
<1>3. count' = 0
  BY DEF UpWrite
<1>4. CountIsHolders'
  BY <1>1, <1>2, <1>3, FS_EmptySet DEF CountIsHolders
<1>5. WaitersCounted'
  BY NobodyWaits, Zenon DEF UpWrite, IInv, Typed
<1> QED
  BY <1>4, <1>5 DEF IInv

LEMMA InterruptedInv ==
    ASSUME IInv, Typed', NEW t \in Threads, Interrupted(t)
    PROVE  IInv'
BY SameHolders DEF Interrupted

-----------------------------------------------------------------------------

LEMMA InitInv == Init => IInv
<1> SUFFICES ASSUME Init PROVE IInv
  OBVIOUS
<1>1. Typed
  BY DEF Init, Typed
<1>2. Readers = {} /\ Writers = {}
  BY DEF Init, Readers, Writers
<1>3. Waiting("read") = {} /\ Waiting("write") = {}
  BY DEF Init, Waiting
<1>4. CountIsHolders
  BY <1>2, FS_EmptySet DEF Init, CountIsHolders
<1>5. WaitersCounted
  BY <1>3, FS_EmptySet DEF Init, WaitersCounted
<1> QED
  BY <1>1, <1>4, <1>5 DEF IInv

LEMMA NextInv == IInv /\ [Next]_vars => IInv'
<1> SUFFICES ASSUME IInv, [Next]_vars PROVE IInv'
  OBVIOUS
<1>1. Typed'
  BY NextTyped DEF IInv
<1>2. CASE UNCHANGED vars
  BY <1>1, <1>2, SameHolders DEF vars
<1>3. CASE Next
  <2>1. PICK t \in Threads : Call(t) \/ Step(t) \/ Interrupted(t)
    BY <1>3 DEF Next
  <2> QED
    BY <1>1, <2>1, CallInv, DownReadInv, DownWriteInv, MustWaitInv, WaitInv,
       StopWaitingInv, UpReadInv, UpWriteInv, InterruptedInv DEF Step
<1> QED
  BY <1>2, <1>3

LEMMA Invariance == Spec => []IInv
<1> QED
  BY InitInv, NextInv, PTL DEF Spec

\* In every state a writer that returned from vmm_down_write is alone, and
\* otherwise count is the number of readers inside: mutual exclusion, for any
\* number of threads and any interleaving with wake-ups.
THEOREM MutualExclusion == Spec => []CountIsHolders
<1>1. IInv => CountIsHolders
  BY DEF IInv
<1> QED
  BY <1>1, Invariance, PTL

\* wait_readers and wait_writers, on which the wake-ups depend, always count
\* the threads inside the wait loops of vmm_down_read and vmm_down_write.
THEOREM CountersExact == Spec => []WaitersCounted
<1>1. IInv => WaitersCounted
  BY DEF IInv
<1> QED
  BY <1>1, Invariance, PTL

\* The counters never go below zero and count never below -1.
THEOREM SemTypeCorrect == Spec => []TypeOK
<1>1. IInv => TypeOK
  BY FiniteParts DEF IInv, Typed, CountIsHolders, WaitersCounted, TypeOK
<1> QED
  BY <1>1, Invariance, PTL

-----------------------------------------------------------------------------

\* Who is linked into the queue is inside wait_queue_wait.
QueueSleeps == \A t \in wait_q : pc[t] = "sleep"

LEMMA QueueSleepsInv == Spec => []QueueSleeps
<1>1. Init => QueueSleeps
  BY DEF Init, QueueSleeps
<1>2. Typed /\ QueueSleeps /\ [Next]_vars => QueueSleeps'
  <2> SUFFICES ASSUME Typed, QueueSleeps, [Next]_vars PROVE QueueSleeps'
    OBVIOUS
  <2>1. CASE UNCHANGED vars
    BY <2>1 DEF vars, QueueSleeps
  <2>2. ASSUME NEW t \in Threads, Call(t) \/ Step(t) \/ Interrupted(t)
        PROVE  QueueSleeps'
    <3> USE DEF Typed, QueueSleeps
    <3>1. CASE Call(t) \/ DownRead(t) \/ DownWrite(t)
      BY <3>1 DEF Call, DownRead, DownWrite
    <3>2. CASE MustWaitToRead(t) \/ MustWaitToWrite(t) \/ SetBlocked(t)
      BY <3>2 DEF MustWaitToRead, MustWaitToWrite, SetBlocked
    <3>3. CASE wait_queue_add(t) \/ wait_queue_remove(t)
      BY <3>3 DEF wait_queue_add, wait_queue_remove
    <3>4. CASE StopWaiting(t) \/ UpRead(t) \/ UpWrite(t) \/ Interrupted(t)
      BY <3>4 DEF StopWaiting, UpRead, UpWrite, Interrupted
    <3> QED
      BY <2>2, <3>1, <3>2, <3>3, <3>4 DEF Step
  <2> QED
    BY <2>1, <2>2 DEF Next
<1>3. IInv => Typed
  BY DEF IInv
<1> QED
  BY <1>1, <1>2, <1>3, Invariance, PTL DEF Spec

\* A release that makes the semaphore free leaves no writer asleep on the
\* queue, and the release of a writer leaves nobody asleep there: the tests on
\* the counters in vmm_up_read and vmm_up_write never skip a wake-up that a
\* linked thread needs.
THEOREM ReleaseWakes == Spec => FreeWakesSleepers
<1> DEFINE Wakes ==
       (count # 0 /\ count' = 0) =>
          \A t \in wait_q : (want[t] = "write" \/ count = -1) => state'[t] = "running"
<1>1. IInv /\ QueueSleeps /\ [Next]_vars => [Wakes]_vars
  <2> SUFFICES ASSUME IInv, QueueSleeps, Next, count # 0, count' = 0,
                      NEW t \in wait_q, want[t] = "write" \/ count = -1
               PROVE  state'[t] = "running"
    OBVIOUS
  <2>1. t \in Threads /\ t \in Waiting(want[t]) /\ want[t] \in {"read", "write"}
    BY DEF IInv, Typed, QueueSleeps, Waiting
  <2>2. Cardinality(Waiting(want[t])) > 0
    BY <2>1, FiniteParts, FS_EmptySet
  <2>3. WokenBy(wait_q)[t] = "running"
    BY <2>1 DEF WokenBy
  <2>4. PICK u \in Threads : UpRead(u) \/ UpWrite(u)
    BY DEF Next, Call, Step, DownRead, DownWrite, MustWaitToRead, MustWaitToWrite, SetBlocked,
       wait_queue_add, wait_queue_remove, StopWaiting, Interrupted, IInv, Typed, MayRead
  <2>5. CASE UpRead(u)
    <3>1. u \in Readers
      BY <2>5 DEF UpRead, Readers
    <3>2. count # -1
      BY <3>1, FiniteParts DEF IInv, CountIsHolders
    <3>3. want[t] = "write" /\ wait_writers > 0
      BY <2>2, <3>2 DEF IInv, WaitersCounted
    <3>4. count = 1
      BY <2>5 DEF UpRead, IInv, Typed
    <3>5. state' = WokenBy(wait_q)
      BY <2>5, <3>3, <3>4 DEF UpRead, wait_queue_wake_all
    <3> QED
      BY <2>3, <3>5
  <2>6. CASE UpWrite(u)
    <3>1. wait_writers > 0 \/ wait_readers > 0
      BY <2>1, <2>2 DEF IInv, WaitersCounted
    <3>2. state' = WokenBy(wait_q)
      BY <2>6, <3>1 DEF UpWrite, wait_queue_wake_all
    <3> QED
      BY <2>3, <3>2
  <2> QED
    BY <2>4, <2>5, <2>6
<1> QED
  BY <1>1, Invariance, QueueSleepsInv, PTL DEF Spec, FreeWakesSleepers

=============================================================================
