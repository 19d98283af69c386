--------------------------- MODULE ShootdownProofs ---------------------------
(* Proofs about Shootdown, for any CPUs, tasks, spaces and pages. *)
EXTENDS Shootdown, TLAPS

\* The CPUs that still owe an answer.
Handlers == {c \in Cpus : pc[c] \in {"flushed", "ack"}}
Owing == ipi \cup Handlers

Ranges == [virt : Int, count : Int]
Ops == [call : {"unmap", "protect", "cow", NONE}, space : Spaces \cup {NONE}, range : Ranges, mask : SUBSET Cpus]

Typed ==
    /\ pc \in [Cpus -> {"user", "load", "clear", "changed", "lock", "send", "wait", "flushed", "ack"}]
    /\ op \in [Cpus -> Ops]
    /\ \A c \in Cpus : pc[c] \in {"changed", "lock", "send", "wait"} => op[c].space \in Spaces
    /\ tlb \in [Cpus -> [Pages -> Int]]
    /\ pte \in [Spaces -> [Pages -> Int]]
    /\ cr3 \in [Cpus -> Spaces \cup {NONE}]
    /\ vmm_space \in [Tasks -> Spaces]
    /\ current \in [Cpus -> Tasks \cup {NONE}]
    /\ active_cpus \in [Spaces -> SUBSET Cpus]
    /\ ipi \subseteq Cpus
    /\ shootdown_acks \in Nat
    /\ changes \in Int
    /\ late \in BOOLEAN

\* Who holds the lock is the one that sends and waits, with its own range.
LockHeld ==
    /\ \A c \in Cpus : tlb_shootdown_lock = c <=> pc[c] \in {"send", "wait"}
    /\ tlb_shootdown_lock \in Cpus => shootdown = op[tlb_shootdown_lock].range

\* The answers that are counted are those that are owed.
AcksOwed ==
    /\ ipi \cap Handlers = {}
    /\ \A c \in Cpus : pc[c] = "wait" => shootdown_acks = Cardinality(Owing)
    /\ \A c \in Cpus : pc[c] = "send" => shootdown_acks = Cardinality(op[c].mask)
    /\ (\A c \in Cpus : pc[c] # "wait") => Owing = {}

\* The call of d takes back p at c, and c has not flushed it yet.
Reaches(d, c, p) ==
    /\ op[d].space = cr3[c]
    /\ p \in Span(op[d].range)
    /\ \/ pc[d] = "changed"
       \/ pc[d] \in {"lock", "send"} /\ c \in op[d].mask
       \/ pc[d] = "wait" /\ c \in ipi

StaleReached ==
    \A c \in Cpus, p \in Pages :
        pc[c] # "load" /\ Stale(c, p) /\ c \in active_cpus[cr3[c]] => \E d \in Cpus : Reaches(d, c, p)

\* What the proof needs to know of counting CPUs; proved at the end.
CpusCount ==
    \A S \in SUBSET Cpus :
        /\ Cardinality(S) \in Nat /\ Cardinality(S) <= Cardinality(Cpus)
        /\ Cardinality(S) = 0 <=> S = {}
        /\ \A c \in S : Cardinality(S \ {c}) = Cardinality(S) - 1

IInv == Typed /\ (~late => LockHeld /\ AcksOwed /\ StaleReached)

-----------------------------------------------------------------------------

Step(c) ==
    \/ \E t \in Tasks \cup {NONE} : process_schedule(c, t)
    \/ LoadCr3(c) \/ ClearActive(c)
    \/ \E s \in Spaces : process_exec(c, s)
    \/ \E p \in Pages : Walk(c, p) \/ MapPage(c, p)
    \/ \E k \in PageOps : Change(c, k[1], k[2], k[3])
    \/ FlushLocal(c) \/ Acquire(c) \/ Send(c) \/ AllAcked(c) \/ TimedOut(c)
    \/ IpiFlush(c) \/ IpiLoadAcks(c) \/ IpiAck(c)

\* A step is one of a CPU, before any call gave up.
LEMMA StepOfCpu ==
    ASSUME Next
    PROVE  ~late /\ \E c \in Cpus : Step(c)
BY DEF Next, Step

LEMMA NothingTyped == Nothing \in Ops
BY DEF Nothing, Ops, Ranges

LEMMA RangeTyped ==
    ASSUME NEW v \in Nat, NEW n \in Nat
    PROVE  [virt |-> v, count |-> n] \in Ranges
BY DEF Ranges

LEMMA OpTyped ==
    ASSUME NEW a \in {"unmap", "protect", "cow", NONE}, NEW s \in Spaces \cup {NONE}, NEW r \in Ranges,
           NEW m \in SUBSET Cpus
    PROVE  [call |-> a, space |-> s, range |-> r, mask |-> m] \in Ops
BY DEF Ops

LEMMA MaskTyped ==
    ASSUME NEW o \in Ops, NEW m \in SUBSET Cpus
    PROVE  /\ [o EXCEPT !.mask = m] \in Ops
           /\ [o EXCEPT !.mask = m].range = o.range
           /\ [o EXCEPT !.mask = m].space = o.space
           /\ [o EXCEPT !.mask = m].mask = m
BY DEF Ops

LEMMA AckCounts ==
    ASSUME CpusCount, NEW n \in Nat, n > 0, n <= Cardinality(Cpus)
    PROVE  (n - 1) % ACK_VALUES = n - 1
<1>1. Cardinality(Cpus) \in Nat
  BY DEF CpusCount
<1> QED
  BY <1>1, ShootdownAssumption

LEMMA InitTyped == Init => Typed
<1> SUFFICES ASSUME Init PROVE Typed
  OBVIOUS
<1>1. op \in [Cpus -> Ops]
  BY NothingTyped DEF Init
<1>2. tlb \in [Cpus -> [Pages -> Int]] /\ pte \in [Spaces -> [Pages -> Int]]
  BY DEF Init, Empty
<1>3. late \in BOOLEAN
  BY Zenon DEF Init
<1>4. cr3 \in [Cpus -> Spaces \cup {NONE}] /\ current \in [Cpus -> Tasks \cup {NONE}]
  BY DEF Init
<1>5. vmm_space \in [Tasks -> Spaces]
  BY ShootdownAssumption DEF Init
<1> QED
  BY <1>1, <1>2, <1>3, <1>4, <1>5 DEF Init, Typed

LEMMA FlushedTyped ==
    ASSUME NEW r, NEW cached \in [Pages -> Int]
    PROVE  Flushed(r, cached) \in [Pages -> Int]
BY DEF Flushed, Empty

LEMMA NextTyped ==
    ASSUME CpusCount, Typed, Next
    PROVE  Typed'
<1> USE DEF sched_vars, call_vars
<1>1. PICK c \in Cpus : Step(c)
  BY StepOfCpu
<1>2. ASSUME NEW t \in Tasks \cup {NONE}, process_schedule(c, t)
      PROVE  Typed'
  BY <1>2 DEF Typed, process_schedule
<1>3. CASE LoadCr3(c)
  BY <1>3 DEF Typed, LoadCr3, SpaceOf, Empty
<1>4. CASE ClearActive(c)
  BY <1>4 DEF Typed, ClearActive
<1>5. ASSUME NEW s \in Spaces, process_exec(c, s)
      PROVE  Typed'
  BY <1>5 DEF Typed, process_exec, Empty
<1>6. ASSUME NEW p \in Pages, Walk(c, p)
      PROVE  Typed'
  BY <1>6 DEF Typed, Walk
<1>7. ASSUME NEW p \in Pages, MapPage(c, p)
      PROVE  Typed'
  BY <1>7 DEF Typed, MapPage
<1>8. ASSUME NEW k \in PageOps, Change(c, k[1], k[2], k[3])
      PROVE  Typed'
  <2> DEFINE new == [call |-> k[1], space |-> cr3[c], range |-> [virt |-> k[2], count |-> k[3]], mask |-> {}]
  <2>1. k \in {"unmap", "protect", "cow"} \X Pages \X Nat
    BY ShootdownAssumption
  <2>2. k[1] \in {"unmap", "protect", "cow"} /\ k[2] \in Pages /\ k[3] \in Nat
    BY <2>1
  <2>2a. k[2] \in Nat /\ k[3] \in Nat
    BY <2>2, ShootdownAssumption, Zenon
  <2>3. [virt |-> k[2], count |-> k[3]] \in Ranges
    BY <2>2a, RangeTyped
  <2>3a. new \in Ops
    BY <2>2, <2>3, OpTyped, Zenon DEF Typed
  <2>4. op' = [op EXCEPT ![c] = new]
    BY <1>8 DEF Change
  <2>5. op' \in [Cpus -> Ops]
    BY <2>3a, <2>4 DEF Typed
  <2>6. pte' \in [Spaces -> [Pages -> Int]]
    BY <1>8 DEF Typed, Change
  <2> QED
    BY <1>8, <2>5, <2>6 DEF Typed, Change
<1>9. CASE FlushLocal(c)
  <2> DEFINE mask == active_cpus[op[c].space] \ {c}
  <2>1. op[c] \in Ops
    BY DEF Typed
  <2>1b. mask \in SUBSET Cpus
    BY <1>9 DEF Typed, FlushLocal
  <2>1c. op'[c] \in Ops /\ (pc'[c] = "lock" => op'[c].space = op[c].space)
    <3>1. CASE mask = {}
      BY <1>9, <3>1, NothingTyped DEF Typed, FlushLocal
    <3>2. CASE mask # {}
      <4>1. op'[c] = [op[c] EXCEPT !.mask = mask]
        BY <1>9, <3>2, Zenon DEF Typed, FlushLocal
      <4> QED
        BY <4>1, <2>1, <2>1b, MaskTyped
    <3> QED
      BY <3>1, <3>2
  <2>2. op' \in [Cpus -> Ops]
    BY <1>9, <2>1c DEF Typed, FlushLocal
  <2> QED
    BY <1>9, <2>1c, <2>2, FlushedTyped, ZenonT(30) DEF Typed, FlushLocal
<1>10. CASE Acquire(c)
  <2>1. op[c].mask \subseteq Cpus
    BY DEF Typed, Ops
  <2>2. Cardinality(op[c].mask) \in Nat
    BY <2>1 DEF CpusCount
  <2> QED
    BY <1>10, <2>2 DEF Typed, Acquire
<1>11. CASE Send(c)
  <2>1. op[c].mask \subseteq Cpus
    BY DEF Typed, Ops
  <2> QED
    BY <1>11, <2>1 DEF Typed, Send
<1>12. CASE AllAcked(c) \/ TimedOut(c)
  <2>1. op' \in [Cpus -> Ops]
    BY <1>12, NothingTyped, SMTT(30) DEF Typed, AllAcked, TimedOut, Release
  <2>2. late' \in BOOLEAN
    BY <1>12, Zenon DEF Typed, AllAcked, TimedOut
  <2> QED
    BY <1>12, <2>1, <2>2, ZenonT(30) DEF Typed, AllAcked, TimedOut, Release
<1>13. CASE IpiFlush(c)
  BY <1>13, FlushedTyped DEF Typed, IpiFlush
<1>14. CASE IpiLoadAcks(c)
  BY <1>14 DEF Typed, IpiLoadAcks
<1>15. CASE IpiAck(c)
  <2>1. Cardinality(Cpus) \in Nat
    BY DEF CpusCount
  <2>2. shootdown_acks' \in Nat
    BY <1>15, <2>1, ShootdownAssumption DEF Typed, IpiAck
  <2> QED
    BY <1>15, <2>2 DEF Typed, IpiAck
<1> QED
  BY <1>1, <1>2, <1>3, <1>4, <1>5, <1>6, <1>7, <1>8, <1>9, <1>10, <1>11, <1>12, <1>13, <1>14, <1>15 DEF Step

-----------------------------------------------------------------------------

\* The lock belongs to the CPU that sends and waits.
LEMMA NextLock ==
    ASSUME Typed, LockHeld, Next
    PROVE  LockHeld'
<1> USE ShootdownAssumption DEF sched_vars, call_vars
<1>1. PICK c \in Cpus : Step(c)
  BY StepOfCpu
<1>2. CASE \E t \in Tasks \cup {NONE} : process_schedule(c, t)
  BY <1>2 DEF Typed, LockHeld, process_schedule
<1>3. CASE LoadCr3(c) \/ ClearActive(c)
  BY <1>3 DEF Typed, LockHeld, LoadCr3, ClearActive
<1>4. CASE \E s \in Spaces : process_exec(c, s)
  BY <1>4 DEF Typed, LockHeld, process_exec
<1>5. CASE \E p \in Pages : Walk(c, p) \/ MapPage(c, p)
  BY <1>5 DEF Typed, LockHeld, Walk, MapPage
<1>6. CASE \E k \in PageOps : Change(c, k[1], k[2], k[3])
  <2>1. pc[c] = "user" /\ pc' = [pc EXCEPT ![c] = "changed"]
    BY <1>6 DEF Change
  <2>2. \A d \in Cpus \ {c} : op'[d] = op[d]
    BY <1>6 DEF Typed, Change
  <2>3. UNCHANGED <<tlb_shootdown_lock, shootdown>>
    BY <1>6 DEF Change
  <2> QED
    BY <2>1, <2>2, <2>3 DEF Typed, LockHeld
<1>7. CASE FlushLocal(c)
  <2>1. pc[c] = "changed" /\ \E w \in {"user", "lock"} : pc' = [pc EXCEPT ![c] = w]
    BY <1>7 DEF FlushLocal
  <2>2. \A d \in Cpus \ {c} : op'[d] = op[d]
    BY <1>7 DEF Typed, FlushLocal
  <2>3. UNCHANGED <<tlb_shootdown_lock, shootdown>>
    BY <1>7 DEF FlushLocal
  <2> QED
    BY <2>1, <2>2, <2>3 DEF Typed, LockHeld
<1>8. CASE Acquire(c)
  BY <1>8 DEF Typed, LockHeld, Acquire
<1>9. CASE Send(c)
  BY <1>9 DEF Typed, LockHeld, Send
<1>10. CASE AllAcked(c) \/ TimedOut(c)
  BY <1>10 DEF Typed, LockHeld, AllAcked, TimedOut, Release
<1>11. CASE IpiFlush(c) \/ IpiLoadAcks(c) \/ IpiAck(c)
  BY <1>11 DEF Typed, LockHeld, IpiFlush, IpiLoadAcks, IpiAck
<1> QED
  BY <1>1, <1>2, <1>3, <1>4, <1>5, <1>6, <1>7, <1>8, <1>9, <1>10, <1>11 DEF Step

\* What is owed is counted.
LEMMA OwingCounted ==
    ASSUME CpusCount, Typed
    PROVE  /\ Owing \subseteq Cpus
           /\ Cardinality(Owing) \in Nat
           /\ Cardinality(Owing) <= Cardinality(Cpus)
           /\ Cardinality(Owing) = 0 <=> Owing = {}
<1>1. Owing \subseteq Cpus
  BY DEF Owing, Handlers, Typed
<1> QED
  BY <1>1 DEF CpusCount

\* A step that is not part of a shootdown.
LEMMA AcksKept ==
    ASSUME Typed, AcksOwed, NEW c \in Cpus, NEW w,
           pc' = [pc EXCEPT ![c] = w],
           pc[c] \notin {"send", "wait", "flushed", "ack"}, w \notin {"send", "wait", "flushed", "ack"},
           \A d \in Cpus \ {c} : op'[d] = op[d],
           UNCHANGED <<ipi, shootdown_acks>>
    PROVE  AcksOwed'
<1>1. Handlers' = Handlers
  BY DEF Handlers, Typed
<1>2. Owing' = Owing
  BY <1>1 DEF Owing
<1> QED
  BY <1>1, <1>2 DEF AcksOwed, Typed

LEMMA NextAcks ==
    ASSUME CpusCount, Typed, LockHeld, AcksOwed, Next, ~late'
    PROVE  AcksOwed'
<1> USE DEF sched_vars, call_vars
<1>1. PICK c \in Cpus : Step(c)
  BY StepOfCpu
<1>2. CASE \E t \in Tasks \cup {NONE} : process_schedule(c, t)
  BY <1>2, AcksKept, Zenon DEF process_schedule
<1>3. CASE LoadCr3(c) \/ ClearActive(c)
  BY <1>3, AcksKept DEF LoadCr3, ClearActive
<1>4. CASE (\E s \in Spaces : process_exec(c, s)) \/ \E p \in Pages : Walk(c, p) \/ MapPage(c, p)
  <2>1. UNCHANGED <<pc, op, ipi, shootdown_acks>>
    BY <1>4, Zenon DEF process_exec, Walk, MapPage
  <2> QED
    BY <2>1 DEF AcksOwed, Owing, Handlers
<1>5. CASE \E k \in PageOps : Change(c, k[1], k[2], k[3])
  <2>1. pc[c] = "user" /\ pc' = [pc EXCEPT ![c] = "changed"] /\ UNCHANGED <<ipi, shootdown_acks>>
    BY <1>5 DEF Change
  <2>2. \A d \in Cpus \ {c} : op'[d] = op[d]
    BY <1>5 DEF Typed, Change
  <2> QED
    BY <2>1, <2>2, AcksKept, Zenon
<1>6. CASE FlushLocal(c)
  <2>1. pc[c] = "changed" /\ \E w \in {"user", "lock"} : pc' = [pc EXCEPT ![c] = w]
    BY <1>6 DEF FlushLocal
  <2>2. \A d \in Cpus \ {c} : op'[d] = op[d]
    BY <1>6 DEF Typed, FlushLocal
  <2>3. UNCHANGED <<ipi, shootdown_acks>>
    BY <1>6 DEF FlushLocal
  <2> QED
    BY <2>1, <2>2, <2>3, AcksKept, Zenon
<1>7. CASE Acquire(c)
  <2>1. \A d \in Cpus : pc[d] \notin {"send", "wait"}
    BY <1>7, ShootdownAssumption DEF Acquire, LockHeld
  <2>2. Handlers' = Handlers
    BY <1>7 DEF Acquire, Handlers, Typed
  <2>3. Owing' = Owing
    BY <1>7, <2>2 DEF Acquire, Owing
  <2> QED
    BY <1>7, <2>1, <2>2, <2>3 DEF Acquire, AcksOwed, Typed
<1>8. CASE Send(c)
  <2>1. \A d \in Cpus \ {c} : pc[d] \notin {"send", "wait"}
    BY <1>8 DEF Send, LockHeld
  <2>2. Owing = {}
    BY <1>8, <2>1 DEF Send, AcksOwed
  <2>3. Handlers' = {}
    BY <1>8, <2>2 DEF Send, Owing, Handlers, Typed
  <2>4. Owing' = op[c].mask
    BY <1>8, <2>2, <2>3 DEF Send, Owing
  <2> QED
    BY <1>8, <2>1, <2>3, <2>4 DEF Send, AcksOwed, Typed
<1>9. CASE AllAcked(c)
  <2>1. \A d \in Cpus \ {c} : pc[d] \notin {"send", "wait"}
    BY <1>9 DEF AllAcked, LockHeld
  <2>2. Owing = {}
    BY <1>9, OwingCounted DEF AllAcked, AcksOwed
  <2>3. Handlers' = Handlers
    BY <1>9 DEF AllAcked, Release, Handlers, Typed
  <2>4. Owing' = {}
    BY <1>9, <2>2, <2>3 DEF AllAcked, Release, Owing
  <2> QED
    BY <1>9, <2>1, <2>3, <2>4 DEF AllAcked, Release, AcksOwed, Typed
<1>10. CASE TimedOut(c)
  BY <1>10 DEF TimedOut
<1>11. CASE IpiFlush(c)
  <2>1. Handlers' = Handlers \cup {c}
    BY <1>11 DEF IpiFlush, Handlers, Typed
  <2>2. Owing' = Owing
    BY <1>11, <2>1 DEF IpiFlush, Owing
  <2> QED
    BY <1>11, <2>1, <2>2 DEF IpiFlush, AcksOwed, Typed
<1>12. CASE IpiLoadAcks(c)
  <2>1. c \in Owing
    BY <1>12 DEF IpiLoadAcks, Owing, Handlers
  <2>2. \E d \in Cpus : pc[d] = "wait"
    BY <2>1 DEF AcksOwed
  <2>3. shootdown_acks > 0
    BY <2>1, <2>2, OwingCounted DEF AcksOwed
  <2>4. Handlers' = Handlers
    BY <1>12, <2>3 DEF IpiLoadAcks, Handlers, Typed
  <2>5. Owing' = Owing
    BY <1>12, <2>4 DEF IpiLoadAcks, Owing
  <2> QED
    BY <1>12, <2>3, <2>4, <2>5 DEF IpiLoadAcks, AcksOwed, Typed
<1>13. CASE IpiAck(c)
  <2>1. c \in Owing /\ c \notin ipi
    BY <1>13 DEF IpiAck, Owing, Handlers, AcksOwed
  <2>2. PICK d \in Cpus : pc[d] = "wait"
    BY <2>1 DEF AcksOwed
  <2>3. shootdown_acks = Cardinality(Owing) /\ shootdown_acks \in Nat /\ shootdown_acks > 0
        /\ shootdown_acks <= Cardinality(Cpus)
    BY <2>1, <2>2, OwingCounted DEF AcksOwed
  <2>4. shootdown_acks' = shootdown_acks - 1
    BY <1>13, <2>3, AckCounts DEF IpiAck
  <2>5. Handlers' = Handlers \ {c}
    BY <1>13 DEF IpiAck, Handlers, Typed
  <2>6. Owing' = Owing \ {c}
    BY <1>13, <2>1, <2>5 DEF IpiAck, Owing
  <2>7. Cardinality(Owing') = Cardinality(Owing) - 1
    BY <2>1, <2>6, OwingCounted DEF CpusCount
  <2>8. \A e \in Cpus : pc[e] # "send"
    BY <2>2 DEF LockHeld
  <2> QED
    BY <1>13, <2>2, <2>3, <2>4, <2>5, <2>7, <2>8 DEF IpiAck, AcksOwed, Typed
<1> QED
  BY <1>1, <1>2, <1>3, <1>4, <1>5, <1>6, <1>7, <1>8, <1>9, <1>10, <1>11, <1>12, <1>13 DEF Step

-----------------------------------------------------------------------------

\* What a flush leaves in a TLB lies outside the range.
LEMMA FlushedSpan ==
    ASSUME NEW r \in Ranges, NEW cached \in [Pages -> Int], NEW p \in Pages, Flushed(r, cached)[p] # 0
    PROVE  p \notin Span(r) /\ Flushed(r, cached)[p] = cached[p]
BY DEF Flushed, Empty

\* A step that touches neither translations nor calls.
LEMMA StaleKept ==
    ASSUME Typed, StaleReached, UNCHANGED <<cr3, pte, tlb, op, ipi>>,
           NEW c \in Cpus, NEW w, pc' = [pc EXCEPT ![c] = w],
           pc[c] \notin {"changed", "lock", "send", "wait"}, w = "load" \/ pc[c] # "load",
           \A s \in Spaces : active_cpus'[s] \subseteq active_cpus[s] \cup (IF w = "load" THEN {c} ELSE {})
    PROVE  StaleReached'
<1> SUFFICES ASSUME NEW x \in Cpus, NEW p \in Pages,
                    pc'[x] # "load", Stale(x, p)', x \in active_cpus'[cr3'[x]]
             PROVE  \E d \in Cpus : Reaches(d, x, p)'
  BY DEF StaleReached
<1>1. Stale(x, p) /\ pc[x] # "load" /\ x \in active_cpus[cr3[x]]
  BY DEF Stale, Typed
<1>2. PICK d \in Cpus : Reaches(d, x, p)
  BY <1>1, SMTT(30) DEF StaleReached
<1> QED
  BY <1>2 DEF Reaches, Typed

LEMMA NextStale ==
    ASSUME CpusCount, Typed, LockHeld, AcksOwed, StaleReached, Next, ~late'
    PROVE  StaleReached'
<1> USE DEF sched_vars, call_vars
<1>1. PICK c \in Cpus : Step(c)
  BY StepOfCpu
<1>2. CASE \E t \in Tasks \cup {NONE} : process_schedule(c, t)
  <2>1. pc[c] = "user" /\ pc' = [pc EXCEPT ![c] = "load"] /\ UNCHANGED <<cr3, pte, tlb, op, ipi>>
    BY <1>2 DEF process_schedule
  <2>2. \A s \in Spaces : active_cpus'[s] \subseteq active_cpus[s] \cup {c}
    BY <1>2 DEF process_schedule
  <2> QED
    BY <2>1, <2>2, StaleKept, Zenon
<1>3. CASE ClearActive(c)
  BY <1>3, StaleKept, Zenon DEF ClearActive
<1>4. CASE IpiLoadAcks(c) \/ IpiAck(c)
  <2>1. \E w \in {"ack", "user"} : pc' = [pc EXCEPT ![c] = w]
    BY <1>4 DEF IpiLoadAcks, IpiAck
  <2>2. pc[c] \in {"flushed", "ack"} /\ UNCHANGED <<cr3, pte, tlb, op, ipi, active_cpus>>
    BY <1>4, SMTT(30) DEF IpiLoadAcks, IpiAck
  <2> QED
    BY <2>1, <2>2, StaleKept, ZenonT(30)
<1> SUFFICES ASSUME NEW x \in Cpus, NEW p \in Pages, Step(c),
                    pc'[x] # "load", Stale(x, p)', x \in active_cpus'[cr3'[x]],
                    ~ClearActive(c), ~IpiLoadAcks(c), ~IpiAck(c),
                    ~\E t \in Tasks \cup {NONE} : process_schedule(c, t)
             PROVE  \E d \in Cpus : Reaches(d, x, p)'
  BY <1>1, <1>2, <1>3, <1>4, SMTT(30) DEF StaleReached
<1>5. CASE LoadCr3(c)
  <2>1. x # c
    BY <1>5 DEF LoadCr3, Stale, Typed, Empty
  <2>2. PICK d \in Cpus : Reaches(d, x, p)
    BY <1>5, <2>1, SMTT(30) DEF LoadCr3, Stale, StaleReached, Typed
  <2> QED
    BY <1>5, <2>1, <2>2 DEF LoadCr3, Reaches, Typed
<1>6. CASE \E s \in Spaces : process_exec(c, s)
  <2>1. x # c
    BY <1>6 DEF process_exec, Stale, Typed, Empty
  <2>2. PICK d \in Cpus : Reaches(d, x, p)
    BY <1>6, <2>1 DEF process_exec, Stale, StaleReached, Typed
  <2> QED
    BY <1>6, <2>1, <2>2, ZenonT(40) DEF process_exec, Reaches, Typed
<1>7. CASE \E q \in Pages : Walk(c, q)
  <2>1. Stale(x, p)
    BY <1>7 DEF Walk, Stale, Typed
  <2>2. PICK d \in Cpus : Reaches(d, x, p)
    BY <1>7, <2>1 DEF Walk, StaleReached
  <2> QED
    BY <1>7, <2>2 DEF Walk, Reaches
<1>8. CASE \E q \in Pages : MapPage(c, q)
  <2>1. Stale(x, p)
    BY <1>8 DEF MapPage, Stale, Typed
  <2>2. PICK d \in Cpus : Reaches(d, x, p)
    BY <1>8, <2>1, SMTT(30) DEF MapPage, StaleReached
  <2> QED
    BY <1>8, <2>2, SMTT(30) DEF MapPage, Reaches
<1>9. ASSUME NEW k \in PageOps, Change(c, k[1], k[2], k[3])
      PROVE  \E d \in Cpus : Reaches(d, x, p)'
  <2> DEFINE r == [virt |-> k[2], count |-> k[3]]
  <2>1. /\ pc[c] = "user" /\ pc' = [pc EXCEPT ![c] = "changed"]
        /\ cr3[c] \in Spaces
        /\ op'[c].space = cr3[c] /\ op'[c].range = r
        /\ \A d \in Cpus \ {c} : op'[d] = op[d]
        /\ \A s \in Spaces, q \in Pages : pte'[s][q] # pte[s][q] => s = cr3[c] /\ q \in Span(r)
        /\ UNCHANGED <<cr3, tlb, active_cpus, ipi>>
    <3>1. /\ pc[c] = "user" /\ pc' = [pc EXCEPT ![c] = "changed"]
          /\ cr3[c] \in Spaces /\ UNCHANGED <<cr3, tlb, active_cpus, ipi>>
      BY <1>9 DEF Change, Typed
    <3>2. /\ op'[c].space = cr3[c] /\ op'[c].range = r
          /\ \A d \in Cpus \ {c} : op'[d] = op[d]
      BY <1>9 DEF Change, Typed
    <3>3. \A s \in Spaces, q \in Pages : pte'[s][q] # pte[s][q] => s = cr3[c] /\ q \in Span(r)
      BY <1>9 DEF Change, Typed
    <3> QED
      BY <3>1, <3>2, <3>3, Zenon
  <2>2. CASE cr3[x] = cr3[c] /\ p \in Span(r)
    <3>1. pc'[c] = "changed" /\ op'[c].space = cr3'[x] /\ p \in Span(op'[c].range)
      BY <2>1, <2>2, Zenon DEF Typed
    <3>2. Reaches(c, x, p)'
      BY <3>1, Zenon DEF Reaches
    <3> QED
      BY <3>2, Zenon
  <2>3. CASE ~(cr3[x] = cr3[c] /\ p \in Span(r))
    <3>1. Stale(x, p) /\ pc[x] # "load"
      BY <2>1, <2>3, ZenonT(30) DEF Stale, Typed
    <3>2. PICK d \in Cpus : Reaches(d, x, p)
      BY <2>1, <3>1, ZenonT(30) DEF StaleReached
    <3>3. d # c
      BY <2>1, <3>2, ZenonT(30) DEF Reaches
    <3> QED
      BY <2>1, <3>2, <3>3, ZenonT(30) DEF Reaches, Typed
  <2> QED
    BY <2>2, <2>3, Zenon
<1>10. CASE FlushLocal(c)
  <2> DEFINE mask == active_cpus[op[c].space] \ {c}
  <2>0. op[c] \in Ops
    BY Zenon DEF Typed
  <2>1. op[c] \in Ops /\ op[c].range \in Ranges
    BY <2>0, Zenon DEF Ops
  <2>2. Stale(x, p) /\ pc[x] # "load" /\ (x = c => p \notin Span(op[c].range))
    <3>1. CASE x = c
      <4>1. tlb'[c] = Flushed(op[c].range, tlb[c]) /\ tlb'[c][p] # 0
        BY <1>10, <3>1, SMTT(30) DEF FlushLocal, Stale, Typed
      <4>2. p \notin Span(op[c].range) /\ tlb'[c][p] = tlb[c][p]
        <5>1. tlb[c] \in [Pages -> Int] /\ Flushed(op[c].range, tlb[c])[p] # 0
          BY <4>1, SMTT(30) DEF Typed
        <5>2. /\ p \notin Span(op[c].range)
              /\ Flushed(op[c].range, tlb[c])[p] = tlb[c][p]
          BY <2>1, <5>1, FlushedSpan
        <5> QED
          BY <4>1, <5>2, SMTT(30)
      <4> QED
        BY <1>10, <3>1, <4>2 DEF FlushLocal, Stale, Typed
    <3>2. CASE x # c
      BY <1>10, <3>2 DEF FlushLocal, Stale, Typed
    <3> QED
      BY <3>1, <3>2, Zenon
  <2>3. PICK d \in Cpus : Reaches(d, x, p)
    BY <1>10, <2>2 DEF FlushLocal, StaleReached
  <2>4. CASE d # c
    BY <1>10, <2>3, <2>4 DEF FlushLocal, Reaches, Typed
  <2>5. CASE d = c
    <3>1. x # c /\ x \in mask
      BY <1>10, <2>2, <2>3, <2>5 DEF FlushLocal, Reaches
    <3>2. pc'[c] = "lock" /\ op'[c] = [op[c] EXCEPT !.mask = mask]
      BY <1>10, <3>1, Zenon DEF FlushLocal, Typed
    <3>3. op'[c].mask = mask /\ op'[c].range = op[c].range /\ op'[c].space = op[c].space
      <4>1. mask \in SUBSET Cpus
        BY <1>10 DEF FlushLocal, Typed
      <4> QED
        BY <2>1, <3>2, <4>1, MaskTyped
    <3>4. Reaches(c, x, p)'
      BY <1>10, <2>3, <2>5, <3>1, <3>2, <3>3 DEF FlushLocal, Reaches
    <3> QED
      BY <3>4
  <2> QED
    BY <2>4, <2>5, Zenon
<1>11. CASE Acquire(c) \/ Send(c)
  <2>1. Stale(x, p) /\ pc[x] # "load"
    BY <1>11, SMTT(30) DEF Acquire, Send, Stale, Typed
  <2>2. PICK d \in Cpus : Reaches(d, x, p)
    BY <1>11, <2>1, ZenonT(30) DEF Acquire, Send, StaleReached
  <2> QED
    BY <1>11, <2>2, ZenonT(30) DEF Acquire, Send, Reaches, Typed
<1>12. CASE AllAcked(c)
  <2>1. Stale(x, p) /\ pc[x] # "load"
    BY <1>12, SMTT(30) DEF AllAcked, Release, Stale, Typed
  <2>2. PICK d \in Cpus : Reaches(d, x, p)
    BY <1>12, <2>1, ZenonT(30) DEF AllAcked, Release, StaleReached
  <2>3. ipi = {}
    <3>1. pc[c] = "wait" /\ shootdown_acks = 0
      BY <1>12, Zenon DEF AllAcked
    <3>2. Cardinality(Owing) = 0
      BY <3>1, Zenon DEF AcksOwed
    <3>3. Owing = {}
      BY <3>2, OwingCounted, Zenon
    <3> QED
      BY <3>3, Zenon DEF Owing
  <2>4. d # c
    BY <1>12, <2>2, <2>3, ZenonT(30) DEF AllAcked, Reaches
  <2> QED
    BY <1>12, <2>2, <2>4, ZenonT(30) DEF AllAcked, Release, Reaches, Typed
<1>13. CASE TimedOut(c)
  BY <1>13 DEF TimedOut
<1>14. CASE IpiFlush(c)
  <2>1. CASE x # c
    <3>1. PICK d \in Cpus : Reaches(d, x, p)
      BY <1>14, <2>1, SMTT(30) DEF IpiFlush, Stale, StaleReached, Typed
    <3> QED
      BY <1>14, <2>1, <3>1, ZenonT(30) DEF IpiFlush, Reaches, Typed
  <2>2. CASE x = c
    <3>1. PICK w \in Cpus : pc[w] = "wait"
      BY <1>14, ZenonT(30) DEF IpiFlush, AcksOwed, Owing
    <3>2. tlb_shootdown_lock = w /\ shootdown = op[w].range
      BY <3>1, Zenon DEF LockHeld
    <3>3. shootdown \in Ranges
      <4>1. op[w] \in Ops
        BY Zenon DEF Typed
      <4> QED
        BY <3>2, <4>1, Zenon DEF Ops
    <3>4. tlb'[c] = Flushed(shootdown, tlb[c]) /\ tlb'[c][p] # 0
      BY <1>14, <2>2, SMTT(30) DEF IpiFlush, Stale, Typed
    <3>5. p \notin Span(shootdown) /\ tlb'[c][p] = tlb[c][p]
      <4>1. tlb[c] \in [Pages -> Int] /\ Flushed(shootdown, tlb[c])[p] # 0
        BY <3>4, SMTT(30) DEF Typed
      <4>2. p \notin Span(shootdown) /\ Flushed(shootdown, tlb[c])[p] = tlb[c][p]
        BY <3>3, <4>1, FlushedSpan, SMTT(30)
      <4> QED
        BY <3>4, <4>2, Zenon
    <3>6. Stale(c, p) /\ pc[c] # "load"
      BY <1>14, <2>2, <3>5, SMTT(30) DEF IpiFlush, Stale, Typed
    <3>7. PICK d \in Cpus : Reaches(d, c, p)
      BY <1>14, <2>2, <3>6, ZenonT(30) DEF IpiFlush, StaleReached
    <3>8. pc[d] # "wait" /\ d # c
      BY <1>14, <3>2, <3>5, <3>7, Zenon DEF IpiFlush, LockHeld, Reaches
    <3> QED
      BY <1>14, <2>2, <3>7, <3>8, ZenonT(30) DEF IpiFlush, Reaches, Typed
  <2> QED
    BY <2>1, <2>2, SMTT(30)
<1> QED
  BY <1>5, <1>6, <1>7, <1>8, <1>9, <1>10, <1>11, <1>12, <1>13, <1>14, ZenonT(30) DEF Step

-----------------------------------------------------------------------------

LEMMA InitIInv == Init => IInv
<1> SUFFICES ASSUME Init PROVE IInv
  OBVIOUS
<1>1. Typed
  BY InitTyped, SMTT(30)
<1>2. LockHeld
  BY ShootdownAssumption, ZenonT(30) DEF Init, LockHeld
<1>3. Owing = {} /\ ipi = {}
  BY DEF Init, Owing, Handlers
<1>4. AcksOwed
  BY <1>3 DEF Init, AcksOwed
<1>5. StaleReached
  BY DEF Init, StaleReached, Stale
<1> QED
  BY <1>1, <1>2, <1>4, <1>5 DEF IInv

INSTANCE FiniteSetTheorems

LEMMA CpusCounted == CpusCount
<1> SUFFICES ASSUME NEW S \in SUBSET Cpus
             PROVE  /\ Cardinality(S) \in Nat /\ Cardinality(S) <= Cardinality(Cpus)
                    /\ Cardinality(S) = 0 <=> S = {}
                    /\ \A c \in S : Cardinality(S \ {c}) = Cardinality(S) - 1
  BY DEF CpusCount
<1>1. IsFiniteSet(S) /\ Cardinality(S) <= Cardinality(Cpus)
  BY ShootdownAssumption, FS_Subset
<1>2. Cardinality(S) \in Nat /\ (Cardinality(S) = 0 <=> S = {})
  BY <1>1, FS_CardinalityType, FS_EmptySet
<1>3. \A c \in S : Cardinality(S \ {c}) = Cardinality(S) - 1
  BY <1>1, FS_RemoveElement
<1> QED
  BY <1>1, <1>2, <1>3

LEMMA NextIInv == IInv /\ [Next]_vars => IInv'
<1> SUFFICES ASSUME IInv, [Next]_vars PROVE IInv'
  OBVIOUS
<1>1. CASE Next
  BY <1>1, CpusCounted, StepOfCpu, NextTyped, NextLock, NextAcks, NextStale DEF IInv
<1>2. CASE UNCHANGED vars
  <2>1. Typed' /\ late' = late
    BY <1>2 DEF vars, IInv, Typed
  <2>2. LockHeld => LockHeld'
    BY <1>2, SMTT(30) DEF vars, LockHeld
  <2>3. AcksOwed => AcksOwed'
    BY <1>2, SMTT(30) DEF vars, AcksOwed, Owing, Handlers
  <2>4. StaleReached => StaleReached'
    BY <1>2, SMTT(30) DEF vars, StaleReached, Stale, Reaches
  <2> QED
    BY <2>1, <2>2, <2>3, <2>4, SMTT(30) DEF IInv
<1> QED
  BY <1>1, <1>2

LEMMA IInvStale == IInv => StaleOnlyDuringCall
BY DEF IInv, StaleReached, StaleOnlyDuringCall, Reaches, Inside

\* A CPU that the mask of its space names uses no translation that a finished call
\* took back (mmu_tlb_shootdown_target and mmu_tlb_ipi_handler), for any number of
\* CPUs, tasks, spaces and pages, as long as no call gave up waiting.
THEOREM ShootdownsComplete == Spec => []StaleOnlyDuringCall
<1>1. Init => IInv
  BY InitIInv
<1>2. IInv /\ [Next]_vars => IInv'
  BY NextIInv
<1>3. IInv => StaleOnlyDuringCall
  BY IInvStale
<1> QED
  BY <1>1, <1>2, <1>3, PTL DEF Spec
=============================================================================
