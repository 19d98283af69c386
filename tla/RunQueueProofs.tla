--------------------------- MODULE RunQueueProofs ---------------------------
(***************************************************************************)
(* For any number of CPUs and processes: no two CPUs run the same process, *)
(* with exits and kills at any moment.  The invariant CpuInv adds that a   *)
(* CPU idles only in its own idle process.  Then the steps of the run      *)
(* queue: it stays one circle, without fatal signals and, when a target    *)
(* that was found not to run stays off the CPUs, with them.                *)
(***************************************************************************)
EXTENDS Process, TLAPS

CpuTyped ==
    /\ current \in [Cpus -> Procs]
    /\ running_cpu \in [Procs -> Cpus \cup {NULL}]

UsersPlaced == \A c \in Cpus : \A p \in Users : current[c] = p <=> running_cpu[p] = c

IdlesAtHome == \A c \in Cpus : current[c] \in Idles => current[c] = idle_process[c]

CpuInv == CpuTyped /\ UsersPlaced /\ IdlesAtHome

-----------------------------------------------------------------------------

LEMMA IdleFacts ==
    /\ idle_process \in [Cpus -> Idles]
    /\ \A c, d \in Cpus : idle_process[c] = idle_process[d] => c = d
BY DEF idle_process, Idles

\* What a scan finds is in the set it looks for.
LEMMA FirstInSet ==
    ASSUME NEW S, NEW scan, FirstIn(S, scan) # NULL
    PROVE  FirstIn(S, scan) \in S
<1> DEFINE first == {n \in 0..Cardinality(Procs) :
                       scan[n] \in S /\ \A m \in 0..(n-1) : scan[m] \notin S}
<1>1. FirstIn(S, scan) = IF first = {} THEN NULL ELSE scan[CHOOSE n \in first : TRUE]
  BY DEF FirstIn
<1>2. first # {}
  BY <1>1
<1>3. (CHOOSE n \in first : TRUE) \in first
  BY <1>2
<1> HIDE DEF first
<1>4. FirstIn(S, scan) = scan[CHOOSE n \in first : TRUE]
  BY <1>1, <1>2
<1>5. \A n \in first : scan[n] \in S
  BY DEF first
<1> QED
  BY <1>3, <1>4, <1>5

\* process_schedule stays, goes idle, or switches to a process that no other
\* CPU runs.
LEMMA ChosenFacts ==
    ASSUME CpuInv, NEW c \in Cpus
    PROVE  \/ Chosen(c) = current[c]
           \/ Chosen(c) = idle_process[c]
           \/ Chosen(c) \in Schedulable(c)
<1>1. FirstIn(Schedulable(c), Scan(current[c], next[current[c]])) # NULL
        => FirstIn(Schedulable(c), Scan(current[c], next[current[c]])) \in Schedulable(c)
  BY FirstInSet
<1> QED
  BY <1>1 DEF Chosen

LEMMA SuccessorFacts ==
    ASSUME NEW c \in Cpus, NEW p \in Procs
    PROVE  Successor(c, p) = idle_process[c] \/ Successor(c, p) \in Schedulable(c) \ {p}
<1> DEFINE S == {q \in Schedulable(c) \ {p} : state[q] = "running"}
<1>1. FirstIn(S, Scan(next[p], next[p])) # NULL => FirstIn(S, Scan(next[p], next[p])) \in S
  BY FirstInSet
<1> QED
  BY <1>1 DEF Successor

\* A CPU that leaves the process p for n keeps the invariant.
LEMMA SwitchInv ==
    ASSUME CpuInv, NEW c \in Cpus, NEW n,
           n = idle_process[c] \/ n \in Schedulable(c), n # current[c],
           current' = [current EXCEPT ![c] = n],
           running_cpu' = [running_cpu EXCEPT ![current[c]] = NULL, ![n] = c]
    PROVE  CpuInv'
<1> DEFINE p == current[c]
<1>1. p \in Procs /\ n \in Procs /\ idle_process[c] \in Idles
  BY DEF CpuInv, CpuTyped, Schedulable, Procs, Idles
<1>2. n \in Idles => n = idle_process[c]
  BY DEF Schedulable
<1>3. CpuTyped'
  BY <1>1 DEF CpuInv, CpuTyped
<1>4. IdlesAtHome'
  BY <1>1, <1>2, IdleFacts DEF CpuInv, CpuTyped, IdlesAtHome
<1>5. UsersPlaced'
  <2> SUFFICES ASSUME NEW d \in Cpus, NEW u \in Users
               PROVE  (current[d] = u)' <=> (running_cpu[u] = d)'
    BY Zenon DEF UsersPlaced
  <2>1. u \in Procs
    BY DEF Procs
  <2>2. running_cpu'[u] = IF u = n THEN c ELSE IF u = p THEN NULL ELSE running_cpu[u]
    BY <1>1, <2>1 DEF CpuInv, CpuTyped
  <2>3. current'[d] = IF d = c THEN n ELSE current[d]
    BY DEF CpuInv, CpuTyped
  <2>4. current[d] = u <=> running_cpu[u] = d
    BY DEF CpuInv, UsersPlaced
  <2>5. u = n => running_cpu[u] = NULL
    <3> SUFFICES ASSUME u = n PROVE running_cpu[u] = NULL
      OBVIOUS
    <3>1. n \in Schedulable(c)
      BY <1>1, ProcessAssumption
    <3>2. running_cpu[u] \in {NULL, c}
      BY <3>1 DEF Schedulable
    <3>3. running_cpu[u] # c
      BY DEF CpuInv, UsersPlaced
    <3> QED
      BY <3>2, <3>3
  <2>6. u = p => running_cpu[u] = c
    BY DEF CpuInv, UsersPlaced
  <2>7. d # NULL /\ c # NULL
    BY ProcessAssumption
  <2> HIDE DEF p
  <2>8. CASE u = n
    BY <2>2, <2>3, <2>4, <2>5, <2>7, <2>8
  <2>9. CASE u # n /\ u = p
    BY <2>2, <2>3, <2>4, <2>6, <2>7, <2>9
  <2>10. CASE u # n /\ u # p
    <3>1. d = c => current[d] = p
      BY DEF p
    <3> QED
      BY <2>2, <2>3, <2>4, <2>10, <3>1
  <2> QED
    BY <2>8, <2>9, <2>10
<1> QED
  BY <1>3, <1>4, <1>5 DEF CpuInv

-----------------------------------------------------------------------------

LEMMA InitCpuInv == Init => CpuInv
<1> SUFFICES ASSUME Init PROVE CpuInv
  OBVIOUS
<1>1. CpuTyped
  BY IdleFacts DEF Init, CpuTyped, Procs
<1>2. UsersPlaced
  BY ProcessAssumption, IdleFacts DEF Init, UsersPlaced, Procs
<1>3. IdlesAtHome
  BY IdleFacts DEF Init, IdlesAtHome
<1> QED
  BY <1>1, <1>2, <1>3 DEF CpuInv

LEMMA NextCpuInv == CpuInv /\ [Next]_vars => CpuInv'
<1> SUFFICES ASSUME CpuInv, [Next]_vars PROVE CpuInv'
  OBVIOUS
<1> USE DEF sched
<1>1. CASE UNCHANGED <<current, running_cpu>>
  BY <1>1 DEF CpuInv, CpuTyped, UsersPlaced, IdlesAtHome
<1>2. ASSUME NEW c \in Cpus, process_schedule(c)
      PROVE  CpuInv'
  <2>1. CASE Chosen(c) = current[c]
    <3>1. UNCHANGED <<current, running_cpu>>
      BY <1>2, <2>1 DEF process_schedule, CpuInv, CpuTyped
    <3> QED
      BY <1>1, <3>1
  <2>2. CASE Chosen(c) # current[c]
    <3>1. /\ current' = [current EXCEPT ![c] = Chosen(c)]
          /\ running_cpu' = [running_cpu EXCEPT ![current[c]] = NULL, ![Chosen(c)] = c]
      BY <1>2, <2>2 DEF process_schedule
    <3> QED
      BY <2>2, <3>1, ChosenFacts, SwitchInv, Zenon
  <2> QED
    BY <2>1, <2>2
<1>3. ASSUME NEW c \in Cpus, NEW p \in Users, ExitSwitch(c, p)
      PROVE  CpuInv'
  <2>1. p = current[c] /\ p \in Procs /\ p \notin Idles
    BY <1>3, ProcessAssumption DEF ExitSwitch, Running, Procs
  <2>2. /\ current' = [current EXCEPT ![c] = Successor(c, p)]
        /\ running_cpu' = [running_cpu EXCEPT ![p] = NULL, ![Successor(c, p)] = c]
    BY <1>3 DEF ExitSwitch
  <2>3. Successor(c, p) = idle_process[c] \/ Successor(c, p) \in Schedulable(c) \ {p}
    BY <2>1, SuccessorFacts
  <2>4. Successor(c, p) # p
    BY <2>1, <2>3 DEF Idles
  <2> QED
    BY <2>1, <2>2, <2>3, <2>4, SwitchInv, Zenon
<1>4. ASSUME NEW c \in Cpus, ScheduleKilled(c)
      PROVE  UNCHANGED <<current, running_cpu>>
  BY <1>4 DEF ScheduleKilled
<1>5. ASSUME NEW c \in Cpus, NEW p \in Users, Syscall(c, p)
      PROVE  UNCHANGED <<current, running_cpu>>
  BY <1>5 DEF Syscall, process_duplicate, DevBlock, Exit, WaitPid
<1>6. ASSUME NEW c \in Cpus, NEW p \in Users, InKernel(c, p), ~ ExitSwitch(c, p)
      PROVE  UNCHANGED <<current, running_cpu>>
  BY <1>6 DEF InKernel, pid_table_insert, DevAdd, DevRemove, ExitCleanup, WaitFound, WaitReturns,
     WaitSleeps, WaitAdd, WaitBlock, WaitRemove, WaitReap
<1>7. DevWake \/ UNCHANGED vars => UNCHANGED <<current, running_cpu>>
  BY DEF DevWake, vars
<1>8. ASSUME NEW c \in Cpus, NEW p \in Users, Kill(c, p)
      PROVE  UNCHANGED <<current, running_cpu>>
  BY <1>8 DEF Kill, KillStart, KillScan, KillMark, KillCleanup, KillZombie, KillNotify, KillPut
<1> QED
  BY <1>1, <1>2, <1>3, <1>4, <1>5, <1>6, <1>7, <1>8 DEF Next, Peaceful

\* A process is current on one CPU at most, and running_cpu says on which: the
\* test of running_cpu under the run-queue lock in process_schedule, and in the
\* exit path, is enough to keep the CPUs apart.
THEOREM OneCpuPerProcess == Spec => []OneCpuEach
<1>1. CpuInv => OneCpuEach
  <2> SUFFICES ASSUME CpuInv,
                      NEW c \in Cpus, NEW d \in Cpus, current[c] = current[d]
               PROVE  c = d
    BY DEF CpuInv, UsersPlaced, OneCpuEach
  <2>1. CASE current[c] \in Users
    BY <2>1 DEF CpuInv, UsersPlaced
  <2>2. CASE current[c] \in Idles
    BY <2>2, IdleFacts DEF CpuInv, IdlesAtHome
  <2> QED
    BY <2>1, <2>2 DEF CpuInv, CpuTyped, Procs
<1> QED
  BY <1>1, InitCpuInv, NextCpuInv, PTL DEF Spec

-----------------------------------------------------------------------------
(* The run queue and the references.  What the steps rely on: a process that *)
(* is not born is nowhere, a dead one is off every CPU, and a call that      *)
(* reaps a child keeps its CPU and is the only one that may.                 *)

One(b) == IF b THEN 1 ELSE 0
Is(u, x) == IF u = x THEN 1 ELSE 0

Born == {p \in Procs : state[p] # "none"}

Lively ==
    /\ \A p \in Procs : state[p] = "zombie" => p \in exited
    /\ exited \subseteq Born /\ wait_exit \subseteq Born /\ dev_q \subseteq Born /\ table \subseteq Born
    /\ \A i \in Idles : state[i] = "running" /\ parent[i] = NULL
    /\ \A c \in Cpus : current[c] \in Born \ exited

Ring == Linked = Born \ exited /\ IsRing(next, Linked)

\* The places where a call works on another process, waitpid apart.
Targeting == {"insert", "kill_scan", "kill_mark", "kill_cleanup", "kill_zombie", "kill_notify", "kill_put"}

Referring ==
    /\ \A q \in Users : target[q] # NULL => target[q] \in Born
    /\ \A c \in Cpus : free_later[c] # NULL => free_later[c] \in Born
    /\ \A p \in Users : pc[p] = "exit_switch" => p \in Born
    /\ \A p \in Users : pc[p] \in Targeting => target[p] # NULL
    /\ \A p \in Users : pc[p] = "wait_reap" => target[p] \in table \cap Users /\ parent[target[p]] = p

Reaping == \A p \in Users : pc[p] = "wait_reap" => \E c \in Cpus : current[c] = p

QueueInv == TypeOK /\ CpuInv /\ Lively /\ Ring /\ Referring /\ Reaping /\ ReferencesCounted

\* A process that is linked behind p joins the circle.
LEMMA RingGrows ==
    ASSUME NEW f, NEW S, IsRing(f, S), NEW p \in S, NEW x, x \notin S,
           NEW g, \A q \in S \ {p} : g[q] = f[q], g[p] = x, g[x] = f[p]
    PROVE  IsRing(g, S \cup {x})
<1>1. \A q \in S : f[q] \in S
  BY DEF IsRing
<1>2. \A q \in S \cup {x} : g[q] \in S \cup {x}
  BY <1>1
<1>3. ASSUME NEW T \in SUBSET (S \cup {x}), T # {}, \A q \in T : g[q] \in T
      PROVE  T = S \cup {x}
  <2> DEFINE U == T \ {x}
  <2>1. U \subseteq S
    OBVIOUS
  <2>2. U # {}
    BY <1>1, <1>3
  <2>3. ASSUME NEW q \in U
        PROVE  f[q] \in U
    <3>1. CASE q = p
      BY <1>1, <1>3, <2>1, <3>1
    <3>2. CASE q # p
      BY <1>1, <1>3, <2>1, <3>2
    <3> QED
      BY <3>1, <3>2
  <2> HIDE DEF U
  <2>4. U = S
    BY <2>1, <2>2, <2>3 DEF IsRing
  <2>5. x \in T
    BY <1>3, <2>4 DEF U
  <2> QED
    BY <2>4, <2>5 DEF U
<1> QED
  BY <1>2, <1>3 DEF IsRing

\* The circle closes over a process that is taken out.
LEMMA RingShrinks ==
    ASSUME NEW f, NEW S, IsRing(f, S), NEW p \in S, S # {p},
           NEW g, \A q \in S \ {p} : g[q] = IF f[q] = p THEN f[p] ELSE f[q]
    PROVE  IsRing(g, S \ {p})
<1>1. \A q \in S : f[q] \in S
  BY DEF IsRing
<1>2. f[p] # p
  <2> SUFFICES ASSUME f[p] = p PROVE FALSE
    OBVIOUS
  <2> DEFINE T == {p}
  <2>1. T \in SUBSET S /\ T # {} /\ \A q \in T : f[q] \in T
    OBVIOUS
  <2> HIDE DEF T
  <2>2. T = S
    BY <2>1 DEF IsRing
  <2> QED
    BY <2>2 DEF T
<1>3. \A q \in S \ {p} : g[q] \in S \ {p}
  BY <1>1, <1>2
<1>4. ASSUME NEW T \in SUBSET (S \ {p}), T # {}, \A q \in T : g[q] \in T
      PROVE  T = S \ {p}
  <2>1. CASE \A q \in T : f[q] # p
    <3>1. T \in SUBSET S /\ \A q \in T : f[q] \in T
      BY <1>4, <2>1
    <3> QED
      BY <1>4, <3>1 DEF IsRing
  <2>2. CASE \E q \in T : f[q] = p
    <3> DEFINE U == T \cup {p}
    <3>1. U \in SUBSET S /\ U # {}
      OBVIOUS
    <3>2. \A q \in U : f[q] \in U
      BY <1>4, <2>2
    <3> HIDE DEF U
    <3>3. U = S
      BY <3>1, <3>2 DEF IsRing
    <3> QED
      BY <3>3 DEF U
  <2> QED
    BY <2>1, <2>2
<1> QED
  BY <1>3, <1>4 DEF IsRing

\* On a circle the walk of runqueue_unlink_locked finds the process before p.
LEMMA UnlinkedIs ==
    ASSUME NEW p \in Linked, IsRing(next, Linked), NEW q \in Procs
    PROVE  Unlinked(p)[q] = IF q = p THEN NULL ELSE IF next[q] = p THEN next[p] ELSE next[q]
<1>1. ASSUME q # p, next[q] = p
      PROVE  q \in Met(p)
  <2>1. ASSUME NEW S \in SUBSET Procs, next[p] \in S,
               \A x \in S : next[x] \notin {p, NULL} => next[x] \in S
        PROVE  q \in S
    <3> DEFINE T == (S \cap Linked) \cup {p}
    <3>1. \A x \in Linked : next[x] \in Linked /\ next[x] # NULL
      BY DEF IsRing, Linked
    <3>2. T \in SUBSET Linked /\ T # {}
      OBVIOUS
    <3>3. \A x \in T : next[x] \in T
      BY <2>1, <3>1
    <3> HIDE DEF T
    <3>4. T = Linked
      BY <3>2, <3>3 DEF IsRing
    <3>5. q \in Linked
      BY <1>1, ProcessAssumption DEF Linked
    <3> QED
      BY <1>1, <3>4, <3>5 DEF T
  <2>2. next[p] # NULL
    BY DEF Linked
  <2> QED
    BY <2>1, <2>2 DEF Met
<1> QED
  BY <1>1 DEF Unlinked

\* A call that reaps a child runs on: it does not reschedule before it is done.
LEMMA ReapingStep ==
    ASSUME TypeOK, Reaping, Next
    PROVE  Reaping'
<1>1. ASSUME NEW c \in Cpus, NEW p, current[c] = p, UNCHANGED current, NEW l, pc' = [pc EXCEPT ![p] = l]
      PROVE  Reaping'
  BY <1>1 DEF Reaping, TypeOK, Procs
<1>2. ASSUME NEW c \in Cpus, NEW n, current' = [current EXCEPT ![c] = n],
             pc[current[c]] # "wait_reap", NEW l, l # "wait_reap", pc' = [pc EXCEPT ![current[c]] = l]
      PROVE  Reaping'
  <2> SUFFICES ASSUME NEW q \in Users, pc'[q] = "wait_reap"
               PROVE  \E d \in Cpus : current'[d] = q
    BY DEF Reaping
  <2>1. q # current[c] /\ pc[q] = "wait_reap"
    BY <1>2 DEF TypeOK, Procs
  <2>2. PICK d \in Cpus : current[d] = q
    BY <2>1 DEF Reaping
  <2>3. current'[d] = q
    BY <1>2, <2>1, <2>2 DEF TypeOK
  <2> QED
    BY <2>3
<1>3. ASSUME NEW c \in Cpus, process_schedule(c)
      PROVE  Reaping'
  <2>1. /\ current' = [current EXCEPT ![c] = Chosen(c)] /\ pc' = [pc EXCEPT ![current[c]] = Resumed(current[c])]
        /\ pc[current[c]] # "wait_reap" /\ Resumed(current[c]) # "wait_reap"
    BY <1>3 DEF process_schedule, MayReschedule, Resumed
  <2> QED
    BY <1>2, <2>1, Zenon
<1>4. ASSUME NEW c \in Cpus, NEW p \in Users, ExitSwitch(c, p)
      PROVE  Reaping'
  <2>1. /\ p = current[c] /\ current' = [current EXCEPT ![c] = Successor(c, p)]
        /\ pc' = [pc EXCEPT ![p] = "dead"] /\ pc[p] # "wait_reap"
    BY <1>4 DEF ExitSwitch, Running
  <2> QED
    BY <1>2, <2>1, Zenon
<1>5. ASSUME NEW c \in Cpus, ScheduleKilled(c)
      PROVE  Reaping'
  BY <1>1, <1>5, Zenon DEF ScheduleKilled, sched
<1>6. ASSUME NEW c \in Cpus, NEW p \in Users, Syscall(c, p)
      PROVE  Reaping'
  BY <1>1, <1>6 DEF Syscall, process_duplicate, DevBlock, Exit, WaitPid, Running, sched
<1>7. ASSUME NEW c \in Cpus, NEW p \in Users, InKernel(c, p), ~ ExitSwitch(c, p)
      PROVE  Reaping'
  <2>1. current[c] = p /\ UNCHANGED current /\ \E l : pc' = [pc EXCEPT ![p] = l]
    BY <1>7 DEF InKernel, pid_table_insert, DevAdd, DevRemove, ExitCleanup, WaitFound, WaitReturns,
       WaitSleeps, WaitAdd, WaitBlock, WaitRemove, WaitReap, Return, Running, sched
  <2> QED
    BY <1>1, <2>1, Zenon
<1>8. ASSUME NEW c \in Cpus, NEW p \in Users, Kill(c, p)
      PROVE  Reaping'
  <2>1. current[c] = p /\ UNCHANGED current /\ \E l : pc' = [pc EXCEPT ![p] = l]
    BY <1>8 DEF Kill, KillStart, KillScan, KillMark, KillCleanup, KillZombie, KillNotify, KillPut, Return,
       Running, sched
  <2> QED
    BY <1>1, <2>1, Zenon
<1>9. CASE DevWake
  BY <1>9 DEF DevWake, Reaping
<1> QED
  BY <1>3, <1>4, <1>5, <1>6, <1>7, <1>8, <1>9 DEF Next, Peaceful

-----------------------------------------------------------------------------
(* The types. *)

States == {"none", "running", "blocked", "zombie"}

\* States that differ from the present ones by wake-ups and blocks alone.
Gentle(st) ==
    /\ st \in [Procs -> States]
    /\ \A p \in Procs : (st[p] = "none" <=> state[p] = "none") /\ (st[p] = "zombie" => state[p] = "zombie")
    /\ \A i \in Idles : st[i] = state[i]

LEMMA UserFacts == Users \subseteq Procs /\ Idles \subseteq Procs /\ init \in Users /\ \A p \in Users : p \notin Idles /\ p # NULL
BY ProcessAssumption DEF Procs

LEMMA GentleFacts ==
    ASSUME TypeOK, Lively
    PROVE  /\ Gentle(state)
           /\ Gentle(Woken(dev_q))
           /\ \A p : Gentle(ReparentWakes(p))
           /\ \A p \in Users \cap Born : Gentle([state EXCEPT ![p] = "blocked"])
<1>1. Gentle(state)
  BY DEF Gentle, TypeOK, States
<1>2. ASSUME NEW W \in SUBSET (Users \cap Born)
      PROVE  Gentle(Woken(W))
  BY <1>1, UserFacts DEF Gentle, Woken, States, Born
<1>3. dev_q \in SUBSET (Users \cap Born) /\ (init \in wait_exit => {init} \in SUBSET (Users \cap Born))
  BY DEF TypeOK, Lively
<1>4. ASSUME NEW p
      PROVE  Gentle(ReparentWakes(p))
  BY <1>1, <1>2, <1>3 DEF ReparentWakes
<1>5. ASSUME NEW p \in Users \cap Born
      PROVE  Gentle([state EXCEPT ![p] = "blocked"])
  BY <1>1, UserFacts DEF Gentle, States, Born
<1> QED
  BY <1>1, <1>2, <1>3, <1>4, <1>5

\* The states after the death of p, of which r is told.
Dead(p, r) == Told([state EXCEPT ![p] = "zombie"], r)

LEMMA ToldFacts ==
    ASSUME TypeOK, Lively, NEW p \in Users, p \in Born, NEW r \in Users, NEW st, st = Dead(p, r)
    PROVE  /\ st \in [Procs -> States]
           /\ \A q \in Procs : st[q] = "none" <=> state[q] = "none"
           /\ \A q \in Procs : st[q] = "zombie" => q = p \/ state[q] = "zombie"
           /\ \A i \in Idles : st[i] = state[i]
<1> DEFINE dead == [state EXCEPT ![p] = "zombie"]
<1>1. /\ dead \in [Procs -> States]
      /\ \A q \in Procs : dead[q] = IF q = p THEN "zombie" ELSE state[q]
  BY UserFacts DEF TypeOK, States
<1>2. \A q \in Procs : st[q] = IF q = r /\ (r \in wait_exit \/ dead[r] = "blocked") THEN "running" ELSE dead[q]
  BY <1>1, UserFacts DEF Told, Dead
<1>3. st \in [Procs -> States]
  BY <1>1, <1>2, UserFacts DEF Told, Dead, States
<1>4. wait_exit \subseteq Born
  BY DEF Lively
<1> HIDE DEF dead
<1>5. \A q \in Procs : st[q] = "none" <=> state[q] = "none"
  BY <1>1, <1>2, <1>4, UserFacts DEF Born
<1>6. \A q \in Procs : st[q] = "zombie" => q = p \/ state[q] = "zombie"
  BY <1>1, <1>2
<1>7. \A i \in Idles : st[i] = state[i]
  BY <1>1, <1>2, UserFacts
<1> QED
  BY <1>3, <1>5, <1>6, <1>7

LEMMA PcFacts ==
    ASSUME TypeOK, NEW p \in Procs
    PROVE  /\ Return(p) \in [Procs -> Pcs]
           /\ \A l \in Pcs : [pc EXCEPT ![p] = l] \in [Procs -> Pcs]
           /\ Resumed(p) \in Pcs
BY DEF TypeOK, Return, Resumed, Pcs

\* A child that waitpid may find is a user process.
LEMMA ChildrenFacts ==
    ASSUME TypeOK, Lively, NEW p \in Users
    PROVE  Children(p) \subseteq table \cap Users /\ \A z \in Children(p) : parent[z] = p
<1>1. \A q \in table : q \in Procs /\ (q \in Idles => parent[q] = NULL)
  BY DEF TypeOK, Lively
<1> QED
  BY <1>1, UserFacts DEF Children, Procs

LEMMA ParentFacts ==
    ASSUME TypeOK, NEW p
    PROVE  ReparentedTo(p) \in [Procs -> Users \cup {NULL}]
BY UserFacts DEF TypeOK, ReparentedTo

LEMMA TypeStep ==
    ASSUME QueueInv, Peaceful
    PROVE  TypeOK'
<1> USE DEF States
<1>0. TypeOK /\ Lively /\ Referring
  BY DEF QueueInv
<1>1. ASSUME NEW c \in Cpus, process_schedule(c)
      PROVE  TypeOK'
  <2> DEFINE p == current[c]
  <2>1. p \in Procs /\ Chosen(c) \in Procs
    BY <1>0, ChosenFacts, IdleFacts, UserFacts DEF QueueInv, TypeOK, Schedulable
  <2>2. refcount' \in [Procs -> Int]
    BY <1>0, <1>1, UserFacts DEF process_schedule, Put, TypeOK
  <2>3. pc' \in [Procs -> Pcs]
    BY <1>0, <1>1, <2>1, PcFacts DEF process_schedule
  <2>4. running_cpu' \in [Procs -> Cpus \cup {NULL}]
    BY <1>0, <1>1, <2>1 DEF process_schedule, TypeOK
  <2> HIDE DEF p
  <2> QED
    BY <1>0, <1>1, <2>1, <2>2, <2>3, <2>4 DEF process_schedule, TypeOK, queues
<1>2. ASSUME NEW c \in Cpus, NEW p \in Users, process_duplicate(c, p)
      PROVE  TypeOK'
  <2>1. PICK child \in Users :
          /\ state' = [state EXCEPT ![child] = "running"]
          /\ refcount' = [refcount EXCEPT ![child] = 1]
          /\ parent' = [parent EXCEPT ![child] = p]
          /\ next' = [next EXCEPT ![child] = next[p], ![p] = child]
          /\ target' = [target EXCEPT ![p] = child]
    BY <1>2, Zenon DEF process_duplicate
  <2>2. pc' \in [Procs -> Pcs]
    BY <1>0, <1>2, PcFacts, UserFacts DEF process_duplicate, Pcs
  <2>3. UNCHANGED <<current, running_cpu, kill_pending, exited, free_later, table, wait_exit, dev_q>>
    BY <1>2 DEF process_duplicate, queues
  <2>4. next' \in [Procs -> Procs \cup {NULL}]
    BY <1>0, <2>1, UserFacts DEF TypeOK
  <2>5. /\ state' \in [Procs -> States] /\ refcount' \in [Procs -> Int]
        /\ parent' \in [Procs -> Users \cup {NULL}] /\ target' \in [Procs -> Users \cup {NULL}]
    BY <1>0, <2>1, UserFacts DEF TypeOK
  <2> QED
    BY <1>0, <2>2, <2>3, <2>4, <2>5 DEF TypeOK
<1>3. ASSUME NEW c \in Cpus, NEW p \in Users, DevBlock(c, p)
      PROVE  TypeOK'
  BY <1>0, <1>3, UserFacts DEF DevBlock, TypeOK, life, queues, Pcs
<1>4. ASSUME NEW c \in Cpus, NEW p \in Users, Exit(c, p) \/ WaitPid(c, p) \/ WaitSleeps(c, p)
      PROVE  TypeOK'
  BY <1>0, <1>4, UserFacts DEF Exit, WaitPid, WaitSleeps, TypeOK, sched, life, queues, Pcs
<1>5. ASSUME NEW c \in Cpus, NEW p \in Users, pid_table_insert(c, p)
      PROVE  TypeOK'
  <2>1. pc' \in [Procs -> Pcs]
    BY <1>0, <1>5, PcFacts, UserFacts DEF pid_table_insert
  <2>2. target[p] \in Users
    BY <1>0, <1>5, UserFacts DEF pid_table_insert, Referring, Targeting, TypeOK
  <2> QED
    BY <1>0, <1>5, <2>1, <2>2, UserFacts, ZenonT(40) DEF pid_table_insert, TypeOK, sched, queues
<1>6. ASSUME NEW c \in Cpus, NEW p \in Users, DevAdd(c, p) \/ WaitAdd(c, p) \/ WaitRemove(c, p)
      PROVE  TypeOK'
  BY <1>0, <1>6, UserFacts DEF DevAdd, WaitAdd, WaitRemove, TypeOK, sched, life, Pcs
<1>7. ASSUME NEW c \in Cpus, NEW p \in Users, DevRemove(c, p) \/ WaitReturns(c, p)
      PROVE  TypeOK'
  <2>1. pc' \in [Procs -> Pcs]
    BY <1>0, <1>7, PcFacts, UserFacts DEF DevRemove, WaitReturns
  <2> QED
    BY <1>0, <1>7, <2>1 DEF DevRemove, WaitReturns, TypeOK, sched, life, queues
<1>8. ASSUME NEW c \in Cpus, NEW p \in Users, ExitCleanup(c, p)
      PROVE  TypeOK'
  <2>1. state' \in [Procs -> States] /\ parent' \in [Procs -> Users \cup {NULL}]
    BY <1>0, <1>8, GentleFacts, ParentFacts DEF ExitCleanup, Gentle
  <2>2. refcount' \in [Procs -> Int]
    BY <1>0, <1>8, UserFacts DEF ExitCleanup, Hold, TypeOK
  <2> QED
    BY <1>0, <1>8, <2>1, <2>2, UserFacts, Zenon DEF ExitCleanup, TypeOK, queues, Pcs
<1>9. ASSUME NEW c \in Cpus, NEW p \in Users, ExitSwitch(c, p)
      PROVE  TypeOK'
  <2>1. p \in Born /\ p \in Procs /\ Notified(p) \in Users
    BY <1>0, <1>9, UserFacts DEF ExitSwitch, Running, Lively, Notified, TypeOK
  <2>2. state' \in [Procs -> States]
    <3>1. state' = Dead(p, Notified(p))
      BY <1>9 DEF ExitSwitch, Dead
    <3> QED
      BY <1>0, <2>1, <3>1, ToldFacts
  <2>3. Successor(c, p) \in Procs
    BY <2>1, SuccessorFacts, IdleFacts, UserFacts DEF Schedulable
  <2>4. next' \in [Procs -> Procs \cup {NULL}]
    BY <1>0, <1>9, <2>1 DEF ExitSwitch, Unlinked, TypeOK
  <2>5. running_cpu' \in [Procs -> Cpus \cup {NULL}] /\ current' \in [Cpus -> Procs]
    BY <1>0, <1>9, <2>1, <2>3 DEF ExitSwitch, TypeOK
  <2> QED
    BY <1>0, <1>9, <2>1, <2>2, <2>4, <2>5, ZenonT(40) DEF ExitSwitch, TypeOK, queues, Pcs
<1>10. ASSUME NEW c \in Cpus, NEW p \in Users, WaitFound(c, p)
       PROVE  TypeOK'
  <2>1. PICK z \in Users : refcount' = Hold(refcount, z) /\ target' = [target EXCEPT ![p] = z]
    BY <1>0, <1>10, ChildrenFacts, ZenonT(40) DEF WaitFound, Zombies
  <2>2. refcount' \in [Procs -> Int]
    BY <1>0, <2>1, UserFacts DEF Hold, TypeOK
  <2> QED
    BY <1>0, <1>10, <2>1, <2>2, UserFacts, Zenon DEF WaitFound, TypeOK, sched, queues, Pcs
<1>11. ASSUME NEW c \in Cpus, NEW p \in Users, WaitBlock(c, p)
       PROVE  TypeOK'
  BY <1>0, <1>11, UserFacts DEF WaitBlock, TypeOK, life, queues, Pcs
<1>12. ASSUME NEW c \in Cpus, NEW p \in Users, WaitReap(c, p)
       PROVE  TypeOK'
  <2>1. pc' \in [Procs -> Pcs]
    BY <1>0, <1>12, PcFacts, UserFacts DEF WaitReap
  <2>2. refcount' \in [Procs -> Int]
    BY <1>0, <1>12, UserFacts DEF WaitReap, Put, TypeOK
  <2> QED
    BY <1>0, <1>12, <2>1, <2>2, Zenon DEF WaitReap, TypeOK, sched, queues
<1>13. CASE DevWake
  <2>1. state' \in [Procs -> States]
    BY <1>0, <1>13, GentleFacts DEF DevWake, Gentle
  <2> QED
    BY <1>0, <1>13, <2>1 DEF DevWake, TypeOK, life, queues
<1> QED
  BY <1>1, <1>2, <1>3, <1>4, <1>5, <1>6, <1>7, <1>8, <1>9, <1>10, <1>11, <1>12, <1>13
     DEF Peaceful, Syscall, InKernel

-----------------------------------------------------------------------------
(* The run queue. *)

\* Steps that only wake or block processes leave the circle alone.
LEMMA QuietQueue ==
    ASSUME QueueInv, Gentle(state'), UNCHANGED <<next, exited>>,
           wait_exit' \subseteq Born, dev_q' \subseteq Born, table' \subseteq Born,
           \A i \in Idles : parent'[i] = NULL, \A c \in Cpus : current'[c] \in Born \ exited
    PROVE  Lively' /\ Ring'
<1>1. Lively /\ Ring
  BY DEF QueueInv
<1>2. Born' = Born
  BY DEF Born, Gentle
<1>3. Lively'
  BY <1>1, <1>2 DEF Lively, Gentle
<1>4. Linked' = Linked
  BY DEF Linked
<1>5. IsRing(next', Linked')
  BY <1>1, <1>4 DEF Ring
<1> QED
  BY <1>1, <1>2, <1>3, <1>4, <1>5 DEF Ring

\* fork links the child behind its parent.
LEMMA ForkQueue ==
    ASSUME QueueInv, NEW c \in Cpus, NEW p \in Users, process_duplicate(c, p)
    PROVE  Lively' /\ Ring'
<1>1. TypeOK /\ Lively /\ Ring
  BY DEF QueueInv
<1>2. PICK child \in Users :
        /\ state[child] = "none"
        /\ state' = [state EXCEPT ![child] = "running"]
        /\ parent' = [parent EXCEPT ![child] = p]
        /\ next' = [next EXCEPT ![child] = next[p], ![p] = child]
  BY ZenonT(40) DEF process_duplicate
<1>3. UNCHANGED <<current, exited, table, wait_exit, dev_q>>
  BY DEF process_duplicate, queues
<1>4. p \in Linked /\ p \in Procs /\ child \in Procs /\ child \notin Born /\ child \notin exited /\ child # p
  BY <1>1, <1>2, UserFacts DEF process_duplicate, Running, Lively, Ring, Born
<1>5. child \notin Linked
  BY <1>1, <1>4 DEF Ring
<1>6. \A q \in Procs : state'[q] = IF q = child THEN "running" ELSE state[q]
  BY <1>1, <1>2, <1>4 DEF TypeOK
<1>7. Born' = Born \cup {child}
  BY <1>4, <1>6 DEF Born
<1>8. Lively'
  <2>1. \A i \in Idles : state'[i] = "running" /\ parent'[i] = NULL
    BY <1>1, <1>2, <1>6, UserFacts DEF Lively, TypeOK
  <2>2. \A q \in Procs : state'[q] = "zombie" => q \in exited'
    BY <1>1, <1>3, <1>6 DEF Lively
  <2> QED
    BY <1>1, <1>3, <1>7, <2>1, <2>2, <1>4, ZenonT(40) DEF Lively
<1>9. \A q \in Procs : next'[q] = IF q = p THEN child ELSE IF q = child THEN next[p] ELSE next[q]
  BY <1>1, <1>2, <1>4 DEF TypeOK
<1>10. next[p] # NULL /\ child # NULL
  BY <1>4, UserFacts DEF Linked
<1>11. Linked' = Linked \cup {child}
  BY <1>4, <1>9, <1>10 DEF Linked
<1>12. \A q \in Linked \ {p} : next'[q] = next[q]
  BY <1>5, <1>9 DEF Linked
<1>13. IsRing(next', Linked')
  <2>1. next'[p] = child /\ next'[child] = next[p] /\ IsRing(next, Linked)
    BY <1>1, <1>4, <1>9 DEF Ring
  <2> QED
    BY <1>4, <1>5, <1>11, <1>12, <2>1, RingGrows
<1> QED
  BY <1>1, <1>3, <1>4, <1>7, <1>8, <1>11, <1>13 DEF Ring

\* A process that dies off the CPUs, or leaves its CPU, is taken out.
LEMMA DeathQueue ==
    ASSUME QueueInv, NEW c \in Cpus, NEW p \in Users, p \in Born \ exited,
           exited' = exited \cup {p}, next' = Unlinked(p), UNCHANGED <<table, parent, wait_exit, dev_q>>,
           \A q \in Procs : state'[q] = "none" <=> state[q] = "none",
           \A q \in Procs : state'[q] = "zombie" => q = p \/ state[q] = "zombie",
           \A i \in Idles : state'[i] = state[i],
           \A d \in Cpus : current'[d] \in Born \ exited /\ current'[d] # p
    PROVE  Lively' /\ Ring'
<1>1. TypeOK /\ Lively /\ Ring
  BY DEF QueueInv
<1>2. Born' = Born
  BY DEF Born
<1>3. Lively'
  <2>1. \A q \in Procs : state'[q] = "zombie" => q \in exited'
    BY <1>1 DEF Lively
  <2>2. exited' \subseteq Born /\ wait_exit' \subseteq Born /\ dev_q' \subseteq Born /\ table' \subseteq Born
    BY <1>1 DEF Lively
  <2>3. \A i \in Idles : state'[i] = "running" /\ parent'[i] = NULL
    BY <1>1 DEF Lively
  <2>4. \A d \in Cpus : current'[d] \in Born \ exited'
    OBVIOUS
  <2> QED
    BY <1>2, <2>1, <2>2, <2>3, <2>4 DEF Lively
<1>4. p \in Linked /\ idle_process[c] \in Linked /\ idle_process[c] # p
  <2>1. p \in Linked
    BY <1>1 DEF Ring
  <2>2. idle_process[c] \in Idles /\ idle_process[c] \in Procs
    BY IdleFacts, UserFacts
  <2>3. state[idle_process[c]] = "running" /\ idle_process[c] \notin exited
    BY <1>1, <2>2, UserFacts DEF Lively, TypeOK
  <2>4. idle_process[c] \in Linked
    BY <1>1, <2>2, <2>3, ZenonT(40) DEF Ring, Born
  <2> QED
    BY <2>1, <2>2, <2>4, UserFacts
<1>5. \A q \in Procs : next'[q] = IF q = p THEN NULL ELSE IF next[q] = p THEN next[p] ELSE next[q]
  <2>1. IsRing(next, Linked)
    BY <1>1 DEF Ring
  <2>2. \A q \in Procs : Unlinked(p)[q] = IF q = p THEN NULL ELSE IF next[q] = p THEN next[p] ELSE next[q]
    BY <1>4, <2>1, UnlinkedIs
  <2> QED
    BY <2>2
<1>6. next[p] # NULL
  BY <1>4 DEF Linked
<1>7. Linked' = Linked \ {p}
  BY <1>5, <1>6, UserFacts DEF Linked
<1>8. \A q \in Linked \ {p} : next'[q] = IF next[q] = p THEN next[p] ELSE next[q]
  BY <1>5 DEF Linked
<1>9. IsRing(next', Linked')
  <2>1. IsRing(next, Linked) /\ Linked # {p}
    BY <1>1, <1>4 DEF Ring
  <2> QED
    BY <1>4, <1>7, <1>8, <2>1, RingShrinks
<1> QED
  BY <1>1, <1>2, <1>3, <1>7, <1>9 DEF Ring

\* exit: the CPU of the process goes to one that lives.
LEMMA ExitQueue ==
    ASSUME QueueInv, NEW c \in Cpus, NEW p \in Users, ExitSwitch(c, p)
    PROVE  Lively' /\ Ring'
<1> DEFINE n == Successor(c, p)
<1>1. TypeOK /\ CpuInv /\ Lively
  BY DEF QueueInv
<1>2. /\ exited' = exited \cup {p} /\ state' = Dead(p, Notified(p))
      /\ next' = Unlinked(p) /\ current' = [current EXCEPT ![c] = n]
      /\ UNCHANGED <<table, parent, wait_exit, dev_q>> /\ current[c] = p
  BY DEF ExitSwitch, queues, Running, Dead
<1>3. p \in Procs /\ p \in Born \ exited /\ Notified(p) \in Users
  BY <1>1, <1>2, UserFacts DEF Lively, Notified, TypeOK
<1>4. /\ \A q \in Procs : state'[q] = "none" <=> state[q] = "none"
      /\ \A q \in Procs : state'[q] = "zombie" => q = p \/ state[q] = "zombie"
      /\ \A i \in Idles : state'[i] = state[i]
  BY <1>1, <1>2, <1>3, ToldFacts
<1>5. n \in Born \ exited /\ n # p
  <2>1. n = idle_process[c] \/ n \in Schedulable(c) \ {p}
    BY <1>3, SuccessorFacts
  <2>2. CASE n = idle_process[c]
    BY <1>1, <2>2, IdleFacts, UserFacts DEF Lively, Born, TypeOK
  <2>3. CASE n \in Schedulable(c) \ {p}
    <3>1. n \in Procs /\ n \notin exited /\ (n \in Idles \/ state[n] = "running")
      BY <2>3, Zenon DEF Schedulable
    <3> QED
      BY <1>1, <2>3, <3>1 DEF Lively, Born
  <2> QED
    BY <2>1, <2>2, <2>3
<1> HIDE DEF n
<1>6. ASSUME NEW d \in Cpus
      PROVE  current'[d] \in Born \ exited /\ current'[d] # p
  <2>1. CASE d = c
    BY <1>1, <1>2, <1>5, <2>1 DEF TypeOK
  <2>2. CASE d # c
    <3>1. current'[d] = current[d]
      BY <1>1, <1>2, <2>2 DEF TypeOK
    <3>2. current[d] # p
      BY <1>1, <1>2, <2>2 DEF CpuInv, UsersPlaced
    <3> QED
      BY <1>1, <3>1, <3>2 DEF Lively
  <2> QED
    BY <2>1, <2>2
<1> QED
  BY <1>2, <1>3, <1>4, <1>6, DeathQueue

LEMMA QueueStep ==
    ASSUME QueueInv, Peaceful
    PROVE  Lively' /\ Ring'
<1>0. TypeOK /\ Lively /\ CpuInv /\ Referring
  BY DEF QueueInv
<1>1. ASSUME Gentle(state'), UNCHANGED <<next, exited, current, parent>>,
             wait_exit' \subseteq Born, dev_q' \subseteq Born, table' \subseteq Born
      PROVE  Lively' /\ Ring'
  <2>1. (\A i \in Idles : parent'[i] = NULL) /\ \A c \in Cpus : current'[c] \in Born \ exited
    BY <1>0, <1>1, Zenon DEF Lively
  <2> QED
    BY <1>1, <2>1, QuietQueue
<1>2. wait_exit \subseteq Born /\ dev_q \subseteq Born /\ table \subseteq Born
  BY <1>0 DEF Lively
<1>3. Gentle(state)
  BY <1>0, GentleFacts
<1>4. ASSUME NEW c \in Cpus, NEW p \in Users, current[c] = p
      PROVE  p \in Born /\ Gentle([state EXCEPT ![p] = "blocked"])
  <2>1. p \in Born
    BY <1>0, <1>4 DEF Lively
  <2> QED
    BY <1>0, <2>1, GentleFacts
<1>5. ASSUME NEW c \in Cpus, process_schedule(c)
      PROVE  Lively' /\ Ring'
  <2>1. Chosen(c) \in Born \ exited
    <3>1. current[c] \in Born \ exited
      BY <1>0 DEF Lively
    <3>2. idle_process[c] \in Born \ exited
      BY <1>0, IdleFacts, UserFacts DEF Lively, Born, TypeOK
    <3>3. \A q \in Schedulable(c) : q \in Born \ exited
      BY <1>0, ZenonT(40) DEF Schedulable, Lively, Born
    <3> QED
      BY <1>0, <3>1, <3>2, <3>3, ChosenFacts
  <2>2. \A d \in Cpus : current'[d] \in Born \ exited
    BY <1>0, <1>5, <2>1 DEF process_schedule, Lively, TypeOK
  <2>3. UNCHANGED <<next, state, exited, parent, table, wait_exit, dev_q>>
    BY <1>5 DEF process_schedule, queues
  <2>4. \A i \in Idles : parent'[i] = NULL
    BY <1>0, <2>3 DEF Lively
  <2> QED
    BY <1>2, <1>3, <2>2, <2>3, <2>4, QuietQueue
<1>6. ASSUME NEW c \in Cpus, NEW p \in Users, DevBlock(c, p) \/ WaitBlock(c, p)
      PROVE  Lively' /\ Ring'
  <2>1. current[c] = p /\ state' = [state EXCEPT ![p] = "blocked"]
        /\ UNCHANGED <<next, exited, current, parent, table, wait_exit, dev_q>>
    BY <1>6 DEF DevBlock, WaitBlock, Running, life, queues
  <2> QED
    BY <1>1, <1>2, <1>4, <2>1, ZenonT(40)
<1>7. ASSUME NEW c \in Cpus, NEW p \in Users,
             \/ Exit(c, p) \/ WaitPid(c, p) \/ WaitSleeps(c, p) \/ WaitReturns(c, p) \/ WaitFound(c, p)
             \/ DevRemove(c, p) \/ WaitRemove(c, p) \/ WaitReap(c, p)
      PROVE  Lively' /\ Ring'
  <2>1. /\ UNCHANGED <<state, next, exited, current, parent>>
        /\ table' \subseteq table /\ wait_exit' \subseteq wait_exit /\ dev_q' \subseteq dev_q
    BY <1>7, Zenon DEF Exit, WaitPid, WaitSleeps, WaitReturns, WaitFound, DevRemove, WaitRemove, WaitReap,
       sched, life, queues
  <2> QED
    BY <1>1, <1>2, <1>3, <2>1
<1>8. ASSUME NEW c \in Cpus, NEW p \in Users, pid_table_insert(c, p) \/ DevAdd(c, p) \/ WaitAdd(c, p)
      PROVE  Lively' /\ Ring'
  <2>1. /\ UNCHANGED <<state, next, exited, current, parent>>
        /\ table' \subseteq table \cup {target[p]} /\ (pc[p] # "insert" => table' = table)
        /\ wait_exit' \subseteq wait_exit \cup {p} /\ dev_q' \subseteq dev_q \cup {p}
        /\ current[c] = p
    BY <1>8 DEF pid_table_insert, DevAdd, WaitAdd, sched, life, queues, Running
  <2>2. p \in Born
    BY <1>4, <2>1, Zenon
  <2>3. table' \subseteq Born
    BY <1>0, <1>2, <2>1, ZenonT(40) DEF Referring, Targeting
  <2> QED
    BY <1>1, <1>2, <1>3, <2>1, <2>2, <2>3, ZenonT(40)
<1>9. ASSUME NEW c \in Cpus, NEW p \in Users, ExitCleanup(c, p)
      PROVE  Lively' /\ Ring'
  <2>1. /\ UNCHANGED <<next, exited, current, table, wait_exit, dev_q>>
        /\ state' = ReparentWakes(p) /\ parent' = ReparentedTo(p)
    BY <1>9 DEF ExitCleanup, queues
  <2>2. Gentle(state')
    BY <1>0, <2>1, GentleFacts
  <2>3. \A i \in Idles : parent'[i] = NULL
    BY <1>0, <2>1, ChildrenFacts, UserFacts DEF ReparentedTo, Lively
  <2>4. \A d \in Cpus : current'[d] \in Born \ exited
    BY <1>0, <2>1 DEF Lively
  <2> QED
    BY <1>2, <2>1, <2>2, <2>3, <2>4, QuietQueue
<1>10. CASE DevWake
  <2>1. Gentle(state') /\ UNCHANGED <<next, exited, current, parent, table, wait_exit, dev_q>>
    BY <1>0, <1>10, GentleFacts DEF DevWake, life, queues
  <2> QED
    BY <1>1, <1>2, <2>1
<1> QED
  BY <1>5, <1>6, <1>7, <1>8, <1>9, <1>10, ForkQueue, ExitQueue DEF Peaceful, Syscall, InKernel

-----------------------------------------------------------------------------
(* The steps of a fatal signal.  The target is born and, with Careful, on no *)
(* CPU when it is made a zombie.                                             *)

LEMMA TargetFacts ==
    ASSUME QueueInv, NEW c \in Cpus, NEW p \in Users, Kill(c, p), ~ KillStart(c, p)
    PROVE  target[p] \in Users /\ target[p] \in Born
<1>1. TypeOK /\ Referring
  BY DEF QueueInv
<1>2. pc[p] \in Targeting
  BY ZenonT(40) DEF Kill, KillScan, KillMark, KillCleanup, KillZombie, KillNotify, KillPut, Targeting
<1> QED
  BY <1>1, <1>2, UserFacts DEF Referring, TypeOK

LEMMA NotifyFacts ==
    ASSUME TypeOK, Lively, NEW t \in Users, NEW st, st = Told(state, Notified(t))
    PROVE  Gentle(st)
<1> DEFINE r == Notified(t)
<1>1. r \in Users
  BY UserFacts DEF Notified, TypeOK
<1>2. \A q \in Procs : st[q] = IF q = r /\ (r \in wait_exit \/ state[r] = "blocked") THEN "running" ELSE state[q]
  BY <1>1, UserFacts DEF Told, TypeOK
<1>3. st \in [Procs -> States]
  BY <1>1, UserFacts DEF Told, TypeOK, States
<1>4. wait_exit \subseteq Born
  BY Zenon DEF Lively
<1> HIDE DEF r
<1> QED
  BY <1>1, <1>2, <1>3, <1>4, UserFacts DEF Gentle, Born

LEMMA KillTypeStep ==
    ASSUME QueueInv, NEW c \in Cpus, ScheduleKilled(c) \/ \E p \in Users : Kill(c, p)
    PROVE  TypeOK'
<1> USE DEF States
<1>0. TypeOK /\ Lively
  BY DEF QueueInv
<1>1. CASE ScheduleKilled(c)
  <2>1. refcount' \in [Procs -> Int] /\ current[c] \in Procs
    BY <1>0, <1>1, UserFacts DEF ScheduleKilled, Put, TypeOK
  <2> QED
    BY <1>0, <1>1, <2>1 DEF ScheduleKilled, TypeOK, sched, queues, Pcs
<1>2. ASSUME NEW p \in Users, KillStart(c, p)
      PROVE  TypeOK'
  <2>1. PICK t \in Users : refcount' = Hold(refcount, t) /\ target' = [target EXCEPT ![p] = t]
    BY <1>2, ZenonT(40) DEF KillStart
  <2>2. refcount' \in [Procs -> Int]
    BY <1>0, <2>1, UserFacts DEF Hold, TypeOK
  <2> QED
    BY <1>0, <1>2, <2>1, <2>2, UserFacts, Zenon DEF KillStart, TypeOK, sched, queues, Pcs
<1>3. ASSUME NEW p \in Users, KillScan(c, p)
      PROVE  TypeOK'
  <2>1. PICK l \in Pcs : pc' = [pc EXCEPT ![p] = l]
    BY <1>3, Zenon DEF KillScan, Pcs
  <2> QED
    BY <1>0, <1>3, <2>1, UserFacts DEF KillScan, TypeOK, sched, life, queues
<1>4. ASSUME NEW p \in Users, KillMark(c, p)
      PROVE  TypeOK'
  <2>1. target[p] \in Users
    BY <1>4, TargetFacts, ZenonT(40) DEF Kill, KillMark, KillStart
  <2> QED
    BY <1>0, <1>4, <2>1, UserFacts DEF KillMark, TypeOK, life, queues, Pcs
<1>5. ASSUME NEW p \in Users, KillCleanup(c, p)
      PROVE  TypeOK'
  <2>1. state' \in [Procs -> States] /\ parent' \in [Procs -> Users \cup {NULL}]
    BY <1>0, <1>5, GentleFacts, ParentFacts, Zenon DEF KillCleanup, Gentle
  <2> QED
    BY <1>0, <1>5, <2>1, UserFacts DEF KillCleanup, TypeOK, queues, Pcs
<1>6. ASSUME NEW p \in Users, KillZombie(c, p)
      PROVE  TypeOK'
  <2>1. target[p] \in Users
    BY <1>6, TargetFacts, Zenon DEF Kill, KillZombie, KillStart
  <2>2. next' \in [Procs -> Procs \cup {NULL}]
    BY <1>0, <1>6, <2>1, UserFacts DEF KillZombie, Unlinked, TypeOK
  <2> QED
    BY <1>0, <1>6, <2>1, <2>2, UserFacts DEF KillZombie, TypeOK, life, queues, Pcs
<1>7. ASSUME NEW p \in Users, KillNotify(c, p)
      PROVE  TypeOK'
  <2>1. target[p] \in Users
    BY <1>7, TargetFacts, ZenonT(40) DEF Kill, KillNotify, KillStart
  <2>2. state' \in [Procs -> States]
    BY <1>0, <1>7, <2>1, NotifyFacts, Zenon DEF KillNotify, Gentle
  <2> QED
    BY <1>0, <1>7, <2>2, UserFacts DEF KillNotify, TypeOK, life, queues, Pcs
<1>8. ASSUME NEW p \in Users, KillPut(c, p)
      PROVE  TypeOK'
  <2>1. pc' \in [Procs -> Pcs]
    BY <1>0, <1>8, PcFacts, UserFacts DEF KillPut
  <2>2. refcount' \in [Procs -> Int]
    BY <1>0, <1>8, UserFacts DEF KillPut, Put, TypeOK
  <2> QED
    BY <1>0, <1>8, <2>1, <2>2, ZenonT(40) DEF KillPut, TypeOK, sched, queues
<1> QED
  BY <1>1, <1>2, <1>3, <1>4, <1>5, <1>6, <1>7, <1>8 DEF Kill

LEMMA KillQueueStep ==
    ASSUME QueueInv, Careful, NEW c \in Cpus, ScheduleKilled(c) \/ \E p \in Users : Kill(c, p)
    PROVE  Lively' /\ Ring'
<1>0. TypeOK /\ Lively /\ Ring
  BY DEF QueueInv
<1>1. ASSUME Gentle(state'), UNCHANGED <<next, exited, current, table, wait_exit, dev_q>>,
             \A i \in Idles : parent'[i] = NULL
      PROVE  Lively' /\ Ring'
  <2>1. /\ \A d \in Cpus : current'[d] \in Born \ exited
        /\ wait_exit' \subseteq Born /\ dev_q' \subseteq Born /\ table' \subseteq Born
    BY <1>0, <1>1, ZenonT(40) DEF Lively
  <2> QED
    BY <1>1, <2>1, QuietQueue
<1>2. Gentle(state) /\ \A i \in Idles : parent[i] = NULL
  BY <1>0, GentleFacts DEF Lively
<1>3. ASSUME NEW p \in Users,
             ScheduleKilled(c) \/ KillStart(c, p) \/ KillScan(c, p) \/ KillMark(c, p) \/ KillPut(c, p)
      PROVE  Lively' /\ Ring'
  <2>1. UNCHANGED <<state, next, exited, current, table, parent, wait_exit, dev_q>>
    BY <1>3, ZenonT(40) DEF ScheduleKilled, KillStart, KillScan, KillMark, KillPut, sched, life, queues
  <2> QED
    BY <1>1, <1>2, <2>1
<1>4. ASSUME NEW p \in Users, KillCleanup(c, p)
      PROVE  Lively' /\ Ring'
  <2> DEFINE t == target[p]
  <2>1. t \in Users
    BY <1>4, TargetFacts, Zenon DEF Kill, KillCleanup, KillStart
  <2>2. /\ UNCHANGED <<next, exited, current, table, wait_exit, dev_q>>
        /\ state' = ReparentWakes(t) /\ parent' = ReparentedTo(t)
    BY <1>4 DEF KillCleanup, queues
  <2> HIDE DEF t
  <2>3. Gentle(state')
    BY <1>0, <2>2, GentleFacts
  <2>4. \A i \in Idles : parent'[i] = NULL
    BY <1>0, <2>1, <2>2, ChildrenFacts, UserFacts, Zenon DEF ReparentedTo, Lively
  <2> QED
    BY <1>1, <2>2, <2>3, <2>4
<1>5. ASSUME NEW p \in Users, KillZombie(c, p)
      PROVE  Lively' /\ Ring'
  <2> DEFINE t == target[p]
  <2>1. t \in Users /\ t \in Born /\ t \in Procs /\ t \notin Idles
    BY <1>5, TargetFacts, UserFacts, ZenonT(40) DEF Kill, KillZombie, KillStart
  <2>2. /\ exited' = exited \cup {t} /\ next' = Unlinked(t) /\ state' = [state EXCEPT ![t] = "zombie"]
        /\ UNCHANGED <<current, table, parent, wait_exit, dev_q>> /\ \A d \in Cpus : current[d] # t
    BY <1>5, ZenonT(40) DEF KillZombie, Settled, life, queues
  <2> HIDE DEF t
  <2>3. \A q \in Procs : state'[q] = IF q = t THEN "zombie" ELSE state[q]
    BY <1>0, <2>1, <2>2 DEF TypeOK
  <2>4. \A d \in Cpus : current'[d] \in Born \ exited /\ current'[d] # t
    BY <1>0, <2>2, ZenonT(40) DEF Lively
  <2>5. /\ \A q \in Procs : state'[q] = "none" <=> state[q] = "none"
        /\ \A q \in Procs : state'[q] = "zombie" => q = t \/ state[q] = "zombie"
        /\ \A i \in Idles : state'[i] = state[i]
    BY <2>1, <2>3, UserFacts DEF Born
  <2>6. CASE t \notin exited
    BY <2>1, <2>2, <2>4, <2>5, <2>6, DeathQueue
  <2>7. CASE t \in exited
    <3>1. exited' = exited /\ Born' = Born
      BY <2>2, <2>5, <2>7 DEF Born
    <3>2. next[t] = NULL
      BY <1>0, <2>1, <2>7 DEF Ring, Linked
    <3>3. \A q \in Procs : next'[q] = next[q]
      BY <2>2, <3>2 DEF Unlinked, Met
    <3>4. Linked' = Linked
      BY <3>3 DEF Linked
    <3>5. Ring'
      BY <1>0, <3>1, <3>3, <3>4 DEF Ring, IsRing, Linked
    <3>6. Lively'
      BY <1>0, <2>2, <2>3, <2>4, <2>5, <2>7, <3>1 DEF Lively
    <3> QED
      BY <3>5, <3>6
  <2> QED
    BY <2>6, <2>7
<1>6. ASSUME NEW p \in Users, KillNotify(c, p)
      PROVE  Lively' /\ Ring'
  <2>1. target[p] \in Users
    BY <1>6, TargetFacts, ZenonT(40) DEF Kill, KillNotify, KillStart
  <2>2. Gentle(state') /\ UNCHANGED <<next, exited, current, table, parent, wait_exit, dev_q>>
    BY <1>0, <1>6, <2>1, NotifyFacts, Zenon DEF KillNotify, life, queues
  <2> QED
    BY <1>1, <1>2, <2>2
<1> QED
  BY <1>3, <1>4, <1>5, <1>6, UserFacts DEF Kill

=============================================================================
