--------------------------- MODULE ProcessProofs ---------------------------
(***************************************************************************)
(* Every reference to a process_t is counted and, with RunQueueProofs, the *)
(* run queue is one circle of the living: the invariant QueueInv.  It      *)
(* holds while nobody sends fatal signals, and with them when a target     *)
(* that was found not to run stays off the CPUs.                           *)
(***************************************************************************)
EXTENDS RunQueueProofs

\* What is added to the holders of x when the call of p turns to v and CPU c
\* has w to drop.
Moved(p, v, c, w, x) ==
    (Is(v, x) - Is(target[p], x)) + (Is(w, x) - Is(free_later[c], x))
       + (One(x \in table') - One(x \in table)) + (One(pc'[x] = "exit_switch") - One(pc[x] = "exit_switch"))

\* The references of each process change at least as its holders do; those of one
\* that is not born yet begin with them.
Paid ==
    \/ UNCHANGED <<target, free_later, refcount, table, pc>>
    \/ \E p \in Users, c \in Cpus : \E v, w :
         /\ target' = [target EXCEPT ![p] = v] /\ free_later' = [free_later EXCEPT ![c] = w]
         /\ \A x \in Users :
              /\ refcount'[x] \in Int
              /\ \/ refcount'[x] >= refcount[x] + Moved(p, v, c, w, x)
                 \/ x \notin Born /\ refcount'[x] >= Moved(p, v, c, w, x)

LEMMA RefsKept ==
    ASSUME NEW p \in Users, NEW v, target' = [target EXCEPT ![p] = v],
           NEW c \in Cpus, NEW w, free_later' = [free_later EXCEPT ![c] = w],
           \A x \in Users : refcount'[x] \in Int /\ refcount'[x] >= refcount[x] + Moved(p, v, c, w, x)
    PROVE  Paid
BY Zenon DEF Paid

LEMMA SameFacts ==
    ASSUME TypeOK, NEW p \in Users, NEW c \in Cpus
    PROVE  target = [target EXCEPT ![p] = target[p]] /\ free_later = [free_later EXCEPT ![c] = free_later[c]]
BY UserFacts DEF TypeOK

\* A step that moves no reference.
LEMMA RefsQuiet ==
    ASSUME QueueInv, NEW c \in Cpus, NEW p \in Users, NEW l, l # "exit_switch", pc' = [pc EXCEPT ![p] = l],
           UNCHANGED <<target, free_later, refcount, table>>
    PROVE  Paid
<1>1. TypeOK
  BY DEF QueueInv
<1>2. \A x \in Users : refcount[x] \in Int
  BY <1>1, UserFacts DEF TypeOK
<1>3. \A x \in Users : pc'[x] = IF x = p THEN l ELSE pc[x]
  BY <1>1, UserFacts DEF TypeOK
<1>4. target' = [target EXCEPT ![p] = target[p]] /\ free_later' = [free_later EXCEPT ![c] = free_later[c]]
  BY <1>1, SameFacts
<1>5. ASSUME NEW x \in Users
      PROVE  refcount'[x] \in Int /\ refcount'[x] >= refcount[x] + Moved(p, target[p], c, free_later[c], x)
  <2>1. One(pc'[x] = "exit_switch") <= One(pc[x] = "exit_switch")
    BY <1>3 DEF One
  <2>2. /\ Is(target[p], x) \in Int /\ One(x \in table) \in Int /\ Is(free_later[c], x) \in Int
        /\ One(pc'[x] = "exit_switch") \in Int /\ One(pc[x] = "exit_switch") \in Int
    BY DEF One, Is
  <2>3. /\ Moved(p, target[p], c, free_later[c], x) \in Int
        /\ Moved(p, target[p], c, free_later[c], x) <= 0
    BY <2>1, <2>2 DEF Moved
  <2> QED
    BY <1>2, <2>3
<1> QED
  BY <1>4, <1>5, RefsKept, Zenon

\* Who is born stays born.
LEMMA BornStays ==
    ASSUME QueueInv, Peaceful
    PROVE  Born \subseteq Born'
<1>0. TypeOK /\ Lively
  BY DEF QueueInv
<1>1. CASE Gentle(state')
  BY <1>1 DEF Born, Gentle
<1>2. Gentle(state)
  BY <1>0, GentleFacts
<1>3. ASSUME NEW c \in Cpus, process_schedule(c)
      PROVE  Born \subseteq Born'
  BY <1>1, <1>2, <1>3 DEF process_schedule
<1>4. ASSUME NEW c \in Cpus, NEW p \in Users, process_duplicate(c, p)
      PROVE  Born \subseteq Born'
  BY <1>0, <1>4 DEF process_duplicate, Born, TypeOK
<1>5. ASSUME NEW c \in Cpus, NEW p \in Users, DevBlock(c, p) \/ WaitBlock(c, p)
      PROVE  Born \subseteq Born'
  BY <1>0, <1>5 DEF DevBlock, WaitBlock, Born, TypeOK
<1>6. ASSUME NEW c \in Cpus, NEW p \in Users,
             \/ Exit(c, p) \/ WaitPid(c, p) \/ WaitSleeps(c, p) \/ WaitReturns(c, p) \/ WaitFound(c, p)
             \/ DevRemove(c, p) \/ WaitRemove(c, p) \/ WaitReap(c, p)
             \/ pid_table_insert(c, p) \/ DevAdd(c, p) \/ WaitAdd(c, p)
      PROVE  Born \subseteq Born'
  <2>1. UNCHANGED state
    BY <1>6 DEF Exit, WaitPid, WaitSleeps, WaitReturns, WaitFound, DevRemove, WaitRemove, WaitReap,
       pid_table_insert, DevAdd, WaitAdd, sched
  <2> QED
    BY <2>1 DEF Born
<1>7. ASSUME NEW c \in Cpus, NEW p \in Users, ExitCleanup(c, p)
      PROVE  Born \subseteq Born'
  BY <1>0, <1>1, <1>7, GentleFacts DEF ExitCleanup
<1>8. ASSUME NEW c \in Cpus, NEW p \in Users, ExitSwitch(c, p)
      PROVE  Born \subseteq Born'
  <2>1. state' = Dead(p, Notified(p)) /\ p \in Born /\ Notified(p) \in Users
    BY <1>0, <1>8, UserFacts DEF ExitSwitch, Dead, Running, Lively, Notified, TypeOK
  <2>2. \A q \in Procs : state'[q] = "none" <=> state[q] = "none"
    BY <1>0, <2>1, ToldFacts
  <2> QED
    BY <2>2 DEF Born
<1>9. CASE DevWake
  BY <1>0, <1>1, <1>9, GentleFacts DEF DevWake
<1> QED
  BY <1>3, <1>4, <1>5, <1>6, <1>7, <1>8, <1>9 DEF Peaceful, Syscall, InKernel

\* A step in which the call of p goes on at l and works on v.
Goes(p, l, v) ==
    /\ \A q \in Users : pc'[q] = IF q = p THEN l ELSE pc[q]
    /\ \A q \in Users : target'[q] = IF q = p THEN v ELSE target[q]
    /\ p \in Users /\ v # NULL => v \in Born'
    /\ l = "exit_switch" => p \in Born'
    /\ l \in Targeting => v # NULL
    /\ \A d \in Cpus : free_later'[d] # NULL => free_later'[d] \in Born'

LEMMA ReferringMoves ==
    ASSUME Referring, Born \subseteq Born', NEW p, NEW l, NEW v, Goes(p, l, v),
           \A q \in Users : pc'[q] = "wait_reap" => target'[q] \in table' \cap Users /\ parent'[target'[q]] = q
    PROVE  Referring'
<1>1. ASSUME NEW q \in Users, target'[q] # NULL
      PROVE  target'[q] \in Born'
  <2>1. CASE q = p
    BY <1>1, <2>1 DEF Goes
  <2>2. CASE q # p
    BY <1>1, <2>2 DEF Goes, Referring
  <2> QED
    BY <2>1, <2>2
<1>2. ASSUME NEW q \in Users, pc'[q] = "exit_switch"
      PROVE  q \in Born'
  <2>1. CASE q = p
    BY <1>2, <2>1 DEF Goes
  <2>2. CASE q # p
    BY <1>2, <2>2 DEF Goes, Referring
  <2> QED
    BY <2>1, <2>2
<1>3. ASSUME NEW q \in Users, pc'[q] \in Targeting
      PROVE  target'[q] # NULL
  <2>1. CASE q = p
    BY <1>3, <2>1 DEF Goes
  <2>2. CASE q # p
    BY <1>3, <2>2 DEF Goes, Referring
  <2> QED
    BY <2>1, <2>2
<1>4. \A d \in Cpus : free_later'[d] # NULL => free_later'[d] \in Born'
  BY DEF Goes
<1> QED
  BY <1>1, <1>2, <1>3, <1>4 DEF Referring

\* The same when no child is found, handed over or reaped.
LEMMA ReferringStays ==
    ASSUME Referring, Born \subseteq Born', NEW p, NEW l, NEW v, Goes(p, l, v),
           l # "wait_reap", table \subseteq table', UNCHANGED parent
    PROVE  Referring'
<1>1. ASSUME NEW q \in Users, pc'[q] = "wait_reap"
      PROVE  target'[q] \in table' \cap Users /\ parent'[target'[q]] = q
  <2>1. q # p /\ pc[q] = "wait_reap" /\ target'[q] = target[q]
    BY <1>1 DEF Goes
  <2>2. target[q] \in table \cap Users /\ parent[target[q]] = q
    BY <2>1 DEF Referring
  <2> QED
    BY <2>1, <2>2
<1> QED
  BY <1>1, ReferringMoves

\* A step of p that moves no reference and starts no call that refers.
LEMMA QuietRefs ==
    ASSUME QueueInv, Born \subseteq Born', NEW c \in Cpus, NEW p \in Users,
           NEW l, l \notin {"exit_switch", "wait_reap"},
           l \in Targeting => target[p] # NULL, pc' = [pc EXCEPT ![p] = l], UNCHANGED <<target, free_later, refcount, table, parent>>
    PROVE  Referring' /\ Paid
<1>1. TypeOK /\ Referring
  BY DEF QueueInv
<1>2. \A x \in Users : pc'[x] = IF x = p THEN l ELSE pc[x]
  BY <1>1, UserFacts DEF TypeOK
<1>3. Referring'
  <2>1. \A d \in Cpus : free_later'[d] # NULL => free_later'[d] \in Born'
    BY <1>1 DEF Referring
  <2>2. \A x \in Users : target'[x] = IF x = p THEN target[p] ELSE target[x]
    OBVIOUS
  <2>3. target[p] # NULL => target[p] \in Born'
    BY <1>1 DEF Referring
  <2>4. Goes(p, l, target[p])
    BY <1>2, <2>1, <2>2, <2>3 DEF Goes
  <2> QED
    BY <1>1, <2>4, ReferringStays
<1> QED
  BY <1>3, RefsQuiet, Zenon

LEMMA QuietSteps ==
    ASSUME QueueInv, Peaceful, NEW c \in Cpus, NEW p \in Users,
           \/ Exit(c, p) \/ WaitPid(c, p) \/ DevBlock(c, p) \/ DevAdd(c, p) \/ DevRemove(c, p)
           \/ WaitReturns(c, p) \/ WaitSleeps(c, p) \/ WaitAdd(c, p) \/ WaitBlock(c, p) \/ WaitRemove(c, p)
    PROVE  Referring' /\ Paid
<1>1. \E l \in {"exit", "user"} : Return(p) = [pc EXCEPT ![p] = l]
  BY ZenonT(40) DEF Return
<1>2. UNCHANGED <<target, free_later, refcount, table, parent>>
  BY DEF Exit, WaitPid, DevBlock, DevAdd, DevRemove, WaitReturns, WaitSleeps, WaitAdd, WaitBlock,
     WaitRemove, life
<1>3. PICK l \in {"exit", "wait_scan", "dev_add", "dev_resched", "user", "wait_add", "wait_block", "wait_resched"} :
        pc' = [pc EXCEPT ![p] = l]
  BY <1>1 DEF Exit, WaitPid, DevBlock, DevAdd, DevRemove, WaitReturns, WaitSleeps, WaitAdd, WaitBlock,
     WaitRemove
<1> QED
  BY <1>2, <1>3, BornStays, QuietRefs, Zenon DEF Targeting

\* fork: the child begins with the reference of the call that makes it.
LEMMA ForkRefs ==
    ASSUME QueueInv, Born \subseteq Born', NEW c \in Cpus, NEW p \in Users, process_duplicate(c, p)
    PROVE  Referring' /\ Paid
<1>1. TypeOK /\ Lively /\ Referring
  BY DEF QueueInv
<1>2. PICK child \in Users :
        /\ state[child] = "none"
        /\ state' = [state EXCEPT ![child] = "running"]
        /\ refcount' = [refcount EXCEPT ![child] = 1]
        /\ parent' = [parent EXCEPT ![child] = p]
        /\ target' = [target EXCEPT ![p] = child]
  BY ZenonT(40) DEF process_duplicate
<1>3. pc[p] = "user" /\ pc' = [pc EXCEPT ![p] = "insert"] /\ UNCHANGED <<free_later, table>>
  BY DEF process_duplicate
<1>4. child \notin Born /\ child \in Born' /\ child \notin table
  BY <1>1, <1>2, UserFacts DEF Born, Lively, TypeOK
<1>5. /\ \A x \in Users : pc'[x] = IF x = p THEN "insert" ELSE pc[x]
      /\ \A x \in Users : target'[x] = IF x = p THEN child ELSE target[x]
      /\ \A x \in Users : parent'[x] = IF x = child THEN p ELSE parent[x]
      /\ \A x \in Users : refcount'[x] = IF x = child THEN 1 ELSE refcount[x]
  BY <1>1, <1>2, <1>3, UserFacts DEF TypeOK
<1>6. Referring'
  <2>1. ASSUME NEW q \in Users, pc'[q] = "wait_reap"
        PROVE  target'[q] \in table' \cap Users /\ parent'[target'[q]] = q
    BY <1>1, <1>3, <1>4, <1>5, <2>1 DEF Referring
  <2>2. ASSUME NEW q \in Users, pc'[q] \in Targeting
        PROVE  target'[q] # NULL
    BY <1>1, <1>5, <2>2, UserFacts DEF Referring
  <2>3. /\ \A q \in Users : target'[q] # NULL => target'[q] \in Born'
        /\ \A d \in Cpus : free_later'[d] # NULL => free_later'[d] \in Born'
        /\ \A q \in Users : pc'[q] = "exit_switch" => q \in Born'
    BY <1>1, <1>3, <1>4, <1>5 DEF Referring
  <2> QED
    BY <2>1, <2>2, <2>3, ZenonT(40) DEF Referring
<1>7. free_later' = [free_later EXCEPT ![c] = free_later[c]]
  BY <1>1, <1>3, SameFacts
<1>8. ASSUME NEW x \in Users
      PROVE  /\ refcount'[x] \in Int
             /\ \/ refcount'[x] >= refcount[x] + Moved(p, child, c, free_later[c], x)
                \/ x \notin Born /\ refcount'[x] >= Moved(p, child, c, free_later[c], x)
  <2>1. pc'[x] = "exit_switch" <=> pc[x] = "exit_switch"
    BY <1>3, <1>5
  <2>2. /\ Is(target[p], x) \in Int /\ Is(target[p], x) >= 0 /\ One(x \in table) \in Int
        /\ Is(free_later[c], x) \in Int /\ Is(child, x) = IF x = child THEN 1 ELSE 0
        /\ One(pc[x] = "exit_switch") \in Int /\ One(pc'[x] = "exit_switch") = One(pc[x] = "exit_switch")
    BY <2>1 DEF One, Is
  <2>3. Moved(p, child, c, free_later[c], x) = Is(child, x) - Is(target[p], x)
    BY <1>3, <2>2 DEF Moved
  <2>4. refcount[x] \in Int
    BY <1>1, UserFacts DEF TypeOK
  <2> QED
    BY <1>4, <1>5, <2>2, <2>3, <2>4
<1>9. Paid
  BY <1>2, <1>7, <1>8, ZenonT(40) DEF Paid
<1> QED
  BY <1>6, <1>9

\* The child enters the PID table.
LEMMA InsertRefs ==
    ASSUME QueueInv, Born \subseteq Born', NEW c \in Cpus, NEW p \in Users, pid_table_insert(c, p)
    PROVE  Referring' /\ Paid
<1>1. TypeOK /\ Lively /\ Referring
  BY DEF QueueInv
<1> DEFINE l == IF p \in kill_pending THEN "exit" ELSE "user"
<1>2. /\ pc[p] = "insert" /\ pc' = [pc EXCEPT ![p] = l] /\ table' = table \cup {target[p]}
      /\ target' = [target EXCEPT ![p] = NULL] /\ UNCHANGED <<free_later, refcount, parent>>
      /\ l \notin Targeting \cup {"exit_switch", "wait_reap"}
  BY DEF pid_table_insert, Return, Targeting
<1> HIDE DEF l
<1>3. /\ \A x \in Users : pc'[x] = IF x = p THEN l ELSE pc[x]
      /\ \A x \in Users : target'[x] = IF x = p THEN NULL ELSE target[x]
      /\ \A x \in Users : refcount[x] \in Int
  BY <1>1, <1>2, UserFacts DEF TypeOK
<1>4. Referring'
  <2>1. \A d \in Cpus : free_later'[d] # NULL => free_later'[d] \in Born'
    BY <1>1, <1>2 DEF Referring
  <2>2. Goes(p, l, NULL)
    BY <1>2, <1>3, <2>1 DEF Goes
  <2> QED
    BY <1>1, <1>2, <2>2, ReferringStays
<1>5. free_later' = [free_later EXCEPT ![c] = free_later[c]]
  BY <1>1, <1>2, SameFacts
<1>6. ASSUME NEW x \in Users
      PROVE  refcount'[x] \in Int /\ refcount'[x] >= refcount[x] + Moved(p, NULL, c, free_later[c], x)
  <2>1. pc'[x] = "exit_switch" <=> pc[x] = "exit_switch"
    BY <1>2, <1>3
  <2>2. Is(NULL, x) = 0
    BY UserFacts DEF Is
  <2>3. One(x \in table') - One(x \in table) <= Is(target[p], x)
    BY <1>2 DEF One, Is
  <2>4. /\ Is(target[p], x) \in Int /\ One(x \in table') \in Int /\ One(x \in table) \in Int
        /\ Is(free_later[c], x) \in Int /\ One(pc[x] = "exit_switch") \in Int
        /\ One(pc'[x] = "exit_switch") = One(pc[x] = "exit_switch")
    BY <2>1 DEF One, Is
  <2>5. Moved(p, NULL, c, free_later[c], x) \in Int /\ Moved(p, NULL, c, free_later[c], x) <= 0
    BY <2>2, <2>3, <2>4 DEF Moved
  <2> QED
    BY <1>2, <1>3, <2>5
<1>7. Paid
  BY <1>2, <1>5, <1>6, RefsKept, ZenonT(40)
<1> QED
  BY <1>4, <1>7

\* The reference of a dead process that the CPU still had is dropped.
LEMMA DropRefs ==
    ASSUME QueueInv, Born \subseteq Born', NEW c \in Cpus, MayReschedule(current[c]),
           refcount' = Put(refcount, free_later[c], 1), free_later' = [free_later EXCEPT ![c] = NULL],
           NEW l, l \notin Targeting \cup {"exit_switch", "wait_reap"}, pc' = [pc EXCEPT ![current[c]] = l],
           UNCHANGED <<table, parent, target>>
    PROVE  Referring' /\ Paid
<1> DEFINE p == current[c]
           d == free_later[c]
<1>1. TypeOK /\ Lively /\ Referring
  BY DEF QueueInv
<1>2. /\ refcount' = Put(refcount, d, 1) /\ free_later' = [free_later EXCEPT ![c] = NULL]
      /\ pc' = [pc EXCEPT ![p] = l]
  OBVIOUS
<1>3. p \in Procs /\ pc[p] # "exit_switch"
  BY <1>1 DEF MayReschedule, TypeOK
<1>4. \A x \in Users : pc'[x] = IF x = p THEN l ELSE pc[x]
  BY <1>1, <1>2, <1>3, UserFacts DEF TypeOK
<1>5. \A e \in Cpus : free_later'[e] = IF e = c THEN NULL ELSE free_later[e]
  BY <1>1, <1>2 DEF TypeOK
<1> HIDE DEF p, d
<1>6. Referring'
  <2>1. \A e \in Cpus : free_later'[e] # NULL => free_later'[e] \in Born'
    BY <1>1, <1>5 DEF Referring
  <2>2. \A x \in Users : target'[x] = IF x = p THEN target[p] ELSE target[x]
    OBVIOUS
  <2>3. p \in Users /\ target[p] # NULL => target[p] \in Born'
    BY <1>1 DEF Referring
  <2>4. Goes(p, l, target[p])
    BY <1>4, <2>1, <2>2, <2>3 DEF Goes
  <2> QED
    BY <1>1, <2>4, ReferringStays
<1>7. init \in Users /\ target' = [target EXCEPT ![init] = target[init]]
  BY <1>1, <1>2, SameFacts, UserFacts
<1>8. ASSUME NEW x \in Users
      PROVE  refcount'[x] \in Int /\ refcount'[x] >= refcount[x] + Moved(init, target[init], c, NULL, x)
  <2>1. pc'[x] = "exit_switch" <=> pc[x] = "exit_switch"
    BY <1>3, <1>4
  <2>2. Is(NULL, x) = 0
    BY UserFacts DEF Is
  <2>3. refcount[x] \in Int /\ refcount'[x] = refcount[x] - Is(d, x)
    BY <1>1, <1>2, UserFacts DEF Put, Is, TypeOK
  <2>4. /\ Is(target[init], x) \in Int /\ One(x \in table) \in Int /\ Is(d, x) \in Int
        /\ One(pc[x] = "exit_switch") \in Int /\ One(pc'[x] = "exit_switch") = One(pc[x] = "exit_switch")
    BY <2>1 DEF One, Is
  <2>5. Moved(init, target[init], c, NULL, x) = 0 - Is(d, x)
    BY <1>2, <2>2, <2>4 DEF Moved, d
  <2> QED
    BY <2>3, <2>4, <2>5
<1>9. Paid
  BY <1>2, <1>7, <1>8, RefsKept, Zenon
<1> QED
  BY <1>6, <1>9

LEMMA ScheduleRefs ==
    ASSUME QueueInv, Born \subseteq Born', NEW c \in Cpus, process_schedule(c) \/ ScheduleKilled(c)
    PROVE  Referring' /\ Paid
<1>1. /\ MayReschedule(current[c])
      /\ refcount' = Put(refcount, free_later[c], 1) /\ free_later' = [free_later EXCEPT ![c] = NULL]
      /\ UNCHANGED <<table, parent, target>>
  BY DEF process_schedule, ScheduleKilled
<1>2. PICK l \in {Resumed(current[c]), "exit"} : pc' = [pc EXCEPT ![current[c]] = l]
  BY DEF process_schedule, ScheduleKilled
<1>3. l \notin Targeting \cup {"exit_switch", "wait_reap"}
  BY <1>2 DEF Resumed, Targeting
<1> QED
  BY <1>1, <1>2, <1>3, DropRefs, ZenonT(40)

\* A process that exits holds itself while it gives up its CPU ...
LEMMA CleanupRefs ==
    ASSUME QueueInv, Born \subseteq Born', NEW c \in Cpus, NEW p \in Users, ExitCleanup(c, p)
    PROVE  Referring' /\ Paid
<1>1. TypeOK /\ Lively /\ Referring
  BY DEF QueueInv
<1>2. /\ current[c] = p /\ pc[p] = "exit" /\ pc' = [pc EXCEPT ![p] = "exit_switch"]
      /\ refcount' = Hold(refcount, p) /\ parent' = ReparentedTo(p)
      /\ UNCHANGED <<free_later, table, target>>
  BY DEF ExitCleanup, Running
<1>3. /\ \A x \in Users : pc'[x] = IF x = p THEN "exit_switch" ELSE pc[x]
      /\ \A x \in Users : refcount[x] \in Int /\ refcount'[x] = refcount[x] + Is(x, p)
  BY <1>1, <1>2, UserFacts DEF TypeOK, Hold, Is
<1>4. p \in Born
  BY <1>1, <1>2 DEF Lively
<1>5. ASSUME NEW q \in Users, pc'[q] = "wait_reap"
      PROVE  target'[q] \in table' \cap Users /\ parent'[target'[q]] = q
  <2>1. q # p /\ pc[q] = "wait_reap"
    BY <1>3, <1>5
  <2>2. target[q] \in table \cap Users /\ parent[target[q]] = q
    BY <1>1, <2>1 DEF Referring
  <2>3. target[q] \notin Children(p)
    BY <2>1, <2>2 DEF Children
  <2> QED
    BY <1>2, <2>2, <2>3, UserFacts DEF ReparentedTo
<1>6. Referring'
  <2>1. \A d \in Cpus : free_later'[d] # NULL => free_later'[d] \in Born'
    BY <1>1, <1>2 DEF Referring
  <2>2. \A x \in Users : target'[x] = IF x = p THEN target[p] ELSE target[x]
    BY <1>2
  <2>3. (target[p] # NULL => target[p] \in Born') /\ p \in Born' /\ "exit_switch" \notin Targeting
    BY <1>1, <1>4 DEF Referring, Targeting
  <2>4. Goes(p, "exit_switch", target[p])
    BY <1>3, <2>1, <2>2, <2>3 DEF Goes
  <2> QED
    BY <1>1, <1>5, <2>4, ReferringMoves
<1>7. free_later' = [free_later EXCEPT ![c] = free_later[c]] /\ target' = [target EXCEPT ![p] = target[p]]
  BY <1>1, <1>2, SameFacts
<1>8. ASSUME NEW x \in Users
      PROVE  refcount'[x] \in Int /\ refcount'[x] >= refcount[x] + Moved(p, target[p], c, free_later[c], x)
  <2>1. One(pc'[x] = "exit_switch") - One(pc[x] = "exit_switch") = Is(x, p)
    BY <1>2, <1>3 DEF One, Is
  <2>2. /\ Is(target[p], x) \in Int /\ One(x \in table) \in Int /\ Is(free_later[c], x) \in Int
        /\ One(pc[x] = "exit_switch") \in Int /\ One(pc'[x] = "exit_switch") \in Int /\ Is(x, p) \in Int
    BY DEF One, Is
  <2>3. Moved(p, target[p], c, free_later[c], x) = Is(x, p)
    BY <1>2, <2>1, <2>2 DEF Moved
  <2>4. refcount[x] \in Int /\ refcount'[x] = refcount[x] + Is(x, p)
    BY <1>3
  <2> QED
    BY <2>2, <2>3, <2>4
<1>9. Paid
  BY <1>7, <1>8, RefsKept, ZenonT(40)
<1> QED
  BY <1>6, <1>9

\* ... and its CPU holds it until the next process_schedule.
LEMMA SwitchRefs ==
    ASSUME QueueInv, Born \subseteq Born', NEW c \in Cpus, NEW p \in Users, ExitSwitch(c, p)
    PROVE  Referring' /\ Paid
<1>1. TypeOK /\ Lively /\ Referring
  BY DEF QueueInv
<1>2. /\ current[c] = p /\ pc[p] = "exit_switch" /\ pc' = [pc EXCEPT ![p] = "dead"]
      /\ free_later' = [free_later EXCEPT ![c] = p] /\ UNCHANGED <<refcount, table, parent, target>>
  BY DEF ExitSwitch, Running
<1>3. /\ \A x \in Users : pc'[x] = IF x = p THEN "dead" ELSE pc[x]
      /\ \A e \in Cpus : free_later'[e] = IF e = c THEN p ELSE free_later[e]
      /\ \A x \in Users : refcount[x] \in Int
  BY <1>1, <1>2, UserFacts DEF TypeOK
<1>4. p \in Born
  BY <1>1, <1>2 DEF Lively
<1>5. Referring'
  <2>1. \A d \in Cpus : free_later'[d] # NULL => free_later'[d] \in Born'
    BY <1>1, <1>3, <1>4 DEF Referring
  <2>2. \A x \in Users : target'[x] = IF x = p THEN target[p] ELSE target[x]
    BY <1>2
  <2>3. (target[p] # NULL => target[p] \in Born') /\ "dead" \notin Targeting
    BY <1>1 DEF Referring, Targeting
  <2>4. Goes(p, "dead", target[p])
    BY <1>3, <2>1, <2>2, <2>3 DEF Goes
  <2> QED
    BY <1>1, <1>2, <2>4, ReferringStays
<1>6. target' = [target EXCEPT ![p] = target[p]]
  BY <1>1, <1>2, SameFacts
<1>7. ASSUME NEW x \in Users
      PROVE  refcount'[x] \in Int /\ refcount'[x] >= refcount[x] + Moved(p, target[p], c, p, x)
  <2>1. One(pc'[x] = "exit_switch") - One(pc[x] = "exit_switch") = 0 - Is(p, x)
    BY <1>2, <1>3 DEF One, Is
  <2>2. /\ Is(target[p], x) \in Int /\ One(x \in table) \in Int
        /\ Is(free_later[c], x) \in Int /\ Is(free_later[c], x) >= 0
        /\ One(pc[x] = "exit_switch") \in Int /\ One(pc'[x] = "exit_switch") \in Int /\ Is(p, x) \in Int
    BY DEF One, Is
  <2>3. Moved(p, target[p], c, p, x) = 0 - Is(free_later[c], x)
    BY <1>2, <2>1, <2>2 DEF Moved
  <2> QED
    BY <1>2, <1>3, <2>2, <2>3
<1>8. Paid
  BY <1>2, <1>6, <1>7, RefsKept, Zenon
<1> QED
  BY <1>5, <1>8

\* waitpid holds the child it has found ...
LEMMA FoundRefs ==
    ASSUME QueueInv, Born \subseteq Born', NEW c \in Cpus, NEW p \in Users, WaitFound(c, p)
    PROVE  Referring' /\ Paid
<1>1. TypeOK /\ Lively /\ Referring
  BY DEF QueueInv
<1>2. PICK z \in Zombies(p) : refcount' = Hold(refcount, z) /\ target' = [target EXCEPT ![p] = z]
  BY ZenonT(40) DEF WaitFound
<1>3. z \in Users /\ z \in table /\ parent[z] = p /\ z \in Born
  BY <1>1, <1>2, ChildrenFacts DEF Zombies, Lively
<1>4. pc[p] = "wait_scan" /\ pc' = [pc EXCEPT ![p] = "wait_reap"] /\ UNCHANGED <<free_later, table, parent>>
  BY DEF WaitFound
<1>5. /\ \A x \in Users : pc'[x] = IF x = p THEN "wait_reap" ELSE pc[x]
      /\ \A x \in Users : target'[x] = IF x = p THEN z ELSE target[x]
      /\ \A x \in Users : refcount[x] \in Int /\ refcount'[x] = refcount[x] + Is(z, x)
  BY <1>1, <1>2, <1>3, <1>4, UserFacts DEF TypeOK, Hold, Is
<1>6. Referring'
  <2>1. \A d \in Cpus : free_later'[d] # NULL => free_later'[d] \in Born'
    BY <1>1, <1>4 DEF Referring
  <2>2. ASSUME NEW q \in Users, pc'[q] = "wait_reap"
        PROVE  target'[q] \in table' \cap Users /\ parent'[target'[q]] = q
    <3>1. CASE q = p
      BY <1>3, <1>4, <1>5, <3>1
    <3>2. CASE q # p
      BY <1>1, <1>4, <1>5, <2>2, <3>2 DEF Referring
    <3> QED
      BY <3>1, <3>2
  <2>3. "wait_reap" \notin Targeting
    BY DEF Targeting
  <2>4. Goes(p, "wait_reap", z)
    BY <1>3, <1>5, <2>1, <2>3 DEF Goes
  <2> QED
    BY <1>1, <2>2, <2>4, ReferringMoves
<1>7. free_later' = [free_later EXCEPT ![c] = free_later[c]]
  BY <1>1, <1>4, SameFacts
<1>8. ASSUME NEW x \in Users
      PROVE  refcount'[x] \in Int /\ refcount'[x] >= refcount[x] + Moved(p, z, c, free_later[c], x)
  <2>1. pc'[x] = "exit_switch" <=> pc[x] = "exit_switch"
    BY <1>4, <1>5
  <2>2. /\ Is(target[p], x) \in Int /\ Is(target[p], x) >= 0 /\ One(x \in table) \in Int
        /\ Is(free_later[c], x) \in Int /\ Is(z, x) \in Int
        /\ One(pc[x] = "exit_switch") \in Int /\ One(pc'[x] = "exit_switch") = One(pc[x] = "exit_switch")
    BY <2>1 DEF One, Is
  <2>3. Moved(p, z, c, free_later[c], x) = Is(z, x) - Is(target[p], x)
    BY <1>4, <2>2 DEF Moved
  <2> QED
    BY <1>5, <2>2, <2>3
<1>9. Paid
  BY <1>2, <1>7, <1>8, RefsKept, ZenonT(40)
<1> QED
  BY <1>6, <1>9

\* ... and drops that reference with the one of the PID table.
LEMMA ReapRefs ==
    ASSUME QueueInv, Born \subseteq Born', NEW c \in Cpus, NEW p \in Users, WaitReap(c, p)
    PROVE  Referring' /\ Paid
<1> DEFINE z == target[p]
<1>1. TypeOK /\ Lively /\ Referring
  BY DEF QueueInv
<1> DEFINE l == IF p \in kill_pending THEN "exit" ELSE "user"
<1>2. /\ pc[p] = "wait_reap" /\ pc' = [pc EXCEPT ![p] = l] /\ table' = table \ {z}
      /\ refcount' = Put(refcount, z, 2) /\ target' = [target EXCEPT ![p] = NULL]
      /\ UNCHANGED <<free_later, parent>>
      /\ l \notin Targeting \cup {"exit_switch", "wait_reap"}
  BY DEF WaitReap, Return, Targeting
<1> HIDE DEF l
<1>3. z \in table /\ z \in Users /\ z # NULL /\ parent[z] = p
  BY <1>1, <1>2, UserFacts DEF Referring
<1>4. /\ \A x \in Users : pc'[x] = IF x = p THEN l ELSE pc[x]
      /\ \A x \in Users : target'[x] = IF x = p THEN NULL ELSE target[x]
  BY <1>1, <1>2, UserFacts DEF TypeOK
<1>5. \A x \in Users : refcount[x] \in Int /\ refcount'[x] = refcount[x] - 2 * Is(z, x)
  BY <1>1, <1>2, <1>3, UserFacts DEF TypeOK, Put, Is
<1>6. ASSUME NEW q \in Users, pc'[q] = "wait_reap"
      PROVE  target'[q] \in table' \cap Users /\ parent'[target'[q]] = q
  BY <1>1, <1>2, <1>3, <1>4, <1>6 DEF Referring
<1>7. Referring'
  <2>1. \A d \in Cpus : free_later'[d] # NULL => free_later'[d] \in Born'
    BY <1>1, <1>2 DEF Referring
  <2>2. Goes(p, l, NULL)
    BY <1>2, <1>4, <2>1 DEF Goes
  <2> QED
    BY <1>1, <1>6, <2>2, ReferringMoves
<1>8. free_later' = [free_later EXCEPT ![c] = free_later[c]]
  BY <1>1, <1>2, SameFacts
<1>9. ASSUME NEW x \in Users
      PROVE  refcount'[x] \in Int /\ refcount'[x] >= refcount[x] + Moved(p, NULL, c, free_later[c], x)
  <2>1. pc'[x] = "exit_switch" <=> pc[x] = "exit_switch"
    BY <1>2, <1>4
  <2>2. Is(NULL, x) = 0
    BY UserFacts DEF Is
  <2>3. One(x \in table') - One(x \in table) = 0 - Is(z, x)
    BY <1>2, <1>3 DEF One, Is
  <2>4. /\ Is(z, x) \in Int /\ One(x \in table') \in Int /\ One(x \in table) \in Int
        /\ Is(free_later[c], x) \in Int /\ One(pc[x] = "exit_switch") \in Int
        /\ One(pc'[x] = "exit_switch") = One(pc[x] = "exit_switch")
    BY <2>1 DEF One, Is
  <2>5. Moved(p, NULL, c, free_later[c], x) = 0 - 2 * Is(z, x)
    BY <2>2, <2>3, <2>4 DEF Moved
  <2> QED
    BY <1>5, <2>4, <2>5
<1>10. Paid
  BY <1>2, <1>8, <1>9, RefsKept, ZenonT(40)
<1> QED
  BY <1>7, <1>10

LEMMA RefsStep ==
    ASSUME QueueInv, Peaceful
    PROVE  Referring' /\ Paid
<1>1. Born \subseteq Born'
  BY BornStays
<1>2. CASE DevWake
  <2>1. UNCHANGED <<target, free_later, refcount, table, parent, pc>>
    BY <1>2 DEF DevWake, life
  <2>2. Referring
    BY DEF QueueInv
  <2>3. Referring'
    BY <1>1, <2>1, <2>2 DEF Referring
  <2> QED
    BY <2>1, <2>3, Zenon DEF Paid
<1> QED
  BY <1>1, <1>2, QuietSteps, ForkRefs, InsertRefs, ScheduleRefs, CleanupRefs, SwitchRefs, FoundRefs, ReapRefs
     DEF Peaceful, Syscall, InKernel

-----------------------------------------------------------------------------
(* The references of a fatal signal. *)

LEMMA KillBornStays ==
    ASSUME QueueInv, NEW c \in Cpus, ScheduleKilled(c) \/ \E p \in Users : Kill(c, p)
    PROVE  Born \subseteq Born'
<1>0. TypeOK /\ Lively
  BY DEF QueueInv
<1>1. CASE Gentle(state')
  BY <1>1 DEF Born, Gentle
<1>2. ASSUME NEW p \in Users,
             ScheduleKilled(c) \/ KillStart(c, p) \/ KillScan(c, p) \/ KillMark(c, p) \/ KillPut(c, p)
      PROVE  Born \subseteq Born'
  <2>1. UNCHANGED state
    BY <1>2 DEF ScheduleKilled, KillStart, KillScan, KillMark, KillPut, sched
  <2> QED
    BY <2>1 DEF Born
<1>3. ASSUME NEW p \in Users, KillCleanup(c, p)
      PROVE  Born \subseteq Born'
  BY <1>0, <1>1, <1>3, GentleFacts DEF KillCleanup
<1>4. ASSUME NEW p \in Users, KillZombie(c, p)
      PROVE  Born \subseteq Born'
  BY <1>0, <1>4 DEF KillZombie, Born, TypeOK
<1>5. ASSUME NEW p \in Users, KillNotify(c, p)
      PROVE  Born \subseteq Born'
  <2>1. target[p] \in Users
    BY <1>5, TargetFacts, Zenon DEF Kill, KillNotify, KillStart
  <2> QED
    BY <1>0, <1>1, <1>5, <2>1, NotifyFacts DEF KillNotify
<1> QED
  BY <1>2, <1>3, <1>4, <1>5, UserFacts DEF Kill

\* The signal holds its target ...
LEMMA KillStartRefs ==
    ASSUME QueueInv, Born \subseteq Born', NEW c \in Cpus, NEW p \in Users, KillStart(c, p)
    PROVE  Referring' /\ Paid
<1>1. TypeOK /\ Lively /\ Referring
  BY DEF QueueInv
<1>2. PICK z \in (table \cap Users) \ {init} : refcount' = Hold(refcount, z) /\ target' = [target EXCEPT ![p] = z]
  BY ZenonT(40) DEF KillStart
<1>3. z \in Users /\ z \in Born /\ z # NULL
  BY <1>1, <1>2, UserFacts DEF Lively
<1>4. pc[p] = "user" /\ pc' = [pc EXCEPT ![p] = "kill_scan"] /\ UNCHANGED <<free_later, table, parent>>
  BY DEF KillStart
<1>5. /\ \A x \in Users : pc'[x] = IF x = p THEN "kill_scan" ELSE pc[x]
      /\ \A x \in Users : target'[x] = IF x = p THEN z ELSE target[x]
      /\ \A x \in Users : refcount[x] \in Int /\ refcount'[x] = refcount[x] + Is(z, x)
  BY <1>1, <1>2, <1>3, <1>4, UserFacts DEF TypeOK, Hold, Is
<1>6. Referring'
  <2>1. \A d \in Cpus : free_later'[d] # NULL => free_later'[d] \in Born'
    BY <1>1, <1>4 DEF Referring
  <2>2. Goes(p, "kill_scan", z)
    BY <1>3, <1>5, <2>1 DEF Goes
  <2> QED
    BY <1>1, <1>4, <2>2, ReferringStays
<1>7. free_later' = [free_later EXCEPT ![c] = free_later[c]]
  BY <1>1, <1>4, SameFacts
<1>8. ASSUME NEW x \in Users
      PROVE  refcount'[x] \in Int /\ refcount'[x] >= refcount[x] + Moved(p, z, c, free_later[c], x)
  <2>1. pc'[x] = "exit_switch" <=> pc[x] = "exit_switch"
    BY <1>4, <1>5
  <2>2. /\ Is(target[p], x) \in Int /\ Is(target[p], x) >= 0 /\ One(x \in table) \in Int
        /\ Is(free_later[c], x) \in Int /\ Is(z, x) \in Int
        /\ One(pc[x] = "exit_switch") \in Int /\ One(pc'[x] = "exit_switch") = One(pc[x] = "exit_switch")
    BY <2>1 DEF One, Is
  <2>3. Moved(p, z, c, free_later[c], x) = Is(z, x) - Is(target[p], x)
    BY <1>4, <2>2 DEF Moved
  <2> QED
    BY <1>5, <2>2, <2>3
<1>9. Paid
  BY <1>2, <1>7, <1>8, RefsKept, ZenonT(40)
<1> QED
  BY <1>6, <1>9

\* ... until it is done.
LEMMA KillPutRefs ==
    ASSUME QueueInv, Born \subseteq Born', NEW c \in Cpus, NEW p \in Users, KillPut(c, p)
    PROVE  Referring' /\ Paid
<1> DEFINE z == target[p]
           l == IF p \in kill_pending THEN "exit" ELSE "user"
<1>1. TypeOK /\ Lively /\ Referring
  BY DEF QueueInv
<1>2. /\ pc[p] = "kill_put" /\ pc' = [pc EXCEPT ![p] = l]
      /\ refcount' = Put(refcount, z, 1) /\ target' = [target EXCEPT ![p] = NULL]
      /\ UNCHANGED <<free_later, table, parent>>
      /\ l \notin Targeting \cup {"exit_switch", "wait_reap"}
  BY DEF KillPut, Return, Targeting
<1> HIDE DEF l
<1>3. /\ \A x \in Users : pc'[x] = IF x = p THEN l ELSE pc[x]
      /\ \A x \in Users : target'[x] = IF x = p THEN NULL ELSE target[x]
  BY <1>1, <1>2, UserFacts DEF TypeOK
<1>4. \A x \in Users : refcount[x] \in Int /\ refcount'[x] = refcount[x] - Is(z, x)
  BY <1>1, <1>2, UserFacts DEF TypeOK, Put, Is
<1>5. Referring'
  <2>1. \A d \in Cpus : free_later'[d] # NULL => free_later'[d] \in Born'
    BY <1>1, <1>2 DEF Referring
  <2>2. Goes(p, l, NULL)
    BY <1>2, <1>3, <2>1 DEF Goes
  <2> QED
    BY <1>1, <1>2, <2>2, ReferringStays
<1>6. free_later' = [free_later EXCEPT ![c] = free_later[c]]
  BY <1>1, <1>2, SameFacts
<1>7. ASSUME NEW x \in Users
      PROVE  refcount'[x] \in Int /\ refcount'[x] >= refcount[x] + Moved(p, NULL, c, free_later[c], x)
  <2>1. pc'[x] = "exit_switch" <=> pc[x] = "exit_switch"
    BY <1>2, <1>3
  <2>2. Is(NULL, x) = 0
    BY UserFacts DEF Is
  <2>3. /\ Is(z, x) \in Int /\ One(x \in table) \in Int
        /\ Is(free_later[c], x) \in Int /\ One(pc[x] = "exit_switch") \in Int
        /\ One(pc'[x] = "exit_switch") = One(pc[x] = "exit_switch")
    BY <2>1 DEF One, Is
  <2>4. Moved(p, NULL, c, free_later[c], x) = 0 - Is(z, x)
    BY <1>2, <2>2, <2>3 DEF Moved
  <2> QED
    BY <1>4, <2>3, <2>4
<1>8. Paid
  BY <1>2, <1>6, <1>7, RefsKept, ZenonT(40)
<1> QED
  BY <1>5, <1>8

\* The children of the target go to init.  It runs nowhere, so it reaps none of
\* them at this moment.
LEMMA KillCleanupRefs ==
    ASSUME QueueInv, Careful, Born \subseteq Born', NEW c \in Cpus, NEW p \in Users, KillCleanup(c, p)
    PROVE  Referring' /\ Paid
<1> DEFINE t == target[p]
<1>1. TypeOK /\ Referring /\ Reaping
  BY DEF QueueInv
<1>2. /\ pc[p] = "kill_cleanup" /\ pc' = [pc EXCEPT ![p] = "kill_zombie"] /\ parent' = ReparentedTo(t)
      /\ UNCHANGED <<free_later, refcount, table, target>> /\ \A d \in Cpus : current[d] # t
  BY Zenon DEF KillCleanup, Settled
<1>3. \A x \in Users : pc'[x] = IF x = p THEN "kill_zombie" ELSE pc[x]
  BY <1>1, <1>2, UserFacts DEF TypeOK
<1> HIDE DEF t
<1>4. ASSUME NEW q \in Users, pc'[q] = "wait_reap"
      PROVE  target'[q] \in table' \cap Users /\ parent'[target'[q]] = q
  <2>1. pc[q] = "wait_reap"
    BY <1>3, <1>4
  <2>2. q # t
    BY <1>1, <1>2, <2>1 DEF Reaping
  <2>3. target[q] \in table \cap Users /\ parent[target[q]] = q
    BY <1>1, <2>1 DEF Referring
  <2>4. target[q] \notin Children(t)
    BY <2>2, <2>3 DEF Children
  <2> QED
    BY <1>2, <2>3, <2>4, UserFacts, ZenonT(40) DEF ReparentedTo
<1>5. Referring'
  <2>1. \A d \in Cpus : free_later'[d] # NULL => free_later'[d] \in Born'
    BY <1>1, <1>2 DEF Referring
  <2>2. \A x \in Users : target'[x] = IF x = p THEN target[p] ELSE target[x]
    BY <1>2
  <2>3. target[p] # NULL /\ target[p] \in Born'
    BY <1>1, <1>2 DEF Referring, Targeting
  <2>4. Goes(p, "kill_zombie", target[p])
    BY <1>3, <2>1, <2>2, <2>3 DEF Goes
  <2> QED
    BY <1>1, <1>4, <2>4, ReferringMoves
<1> QED
  BY <1>2, <1>5, RefsQuiet, ZenonT(40)

LEMMA KillRefsStep ==
    ASSUME QueueInv, Careful, NEW c \in Cpus, ScheduleKilled(c) \/ \E p \in Users : Kill(c, p)
    PROVE  Referring' /\ Paid
<1>0. TypeOK /\ Referring /\ Born \subseteq Born'
  BY KillBornStays DEF QueueInv
<1>1. CASE ScheduleKilled(c)
  BY <1>0, <1>1, ScheduleRefs
<1>2. ASSUME NEW p \in Users, KillScan(c, p) \/ KillMark(c, p) \/ KillZombie(c, p) \/ KillNotify(c, p)
      PROVE  Referring' /\ Paid
  <2>1. target[p] # NULL
    BY <1>2, TargetFacts, UserFacts, ZenonT(40) DEF Kill, KillScan, KillMark, KillZombie, KillNotify, KillStart
  <2>2. UNCHANGED <<target, free_later, refcount, table, parent>>
    BY <1>2, ZenonT(40) DEF KillScan, KillMark, KillZombie, KillNotify, life
  <2>3. PICK l \in {"kill_put", "kill_mark", "kill_cleanup", "kill_notify"} : pc' = [pc EXCEPT ![p] = l]
    BY <1>2, Zenon DEF KillScan, KillMark, KillZombie, KillNotify
  <2> QED
    BY <1>0, <2>1, <2>2, <2>3, QuietRefs, Zenon
<1> QED
  BY <1>0, <1>1, <1>2, KillStartRefs, KillCleanupRefs, KillPutRefs DEF Kill

-----------------------------------------------------------------------------

(* The references counted. *)

INSTANCE FiniteSetTheorems

\* How many of S a function leads to x, and when its value at a changes to v.
CountOf(S, f, x) == Cardinality({q \in S : f[q] = x})
CountMoved(S, f, g, a, x) ==
    /\ CountOf(S, f, x) \in Nat
    /\ CountOf(S, g, x) = CountOf(S, f, x) + Is(g[a], x) - Is(f[a], x)

LEMMA CountMoves ==
    ASSUME NEW S, IsFiniteSet(S), NEW f, NEW g, NEW a \in S, NEW x, \A q \in S : q # a => g[q] = f[q]
    PROVE  CountMoved(S, f, g, a, x)
<1> DEFINE F == {q \in S : f[q] = x}
           G == {q \in S : g[q] = x}
           R == {q \in S \ {a} : f[q] = x}
<1>1. IsFiniteSet(F) /\ IsFiniteSet(G) /\ IsFiniteSet(R)
  BY FS_Subset
<1>2. a \notin R /\ F = (IF f[a] = x THEN R \cup {a} ELSE R) /\ G = (IF g[a] = x THEN R \cup {a} ELSE R)
  OBVIOUS
<1> HIDE DEF F, G, R
<1>3. Cardinality(R) \in Nat /\ Cardinality(F) \in Nat
  BY <1>1, FS_CardinalityType
<1>4. Cardinality(R \cup {a}) = Cardinality(R) + 1
  BY <1>1, <1>2, FS_AddElement, Zenon
<1>5. Cardinality(F) = Cardinality(R) + Is(f[a], x)
  BY <1>2, <1>3, <1>4 DEF Is
<1>6. Cardinality(G) = Cardinality(R) + Is(g[a], x)
  BY <1>2, <1>3, <1>4 DEF Is
<1>7. Is(g[a], x) \in Int /\ Is(f[a], x) \in Int
  BY DEF Is
<1>8. Cardinality(G) = Cardinality(F) + Is(g[a], x) - Is(f[a], x)
  BY <1>3, <1>5, <1>6, <1>7
<1> QED
  BY <1>3, <1>8 DEF F, G, CountOf, CountMoved

LEMMA HoldersMove ==
    ASSUME TypeOK, NEW p \in Users, NEW v, target' = [target EXCEPT ![p] = v],
           NEW c \in Cpus, NEW w, free_later' = [free_later EXCEPT ![c] = w], NEW x \in Users
    PROVE  /\ Holders(x) \in Int /\ Moved(p, v, c, w, x) \in Int
           /\ Holders(x)' = Holders(x) + Moved(p, v, c, w, x)
<1> DEFINE T == CountOf(Users, target, x)
           T2 == CountOf(Users, target', x)
           F == CountOf(Cpus, free_later, x)
           F2 == CountOf(Cpus, free_later', x)
<1>1. IsFiniteSet(Users) /\ IsFiniteSet(Cpus)
  BY ProcessAssumption
<1>2. \A q \in Users : target'[q] = IF q = p THEN v ELSE target[q]
  BY UserFacts DEF TypeOK
<1>3. \A d \in Cpus : free_later'[d] = IF d = c THEN w ELSE free_later[d]
  BY DEF TypeOK
<1>4. T \in Nat /\ T2 = T + Is(v, x) - Is(target[p], x)
  <2>1. target'[p] = v /\ \A q \in Users : q # p => target'[q] = target[q]
    BY <1>2
  <2>2. CountMoved(Users, target, target', p, x)
    BY <1>1, <2>1, CountMoves, Zenon
  <2> QED
    BY <2>1, <2>2 DEF CountMoved
<1>5. F \in Nat /\ F2 = F + Is(w, x) - Is(free_later[c], x)
  <2>1. free_later'[c] = w /\ \A d \in Cpus : d # c => free_later'[d] = free_later[d]
    BY <1>3
  <2>2. CountMoved(Cpus, free_later, free_later', c, x)
    BY <1>1, <2>1, CountMoves, Zenon
  <2> QED
    BY <2>1, <2>2 DEF CountMoved
<1>6. /\ Holders(x) = T + One(x \in table) + F + One(pc[x] = "exit_switch")
      /\ Holders(x)' = T2 + One(x \in table') + F2 + One(pc'[x] = "exit_switch")
  BY DEF Holders, One, CountOf
<1>7. /\ Is(v, x) \in Int /\ Is(target[p], x) \in Int /\ Is(w, x) \in Int /\ Is(free_later[c], x) \in Int
      /\ One(x \in table') \in Int /\ One(x \in table) \in Int
      /\ One(pc'[x] = "exit_switch") \in Int /\ One(pc[x] = "exit_switch") \in Int
  BY DEF One, Is
<1> HIDE DEF T, T2, F, F2
<1> QED
  BY <1>4, <1>5, <1>6, <1>7 DEF Moved

\* Nobody holds a process that is not born.
LEMMA NoHolders ==
    ASSUME TypeOK, Lively, Referring, NEW x \in Users, x \notin Born
    PROVE  Holders(x) = 0
<1>1. {q \in Users : target[q] = x} = {} /\ {c \in Cpus : free_later[c] = x} = {}
  BY UserFacts DEF Referring
<1>2. x \notin table /\ pc[x] # "exit_switch"
  BY DEF Lively, Referring
<1>3. Cardinality({}) = 0
  BY FS_EmptySet
<1> QED
  BY <1>1, <1>2, <1>3 DEF Holders

\* So every process_t keeps as many references as there are places that use it.
LEMMA PaidCounts ==
    ASSUME QueueInv, Paid
    PROVE  ReferencesCounted'
<1>1. TypeOK /\ Lively /\ Referring /\ ReferencesCounted
  BY DEF QueueInv
<1>2. CASE UNCHANGED <<target, free_later, refcount, table, pc>>
  BY <1>1, <1>2 DEF ReferencesCounted, Holders
<1>3. ASSUME NEW p \in Users, NEW c \in Cpus, NEW v, NEW w,
             target' = [target EXCEPT ![p] = v], free_later' = [free_later EXCEPT ![c] = w],
             \A x \in Users :
                /\ refcount'[x] \in Int
                /\ \/ refcount'[x] >= refcount[x] + Moved(p, v, c, w, x)
                   \/ x \notin Born /\ refcount'[x] >= Moved(p, v, c, w, x)
      PROVE  ReferencesCounted'
  <2> SUFFICES ASSUME NEW x \in Users
               PROVE  (refcount[x] >= Holders(x))'
    BY DEF ReferencesCounted
  <2>1. /\ Holders(x) \in Int /\ Moved(p, v, c, w, x) \in Int
        /\ Holders(x)' = Holders(x) + Moved(p, v, c, w, x)
    BY <1>1, <1>3, HoldersMove, Zenon
  <2>2. refcount[x] \in Int /\ refcount[x] >= Holders(x)
    BY <1>1, UserFacts DEF TypeOK, ReferencesCounted
  <2>3. x \notin Born => Holders(x) = 0
    BY <1>1, NoHolders, Zenon
  <2>4. refcount'[x] >= Holders(x)'
    BY <1>3, <2>1, <2>2, <2>3
  <2> QED
    BY <2>4
<1> QED
  BY <1>2, <1>3, Zenon DEF Paid

LEMMA InitQueueInv ==
    ASSUME Init
    PROVE  QueueInv
<1>1. Booted \subseteq Procs /\ NULL \notin Procs
  BY ProcessAssumption, UserFacts DEF Booted
<1>2. TypeOK
  BY <1>1, IdleFacts, UserFacts DEF Init, TypeOK, Pcs, Booted
<1>3. Born = Booted
  BY <1>1 DEF Born, Init
<1>4. Lively
  BY <1>3, IdleFacts, UserFacts DEF Init, Lively, Booted
<1>5. PICK ring \in [Booted -> Booted] :
        /\ IsRing(ring, Booted)
        /\ next = [p \in Procs |-> IF p \in Booted THEN ring[p] ELSE NULL]
  BY DEF Init
<1>6. \A p \in Procs : next[p] = IF p \in Booted THEN ring[p] ELSE NULL
  BY <1>5
<1>7. Linked = Booted
  BY <1>1, <1>5, <1>6 DEF Linked
<1>8. \A p \in Booted : next[p] = ring[p]
  BY <1>1, <1>6
<1>9. IsRing(next, Booted)
  BY <1>5, <1>8 DEF IsRing
<1>10. Ring
  BY <1>3, <1>7, <1>9 DEF Ring, Init
<1>11. Referring
  BY UserFacts DEF Init, Referring, Targeting
<1>12. ASSUME NEW x \in Users
       PROVE  refcount[x] >= Holders(x)
  <2>1. {q \in Users : target[q] = x} = {} /\ {c \in Cpus : free_later[c] = x} = {}
    BY UserFacts DEF Init
  <2>2. Cardinality({}) = 0
    BY FS_EmptySet
  <2>3. pc[x] # "exit_switch" /\ refcount[x] = IF x \in table THEN 1 ELSE 0
    BY UserFacts DEF Init
  <2> QED
    BY <2>1, <2>2, <2>3 DEF Holders
<1>13. Reaping
  BY UserFacts DEF Init, Reaping
<1> QED
  BY <1>2, <1>4, <1>10, <1>11, <1>12, <1>13, InitCpuInv DEF QueueInv, ReferencesCounted

-----------------------------------------------------------------------------

\* The steps that keep the invariant.
Tame ==
    \/ Peaceful
    \/ Careful /\ \E c \in Cpus : ScheduleKilled(c) \/ \E p \in Users : Kill(c, p)

LEMMA NextQueueInv ==
    ASSUME QueueInv, [Tame]_vars
    PROVE  QueueInv'
<1>1. CASE Tame
  <2>1. CpuInv' /\ Reaping'
    <3>1. Next
      BY <1>1 DEF Tame, Next
    <3> QED
      BY <3>1, NextCpuInv, ReapingStep DEF QueueInv
  <2>2. CASE Peaceful
    BY <2>1, <2>2, TypeStep, QueueStep, RefsStep, PaidCounts DEF QueueInv
  <2>3. CASE Careful /\ \E c \in Cpus : ScheduleKilled(c) \/ \E p \in Users : Kill(c, p)
    BY <2>1, <2>3, KillTypeStep, KillQueueStep, KillRefsStep, PaidCounts DEF QueueInv
  <2> QED
    BY <1>1, <2>2, <2>3 DEF Tame
<1>2. CASE UNCHANGED vars
  <2>1. UNCHANGED <<current, next, running_cpu, state, kill_pending, exited, free_later, refcount, table,
                    parent, wait_exit, dev_q, pc, target>>
    BY <1>2 DEF vars, sched, life, queues
  <2>2. TypeOK' /\ CpuInv'
    BY <2>1, NextCpuInv, <1>2 DEF QueueInv, TypeOK
  <2>3. Lively' /\ Ring'
    BY <2>1 DEF QueueInv, Lively, Ring, Linked, Born, IsRing
  <2>4. Referring' /\ Reaping' /\ ReferencesCounted'
    BY <2>1 DEF QueueInv, Referring, Reaping, ReferencesCounted, Holders, Born
  <2> QED
    BY <2>2, <2>3, <2>4 DEF QueueInv
<1> QED
  BY <1>1, <1>2

LEMMA QueueInvMeans ==
    ASSUME QueueInv
    PROVE  LivingQueued
<1>1. TypeOK /\ Lively /\ Ring /\ ReferencesCounted
  BY DEF QueueInv
<1>2. Born \ exited = {p \in Procs : state[p] \in {"running", "blocked"} /\ p \notin exited}
  BY <1>1 DEF Born, Lively, TypeOK
<1> QED
  BY <1>1, <1>2 DEF LivingQueued, RunQueueIsARing, Ring

\* While nobody sends fatal signals, the processes that live form one circle
\* however they fork, block, wait and exit on any number of CPUs, so that the
\* scan of process_schedule comes by every one of them; and no process_t has
\* fewer references than there are places that use it.
THEOREM LivingAlwaysQueued == FairSpec => []LivingQueued
<1>1. QueueInv /\ [Peaceful]_vars => QueueInv'
  BY NextQueueInv DEF Tame
<1> QED
  BY <1>1, InitQueueInv, QueueInvMeans, PTL DEF FairSpec

\* So it is with fatal signals at any moment and from any number of processes, if
\* a target that process_terminate_with_status found on no CPU is on none when it
\* is unlinked.
THEOREM KillsKeepTheQueue ==
    ASSUME Careful
    PROVE  Spec => []LivingQueued
<1>1. QueueInv /\ [Next]_vars => QueueInv'
  BY NextQueueInv DEF Tame, Next
<1> QED
  BY <1>1, InitQueueInv, QueueInvMeans, PTL DEF Spec

\* Nobody comes back from the dead.
LEMMA DeadStayDead ==
    ASSUME Next
    PROVE  exited \subseteq exited'
<1> USE DEF sched
<1>1. ASSUME NEW c \in Cpus, process_schedule(c) \/ ScheduleKilled(c)
      PROVE  exited \subseteq exited'
  BY <1>1 DEF process_schedule, ScheduleKilled
<1>2. ASSUME NEW c \in Cpus, NEW p \in Users, Syscall(c, p)
      PROVE  exited \subseteq exited'
  BY <1>2 DEF Syscall, process_duplicate, DevBlock, Exit, WaitPid
<1>3. ASSUME NEW c \in Cpus, NEW p \in Users, InKernel(c, p)
      PROVE  exited \subseteq exited'
  BY <1>3, ZenonT(40) DEF InKernel, pid_table_insert, DevAdd, DevRemove, ExitCleanup, ExitSwitch, WaitFound,
     WaitReturns, WaitSleeps, WaitAdd, WaitBlock, WaitRemove, WaitReap
<1>4. ASSUME NEW c \in Cpus, NEW p \in Users, Kill(c, p)
      PROVE  exited \subseteq exited'
  BY <1>4 DEF Kill, KillStart, KillScan, KillMark, KillCleanup, KillZombie, KillNotify, KillPut
<1>5. CASE DevWake
  BY <1>5 DEF DevWake
<1> QED
  BY <1>1, <1>2, <1>3, <1>4, <1>5 DEF Next, Peaceful

\* Under the same condition no CPU switches to a process that exited or was
\* killed, and none is behind a living one in the run queue, whoever wakes it:
\* runqueue_unlink_locked finds the process before it every time.
THEOREM TheDeadAreGone ==
    ASSUME Careful
    PROVE  Spec => DeadNeverRunAgain
<1>1. QueueInv /\ [Next]_vars => QueueInv'
  BY NextQueueInv DEF Tame, Next
<1>2. QueueInv' /\ [Next]_vars => [NoneDeadRunAgain]_vars
  <2> SUFFICES ASSUME QueueInv', Next
               PROVE  NoneDeadRunAgain
    OBVIOUS
  <2>1. TypeOK' /\ Lively' /\ Ring'
    BY DEF QueueInv
  <2>2. \A c \in Cpus : current'[c] \notin exited
    BY <2>1, DeadStayDead DEF Lively
  <2>3. ASSUME NEW p \in Procs \ exited'
        PROVE  next'[p] \notin exited'
    <3>1. CASE p \in Linked'
      BY <2>1, <3>1 DEF Ring, IsRing
    <3>2. CASE p \notin Linked'
      BY <2>1, <3>2, UserFacts DEF Linked, TypeOK
    <3> QED
      BY <3>1, <3>2
  <2> QED
    BY <2>2, <2>3 DEF NoneDeadRunAgain
<1> QED
  BY <1>1, <1>2, InitQueueInv, PTL DEF Spec, DeadNeverRunAgain
=============================================================================
