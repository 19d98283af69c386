------------------------------ MODULE Shootdown ------------------------------
(***************************************************************************)
(* The translations that CPUs cache and how they are taken back: the       *)
(* shootdown of mem/mmu.c, its callers in mem/vmm.c and the mask           *)
(* active_cpus that process_schedule and exec (sys/process.c) leave for    *)
(* it.  An entry of a page table is the number of the change that made it, *)
(* 0 when the page is not mapped; a TLB holds such numbers.                *)
(***************************************************************************)
EXTENDS Integers, FiniteSets

CONSTANTS
    Cpus,
    Tasks,           \* processes and threads
    Spaces,          \* address spaces
    initial_space,   \* the space of a process and its threads
    Pages,
    PageOps,         \* the calls that change page tables: which, from what page, how many pages
    FLUSH_MAX,       \* 1024: larger ranges flush the whole TLB
    ACK_VALUES,      \* 2^32: shootdown_acks is unsigned
    MAXCHANGES,      \* bound: changes of page tables
    NONE

ASSUME ShootdownAssumption ==
    /\ IsFiniteSet(Cpus)
    /\ Pages \subseteq Nat
    /\ initial_space \in Spaces
    /\ NONE \notin Tasks \cup Spaces \cup Cpus
    /\ PageOps \subseteq {"unmap", "protect", "cow"} \X Pages \X Nat
    /\ ACK_VALUES \in Nat /\ Cardinality(Cpus) < ACK_VALUES

VARIABLES
    vmm_space,       \* vmm_space[t]: the space of a task
    current,         \* current[c]: the task of a CPU, NONE for its idle process
    cr3,             \* cr3[c]: the space it has loaded, NONE for the kernel's
    active_cpus,     \* active_cpus[s]
    pte,             \* pte[s][p]
    tlb,             \* tlb[c][p]
    pc,              \* pc[c]: where the CPU is
    prev,            \* prev[c]: the task that a switch leaves
    op,              \* op[c]: the change that a call makes, and the CPUs it has to tell
    tlb_shootdown_lock,
    shootdown,       \* shootdown_virt and shootdown_count
    shootdown_acks,
    ipi,             \* the CPUs at which vector 0x42 is pending
    late,            \* a shootdown has given up waiting
    changes

vars == <<vmm_space, current, cr3, active_cpus, pte, tlb, pc, prev, op,
          tlb_shootdown_lock, shootdown, shootdown_acks, ipi, late, changes>>

sched_vars == <<vmm_space, current, cr3, active_cpus, prev>>
call_vars == <<tlb_shootdown_lock, shootdown, shootdown_acks, ipi, late>>

Empty == [p \in Pages |-> 0]
Nothing == [call |-> NONE, space |-> NONE, range |-> [virt |-> 0, count |-> 0], mask |-> {}]

Init ==
    /\ vmm_space = [t \in Tasks |-> initial_space]
    /\ current = [c \in Cpus |-> NONE]
    /\ cr3 = [c \in Cpus |-> NONE]
    /\ active_cpus = [s \in Spaces |-> {}]
    /\ pte = [s \in Spaces |-> [p \in Pages |-> IF s = initial_space THEN 1 ELSE 0]]
    /\ tlb = [c \in Cpus |-> Empty]
    /\ pc = [c \in Cpus |-> "user"]
    /\ prev = [c \in Cpus |-> NONE]
    /\ op = [c \in Cpus |-> Nothing]
    /\ tlb_shootdown_lock = NONE
    /\ shootdown = [virt |-> 0, count |-> 0]
    /\ shootdown_acks = 0
    /\ ipi = {}
    /\ late = FALSE
    /\ changes = 1

-----------------------------------------------------------------------------
(* The switch of process_schedule, under runqueue_lock.                     *)

SpaceOf(t) == IF t = NONE THEN NONE ELSE vmm_space[t]

\* The next task is marked as running here ...
process_schedule(c, t) ==
    /\ pc[c] = "user" /\ t # current[c]
    /\ \A d \in Cpus : pc[d] \notin {"load", "clear"}
    /\ t # NONE => \A d \in Cpus : current[d] # t
    /\ current' = [current EXCEPT ![c] = t]
    /\ active_cpus' = [s \in Spaces |-> active_cpus[s] \cup (IF s = SpaceOf(t) THEN {c} ELSE {})]
    /\ prev' = [prev EXCEPT ![c] = current[c]]
    /\ pc' = [pc EXCEPT ![c] = "load"]
    /\ UNCHANGED <<vmm_space, cr3, pte, tlb, op, call_vars, changes>>

\* ... its page table is loaded, which drops what the TLB holds ...
LoadCr3(c) ==
    /\ pc[c] = "load"
    /\ cr3' = [cr3 EXCEPT ![c] = SpaceOf(current[c])]
    /\ tlb' = [tlb EXCEPT ![c] = Empty]
    /\ pc' = [pc EXCEPT ![c] = "clear"]
    /\ UNCHANGED <<vmm_space, current, active_cpus, prev, pte, op, call_vars, changes>>

\* ... and the CPU is taken off the mask of the task before: also when that is the
\* mask of the next task, a thread of the same process, which no shootdown reaches
\* then.
ClearActive(c) ==
    /\ pc[c] = "clear"
    /\ active_cpus' = [s \in Spaces |-> active_cpus[s] \ (IF s = SpaceOf(prev[c]) THEN {c} ELSE {})]
    /\ prev' = [prev EXCEPT ![c] = NONE]
    /\ pc' = [pc EXCEPT ![c] = "user"]
    /\ UNCHANGED <<vmm_space, current, cr3, pte, tlb, op, call_vars, changes>>

Fresh(s) == pte[s] = Empty /\ active_cpus[s] = {} /\ \A t \in Tasks : vmm_space[t] # s

\* process_exec: the task goes on in a new space; no mask is touched.
process_exec(c, s) ==
    /\ pc[c] = "user" /\ current[c] # NONE
    /\ Fresh(s)
    /\ vmm_space' = [vmm_space EXCEPT ![current[c]] = s]
    /\ cr3' = [cr3 EXCEPT ![c] = s]
    /\ tlb' = [tlb EXCEPT ![c] = Empty]
    /\ UNCHANGED <<current, active_cpus, prev, pte, pc, op, call_vars, changes>>

-----------------------------------------------------------------------------
(* Page tables change under mmap_sem, in calls that run with interrupts     *)
(* off.                                                                     *)

Inside(c) == pc[c] \in {"changed", "lock", "send", "wait"}
Writes(c) == Inside(c) /\ op[c].call # "cow"

\* A present page is looked up, possibly ahead of its use.
Walk(c, p) ==
    /\ cr3[c] # NONE /\ tlb[c][p] = 0
    /\ pte[cr3[c]][p] # 0
    /\ tlb' = [tlb EXCEPT ![c][p] = pte[cr3[c]][p]]
    /\ UNCHANGED <<sched_vars, pte, pc, op, call_vars, changes>>

\* vmm_handle_page_fault on a page that is not mapped: nothing is cached of it.
MapPage(c, p) ==
    LET s == cr3[c] IN
    /\ pc[c] = "user" /\ s # NONE /\ pte[s][p] = 0
    /\ \A d \in Cpus : ~(Writes(d) /\ op[d].space = s)
    /\ changes < MAXCHANGES
    /\ changes' = changes + 1
    /\ pte' = [pte EXCEPT ![s][p] = changes']
    /\ UNCHANGED <<sched_vars, tlb, pc, op, call_vars>>

Span(r) == r.virt .. (r.virt + r.count - 1)

\* vmm_unmap, vmm_brk and vmm_protect, which write, and a copy-on-write fault,
\* which holds mmap_sem as a reader.
Change(c, call, virt, count) ==
    LET s == cr3[c]
        r == [virt |-> virt, count |-> count]
    IN
    /\ pc[c] = "user" /\ s # NONE
    /\ \A d \in Cpus : ~(Inside(d) /\ op[d].space = s /\ (call # "cow" \/ Writes(d)))
    /\ call = "cow" => pte[s][virt] # 0
    /\ changes < MAXCHANGES
    /\ changes' = changes + 1
    /\ pte' = [pte EXCEPT ![s] = [p \in Pages |->
           IF p \notin Span(r) \/ @[p] = 0 THEN @[p] ELSE IF call = "unmap" THEN 0 ELSE changes']]
    /\ op' = [op EXCEPT ![c] = [call |-> call, space |-> s, range |-> r, mask |-> {}]]
    /\ pc' = [pc EXCEPT ![c] = "changed"]
    /\ UNCHANGED <<sched_vars, tlb, call_vars>>

-----------------------------------------------------------------------------
(* mmu_tlb_shootdown_target, with the mask that its caller has read.        *)

\* Mutant: a range is flushed but for its last page.
FlushedShort(r, cached) ==
    [p \in Pages |-> IF p \in r.virt .. (r.virt + r.count - 2) THEN 0 ELSE cached[p]]

Flushed(r, cached) ==
    IF r.count = 0 \/ r.count > FLUSH_MAX THEN Empty
    ELSE [p \in Pages |-> IF p \in Span(r) THEN 0 ELSE cached[p]]

FlushLocal(c) ==
    LET mask == active_cpus[op[c].space] \ {c} IN
    /\ pc[c] = "changed"
    /\ tlb' = [tlb EXCEPT ![c] = Flushed(op[c].range, @)]
    /\ IF mask = {}
       THEN pc' = [pc EXCEPT ![c] = "user"] /\ op' = [op EXCEPT ![c] = Nothing]
       ELSE pc' = [pc EXCEPT ![c] = "lock"] /\ op' = [op EXCEPT ![c].mask = mask]
    /\ UNCHANGED <<sched_vars, pte, call_vars, changes>>

Acquire(c) ==
    /\ pc[c] = "lock" /\ tlb_shootdown_lock = NONE
    /\ tlb_shootdown_lock' = c
    /\ shootdown' = op[c].range
    /\ shootdown_acks' = Cardinality(op[c].mask)
    /\ pc' = [pc EXCEPT ![c] = "send"]
    /\ UNCHANGED <<sched_vars, pte, tlb, op, ipi, late, changes>>

Send(c) ==
    /\ pc[c] = "send"
    /\ ipi' = ipi \cup op[c].mask
    /\ pc' = [pc EXCEPT ![c] = "wait"]
    /\ UNCHANGED <<sched_vars, pte, tlb, op, tlb_shootdown_lock, shootdown, shootdown_acks, late, changes>>

Release(c) ==
    /\ tlb_shootdown_lock' = NONE
    /\ pc' = [pc EXCEPT ![c] = "user"]
    /\ op' = [op EXCEPT ![c] = Nothing]
    /\ UNCHANGED <<sched_vars, pte, tlb, shootdown, shootdown_acks, ipi, changes>>

AllAcked(c) ==
    /\ pc[c] = "wait" /\ shootdown_acks = 0
    /\ UNCHANGED late
    /\ Release(c)

TimedOut(c) ==
    /\ pc[c] = "wait" /\ shootdown_acks > 0
    /\ late' = TRUE
    /\ Release(c)

-----------------------------------------------------------------------------
(* mmu_tlb_ipi_handler, on a CPU that has interrupts enabled.               *)

\* Mutant: the handler answers and does not flush.
IpiAcksFirst(c) ==
    /\ pc[c] = "user" /\ c \in ipi
    /\ ipi' = ipi \ {c}
    /\ shootdown_acks' = IF shootdown_acks > 0 THEN shootdown_acks - 1 ELSE 0
    /\ UNCHANGED <<sched_vars, pte, tlb, pc, op, tlb_shootdown_lock, shootdown, late, changes>>

IpiFlush(c) ==
    /\ pc[c] = "user" /\ c \in ipi
    /\ ipi' = ipi \ {c}
    /\ tlb' = [tlb EXCEPT ![c] = Flushed(shootdown, @)]
    /\ pc' = [pc EXCEPT ![c] = "flushed"]
    /\ UNCHANGED <<sched_vars, pte, op, tlb_shootdown_lock, shootdown, shootdown_acks, late, changes>>

IpiLoadAcks(c) ==
    /\ pc[c] = "flushed"
    /\ pc' = [pc EXCEPT ![c] = IF shootdown_acks > 0 THEN "ack" ELSE "user"]
    /\ UNCHANGED <<sched_vars, pte, tlb, op, call_vars, changes>>

IpiAck(c) ==
    /\ pc[c] = "ack"
    /\ shootdown_acks' = (shootdown_acks - 1) % ACK_VALUES
    /\ pc' = [pc EXCEPT ![c] = "user"]
    /\ UNCHANGED <<sched_vars, pte, tlb, op, tlb_shootdown_lock, shootdown, ipi, late, changes>>

\* Bound: what follows a call that gave up is not looked at.
Next ==
    \E c \in IF late THEN {} ELSE Cpus :
        \/ \E t \in Tasks \cup {NONE} : process_schedule(c, t)
        \/ LoadCr3(c) \/ ClearActive(c)
        \/ \E s \in Spaces : process_exec(c, s)
        \/ \E p \in Pages : Walk(c, p) \/ MapPage(c, p)
        \/ \E k \in PageOps : Change(c, k[1], k[2], k[3])
        \/ FlushLocal(c) \/ Acquire(c) \/ Send(c) \/ AllAcked(c) \/ TimedOut(c)
        \/ IpiFlush(c) \/ IpiLoadAcks(c) \/ IpiAck(c)

Spec == Init /\ [][Next]_vars

-----------------------------------------------------------------------------

Stale(c, p) == cr3[c] # NONE /\ tlb[c][p] \notin {0, pte[cr3[c]][p]}

\* A CPU that is named by the mask of the space it runs in does not use a
\* translation that was taken back, once the call that took it back has returned:
\* mmu_tlb_shootdown_target reaches it however switches, other calls and other
\* shootdowns interleave.  This is promised as long as no call gave up waiting.
StaleOnlyDuringCall ==
    ~late => \A c \in Cpus, p \in Pages :
        pc[c] = "user" /\ Stale(c, p) /\ c \in active_cpus[cr3[c]] =>
            \E d \in Cpus : Inside(d) /\ op[d].space = cr3[c] /\ p \in Span(op[d].range)
=============================================================================
