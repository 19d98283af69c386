------------------------------ MODULE Signals -------------------------------
(***************************************************************************)
(* Signals between processes (sys/syscall_proc.c, sys/syscall.c): kill to  *)
(* one process, to a group and to all, the actions and the mask a process  *)
(* sets, pause, and the delivery on the way out of a system call.  A call  *)
(* and its way out are one step of the process that makes it.              *)
(***************************************************************************)
EXTENDS Integers, FiniteSets, FiniteSetsExt

CONSTANTS
    Procs,       \* process ids; 1 is init
    Parent,      \* the parent of each, 0 for init
    Group,       \* pgid of each
    Uid,         \* uid, euid and suid of each, equal here
    Elevated,    \* those with is_suid_elevated
    Sigs,        \* the signals used
    Masks,       \* bound: the sets that a process gives to sigprocmask
    Actions,     \* bound: what it gives to sigaction: signal, handler, SA_RESETHAND
    Careful      \* TRUE: pause is not called with a signal to deliver, and groups
                 \* that are signalled do not have init in them, see below

Init1 == 1
SIGKILL == 9
SIGSTOP == 19
SIGCHLD == 17
IgnoredByDefault == {17, 28, 23}
Crashes == {11, 4, 8, 7}

VARIABLES
    proc,        \* what the kernel keeps of each process
    panicked     \* kernel_panic

vars == <<proc, panicked>>

\* owed: signals sent while the process had a handler for them, and not acted on;
\* killed: SIGKILL was sent to it.
Fresh == [state |-> "running", pending |-> {}, mask |-> {}, handlers |-> [s \in Sigs |-> "default"],
          resets |-> {}, dying |-> FALSE, killed |-> FALSE, owed |-> {}]

Init ==
    /\ proc = [p \in Procs |-> Fresh]
    /\ panicked = FALSE

Alive(ps, p) == ps[p].state # "zombie"

-----------------------------------------------------------------------------
(* Sending.                                                                 *)

Owing(r, sig) == [r EXCEPT !.owed = IF r.handlers[sig] = "function" THEN @ \cup {sig} ELSE @]

\* Mutant: a process that sleeps is not woken.
PostedAsleep(r, sig) == [Owing(r, sig) EXCEPT !.pending = @ \cup {sig}]

Posted(r, sig) ==
    [Owing(r, sig) EXCEPT !.pending = @ \cup {sig}, !.state = IF @ = "blocked" THEN "running" ELSE @]

\* The process becomes a zombie and its parent, or init, hears of it.
Zombie(ps, q) ==
    LET to == IF Parent[q] = 0 THEN Init1 ELSE Parent[q]
        gone == [ps EXCEPT ![q] = [Fresh EXCEPT !.state = "zombie"]]
    IN [gone EXCEPT ![to] = Posted(@, SIGCHLD)]

\* process_terminate_with_status: one that is current on a processor is marked.
process_terminate_with_status(ps, q, current) ==
    IF current THEN [ps EXCEPT ![q].dying = TRUE] ELSE Zombie(ps, q)

Ignores(r, sig) ==
    r.handlers[sig] = "ignore" \/ (r.handlers[sig] = "default" /\ sig \in IgnoredByDefault)

Permitted(p, q) == Uid[p] = 0 \/ (q \notin Elevated /\ Uid[p] = Uid[q])

\* sys_cmd_kill_signal for one process.  Init survives what would end it.
sys_cmd_kill_signal(ps, p, q, sig, current) ==
    IF ~Alive(ps, q) \/ ~Permitted(p, q) THEN ps
    ELSE IF q = Init1 /\ (sig \in {SIGKILL, SIGSTOP} \/ ps[q].handlers[sig] = "default") THEN ps
    ELSE IF sig = SIGKILL THEN process_terminate_with_status([ps EXCEPT ![q].killed = TRUE], q, current)
    ELSE IF Ignores(ps[q], sig) THEN ps
    ELSE IF ps[q].handlers[sig] = "default" THEN process_terminate_with_status(ps, q, current)
    ELSE [ps EXCEPT ![q] = Posted(@, sig)]

\* Those of a list of processes that kill(-1) takes, one after the other.
RECURSIVE KilledAll(_, _, _, _, _)
KilledAll(ps, p, qs, sig, currents) ==
    IF qs = {} THEN ps
    ELSE LET q == Min(qs)
         IN KilledAll(sys_cmd_kill_signal(ps, p, q, sig, q \in currents), p, qs \ {q}, sig, currents)

\* signal_send_to_pgrp: posted to every process of the group that does not ignore
\* it, whatever its default action, and whoever sends it.
Grouped(ps, g) == {q \in Procs : Alive(ps, q) /\ (Group[q] = g \/ q = g)}
signal_send_to_pgrp(ps, g, sig) ==
    [q \in Procs |->
        IF q \in Grouped(ps, g) /\ ~Ignores(ps[q], sig)
        THEN [Posted(ps[q], sig) EXCEPT !.killed = @ \/ sig = SIGKILL] ELSE ps[q]]

-----------------------------------------------------------------------------
(* The way out of a system call.                                            *)

Deliverable(r) == r.pending \ r.mask

\* Mutant: what is pending is cleared with the one that is delivered.
TakesAll(r, sig) == [r EXCEPT !.pending = {}]

Takes(r, sig) == [r EXCEPT !.pending = @ \ {sig}]

syscall_maybe_deliver_signal(ps, p) ==
    LET sig == Min(Deliverable(ps[p]))
        r == [Takes(ps[p], sig) EXCEPT !.owed = @ \ {sig}]
    IN IF Deliverable(ps[p]) = {} THEN ps
       ELSE IF Ignores(r, sig) THEN [ps EXCEPT ![p] = r]
       ELSE IF r.handlers[sig] = "default" \/ sig = SIGKILL
            THEN process_terminate_with_status([ps EXCEPT ![p] = r], p, TRUE)
       ELSE IF sig \in r.resets
            THEN [ps EXCEPT ![p] = [r EXCEPT !.handlers[sig] = "default", !.resets = @ \ {sig}]]
       ELSE [ps EXCEPT ![p] = r]

\* What syscall_handler_c does after the call, and the short calls do as well.
Out(ps, p) ==
    IF ps[p].dying THEN Zombie(ps, p)
    ELSE IF ps[p].state = "blocked" THEN ps
    ELSE syscall_maybe_deliver_signal(ps, p)

\* p makes the call that changes the processes to ps.
Call(p, ps) ==
    /\ ~panicked
    /\ proc[p].state = "running"
    /\ proc' = Out(ps, p)
    /\ UNCHANGED panicked

-----------------------------------------------------------------------------
(* The calls.                                                               *)

\* One that does nothing to signals, the short ones included.
Other(p) == Call(p, proc)

kill(p, q, sig, current) ==
    /\ ~(q = Init1 /\ Permitted(p, q) /\ Alive(proc, q) /\ sig \in Crashes /\ proc[q].handlers[sig] = "default")
    /\ p = q => current
    /\ current => proc[q].state = "running"
    /\ Call(p, sys_cmd_kill_signal(proc, p, q, sig, current))

\* A crash signal that init does not handle.
KillsInit(p, sig) ==
    /\ ~panicked
    /\ proc[p].state = "running" /\ Alive(proc, Init1)
    /\ Permitted(p, Init1)
    /\ sig \in Crashes /\ proc[Init1].handlers[sig] = "default"
    /\ panicked' = TRUE
    /\ UNCHANGED proc

kill_all(p, sig, currents) ==
    LET targets == {q \in Procs : q > 1 /\ q # p /\ Alive(proc, q)}
    IN /\ currents \subseteq {q \in targets : proc[q].state = "running"}
       /\ Call(p, KilledAll(proc, p, targets, sig, currents))

\* Careful: init is not in the group, for there is nothing here to protect it.
kill_group(p, g, sig) ==
    /\ Careful => Init1 \notin Grouped(proc, g)
    /\ Call(p, signal_send_to_pgrp(proc, g, sig))

sys_cmd_sigaction(p, sig, handler, reset) ==
    /\ ~(sig = SIGKILL /\ handler # "default")
    /\ Call(p, [proc EXCEPT ![p].handlers[sig] = handler, ![p].resets = IF reset THEN @ \cup {sig} ELSE @ \ {sig}])

sys_cmd_sigprocmask(p, how, set) ==
    LET mask == CASE how = "block" -> proc[p].mask \cup set
                  [] how = "unblock" -> proc[p].mask \ set
                  [] how = "set" -> set
    IN Call(p, [proc EXCEPT ![p].mask = mask \ {SIGKILL}])

\* Careful: a signal that came before the call is not noticed by it.
handle_sys_pause(p) ==
    /\ Careful => Deliverable(proc[p]) = {}
    /\ Call(p, [proc EXCEPT ![p].state = "blocked"])

Exit(p) ==
    /\ ~panicked
    /\ proc[p].state = "running" /\ p # Init1
    /\ proc' = Zombie(proc, p)
    /\ UNCHANGED panicked

\* The scheduler on the processor of a process that is marked.
Reaped(p) ==
    /\ ~panicked
    /\ proc[p].dying
    /\ proc' = Zombie(proc, p)
    /\ UNCHANGED panicked

Next ==
    \/ \E p \in Procs : Other(p) \/ handle_sys_pause(p) \/ Exit(p) \/ Reaped(p)
    \/ \E p, q \in Procs, sig \in Sigs, current \in BOOLEAN : kill(p, q, sig, current)
    \/ \E p \in Procs, sig \in Sigs : KillsInit(p, sig)
    \/ \E p \in Procs, sig \in Sigs, currents \in SUBSET Procs : kill_all(p, sig, currents)
    \/ \E p \in Procs, g \in {Group[q] : q \in Procs}, sig \in Sigs : kill_group(p, g, sig)
    \/ \E p \in Procs : \E a \in Actions[p] : sys_cmd_sigaction(p, a[1], a[2], a[3])
    \/ \E p \in Procs, how \in {"block", "unblock", "set"} : \E set \in Masks[p] : sys_cmd_sigprocmask(p, how, set)

Spec == Init /\ [][Next]_vars

-----------------------------------------------------------------------------

\* A signal for which a process had a handler when it was sent is pending until
\* the process has acted on it.
SignalsKept == \A p \in Procs : Alive(proc, p) => proc[p].owed \subseteq proc[p].pending

\* Whatever a process does with its mask and its actions, one that was sent
\* SIGKILL is dead, marked, or has it pending where nothing keeps it off.
KillSticks ==
    \A p \in Procs : proc[p].killed /\ Alive(proc, p) /\ ~proc[p].dying =>
        SIGKILL \in Deliverable(proc[p]) /\ proc[p].handlers[SIGKILL] = "default"

\* A process that sleeps in pause has no signal to deliver: every sender wakes it.
SleepersAwake == \A p \in Procs : proc[p].state = "blocked" => Deliverable(proc[p]) = {}

\* The three together: sent signals are kept, acted on, and wake who waits for them.
SignalsAct == SignalsKept /\ KillSticks /\ SleepersAwake
=============================================================================
