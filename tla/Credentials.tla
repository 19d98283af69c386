---------------------------- MODULE Credentials -----------------------------
(***************************************************************************)
(* The user and group ids of a process: the system calls that change them  *)
(* (sys/syscall_proc.c), what a child and a new program start with         *)
(* (sys/process.c), and the permission check that reads them (fs/vfs.c).   *)
(* The model follows one process, and the child where there is one.        *)
(***************************************************************************)
EXTENDS Integers, FiniteSets

CONSTANTS
    Ids,         \* user and group ids; 0 is root
    Files,       \* programs: [uid, gid, setuid, setgid, nosuid, group, other], the
                 \* last two being whether these may run it
    NGROUPS_MAX,
    KEEP         \* (uid_t)-1

VARIABLES
    u, g,        \* the user ids and the group ids: real (r), effective (e), saved (s)
    groups,
    elevated,    \* is_suid_elevated
    ret,         \* what the last call returned
    dropped      \* as root it gave that up with setuid

vars == <<u, g, groups, elevated, ret, dropped>>

Same(i) == [r |-> i, e |-> i, s |-> i]
Held(x) == {x.r, x.e, x.s}
Arguments == Ids \cup {KEEP}
Kept(x, old) == IF x = KEEP THEN old ELSE x
Elevation(v, h) == v.e # v.r \/ h.e # h.r

Init ==
    /\ u = Same(0) /\ g = Same(0) /\ groups = {} /\ elevated = FALSE
    /\ ret = "ok" /\ dropped = FALSE

\* What a call leaves behind.
Returns(v, h, flag, result) ==
    /\ u' = v /\ g' = h /\ elevated' = flag /\ ret' = result
    /\ UNCHANGED <<groups, dropped>>

Refused == Returns(u, g, elevated, "EPERM")

\* Mutant: the saved id of root is kept.
SetKeepingSaved(x, id) ==
    IF u.e = 0 THEN [r |-> id, e |-> id, s |-> x.s]
    ELSE [x EXCEPT !.e = id]

\* setuid and setgid: root sets all three ids, others go back to one they have.
Set(x, id) ==
    IF u.e = 0 THEN Same(id)
    ELSE [x EXCEPT !.e = id]

handle_sys_setuid(id) ==
    IF u.e = 0 \/ id \in {u.r, u.s}
    THEN /\ u' = Set(u, id) /\ ret' = "ok"
         /\ dropped' = (dropped \/ (u.e = 0 /\ id # 0))
         /\ UNCHANGED <<g, groups, elevated>>
    ELSE Refused

handle_sys_setgid(id) ==
    IF u.e = 0 \/ id \in {g.r, g.s} THEN Returns(u, Set(g, id), elevated, "ok") ELSE Refused

Allowed(x, id) == id = KEEP \/ u.e = 0 \/ id \in Held(x)

\* Mutant: the real id that was set is not taken back when the effective one is refused.
SetRealFirst(x, r, e) ==
    IF Allowed(x, r) /\ ~Allowed(x, e) THEN [x EXCEPT !.r = Kept(r, x.r)] ELSE x

\* The ids as they are when setreuid or setregid refuses one of its arguments.
TakenBack(x, r, e) == x

Reset(x, r, e) ==
    LET y == [x EXCEPT !.r = Kept(r, @), !.e = Kept(e, @)]
    IN IF r # KEEP \/ (e # KEEP /\ e # x.r) THEN [y EXCEPT !.s = y.e] ELSE y

handle_sys_setreuid(r, e) ==
    IF Allowed(u, r) /\ Allowed(u, e)
    THEN Returns(Reset(u, r, e), g, Elevation(Reset(u, r, e), g), "ok")
    ELSE Returns(TakenBack(u, r, e), g, elevated, "EPERM")

handle_sys_setregid(r, e) ==
    IF Allowed(g, r) /\ Allowed(g, e)
    THEN Returns(u, Reset(g, r, e), Elevation(u, Reset(g, r, e)), "ok")
    ELSE Returns(u, TakenBack(g, r, e), elevated, "EPERM")

Chosen(x, r, e, s) == [r |-> Kept(r, x.r), e |-> Kept(e, x.e), s |-> Kept(s, x.s)]

handle_sys_setresuid(r, e, s) ==
    IF Allowed(u, r) /\ Allowed(u, e) /\ Allowed(u, s)
    THEN Returns(Chosen(u, r, e, s), g, Elevation(Chosen(u, r, e, s), g), "ok") ELSE Refused

handle_sys_setresgid(r, e, s) ==
    IF Allowed(g, r) /\ Allowed(g, e) /\ Allowed(g, s)
    THEN Returns(u, Chosen(g, r, e, s), Elevation(u, Chosen(g, r, e, s)), "ok") ELSE Refused

handle_sys_setgroups(list) ==
    IF u.e = 0 /\ Cardinality(list) <= NGROUPS_MAX
    THEN groups' = list /\ ret' = "ok" /\ UNCHANGED <<u, g, elevated, dropped>>
    ELSE Refused

\* Of the owner, the group and the others exactly one's bits count; the owner may
\* run each of the files here, and so may root.
vfs_check_permission(f) ==
    CASE u.e = 0 \/ u.e = f.uid -> TRUE
      [] g.e = f.gid \/ f.gid \in groups -> f.group
      [] OTHER -> f.other

\* A program is started in this process or, by spawn, in a child.
process_exec_replace_current(f) ==
    LET v == IF f.setuid /\ ~f.nosuid THEN [u EXCEPT !.e = f.uid, !.s = f.uid] ELSE u
        h == IF f.setgid /\ ~f.nosuid THEN [g EXCEPT !.e = f.gid, !.s = f.gid] ELSE g
    IN /\ vfs_check_permission(f)
       /\ u' = v /\ g' = h /\ elevated' = Elevation(v, h)
       /\ ret' = "exec" /\ dropped' = (dropped /\ 0 \notin Held(v))
       /\ UNCHANGED groups

\* The child of a fork has all of it; a thread starts without the supplementary groups.
process_create_thread ==
    /\ groups' = {} /\ elevated' = FALSE /\ ret' = "ok"
    /\ UNCHANGED <<u, g, dropped>>

Next ==
    \/ \E id \in Ids : handle_sys_setuid(id) \/ handle_sys_setgid(id)
    \/ \E r, e \in Arguments :
          \/ handle_sys_setreuid(r, e) \/ handle_sys_setregid(r, e)
          \/ \E s \in Arguments : handle_sys_setresuid(r, e, s) \/ handle_sys_setresgid(r, e, s)
    \/ \E list \in SUBSET Ids : handle_sys_setgroups(list)
    \/ \E f \in Files : process_exec_replace_current(f)
    \/ process_create_thread

Spec == Init /\ [][Next]_vars

-----------------------------------------------------------------------------

\* A process that gave up root with setuid has it in none of its user ids, and does
\* not get it again but by a program that is set to run as root.
DroppedForGood == dropped => 0 \notin Held(u)

\* A call that is refused changes no id, and a process that is not root only ever
\* moves between the ids it has: what changes them beyond that is the program it runs.
IdsHeld ==
    /\ ret' = "EPERM" => UNCHANGED <<u, g, groups, elevated>>
    /\ u.e # 0 /\ ret' # "exec" =>
          Held(u') \subseteq Held(u) /\ Held(g') \subseteq Held(g) /\ groups' \subseteq groups

\* Both, for every step.
IdsKept == [][IdsHeld /\ DroppedForGood']_vars
=============================================================================
