------------------------------- MODULE Futex --------------------------------
(***************************************************************************)
(* Futexes and sleeping (sys/syscall_time.c): a thread sleeps on a word in *)
(* memory that it found to be what it expected, and threads that change    *)
(* the word wake those that sleep on it.  The list of a bucket runs        *)
(* through the threads themselves.  What the bucket lock covers is one     *)
(* step; the stores to the words, which no lock covers, are steps too.     *)
(***************************************************************************)
EXTENDS Integers, FiniteSets, Sequences

CONSTANTS
    Threads,
    Words,       \* addresses that fall into one bucket
    Counts,      \* how many threads a wake is asked to wake
    MAXSTORES,   \* bound: stores to the words
    Careful,     \* TRUE: only a wake ends a wait on a futex: no timeout and no signal
    NONE

VARIABLES
    word,        \* the value of each word
    head,        \* the first thread of the bucket
    node,        \* futex_waiter of each thread: its word and the next thread
    state,       \* of each thread
    until,       \* sleep_until of each thread: not set, still to come, or over
    expects,     \* the value with which the thread sleeps on its word
    owes,        \* the word that a thread has changed and whose sleepers it has yet to wake
    spared,      \* the threads that a wake left asleep as it had woken its count
    stores

vars == <<word, head, node, state, until, expects, owes, spared, stores>>

Free == [word |-> NONE, next |-> NONE]

futex_init == head = NONE /\ node = [t \in Threads |-> Free]

Init ==
    /\ futex_init
    /\ word = [w \in Words |-> 0]
    /\ state = [t \in Threads |-> "running"]
    /\ until = [t \in Threads |-> "unset"]
    /\ expects = [t \in Threads |-> NONE]
    /\ owes = [t \in Threads |-> NONE]
    /\ spared = {}
    /\ stores = 0

InUserMode(t) == state[t] = "running" /\ owes[t] = NONE

\* A program changes a word, and is then to wake those who wait for that.
Store(t, w) ==
    /\ InUserMode(t)
    /\ stores < MAXSTORES
    /\ word' = [word EXCEPT ![w] = 1 - @]
    /\ owes' = [owes EXCEPT ![t] = w]
    /\ stores' = stores + 1
    /\ UNCHANGED <<head, node, state, until, expects, spared>>

\* Mutant: the word is not compared under the lock.
Unchecked(w, expected) == TRUE

AsExpected(w, expected) == word[w] = expected

kernel_futex_wait(t, w, expected) ==
    IF AsExpected(w, expected)
    THEN /\ node' = [node EXCEPT ![t] = [word |-> w, next |-> head]]
         /\ head' = t
         /\ state' = [state EXCEPT ![t] = "blocked"]
         /\ expects' = [expects EXCEPT ![t] = expected]
         /\ spared' = spared \ {t}
    ELSE UNCHANGED <<node, head, state, expects, spared>>

\* A timeout is set before the word is compared, and stays set when it differs.
FutexWait(t, w, expected, timed) ==
    /\ InUserMode(t)
    /\ Careful => ~timed
    /\ until' = [until EXCEPT ![t] = IF timed THEN "set" ELSE @]
    /\ kernel_futex_wait(t, w, expected)
    /\ UNCHANGED <<word, owes, stores>>

\* The walk of a wake: the list from t on without the first n that sleep on w, and
\* these.  At most so many steps, for the list may run in a circle.
RECURSIVE Walk(_, _, _, _)
Walk(t, w, n, steps) ==
    IF t = NONE \/ n = 0 \/ steps = 0
    THEN [first |-> t, woken |-> {}, next |-> [x \in Threads |-> node[x].next]]
    ELSE IF node[t].word = w
    THEN LET rest == Walk(node[t].next, w, n - 1, steps - 1)
         IN [rest EXCEPT !.woken = @ \cup {t}, !.next[t] = NONE]
    ELSE LET rest == Walk(node[t].next, w, n, steps - 1)
         IN [rest EXCEPT !.first = t, !.next[t] = rest.first]

\* Mutant: the walk goes on behind the thread that follows an unlinked one.
SkipsOne(w, n) ==
    LET one == Walk(head, w, 1, Cardinality(Threads) + 1)
    IN IF n = 1 \/ one.first = NONE THEN one ELSE [one EXCEPT !.first = one.next[one.first]]

Unlinked(w, n) == Walk(head, w, n, Cardinality(Threads) + 1)

kernel_futex_wake(t, count) ==
    LET w == owes[t]
        u == Unlinked(w, count)
        sleeping == {x \in Threads : node[x].word = w} \ u.woken
    IN /\ state[t] = "running" /\ w # NONE
       /\ owes' = [owes EXCEPT ![t] = NONE]
       /\ head' = u.first
       /\ node' = [x \in Threads |->
                      IF x \in u.woken THEN Free ELSE [node[x] EXCEPT !.next = u.next[x]]]
       /\ state' = [x \in Threads |-> IF x \in u.woken THEN "running" ELSE state[x]]
       /\ expects' = [x \in Threads |-> IF x \in u.woken THEN NONE ELSE expects[x]]
       /\ spared' = (spared \ u.woken) \cup (IF Cardinality(u.woken) = count THEN sleeping ELSE {})
       /\ UNCHANGED <<word, until, stores>>

handle_sys_nanosleep(t) ==
    /\ InUserMode(t)
    /\ until' = [until EXCEPT ![t] = "set"]
    /\ state' = [state EXCEPT ![t] = "blocked"]
    /\ UNCHANGED <<word, head, node, expects, owes, spared, stores>>

TimePasses(t) ==
    /\ until[t] = "set"
    /\ until' = [until EXCEPT ![t] = "over"]
    /\ UNCHANGED <<word, head, node, state, expects, owes, spared, stores>>

\* The scheduler chooses a thread whose time is over.  The waiter of the thread, if it
\* has one, stays in its bucket.
process_schedule(t) ==
    /\ state[t] = "blocked" /\ until[t] = "over"
    /\ state' = [state EXCEPT ![t] = "running"]
    /\ until' = [until EXCEPT ![t] = "unset"]
    /\ expects' = [expects EXCEPT ![t] = NONE]
    /\ UNCHANGED <<word, head, node, owes, spared, stores>>

\* A signal wakes the thread, or ends it; its waiter stays there as well.
Signalled(t, to) ==
    /\ state[t] = "blocked"
    /\ Careful => node[t] = Free
    /\ state' = [state EXCEPT ![t] = to]
    /\ until' = [until EXCEPT ![t] = "unset"]
    /\ expects' = [expects EXCEPT ![t] = NONE]
    /\ UNCHANGED <<word, head, node, owes, spared, stores>>

Next ==
    \E t \in Threads :
       \/ \E w \in Words : Store(t, w) \/ \E e \in {0, 1}, timed \in BOOLEAN : FutexWait(t, w, e, timed)
       \/ \E n \in Counts : kernel_futex_wake(t, n)
       \/ handle_sys_nanosleep(t) \/ TimePasses(t) \/ process_schedule(t)
       \/ Signalled(t, "running") \/ Signalled(t, "zombie")

Spec == Init /\ [][Next]_vars

-----------------------------------------------------------------------------

\* The threads of the bucket, in the order of the list.
RECURSIVE Listed(_, _)
Listed(t, steps) == IF t = NONE \/ steps = 0 THEN <<>> ELSE <<t>> \o Listed(node[t].next, steps - 1)
Bucket == Listed(head, Cardinality(Threads) + 1)

\* The list of a bucket ends, has no thread twice, and holds exactly the threads
\* that sleep on a futex: none that went on, and none that is gone.
ListSound ==
    LET listed == {Bucket[i] : i \in DOMAIN Bucket}
    IN /\ Len(Bucket) = Cardinality(listed)
       /\ listed = {t \in Threads : expects[t] # NONE}

\* No wake is lost: while a thread sleeps on a word that is no longer what it
\* expected, whoever changed the word has yet to wake its sleepers, or has woken
\* as many others as it was asked to.
NoLostWake ==
    \A t \in Threads : expects[t] # NONE /\ word[node[t].word] # expects[t] =>
        t \in spared \/ \E x \in Threads : owes[x] = node[t].word

\* Both.
WaitersServed == ListSound /\ NoLostWake
=============================================================================
