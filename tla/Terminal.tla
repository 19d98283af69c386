------------------------------ MODULE Terminal ------------------------------
(***************************************************************************)
(* Terminals (sys/tty.c, sys/pty.c): the queue of characters between those *)
(* who type or print and the reader.                                       *)
(*                                                                         *)
(* The queue is a ring with one slot unused that drops what does not fit.  *)
(* That of a pty is worked on under the lock of the pair; that of a tty is *)
(* not: a push stores the character and then publishes the new head, a pop *)
(* loads the character and then moves the tail.  Pushes come from          *)
(* interrupts and system calls, which one CPU does not interleave.         *)
(***************************************************************************)
EXTENDS Naturals, Sequences, SequencesExt

CONSTANTS
    SIZE,         \* PTY_QUEUE_SIZE, TTY_IN_QUEUE_SIZE, TTY_OUT_QUEUE_SIZE
    Lines,        \* how the queue is fed: "pty", "serial", "keyboard" or "output"
    Producers,
    Placements,   \* the CPUs the producers may be on
    Keys,         \* the characters
    MAXTYPED      \* bound on the characters of one behaviour

VARIABLES
    line, cpu,       \* chosen at the start
    used,            \* the pty exists
    fg,              \* fg_pid, or else a child on the terminal, can be signalled
    buffer, head, tail,
    last_char_was_cr,
    storing,         \* the producers between store and publish, with their character
    loading,         \* what the reader loaded: a sequence of at most one
    typed,           \* the characters that came in, but for Ctrl+C that became a signal
    dropped,         \* whether one did not fit
    sent, got        \* the characters queued and those read

ring == <<buffer, head, tail>>
vars == <<line, cpu, used, fg, ring, last_char_was_cr, storing, loading, typed, dropped, sent, got>>

Init ==
    /\ line \in Lines /\ cpu \in Placements
    /\ used = (line # "pty")
    /\ fg = FALSE
    /\ buffer = [i \in 0..SIZE - 1 |-> 0]
    /\ head = 0 /\ tail = 0
    /\ last_char_was_cr = FALSE
    /\ storing = [p \in Producers |-> <<>>]
    /\ loading = <<>>
    /\ typed = <<>> /\ dropped = FALSE
    /\ sent = <<>> /\ got = <<>>

Following(i) == (i + 1) % SIZE

\* Mutant: the last slot is used too.
Full_NoGap == FALSE

Full == Following(head) = tail

-----------------------------------------------------------------------------
(* What a character becomes before it is queued. *)

\* Mutant: a line feed does not end the memory of the carriage return.
AfterKey_Sticky(c) == last_char_was_cr \/ c = "CR"

\* tty_push_serial_char
AfterKey(c) == c = "CR"

SkipsKey(c) == line = "serial" /\ c = "LF" /\ last_char_was_cr

Queued(c) ==
    CASE line = "serial" /\ c = "CR" -> "LF"
      [] line = "serial" /\ c = "DEL" -> "BS"
      [] OTHER -> c

\* Ctrl+C goes to the foreground process, or to a child on the terminal, if
\* there is one.  A tty then forgets its fg_pid; a pty never queues Ctrl+C.
Signal ==
    /\ line # "output" /\ used /\ fg
    /\ fg' \in (IF line = "pty" THEN {TRUE} ELSE {TRUE, FALSE})
    /\ UNCHANGED <<line, cpu, used, ring, last_char_was_cr, storing, loading, typed, dropped, sent, got>>

Queues(c) == c = "ETX" => line = "output" \/ (line # "pty" /\ ~fg)

\* TIOCSCTTY, TIOCSPGRP and tty_set_foreground.
SetForeground ==
    /\ used /\ ~fg
    /\ fg' = TRUE
    /\ UNCHANGED <<line, cpu, used, ring, last_char_was_cr, storing, loading, typed, dropped, sent, got>>

Type(c) ==
    /\ Len(typed) < MAXTYPED
    /\ typed' = Append(typed, c)
    /\ last_char_was_cr' = (line = "serial" /\ AfterKey(c))

Skip(p, c) ==
    /\ SkipsKey(c) /\ storing[p] = <<>>
    /\ Type(c)
    /\ UNCHANGED <<line, cpu, used, fg, ring, storing, loading, dropped, sent, got>>

-----------------------------------------------------------------------------
(* pty_queue_push, under the lock *)

PtyPush(c) ==
    /\ line = "pty" /\ used /\ Queues(c)
    /\ Type(c)
    /\ \/ ~Full /\ buffer' = [buffer EXCEPT ![head] = c] /\ head' = Following(head)
          /\ sent' = Append(sent, c) /\ UNCHANGED dropped
       \/ Full /\ dropped' = TRUE /\ UNCHANGED <<buffer, head, sent>>
    /\ UNCHANGED <<line, cpu, used, fg, tail, storing, loading, got>>

\* pty_queue_pop
PtyPop ==
    /\ line = "pty" /\ used /\ head # tail
    /\ got' = Append(got, buffer[tail])
    /\ tail' = Following(tail)
    /\ UNCHANGED <<line, cpu, used, fg, buffer, head, last_char_was_cr, storing, loading, typed, dropped, sent>>

\* Both queues start empty; nobody has the id of a pair that does not exist but
\* processes that pty_destroy is killing.
pty_create ==
    /\ line = "pty" /\ ~used
    /\ used' = TRUE /\ fg' = FALSE
    /\ head' = 0 /\ tail' = 0 /\ buffer' = [i \in 0..SIZE - 1 |-> 0]
    /\ typed' = <<>> /\ sent' = <<>> /\ got' = <<>> /\ dropped' = FALSE
    /\ UNCHANGED <<line, cpu, last_char_was_cr, storing, loading>>

pty_destroy ==
    /\ line = "pty" /\ used
    /\ used' = FALSE /\ fg' = FALSE
    /\ UNCHANGED <<line, cpu, ring, last_char_was_cr, storing, loading, typed, dropped, sent, got>>

-----------------------------------------------------------------------------
(* tty_queue_push and tty_out_queue_push, without a lock *)

Store(p, c) ==
    /\ line # "pty" /\ Queues(c) /\ ~SkipsKey(c)
    /\ \A q \in Producers : storing[q] # <<>> => cpu[q] # cpu[p]
    /\ storing[p] = <<>>
    /\ Type(c)
    /\ \/ /\ ~Full
          /\ buffer' = [buffer EXCEPT ![head] = Queued(c)]
          /\ storing' = [storing EXCEPT ![p] = <<Queued(c), Following(head)>>]
          /\ UNCHANGED dropped
       \/ Full /\ dropped' = TRUE /\ UNCHANGED <<buffer, storing>>
    /\ UNCHANGED <<line, cpu, used, fg, head, tail, loading, sent, got>>

Publish(p) ==
    /\ storing[p] # <<>>
    /\ head' = storing[p][2]
    /\ sent' = Append(sent, storing[p][1])
    /\ storing' = [storing EXCEPT ![p] = <<>>]
    /\ UNCHANGED <<line, cpu, used, fg, buffer, tail, last_char_was_cr, loading, typed, dropped, got>>

\* tty_queue_pop and tty_out_queue_pop: one reader.
Load ==
    /\ line # "pty" /\ head # tail /\ loading = <<>>
    /\ loading' = <<buffer[tail]>>
    /\ UNCHANGED <<line, cpu, used, fg, ring, last_char_was_cr, storing, typed, dropped, sent, got>>

Advance ==
    /\ loading # <<>>
    /\ tail' = Following(tail)
    /\ got' = got \o loading
    /\ loading' = <<>>
    /\ UNCHANGED <<line, cpu, used, fg, buffer, head, last_char_was_cr, storing, typed, dropped, sent>>

Next ==
    \/ \E c \in Keys : \/ PtyPush(c)
                       \/ \E p \in Producers : Skip(p, c) \/ Store(p, c)
    \/ \E p \in Producers : Publish(p)
    \/ Signal \/ SetForeground
    \/ PtyPop \/ pty_create \/ pty_destroy \/ Load \/ Advance

Spec == Init /\ [][Next]_vars

-----------------------------------------------------------------------------
(* Properties. *)

OneCpu == \A p, q \in Producers : cpu[p] = cpu[q]

InRing == [i \in 1..((head + SIZE - tail) % SIZE) |-> buffer[(tail + i - 1) % SIZE]]

\* While those who push share a CPU, or under the lock of a pty, a concurrent
\* reader gets the characters that were queued, each once and in order, however
\* often the ring fills and wraps around.
CharactersInOrder == (line = "pty" \/ OneCpu) => got \o InRing = sent

\* A serial line ends each line once, whether the terminal at the other end
\* sends CR, LF or both, unless a character was dropped.
LinesEndOnce ==
    LET Kept == {i \in 1..Len(typed) : ~(i > 1 /\ typed[i] = "LF" /\ typed[i - 1] = "CR")}
        order == SetToSortSeq(Kept, <)
        clean == [k \in 1..Len(order) |->
                    CASE typed[order[k]] = "CR" -> "LF"
                      [] typed[order[k]] = "DEL" -> "BS"
                      [] OTHER -> typed[order[k]]]
    IN  (line = "serial" /\ ~dropped /\ OneCpu /\ \A p \in Producers : storing[p] = <<>>)
          => sent = clean
=============================================================================
