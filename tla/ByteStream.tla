----------------------------- MODULE ByteStream -----------------------------
(***************************************************************************)
(* What a socket buffer or a pipe promises its two ends: a stream of bytes *)
(* of bounded length, from which bytes are taken in the order they were    *)
(* put, each once and none left out.                                       *)
(***************************************************************************)
EXTENDS Naturals, Sequences, SequencesExt

CONSTANT Capacity

VARIABLES
    sent,    \* every byte accepted so far
    got      \* every byte delivered so far

stream == <<sent, got>>

Init == sent = <<>> /\ got = <<>>

\* Bytes are accepted while there is room.
Put ==
    /\ IsPrefix(sent, sent')
    /\ Len(sent') - Len(got) <= Capacity
    /\ UNCHANGED got

\* The next bytes are delivered.
Get ==
    /\ \E n \in 1..(Len(sent) - Len(got)) : got' = SubSeq(sent, 1, Len(got) + n)
    /\ UNCHANGED sent

Next == Put \/ Get

Spec == Init /\ [][Next]_stream
=============================================================================
