------------------------------ MODULE SockBuf ------------------------------
(***************************************************************************)
(* The buffer of a socket (net/sockbuf.c): a list of packets (pbufs), each *)
(* appended whole or refused, and read as a stream.  A reader takes what   *)
(* it will deliver off the list under the lock and copies it out after     *)
(* releasing the lock, while packets go on arriving.                       *)
(*                                                                         *)
(* A packet is the sequence of its bytes, and the byte at place i of the   *)
(* whole stream is i modulo NBYTES.                                        *)
(***************************************************************************)
EXTENDS Naturals, Sequences, SequencesExt

CONSTANTS
    HIWAT,         \* sb_hiwat
    PARTIAL,       \* sizeof(partial_buf)
    PEEK,          \* sizeof(kbuf) in the peek branch
    PacketLens,    \* the lengths of the packets appended (tot_len)
    ReadLens,      \* the max_len of the readers
    NBYTES,
    MAXSENT,       \* bound on the bytes of one behaviour
    MAXPACKETS     \* bound on the packets in the buffer: hiwat does not bound empty ones

VARIABLES
    packets,     \* the entries from head to tail
    sb_cc,
    consumed,    \* the entries a reader took off the list, not yet copied
    partial,     \* what it copied to partial_buf
    busy,        \* whether a reader is copying
    peeked,      \* what the last peek returned, until bytes are taken
    sent,        \* every byte of every packet appended
    got          \* every byte copied to the callers

vars == <<packets, sb_cc, consumed, partial, busy, peeked, sent, got>>

Lesser(a, b) == IF a < b THEN a ELSE b

Init ==
    /\ packets = <<>>
    /\ sb_cc = 0
    /\ consumed = <<>>
    /\ partial = <<>>
    /\ busy = FALSE
    /\ peeked = <<>>
    /\ sent = <<>>
    /\ got = <<>>

-----------------------------------------------------------------------------

\* The next n bytes of the sender.
Payload(n) == [i \in 1..n |-> (Len(sent) + i) % NBYTES]

Fits(n) == sb_cc + n <= HIWAT

sockbuf_append(n) ==
    /\ Len(sent) + n <= MAXSENT /\ Len(packets) < MAXPACKETS
    /\ Fits(n)
    /\ packets' = Append(packets, Payload(n))
    /\ sb_cc' = sb_cc + n
    /\ sent' = sent \o Payload(n)
    /\ UNCHANGED <<consumed, partial, busy, peeked, got>>

-----------------------------------------------------------------------------
(* sockbuf_read.  With max_len = m the reader takes the longest run of     *)
(* whole packets of at most m bytes, and then part of the next packet.  A  *)
(* run that is exactly m bytes long ends the loop before a packet of no    *)
(* bytes that follows it.                                                  *)

Bytes(ps) == FlattenSeq(ps)

\* The number of whole packets the loop consumes.
Whole(m) ==
    CHOOSE k \in 0..Len(packets) :
       /\ \A j \in 1..k : /\ Len(Bytes(SubSeq(packets, 1, j))) <= m
                          /\ Len(Bytes(SubSeq(packets, 1, j - 1))) < m
       /\ k < Len(packets) =>
             \/ Len(Bytes(SubSeq(packets, 1, k + 1))) > m
             \/ Len(Bytes(SubSeq(packets, 1, k))) >= m

\* pbuf_free_header
RestOf(p, n) == SubSeq(p, n + 1, Len(p))

sockbuf_read(m) ==
    LET k == Whole(m)
        taken == Len(Bytes(SubSeq(packets, 1, k)))
        n == Lesser(m - taken, PARTIAL)
        left == SubSeq(packets, k + 1, Len(packets))
    IN
    /\ ~busy /\ packets # <<>>
    /\ busy' = TRUE
    /\ consumed' = SubSeq(packets, 1, k)
    /\ IF taken < m /\ left # <<>>
       THEN /\ partial' = SubSeq(Head(left), 1, n)
            /\ packets' = <<RestOf(Head(left), n)>> \o Tail(left)
            /\ sb_cc' = sb_cc - (taken + n)
       ELSE /\ partial' = <<>>
            /\ packets' = left
            /\ sb_cc' = sb_cc - taken
    /\ peeked' = <<>>
    /\ UNCHANGED <<sent, got>>

\* Mutant: the part is copied in front of the whole packets.
Copied_PartFirst == partial \o Bytes(consumed)

Copied == Bytes(consumed) \o partial

CopyOut ==
    /\ busy
    /\ got' = got \o Copied
    /\ consumed' = <<>>
    /\ partial' = <<>>
    /\ busy' = FALSE
    /\ UNCHANGED <<packets, sb_cc, peeked, sent>>

HeadPacket == Head(packets)

\* The peek branch: the front of the first packet.
Peek(m) ==
    /\ packets # <<>>
    /\ peeked' = SubSeq(HeadPacket, 1, Lesser(Lesser(m, Len(HeadPacket)), PEEK))
    /\ UNCHANGED <<packets, sb_cc, consumed, partial, busy, sent, got>>

Next ==
    \/ \E n \in PacketLens : sockbuf_append(n)
    \/ \E m \in ReadLens : sockbuf_read(m) \/ Peek(m)
    \/ CopyOut

Spec == Init /\ [][Next]_vars

-----------------------------------------------------------------------------
(* Properties. *)

\* A byte that was peeked at is the next that a read delivers.
PeekIsNext ==
    peeked # <<>> => SubSeq(sent, 1, Len(got) + Len(Copied) + Len(peeked)) = got \o Copied \o peeked

Stream == INSTANCE ByteStream WITH Capacity <- HIWAT, got <- got \o Copied

\* The socket buffer is a bounded stream of bytes: the bytes a reader gets are
\* those that were accepted, in order, however packets and reads overlap.
IsByteStream == Stream!Spec
=============================================================================
