-------------------------------- MODULE Pipe --------------------------------
(***************************************************************************)
(* The bytes of a pipe (process_fd_pipe_t, sys/syscall_file.c): a ring     *)
(* with two positions and a count, changed under the lock of the pipe.     *)
(* Reads and writes transfer what they can and do not sleep.  The byte at  *)
(* place i of the stream is i modulo NBYTES.                               *)
(***************************************************************************)
EXTENDS Naturals, Sequences

CONSTANTS
    SIZE,       \* sizeof(pipe->data)
    Lens,       \* the lengths given to read and write
    NBYTES,
    MAXSENT     \* bound on the bytes of one behaviour

VARIABLES data, read_pos, write_pos, count,
          sent, got   \* every byte accepted and every byte delivered

vars == <<data, read_pos, write_pos, count, sent, got>>

Init ==
    /\ data = [i \in 0..SIZE - 1 |-> 0]
    /\ read_pos = 0 /\ write_pos = 0 /\ count = 0
    /\ sent = <<>> /\ got = <<>>

Lesser(a, b) == IF a < b THEN a ELSE b

\* The i-th position from pos on.
From(pos, i) == (pos + i) % SIZE

Room == SIZE - count

Write(len) ==
    LET n == Lesser(len, Room)
        bytes == [i \in 1..n |-> (Len(sent) + i) % NBYTES]
    IN
    /\ Len(sent) + n <= MAXSENT
    /\ data' = [j \in 0..SIZE - 1 |->
                  IF \E i \in 1..n : From(write_pos, i - 1) = j
                  THEN bytes[CHOOSE i \in 1..n : From(write_pos, i - 1) = j]
                  ELSE data[j]]
    /\ write_pos' = From(write_pos, n)
    /\ count' = count + n
    /\ sent' = sent \o bytes
    /\ UNCHANGED <<read_pos, got>>

Read(len) ==
    LET n == Lesser(len, count) IN
    /\ got' = got \o [i \in 1..n |-> data[From(read_pos, i - 1)]]
    /\ read_pos' = From(read_pos, n)
    /\ count' = count - n
    /\ UNCHANGED <<data, write_pos, sent>>

Next == \E len \in Lens : Write(len) \/ Read(len)

Spec == Init /\ [][Next]_vars

Stream == INSTANCE ByteStream WITH Capacity <- SIZE

\* A pipe is a bounded stream of bytes: short reads and writes, full and empty
\* pipes and the wrap-around of the ring lose, repeat and reorder nothing.
IsByteStream == Stream!Spec
=============================================================================
