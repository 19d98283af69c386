----------------------------- MODULE UsbStorage -----------------------------
(***************************************************************************)
(* A USB mass storage device (dev/usbms.c) on its two bulk pipes           *)
(* (xHCI_queue_transfer in drivers/xHCI/xHCI.c).  A request goes in chunks *)
(* through the bounce buffer; every chunk is a command block, its data and *)
(* a status, each queued when the event of the one before is handled by    *)
(* whichever thread polls the event ring.  The unit of data is a sector.   *)
(***************************************************************************)
EXTENDS Integers, Sequences

CONSTANTS
    Threads,         \* readers and writers
    Worker,          \* xHCI_worker, which only polls
    LIMIT,           \* XHCI_CMD_RING_INDEX_LIMIT
    MAX_CHUNK,       \* MAX_SECT_PER_CHUNK
    Offset,          \* Offset[t]: partition_lba_offset of the disk that t uses
    Sectors,         \* the sectors of the device
    Requests,        \* operation, sector and count
    MAXREQUESTS,     \* bound
    NONE

Pollers == Threads \cup {Worker}
Pipes == {"in", "out"}

VARIABLES
    transfers_lock,  \* the thread that holds it
    req,             \* req[t]: the request of a thread
    state,           \* USB_ms_t: the phase of the chunk
    cbw,             \* current_cbw
    bounce,          \* the bounce buffer
    ring,            \* ring[e]: the transfer ring of a pipe
    chip,            \* chip[e]: where the controller reads it
    phase,           \* what the device does next
    event,           \* the event ring
    poller,          \* poller[w]: the event w has taken off it
    medium,
    made

vars == <<transfers_lock, req, state, cbw, bounce, ring, chip, phase, event, poller, medium, made>>

Init ==
    /\ transfers_lock = NONE
    /\ req = [t \in Threads |-> NONE]
    /\ state = "IDLE"
    /\ cbw = NONE
    /\ bounce = <<>>
    /\ ring = [e \in Pipes |-> [trb |-> [i \in 0..LIMIT |-> [what |-> "none", cycle |-> 0]], enq |-> 0, cycle |-> 1]]
    /\ chip = [e \in Pipes |-> [deq |-> 0, ccs |-> 1]]
    /\ phase = "command"
    /\ event = <<>>
    /\ poller = [w \in Pollers |-> NONE]
    /\ medium = [s \in Sectors |-> "old"]
    /\ made = 0

-----------------------------------------------------------------------------

Linked(r) == [r EXCEPT !.trb[LIMIT] = [what |-> "link", cycle |-> r.cycle], !.enq = 0, !.cycle = 1 - r.cycle]
AtEnd(r) == r.enq = LIMIT

\* Mutant: the ring starts again with the same cycle bit.
QueuedStale(r, what) ==
    LET placed == [r EXCEPT !.trb[r.enq] = [what |-> what, cycle |-> r.cycle], !.enq = @ + 1]
    IN IF AtEnd(placed) THEN [Linked(placed) EXCEPT !.cycle = r.cycle] ELSE placed

\* xHCI_queue_transfer: a transfer, and a link at the end of the ring.
Queued(r, what) ==
    LET at == IF AtEnd(r) THEN Linked(r) ELSE r
        placed == [at EXCEPT !.trb[at.enq] = [what |-> what, cycle |-> at.cycle], !.enq = @ + 1]
    IN IF AtEnd(placed) THEN Linked(placed) ELSE placed

xHCI_queue_transfer(pipe, what) == ring' = [ring EXCEPT ![pipe] = Queued(@, what)]

-----------------------------------------------------------------------------
(* usb_read_sectors and usb_write_sectors.                                  *)

\* usb_disk_read_sector(s), usb_disk_write_sector(s): sectors of a partition are
\* sectors of its parent.
Request(t, op, sector, count, data) ==
    /\ req[t] = NONE
    /\ made < MAXREQUESTS
    /\ made' = made + 1
    /\ req' = [req EXCEPT ![t] = [op |-> op, lba |-> Offset[t] + sector, count |-> count,
                                  buffer |-> IF op # "write" THEN <<>> ELSE [i \in 1..count |-> data],
                                  done |-> 0, at |-> "next"]]
    /\ UNCHANGED <<transfers_lock, state, cbw, bounce, ring, chip, phase, event, poller, medium>>

ChunkOf(r) == IF r.count - r.done > MAX_CHUNK THEN MAX_CHUNK ELSE r.count - r.done

\* A chunk begins: the command block is written and queued.
BeginChunk(t) ==
    LET r == req[t]
        n == ChunkOf(r)
    IN /\ transfers_lock = NONE
       /\ r.done < r.count
       /\ transfers_lock' = t
       /\ cbw' = [op |-> r.op, lba |-> r.lba + r.done, count |-> n]
       /\ bounce' = IF r.op = "write" THEN SubSeq(r.buffer, r.done + 1, r.done + n) ELSE bounce
       /\ state' = "WAIT_CBW"
       /\ xHCI_queue_transfer("out", "cbw")
       /\ req' = [req EXCEPT ![t].at = "waits"]

usb_read_sectors(t) ==
    /\ req[t] # NONE /\ req[t].at = "next" /\ req[t].op = "read"
    /\ BeginChunk(t)
    /\ UNCHANGED <<chip, phase, event, poller, medium, made>>

usb_write_sectors(t) ==
    /\ req[t] # NONE /\ req[t].at = "next" /\ req[t].op = "write"
    /\ BeginChunk(t)
    /\ UNCHANGED <<chip, phase, event, poller, medium, made>>

\* The size of the device, when the disk is registered.
usb_aquire_size(t) ==
    /\ req[t] # NONE /\ req[t].at = "next" /\ req[t].op = "size"
    /\ BeginChunk(t)
    /\ UNCHANGED <<chip, phase, event, poller, medium, made>>

\* The thread sees that its chunk is done.
EndChunk(t) ==
    LET r == req[t]
        done == r.done + ChunkOf(r)
    IN /\ r # NONE /\ r.at = "waits"
       /\ poller[t] = NONE
       /\ state = "RECEIVED_DATA"
       /\ state' = "IDLE"
       /\ req' = [req EXCEPT ![t] = [r EXCEPT !.buffer = IF r.op # "write" THEN @ \o bounce ELSE @,
                                              !.done = done, !.at = IF done < r.count THEN "next" ELSE "done"]]
       /\ transfers_lock' = NONE
       /\ UNCHANGED <<cbw, bounce, ring, chip, phase, event, poller, medium, made>>

Return(t) ==
    /\ req[t] # NONE /\ req[t].at = "done"
    /\ req' = [req EXCEPT ![t] = NONE]
    /\ UNCHANGED <<transfers_lock, state, cbw, bounce, ring, chip, phase, event, poller, medium, made>>

-----------------------------------------------------------------------------
(* Events: xHCI_poll_evring takes one under the lock of the controller and  *)
(* calls the driver without it.                                             *)

xHCI_poll_evring(w) ==
    /\ event # <<>>
    /\ poller[w] = NONE
    /\ w \in Threads => req[w] # NONE /\ req[w].at = "waits"
    /\ poller' = [poller EXCEPT ![w] = Head(event)]
    /\ event' = Tail(event)
    /\ UNCHANGED <<transfers_lock, req, state, cbw, bounce, ring, chip, phase, medium, made>>

DataPipe == IF cbw.op = "write" THEN "out" ELSE "in"

\* A command block always has data here: the chunk is not empty.  The status of
\* the command is only reported.
usb_on_int(w) ==
    /\ poller[w] # NONE
    /\ CASE state = "WAITING_DATA" -> state' = "WAIT_CSW" /\ xHCI_queue_transfer("in", "csw")
         [] state = "WAIT_CSW" /\ poller[w] = "in" -> state' = "RECEIVED_DATA" /\ UNCHANGED ring
         [] state = "WAIT_CBW" /\ poller[w] = "out" ->
              state' = "WAITING_DATA" /\ xHCI_queue_transfer(DataPipe, "data")
         [] OTHER -> UNCHANGED <<state, ring>>
    /\ poller' = [poller EXCEPT ![w] = NONE]
    /\ UNCHANGED <<transfers_lock, req, cbw, bounce, chip, phase, event, medium, made>>

-----------------------------------------------------------------------------
(* The controller and the device.                                           *)

AtLink(e) == ring[e].trb[chip[e].deq].what = "link" /\ ring[e].trb[chip[e].deq].cycle = chip[e].ccs
Position(e) == IF AtLink(e) THEN [deq |-> 0, ccs |-> 1 - chip[e].ccs] ELSE chip[e]
Given(e) == ring[e].trb[Position(e).deq].cycle = Position(e).ccs

\* A transfer on pipe e is carried out, and its event is posted.
Carried(e) ==
    /\ Given(e)
    /\ chip' = [chip EXCEPT ![e] = [Position(e) EXCEPT !.deq = @ + 1]]
    /\ event' = Append(event, e)

Span == cbw.lba..(cbw.lba + cbw.count - 1)

TakesCommand ==
    /\ phase = "command" /\ Carried("out")
    /\ phase' = "data"
    /\ UNCHANGED <<transfers_lock, req, state, cbw, bounce, ring, poller, medium, made>>

MovesData ==
    /\ phase = "data" /\ Carried(DataPipe)
    /\ phase' = "status"
    /\ IF cbw.op = "size" THEN bounce' = <<"size">> /\ UNCHANGED medium
       ELSE IF cbw.op = "read"
       THEN bounce' = [i \in 1..cbw.count |-> medium[cbw.lba + i - 1]] /\ UNCHANGED medium
       ELSE medium' = [s \in Sectors |-> IF s \in Span THEN bounce[s - cbw.lba + 1] ELSE medium[s]] /\ UNCHANGED bounce
    /\ UNCHANGED <<transfers_lock, req, state, cbw, ring, poller, made>>

SendsStatus ==
    /\ phase = "status" /\ Carried("in")
    /\ phase' = "command"
    /\ UNCHANGED <<transfers_lock, req, state, cbw, bounce, ring, poller, medium, made>>

Next ==
    \/ \E t \in Threads :
        \/ \E r \in Requests : Request(t, r[1], r[2], r[3], t)
        \/ usb_read_sectors(t) \/ usb_write_sectors(t) \/ usb_aquire_size(t) \/ EndChunk(t) \/ Return(t)
    \/ \E w \in Pollers : xHCI_poll_evring(w) \/ usb_on_int(w)
    \/ TakesCommand \/ MovesData \/ SendsStatus

Spec == Init /\ [][Next]_vars

-----------------------------------------------------------------------------

\* A request that is done has moved its sectors: at the time its last chunk ends,
\* what a reader has in that chunk is what the device holds, and the sectors of
\* a writer hold its data; no transfer is skipped, repeated or taken for another
\* one when the rings wrap and when several threads handle the events.
ChunkMoved ==
    \A t \in Threads : req[t] # NONE /\ req'[t] # NONE /\ req'[t].done > req[t].done =>
        \A i \in (req[t].done + 1)..req'[t].done :
            req'[t].buffer[i] = IF req[t].op = "size" THEN "size" ELSE medium[req[t].lba + i - 1]

ChunksExact == [][ChunkMoved]_req

\* Nobody waits for ever: while a chunk is under way, the controller has a transfer
\* to carry out, an event is to be handled, or the thread that waits is told.
ChunkAlive ==
    transfers_lock # NONE =>
        \/ \E e \in Pipes : Given(e)
        \/ event # <<>>
        \/ \E w \in Pollers : poller[w] # NONE
        \/ state = "RECEIVED_DATA"
=============================================================================
