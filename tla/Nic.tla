-------------------------------- MODULE Nic ---------------------------------
(***************************************************************************)
(* The network cards (net/nic): the descriptor rings of the e1000, RTL8111 *)
(* and virtio drivers, the receive buffer and the four transmit buffers of *)
(* the RTL8139, and the tunnel device.  The network stack sends and polls  *)
(* one call at a time; the card works beside it.  Frames are numbered in   *)
(* the order in which a driver accepts them, or the card receives them.    *)
(***************************************************************************)
EXTENDS Integers, Sequences

CONSTANTS
    N,            \* descriptors of a ring; the tunnel queues as many frames
    BUDGET,       \* NIC_RX_BUDGET
    RXLEN,        \* receive buffer of the RTL8139, in words of four bytes
    Sizes,        \* words that a frame takes there, with its header
    MAXFRAMES,    \* bound: frames sent, and frames received
    Careful,      \* TRUE: only what the RTL8139 driver copes with, see below
    NONE

VARIABLES
    nic,      \* active_nic_driver
    tx,       \* what the driver and the card know of the transmit ring
    rx,       \* ... of the receive ring
    polled,   \* frames that the poll under way has received, NONE between polls
    sent,     \* how many frames drivers accepted,
    wire,     \* and how many of them left
    arrived,  \* how many frames the card received,
    got,      \* and how many reached the stack
    exact     \* every frame left, and reached the stack, in order and unharmed

vars == <<nic, tx, rx, polled, sent, wire, arrived, got, exact>>

Ring == 0..(N - 1)
Next1(i) == (i + 1) % N

-----------------------------------------------------------------------------
(* The state of the rings after the init function of a driver.  A buffer     *)
(* holds the number of a frame; own: the descriptor is the card's; done: the *)
(* card is done with it.                                                     *)

Buffers(own) == [i \in Ring |-> [frame |-> 0, own |-> own, used |-> FALSE, done |-> FALSE]]

e1000_init ==
    /\ tx = [desc |-> Buffers(FALSE), tail |-> 0, tdh |-> 0, tdt |-> 0]
    /\ rx = [desc |-> Buffers(TRUE), tail |-> N - 1, rdh |-> 0, rdt |-> N - 1]

rtl8111_init ==
    /\ tx = [desc |-> Buffers(FALSE), idx |-> 0, card |-> 0]
    /\ rx = [desc |-> Buffers(TRUE), idx |-> 0, card |-> 0]

rtl8139_init ==
    /\ tx = [buf |-> [i \in 0..3 |-> 0], start |-> [i \in 0..3 |-> FALSE], curr |-> 0, card |-> 0]
    /\ rx = [mem |-> [i \in 0..(RXLEN + 1) |-> [frame |-> 0, size |-> 0]], ptr |-> 0, capr |-> 0, card |-> 0]

\* avail and used are counters that wrap at 2^16 in the code, far above the bounds
\* here.
virtio_net_init ==
    /\ tx = [buf |-> [i \in 0..(N \div 2 - 1) |-> 0], ring |-> Buffers(FALSE), avail |-> 0, used |-> 0]
    /\ rx = [buf |-> [i \in Ring |-> 0], ring |-> [i \in Ring |-> i], avail |-> N, used |-> 0,
             done |-> [i \in Ring |-> 0], last |-> 0]

tun_init ==
    /\ tx = [queue |-> <<>>, active |-> TRUE]
    /\ rx = [queue |-> <<>>, active |-> TRUE]

\* nic_init: the first card that is there.
Order == <<"rtl8111", "rtl8139", "virtio", "e1000">>
nic_init(present) == LET there == {i \in DOMAIN Order : Order[i] \in present}
                     IN Order[CHOOSE i \in there : \A j \in there : i <= j]

Init ==
    /\ \/ \E present \in (SUBSET {Order[i] : i \in DOMAIN Order}) \ {{}} : nic = nic_init(present)
       \/ nic = "tun"
    /\ CASE nic = "e1000" -> e1000_init
         [] nic = "rtl8111" -> rtl8111_init
         [] nic = "rtl8139" -> rtl8139_init
         [] nic = "virtio" -> virtio_net_init
         [] nic = "tun" -> tun_init
    /\ polled = NONE
    /\ sent = 0 /\ wire = 0 /\ arrived = 0 /\ got = 0
    /\ exact = TRUE

-----------------------------------------------------------------------------
(* Sending.  The number of a frame is given when the driver accepts it; a   *)
(* driver that refuses leaves everything as it was.                         *)

Accepts(card) ==
    /\ nic = card /\ polled = NONE
    /\ sent < MAXFRAMES
    /\ sent' = sent + 1
    /\ UNCHANGED <<nic, rx, polled, wire, arrived, got, exact>>

e1000_send_packet ==
    /\ Accepts("e1000")
    /\ Next1(tx.tail) # tx.tdh
    /\ tx.desc[tx.tail].used => tx.desc[tx.tail].done
    /\ tx' = [tx EXCEPT !.desc[tx.tail] = [frame |-> sent + 1, own |-> FALSE, used |-> TRUE, done |-> FALSE],
                        !.tail = Next1(@), !.tdt = Next1(tx.tail)]

rtl8111_send_packet ==
    /\ Accepts("rtl8111")
    /\ ~tx.desc[tx.idx].own
    /\ tx' = [tx EXCEPT !.desc[tx.idx] = [frame |-> sent + 1, own |-> TRUE, used |-> TRUE, done |-> FALSE], !.idx = Next1(@)]

\* Whether the card is done with the buffer is not asked.  Careful: it is.
rtl8139_send_packet ==
    /\ Accepts("rtl8139")
    /\ Careful => ~tx.start[tx.curr]
    /\ tx' = [tx EXCEPT !.buf[tx.curr] = sent + 1, !.start[tx.curr] = TRUE, !.curr = (@ + 1) % 4]

\* Mutant: as many frames as the ring has descriptors.
WholeRing == tx.avail - tx.used < N

\* Header and data take two descriptors: half of the ring may be under way.
HalfRing == tx.avail - tx.used < N \div 2
virtio_net_send_packet ==
    LET head == tx.avail % (N \div 2)
    IN /\ Accepts("virtio")
       /\ HalfRing
       /\ tx' = [tx EXCEPT !.buf[head] = sent + 1, !.ring[tx.avail % N].frame = head, !.avail = @ + 1]

\* A frame that finds the queue full is dropped, and the copy is lost.
tun_low_level_output ==
    /\ Accepts("tun")
    /\ tx.active /\ Len(tx.queue) < N
    /\ tx' = [tx EXCEPT !.queue = Append(@, sent + 1)]

-----------------------------------------------------------------------------
(* The card sends the frame it finds in a buffer.                           *)

Leaves(card, frame) ==
    /\ nic = card
    /\ wire' = wire + 1
    /\ exact' = (exact /\ frame = wire + 1)
    /\ UNCHANGED <<nic, rx, polled, sent, arrived, got>>

E1000Transmits ==
    /\ nic = "e1000" /\ tx.tdh # tx.tdt
    /\ Leaves("e1000", tx.desc[tx.tdh].frame)
    /\ tx' = [tx EXCEPT !.desc[tx.tdh].done = TRUE, !.tdh = Next1(@)]

Rtl8111Transmits ==
    /\ nic = "rtl8111" /\ tx.desc[tx.card].own
    /\ Leaves("rtl8111", tx.desc[tx.card].frame)
    /\ tx' = [tx EXCEPT !.desc[tx.card].own = FALSE, !.card = Next1(@)]

Rtl8139Transmits ==
    /\ nic = "rtl8139" /\ tx.start[tx.card]
    /\ Leaves("rtl8139", tx.buf[tx.card])
    /\ tx' = [tx EXCEPT !.start[tx.card] = FALSE, !.card = (@ + 1) % 4]

VirtioTransmits ==
    /\ nic = "virtio" /\ tx.used < tx.avail
    /\ Leaves("virtio", tx.buf[tx.ring[tx.used % N].frame])
    /\ tx' = [tx EXCEPT !.used = @ + 1]

\* The process behind the tunnel.
tun_read ==
    /\ nic = "tun" /\ tx.queue # <<>>
    /\ Leaves("tun", Head(tx.queue))
    /\ tx' = [tx EXCEPT !.queue = Tail(@)]

-----------------------------------------------------------------------------
(* The card receives a frame if it has room, and drops it otherwise.        *)

Arrives(card) ==
    /\ nic = card
    /\ arrived < MAXFRAMES
    /\ arrived' = arrived + 1
    /\ UNCHANGED <<nic, tx, polled, sent, wire, got, exact>>

E1000Receives ==
    /\ Arrives("e1000")
    /\ rx.rdh # rx.rdt
    /\ rx' = [rx EXCEPT !.desc[rx.rdh] = [@ EXCEPT !.frame = arrived + 1, !.done = TRUE], !.rdh = Next1(@)]

Rtl8111Receives ==
    /\ Arrives("rtl8111")
    /\ rx.desc[rx.card].own
    /\ rx' = [rx EXCEPT !.desc[rx.card] = [@ EXCEPT !.frame = arrived + 1, !.own = FALSE], !.card = Next1(@)]

\* One with an error.
Rtl8111ReceivesBad ==
    /\ nic = "rtl8111"
    /\ rx.desc[rx.card].own
    /\ rx' = [rx EXCEPT !.desc[rx.card] = [@ EXCEPT !.frame = 0, !.own = FALSE], !.card = Next1(@)]
    /\ UNCHANGED <<nic, tx, polled, sent, wire, arrived, got, exact>>

\* A frame that begins before the end of the buffer is written on behind it (the
\* WRAP bit).  Careful: no frame ends exactly at the end, for the driver takes
\* the next one from there and the card puts it at the beginning.
RxUsed == (rx.card - rx.capr) % RXLEN
Rtl8139Receives(size) ==
    /\ Arrives("rtl8139")
    /\ RxUsed + size < RXLEN
    /\ Careful => rx.card + size # RXLEN
    /\ rx' = [rx EXCEPT !.mem[rx.card] = [frame |-> arrived + 1, size |-> size], !.card = (@ + size) % RXLEN]

VirtioReceives ==
    LET filled == arrived
    IN /\ Arrives("virtio")
       /\ filled < rx.avail
       /\ rx' = [rx EXCEPT !.buf[rx.ring[filled % N]] = arrived + 1, !.done[filled % N] = rx.ring[filled % N], !.used = @ + 1]

\* tun_write: the frame goes straight to the stack.
tun_write ==
    /\ nic = "tun" /\ polled = NONE
    /\ arrived < MAXFRAMES
    /\ rx.active
    /\ arrived' = arrived + 1 /\ got' = got + 1
    /\ UNCHANGED <<nic, tx, rx, polled, sent, wire, exact>>

-----------------------------------------------------------------------------
(* nic_low_level_input: frames are taken until there are none, or the       *)
(* budget is spent; then the e1000 is given its descriptors back.           *)

BeginPoll ==
    /\ polled = NONE /\ nic # "tun"
    /\ polled' = 0
    /\ UNCHANGED <<nic, tx, rx, sent, wire, arrived, got, exact>>

Takes(card, frame) ==
    /\ nic = card
    /\ polled # NONE /\ polled < BUDGET
    /\ polled' = polled + 1
    /\ got' = got + 1
    /\ exact' = (exact /\ frame = got + 1)
    /\ UNCHANGED <<nic, tx, sent, wire, arrived>>

E1000Waiting == rx.desc[Next1(rx.tail)].done
e1000_receive_packet ==
    /\ nic = "e1000" /\ E1000Waiting
    /\ Takes("e1000", rx.desc[Next1(rx.tail)].frame)
    /\ rx' = [rx EXCEPT !.desc[Next1(rx.tail)].done = FALSE, !.tail = Next1(@)]

Rtl8111Waiting == ~rx.desc[rx.idx].own
rtl8111_receive_packet ==
    /\ nic = "rtl8111" /\ Rtl8111Waiting
    /\ rx.desc[rx.idx].frame # 0
    /\ Takes("rtl8111", rx.desc[rx.idx].frame)
    /\ rx' = [rx EXCEPT !.desc[rx.idx].own = TRUE, !.idx = Next1(@)]

\* A frame with an error is given back and returns 0, which ends the poll.
Rtl8111Skips ==
    /\ nic = "rtl8111" /\ Rtl8111Waiting
    /\ polled # NONE /\ polled < BUDGET
    /\ rx.desc[rx.idx].frame = 0
    /\ rx' = [rx EXCEPT !.desc[rx.idx].own = TRUE, !.idx = Next1(@)]
    /\ polled' = NONE
    /\ UNCHANGED <<nic, tx, sent, wire, arrived, got, exact>>

\* Mutant: the position is reset rather than taken back.
ResetRxPtr(ptr) == IF ptr > RXLEN THEN 0 ELSE ptr

WrappedRxPtr(ptr) == IF ptr > RXLEN THEN ptr - RXLEN ELSE ptr

Rtl8139Waiting == rx.card # rx.capr
rtl8139_receive_packet ==
    LET head == rx.mem[rx.ptr]
        ptr == WrappedRxPtr(rx.ptr + head.size)
    IN /\ nic = "rtl8139" /\ Rtl8139Waiting
       /\ Takes("rtl8139", head.frame)
       /\ rx' = [rx EXCEPT !.ptr = ptr, !.capr = ptr % RXLEN]

VirtioWaiting == rx.last # rx.used
virtio_net_receive_packet ==
    LET d == rx.done[rx.last % N]
    IN /\ nic = "virtio" /\ VirtioWaiting
       /\ Takes("virtio", rx.buf[d])
       /\ rx' = [rx EXCEPT !.ring[rx.avail % N] = d, !.avail = @ + 1, !.last = @ + 1]

\* e1000_flush_rx, when frames were received.
NothingWaits ==
    CASE nic = "e1000" -> ~E1000Waiting
      [] nic = "rtl8111" -> ~Rtl8111Waiting
      [] nic = "rtl8139" -> ~Rtl8139Waiting
      [] nic = "virtio" -> ~VirtioWaiting
EndPoll ==
    /\ polled # NONE
    /\ polled = BUDGET \/ NothingWaits
    /\ polled' = NONE
    /\ rx' = IF nic = "e1000" /\ polled > 0 THEN [rx EXCEPT !.rdt = rx.tail] ELSE rx
    /\ UNCHANGED <<nic, tx, sent, wire, arrived, got, exact>>

\* tun_close and tun_ioctl(TUNSETIFF).  Frames that were queued stay.
tun_close ==
    /\ nic = "tun" /\ polled = NONE
    /\ tx' = [tx EXCEPT !.active = FALSE] /\ rx' = [rx EXCEPT !.active = FALSE]
    /\ UNCHANGED <<nic, polled, sent, wire, arrived, got, exact>>
tun_ioctl ==
    /\ nic = "tun" /\ polled = NONE
    /\ tx' = [tx EXCEPT !.active = TRUE] /\ rx' = [rx EXCEPT !.active = TRUE]
    /\ UNCHANGED <<nic, polled, sent, wire, arrived, got, exact>>

Next ==
    \/ e1000_send_packet \/ rtl8111_send_packet \/ rtl8139_send_packet \/ virtio_net_send_packet \/ tun_low_level_output
    \/ E1000Transmits \/ Rtl8111Transmits \/ Rtl8139Transmits \/ VirtioTransmits \/ tun_read
    \/ E1000Receives \/ Rtl8111Receives \/ Rtl8111ReceivesBad \/ (\E size \in Sizes : Rtl8139Receives(size)) \/ VirtioReceives \/ tun_write
    \/ BeginPoll \/ EndPoll
    \/ e1000_receive_packet \/ rtl8111_receive_packet \/ Rtl8111Skips \/ rtl8139_receive_packet \/ virtio_net_receive_packet
    \/ tun_close \/ tun_ioctl

Spec == Init /\ [][Next]_vars

-----------------------------------------------------------------------------

\* Frames leave in the order in which the driver accepted them and as they were
\* given to it, and reach the stack in the order in which they arrived: no slot
\* of a ring is used again before the other side is done with it.
FramesExact == exact /\ wire <= sent /\ got <= arrived
=============================================================================
