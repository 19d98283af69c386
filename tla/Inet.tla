-------------------------------- MODULE Inet --------------------------------
(***************************************************************************)
(* Internet sockets (net/network.c and the AF_INET half of                 *)
(* sys/syscall_net.c) over lwIP.  lwIP runs in whoever calls               *)
(* network_process_frames, under network_lock, and calls back into the     *)
(* sockets; it is modelled by the callbacks it makes, and the peer by what *)
(* it may send.  Each socket is used by one thread, named by the socket;   *)
(* KNET is the thread that runs lwIP.                                      *)
(*                                                                         *)
(* A step is what happens under one hold of a lock, or between two reads   *)
(* of a socket's flags outside the locks.                                  *)
(***************************************************************************)
EXTENDS Integers, Sequences, SequencesExt, FiniteSets

CONSTANTS
    Sockets, Pcbs,
    Kinds,            \* socket -> the kinds created: "tcp", "udp", "packet"
    TCP_WND,          \* the receive window of a connection
    HIWAT,            \* rx_sb.sb_hiwat: 64 KB unless SO_RCVBUF changes it
    SND_BUF,          \* lwIP's send buffer
    Backlogs, Segments, Lens,
    MAX_RAW_TAPS,
    MAXSENT,          \* bound: bytes of one peer
    MAXSOCKETS,       \* bound: sockets made in one behaviour
    Careful,          \* see Opens, Closable and Optional
    KNET, PING, NONE

VARIABLES
    sock,             \* process_fd_socket_t, or NONE
    pcb,              \* lwIP control blocks: [state, arg, wnd, unacked], or NONE
    raw_taps,
    network_lock,     \* its holder, or NONE
    knet,             \* the connection whose accept callback is under way, or NONE
    ping,             \* network_icmp_single_ping: "idle", "waiting" or "done"
    made

vars == <<sock, pcb, raw_taps, network_lock, knet, ping, made>>

Lesser(a, b) == IF a < b THEN a ELSE b

\* process_socket_create; fd: whether a descriptor names it; at: the call its
\* thread is in.  sent, got, prefix and whole watch the stream of the peer.
Fresh(kind, fd) ==
    [kind |-> kind, fd |-> fd, pcb |-> NONE, done |-> FALSE, error |-> FALSE,
     closed |-> FALSE, connected |-> FALSE, listening |-> FALSE, rx |-> <<>>,
     queue |-> <<>>, backlog |-> 128, lock |-> NONE, at |-> "idle", n |-> 0,
     sent |-> 0, got |-> 0, prefix |-> TRUE, whole |-> TRUE]

NewPcb(state, arg) == [state |-> state, arg |-> arg, wnd |-> TCP_WND, unacked |-> 0]
FreePcb == CHOOSE p \in Pcbs : pcb[p] = NONE
PcbLeft == \E p \in Pcbs : pcb[p] = NONE

Idle(s) == sock[s] # NONE /\ sock[s].fd /\ sock[s].at = "idle"
Unlocked == network_lock = NONE

(***************************************************************************)
(* System calls.                                                           *)
(***************************************************************************)
\* A packet socket beyond the last tap is made, and hears nothing.
fs_cmd_unix_socket_create(s, kind) ==
    /\ sock[s] = NONE /\ made < MAXSOCKETS
    /\ sock' = [sock EXCEPT ![s] = Fresh(kind, TRUE)]
    /\ raw_taps' = IF kind = "packet" /\ Cardinality(raw_taps) < MAX_RAW_TAPS
                   THEN raw_taps \cup {s} ELSE raw_taps
    /\ made' = made + 1
    /\ UNCHANGED <<pcb, network_lock, knet, ping>>

network_socket_bind(s) ==
    /\ Idle(s) /\ Unlocked /\ sock[s].kind # "packet"
    /\ sock[s].pcb = NONE /\ PcbLeft
    /\ sock' = [sock EXCEPT ![s].pcb = FreePcb]
    /\ pcb' = [pcb EXCEPT ![FreePcb] =
                  NewPcb(IF sock[s].kind = "udp" THEN "udp" ELSE "new", s)]
    /\ UNCHANGED <<raw_taps, network_lock, knet, ping, made>>

network_socket_listen(s, backlog) ==
    LET p == sock[s].pcb
    IN  /\ Idle(s) /\ Unlocked
        /\ p # NONE /\ pcb[p].state = "new"
        /\ pcb' = [pcb EXCEPT ![p].state = "listen"]
        /\ sock' = [sock EXCEPT ![s].backlog = backlog, ![s].listening = TRUE]
        /\ UNCHANGED <<raw_taps, network_lock, knet, ping, made>>

Opens(s) == Careful => sock[s].rx = <<>>

\* An earlier connection of the socket is aborted; what it had received stays
\* in rx_sb.  tcp_new may find no pcb left.
network_socket_connect(s) ==
    LET old == sock[s].pcb
        gone == [p \in Pcbs |-> IF p = old THEN NONE ELSE pcb[p]]
        free == {p \in Pcbs : gone[p] = NONE}
        new  == CHOOSE p \in free : TRUE
    IN  /\ Idle(s) /\ Unlocked /\ sock[s].kind = "tcp" /\ ~sock[s].listening
        /\ Opens(s)
        /\ IF free = {}
           THEN sock' = [sock EXCEPT ![s].pcb = NONE] /\ pcb' = gone
           ELSE /\ pcb' = [gone EXCEPT ![new] = NewPcb("syn", s)]
                /\ sock' = [sock EXCEPT ![s] = [Fresh("tcp", TRUE) EXCEPT
                       !.pcb = new, !.at = "connecting", !.rx = sock[s].rx]]
        /\ UNCHANGED <<raw_taps, network_lock, knet, ping, made>>

ConnectTimesOut(s) ==
    /\ sock[s] # NONE /\ sock[s].at = "connecting"
    /\ ~sock[s].done /\ ~sock[s].error
    /\ sock' = [sock EXCEPT ![s].error = TRUE]
    /\ UNCHANGED <<pcb, raw_taps, network_lock, knet, ping, made>>

ConnectReturns(s) ==
    /\ sock[s] # NONE /\ sock[s].at = "connecting"
    /\ sock[s].done \/ sock[s].error
    /\ sock' = [sock EXCEPT ![s].at = "idle", ![s].connected = sock[s].done]
    /\ UNCHANGED <<pcb, raw_taps, network_lock, knet, ping, made>>

\* accept: a connection that finds no descriptor is closed again.
fs_cmd_unix_socket_accept(s, slot) ==
    /\ Idle(s) /\ sock[s].listening /\ sock[s].lock = NONE /\ sock[s].queue # <<>>
    /\ LET c == Head(sock[s].queue)
       IN  sock' = [sock EXCEPT ![s].queue = Tail(@), ![c].fd = TRUE,
                                ![c].at = IF slot THEN "idle" ELSE "close"]
    /\ UNCHANGED <<pcb, raw_taps, network_lock, knet, ping, made>>

\* network_socket_recv: the buffer is found empty, and then the flags are read.
RecvFindsEmpty(s) ==
    /\ Idle(s) /\ sock[s].kind = "tcp" /\ ~sock[s].listening
    /\ sock[s].rx = <<>>
    /\ sock' = [sock EXCEPT ![s].at = "empty"]
    /\ UNCHANGED <<pcb, raw_taps, network_lock, knet, ping, made>>

\* 0 when the peer has closed; an error, -2 or the next round otherwise.
RecvGivesUp(s) ==
    /\ sock[s] # NONE /\ sock[s].at = "empty"
    /\ sock' = [sock EXCEPT ![s].at = "idle",
                   ![s].whole = @ /\ (sock[s].closed => sock[s].got = sock[s].sent)]
    /\ UNCHANGED <<pcb, raw_taps, network_lock, knet, ping, made>>

\* Mutant: what was read is still there for the next call.
ReadsAgain(s, m) ==
    LET k == Lesser(m, Len(sock[s].rx))
    IN  /\ Idle(s) /\ sock[s].rx # <<>>
        /\ sock' = [sock EXCEPT
               ![s].prefix = @ /\ \A i \in 1..k : sock[s].rx[i] = sock[s].got + i,
               ![s].got = @ + k, ![s].n = k]
        /\ UNCHANGED <<pcb, raw_taps, network_lock, knet, ping, made>>

\* sockbuf_read
RecvTakes(s, m) ==
    LET k == Lesser(m, Len(sock[s].rx))
    IN  /\ Idle(s) /\ sock[s].rx # <<>>
        /\ sock' = [sock EXCEPT
               ![s].rx = SubSeq(@, k + 1, Len(@)),
               ![s].prefix = @ /\ \A i \in 1..k : sock[s].rx[i] = sock[s].got + i,
               ![s].got = @ + k, ![s].n = k,
               ![s].at = IF sock[s].kind = "tcp" /\ sock[s].pcb # NONE THEN "taken" ELSE "idle"]
        /\ UNCHANGED <<pcb, raw_taps, network_lock, knet, ping, made>>

\* tcp_recved, if the connection is still there: the window opens again.
RecvOpensWindow(s) ==
    LET p == sock[s].pcb
    IN  /\ sock[s] # NONE /\ sock[s].at = "taken" /\ Unlocked
        /\ pcb' = IF p = NONE THEN pcb ELSE [pcb EXCEPT ![p].wnd = @ + sock[s].n]
        /\ sock' = [sock EXCEPT ![s].at = "idle", ![s].n = 0]
        /\ UNCHANGED <<raw_taps, network_lock, knet, ping, made>>

\* network_socket_send: as much as the send buffer has room for; it waits
\* while there is none.
network_socket_send(s, n) ==
    LET p == sock[s].pcb
    IN  /\ Idle(s) /\ Unlocked /\ sock[s].kind = "tcp" /\ ~sock[s].listening
        /\ p # NONE /\ ~sock[s].closed /\ ~sock[s].error
        /\ pcb[p].state = "est" /\ pcb[p].unacked < SND_BUF
        /\ pcb' = [pcb EXCEPT ![p].unacked = Lesser(@ + n, SND_BUF)]
        /\ UNCHANGED <<sock, raw_taps, network_lock, knet, ping, made>>

\* network_socket_sendto and connect of a datagram socket: the pcb is made
\* when there is none yet.
network_socket_sendto(s) ==
    /\ Idle(s) /\ Unlocked /\ sock[s].kind = "udp" /\ sock[s].pcb = NONE /\ PcbLeft
    /\ sock' = [sock EXCEPT ![s].pcb = FreePcb]
    /\ pcb' = [pcb EXCEPT ![FreePcb] = NewPcb("udp", s)]
    /\ UNCHANGED <<raw_taps, network_lock, knet, ping, made>>

Optional(s) == Careful => ~sock[s].listening

\* SO_KEEPALIVE: the socket's lock, and under it network_lock.
network_setsockopt(s) ==
    /\ Idle(s) /\ Optional(s)
    /\ sock[s].kind = "tcp" /\ sock[s].pcb # NONE /\ sock[s].lock = NONE
    /\ sock' = [sock EXCEPT ![s].lock = s, ![s].at = "option"]
    /\ UNCHANGED <<pcb, raw_taps, network_lock, knet, ping, made>>

SetsKeepalive(s) ==
    /\ sock[s] # NONE /\ sock[s].at = "option" /\ Unlocked
    /\ sock' = [sock EXCEPT ![s].lock = NONE, ![s].at = "idle"]
    /\ UNCHANGED <<pcb, raw_taps, network_lock, knet, ping, made>>

Closable(s) == Careful => sock[s].queue = <<>>

\* Mutant: the connection keeps the socket that is gone.
StillAttached(p) == IF pcb[p].state \in {"est", "fin"} THEN pcb ELSE [pcb EXCEPT ![p] = NONE]

\* network_socket_close: lwIP forgets the socket.  A connection goes on closing
\* without it; the other pcbs go at once.
Detached(p) ==
    IF pcb[p].state \in {"est", "fin"} THEN [pcb EXCEPT ![p].arg = NONE]
    ELSE [pcb EXCEPT ![p] = NONE]

network_socket_close(s) ==
    /\ sock[s] # NONE /\ sock[s].fd /\ sock[s].at \in {"idle", "close"}
    /\ Unlocked /\ Closable(s)
    /\ network_lock' = s
    /\ raw_taps' = raw_taps \ {s}
    /\ pcb' = IF sock[s].pcb = NONE THEN pcb ELSE Detached(sock[s].pcb)
    /\ sock' = [sock EXCEPT ![s].pcb = NONE, ![s].at = "closing", ![s].fd = FALSE]
    /\ UNCHANGED <<knet, ping, made>>

\* The connections that wait are released, each by network_socket_close, under
\* network_lock as it is; without any, the socket is freed.
CloseEnds(s) ==
    /\ sock[s] # NONE /\ sock[s].at = "closing" /\ sock[s].lock = NONE
    /\ IF sock[s].queue = <<>>
       THEN network_lock' = NONE /\ sock' = [sock EXCEPT ![s] = NONE]
       ELSE sock' = [sock EXCEPT ![s].at = "releasing"] /\ UNCHANGED network_lock
    /\ UNCHANGED <<pcb, raw_taps, knet, ping, made>>

(***************************************************************************)
(* Callbacks of lwIP.                                                      *)
(***************************************************************************)
tcp_socket_connected_callback(p) ==
    /\ Unlocked /\ pcb[p] # NONE /\ pcb[p].state = "syn"
    /\ pcb' = [pcb EXCEPT ![p].state = "est"]
    /\ sock' = [sock EXCEPT ![pcb[p].arg].done = TRUE]
    /\ UNCHANGED <<raw_taps, network_lock, knet, ping, made>>

\* Mutant: the socket keeps the control block that lwIP freed.
ErrKeepsPcb(p) ==
    /\ Unlocked /\ pcb[p] # NONE /\ pcb[p].state \in {"syn", "est", "fin"}
    /\ pcb' = [pcb EXCEPT ![p] = NONE]
    /\ sock' = IF pcb[p].arg = NONE THEN sock
               ELSE [sock EXCEPT ![pcb[p].arg].error = TRUE]
    /\ UNCHANGED <<raw_taps, network_lock, knet, ping, made>>

\* The connection was refused or reset: lwIP has freed the pcb.
tcp_socket_err_callback(p) ==
    /\ Unlocked /\ pcb[p] # NONE /\ pcb[p].state \in {"syn", "est", "fin"}
    /\ pcb' = [pcb EXCEPT ![p] = NONE]
    /\ sock' = IF pcb[p].arg = NONE THEN sock
               ELSE [sock EXCEPT ![pcb[p].arg].pcb = NONE, ![pcb[p].arg].error = TRUE]
    /\ UNCHANGED <<raw_taps, network_lock, knet, ping, made>>

\* A segment the window allows is acknowledged; the socket takes it whole, or
\* it is dropped.
tcp_socket_recv_callback(p, n) ==
    LET s == pcb[p].arg
    IN  /\ Unlocked /\ pcb[p] # NONE /\ pcb[p].state = "est" /\ s # NONE
        /\ n <= pcb[p].wnd /\ sock[s].sent + n <= MAXSENT
        /\ pcb' = [pcb EXCEPT ![p].wnd = @ - n]
        /\ sock' = [sock EXCEPT ![s].sent = @ + n,
               ![s].rx = IF Len(@) + n > HIWAT THEN @
                         ELSE @ \o [i \in 1..n |-> sock[s].sent + i]]
        /\ UNCHANGED <<raw_taps, network_lock, knet, ping, made>>

\* The peer has closed: p == NULL.
PeerCloses(p) ==
    /\ Unlocked /\ pcb[p] # NONE /\ pcb[p].state = "est"
    /\ pcb' = [pcb EXCEPT ![p].state = "fin"]
    /\ sock' = IF pcb[p].arg = NONE THEN sock
               ELSE [sock EXCEPT ![pcb[p].arg].closed = TRUE]
    /\ UNCHANGED <<raw_taps, network_lock, knet, ping, made>>

tcp_socket_sent_callback(p) ==
    /\ Unlocked /\ pcb[p] # NONE /\ pcb[p].unacked > 0
    /\ pcb' = [pcb EXCEPT ![p].unacked = 0]
    /\ UNCHANGED <<sock, raw_taps, network_lock, knet, ping, made>>

udp_socket_recv_callback(p) ==
    LET s == pcb[p].arg
    IN  /\ Unlocked /\ pcb[p] # NONE /\ pcb[p].state = "udp"
        /\ sock[s].sent < MAXSENT
        /\ sock' = [sock EXCEPT ![s].sent = IF Len(sock[s].rx) < HIWAT THEN @ + 1 ELSE @,
               ![s].rx = IF Len(@) < HIWAT THEN Append(@, sock[s].sent + 1) ELSE @]
        /\ UNCHANGED <<pcb, raw_taps, network_lock, knet, ping, made>>

raw_tap_broadcast ==
    /\ \E s \in raw_taps : sock[s].sent < MAXSENT
    /\ sock' = [s \in Sockets |->
           IF s \in raw_taps /\ Len(sock[s].rx) < HIWAT /\ sock[s].sent < MAXSENT
           THEN [sock[s] EXCEPT !.rx = Append(@, sock[s].sent + 1), !.sent = @ + 1]
           ELSE sock[s]]
    /\ UNCHANGED <<pcb, raw_taps, network_lock, knet, ping, made>>

\* A connection of a listening socket: the client's socket is made under
\* network_lock, and queued under the listener's lock.
tcp_socket_accept_callback(p) ==
    LET c == CHOOSE x \in Sockets : sock[x] = NONE
    IN  /\ Unlocked /\ pcb[p] # NONE /\ pcb[p].state = "listen"
        /\ PcbLeft /\ made < MAXSOCKETS /\ \E x \in Sockets : sock[x] = NONE
        /\ Careful => Len(sock[pcb[p].arg].queue) < sock[pcb[p].arg].backlog
        /\ network_lock' = KNET
        /\ knet' = [listener |-> pcb[p].arg, client |-> c, at |-> "queue"]
        /\ pcb' = [pcb EXCEPT ![FreePcb] = NewPcb("est", c)]
        /\ sock' = [sock EXCEPT ![c] = [Fresh("tcp", FALSE) EXCEPT
                        !.pcb = FreePcb, !.connected = TRUE, !.done = TRUE]]
        /\ made' = made + 1
        /\ UNCHANGED <<raw_taps, ping>>

\* With the queue full the client is released, by network_socket_close, under
\* network_lock as it is.
AcceptQueues ==
    LET l == knet.listener
        c == knet.client
    IN  /\ knet # NONE /\ knet.at = "queue" /\ sock[l].lock = NONE
        /\ IF Len(sock[l].queue) < sock[l].backlog
           THEN /\ sock' = [sock EXCEPT ![l].queue = Append(@, c)]
                /\ network_lock' = NONE /\ knet' = NONE
           ELSE knet' = [knet EXCEPT !.at = "release"] /\ UNCHANGED <<sock, network_lock>>
        /\ UNCHANGED <<pcb, raw_taps, ping, made>>

\* network_icmp_single_ping and network_icmp6_single_ping: a raw pcb whose
\* argument is on the caller's stack.
PingStarts ==
    /\ ping = "idle" /\ Unlocked /\ PcbLeft
    /\ ping' = "waiting"
    /\ pcb' = [pcb EXCEPT ![FreePcb] = NewPcb("raw", PING)]
    /\ UNCHANGED <<sock, raw_taps, network_lock, knet, made>>

ping_recv(p) ==
    /\ Unlocked /\ pcb[p] # NONE /\ pcb[p].arg = PING
    /\ ping' = "done"
    /\ UNCHANGED <<sock, pcb, raw_taps, network_lock, knet, made>>

PingReturns ==       \* answered, or after two seconds
    /\ ping # "idle" /\ Unlocked
    /\ ping' = "idle"
    /\ pcb' = [p \in Pcbs |-> IF pcb[p] # NONE /\ pcb[p].arg = PING THEN NONE ELSE pcb[p]]
    /\ UNCHANGED <<sock, raw_taps, network_lock, knet, made>>

----------------------------------------------------------------------------
Init ==
    /\ sock = [s \in Sockets |-> NONE]
    /\ pcb = [p \in Pcbs |-> NONE]
    /\ raw_taps = {}
    /\ network_lock = NONE
    /\ knet = NONE
    /\ ping = "idle"
    /\ made = 0

Calls(s) ==
    \/ \E k \in Kinds[s] : fs_cmd_unix_socket_create(s, k)
    \/ network_socket_bind(s)
    \/ \E b \in Backlogs : network_socket_listen(s, b)
    \/ network_socket_connect(s) \/ ConnectTimesOut(s) \/ ConnectReturns(s)
    \/ \E slot \in BOOLEAN : fs_cmd_unix_socket_accept(s, slot)
    \/ RecvFindsEmpty(s) \/ RecvGivesUp(s)
    \/ \E m \in Lens : RecvTakes(s, m)
    \/ RecvOpensWindow(s)
    \/ \E n \in Lens : network_socket_send(s, n)
    \/ network_socket_sendto(s)
    \/ network_setsockopt(s) \/ SetsKeepalive(s)
    \/ network_socket_close(s) \/ CloseEnds(s)

Callbacks(p) ==
    \/ tcp_socket_connected_callback(p) \/ tcp_socket_err_callback(p)
    \/ \E n \in Segments : tcp_socket_recv_callback(p, n)
    \/ PeerCloses(p) \/ tcp_socket_sent_callback(p)
    \/ udp_socket_recv_callback(p)
    \/ tcp_socket_accept_callback(p)
    \/ ping_recv(p)

Next ==
    \/ \E s \in Sockets : Calls(s)
    \/ \E p \in Pcbs : Callbacks(p)
    \/ AcceptQueues \/ raw_tap_broadcast \/ PingStarts \/ PingReturns

Spec == Init /\ [][Next]_vars

----------------------------------------------------------------------------
\* The pairs of a thread and one it waits for, by the lock it spins on.
Waits ==
    LET holder(l) == {l} \ {NONE}
    IN  UNION ({ {s} \X holder(network_lock) :
                    s \in {x \in Sockets : sock[x] # NONE /\
                              sock[x].at \in {"option", "releasing", "taken", "close"}} }
               \cup {{KNET} \X holder(IF knet = NONE THEN NONE
                                      ELSE IF knet.at = "release" THEN network_lock
                                      ELSE sock[knet.listener].lock)}
               \cup { {s} \X holder(sock[s].lock) :
                    s \in {x \in Sockets : sock[x] # NONE /\ sock[x].at = "closing"} })

\* Sockets and lwIP's control blocks name each other: no callback of lwIP ever
\* reaches a socket that was freed or lets go of, whatever timeouts, resets and
\* closes came before; a connection that waits to be accepted waits in one
\* queue; a tap is a live socket; the ping's callback is gone with its stack.
\* And no thread waits, directly or in a circle, for a lock that it holds.
SocketsSafe ==
    /\ \A p \in Pcbs : pcb[p] # NONE /\ pcb[p].arg \in Sockets =>
          sock[pcb[p].arg] # NONE /\ sock[pcb[p].arg].pcb = p
    /\ \A s \in Sockets : sock[s] # NONE =>
          /\ sock[s].pcb # NONE => pcb[sock[s].pcb] # NONE /\ pcb[sock[s].pcb].arg = s
          /\ \A i \in DOMAIN sock[s].queue :
                LET c == sock[s].queue[i]
                IN  /\ sock[c] # NONE /\ ~sock[c].fd
                    /\ \A t \in Sockets : sock[t] # NONE => \A j \in DOMAIN sock[t].queue :
                          sock[t].queue[j] = c => t = s /\ i = j
    /\ \A s \in raw_taps : sock[s] # NONE
    /\ \A p \in Pcbs : pcb[p] # NONE /\ pcb[p].arg = PING => ping # "idle"
    /\ \A w \in Waits : w[1] # w[2] /\ <<w[2], w[1]>> \notin Waits

\* The bytes read from a connection are those the peer sent, from the first
\* on, none lost, repeated or out of order.
BytesInOrder == \A s \in Sockets : sock[s] # NONE => sock[s].prefix

\* recv answers 0 only when everything the peer sent has been read.
ReadsWhole == \A s \in Sockets : sock[s] # NONE => sock[s].whole
============================================================================
