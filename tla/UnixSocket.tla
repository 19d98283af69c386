----------------------------- MODULE UnixSocket -----------------------------
(***************************************************************************)
(* Local sockets (net/unix_socket.c): binding and listening, connecting    *)
(* and accepting, sending and receiving, and what closing one end does to  *)
(* the other.  A socket is a process_fd_socket_t with its unpcb_t.         *)
(*                                                                         *)
(* A section under a spinlock is one step, and so is an unlocked read or   *)
(* write of shared state.  System calls run with interrupts off: threads   *)
(* of one CPU take turns between system calls and where a call sleeps.     *)
(***************************************************************************)
EXTENDS Integers, Sequences, FiniteSets, SequencesExt

CONSTANTS
    Threads,
    Clients,      \* the threads that connect
    Others,       \* the sockets that calls may still make
    Scenarios,    \* bounds: the CPU of each thread, the threads that bind, send and
                  \* receive, and close, backlog_max and the descriptors of a thread
    HIWAT,        \* sb_hiwat of rx_sb, in messages
    NULL

\* The socket a thread starts with is named after it.
Sockets == Threads \cup Others

VARIABLES
    scenario,      \* chosen at the start
    state,         \* unpcb state of each socket
    peer,
    accept_queue,
    listeners,     \* unix_listeners, the newest first; all have the same path
    rx,            \* the number of messages in rx_sb
    is_listening,  \* the sockets that listen was called on
    reconnected,   \* has a socket that was bound or connected been connected?
    undefined,     \* has a call followed a pointer to a socket that was freed, or NULL?
    accept_waitq,
    rx_waitq,
    fds,           \* the sockets each thread has a descriptor of
    blocked,       \* the threads in PROC_STATE_BLOCKED
    pc,
    sock,          \* the socket a thread's call works on
    other,         \* the listener or peer it found
    conn           \* the socket it made for the server's side

marks == <<is_listening, reconnected, undefined>>
sockets == <<state, peer, accept_queue, listeners, rx, marks>>
waiting == <<accept_waitq, rx_waitq, blocked>>
locals == <<sock, other, conn>>
vars == <<scenario, sockets, waiting, fds, pc, locals>>

cpu == scenario.cpu
Servers == scenario.servers
Talkers == scenario.talkers
Closers == scenario.closers
BACKLOG == scenario.backlog
MAX_PROCESS_FDS == scenario.slots

\* The threads share a CPU: a call runs until it sleeps.
OneCpu == \A t, u \in Threads : cpu[t] = cpu[u]

Init ==
    /\ scenario \in Scenarios
    /\ state = [s \in Sockets |-> IF s \in Threads THEN "unconnected" ELSE "none"]
    /\ peer = [s \in Sockets |-> NULL]
    /\ accept_queue = [s \in Sockets |-> <<>>]
    /\ listeners = <<>>
    /\ rx = [s \in Sockets |-> 0]
    /\ is_listening = {} /\ reconnected = FALSE /\ undefined = FALSE
    /\ accept_waitq = [s \in Sockets |-> {}]
    /\ rx_waitq = [s \in Sockets |-> {}]
    /\ fds = [t \in Threads |-> {t}]
    /\ blocked = {}
    /\ pc = [t \in Threads |-> "user"]
    /\ sock = [t \in Threads |-> NULL]
    /\ other = [t \in Threads |-> NULL]
    /\ conn = [t \in Threads |-> NULL]

-----------------------------------------------------------------------------

\* Where another thread may run on the CPU of a thread.
Yields == {"user", "accept_sleep", "recv_sleep"}

Runs(t) == \A u \in Threads \ {t} : cpu[u] = cpu[t] => pc[u] \in Yields

At(t, label) == pc[t] = label /\ Runs(t)
Goto(t, label) == pc' = [pc EXCEPT ![t] = label]

\* Mutant: nobody is woken.
Wake_Nobody(queue) == blocked' = blocked

\* wait_queue_wake_all
Wake(queue) == blocked' = blocked \ queue

\* The system call is over.
Return(t) ==
    /\ Goto(t, "user")
    /\ sock' = [sock EXCEPT ![t] = NULL]
    /\ other' = [other EXCEPT ![t] = NULL]
    /\ conn' = [conn EXCEPT ![t] = NULL]

\* The checks of the descriptor that every call begins with.
Call(t, s, label) ==
    /\ At(t, "user") /\ s \in fds[t]
    /\ Goto(t, label)
    /\ sock' = [sock EXCEPT ![t] = s]
    /\ UNCHANGED <<sockets, waiting, fds, other, conn>>

-----------------------------------------------------------------------------
(* The last reference to a socket: process_socket_release calls unix_socket_close. *)

Release(t, s) ==
    /\ state' = [state EXCEPT ![s] = "closed"]
    /\ Goto(t, IF state[s] \in {"bound", "listening"} THEN "close_list" ELSE "close_peer")
    /\ sock' = [sock EXCEPT ![t] = s]

\* A pointer to a socket is followed.  What the kernel does with one that was freed
\* is undefined, and the behaviour ends there.
Alive(s) == state[s] \notin {"none", "freed"}

Follow(s) == undefined' = (undefined \/ (s # NULL /\ ~Alive(s)))

-----------------------------------------------------------------------------
(* bind and listen *)

unix_socket_bind(t, s) ==
    /\ At(t, "user") /\ s \in fds[t] /\ t \in Servers
    /\ state[s] = "unconnected"
    /\ state' = [state EXCEPT ![s] = "bound"]
    /\ Goto(t, "bind_list")
    /\ sock' = [sock EXCEPT ![t] = s]
    /\ UNCHANGED <<peer, accept_queue, listeners, rx, marks, waiting, fds, other, conn>>

BindList(t) ==
    /\ At(t, "bind_list")
    /\ listeners' = <<sock[t]>> \o listeners
    /\ Return(t)
    /\ UNCHANGED <<state, peer, accept_queue, rx, marks, waiting, fds>>

unix_socket_listen(t, s) ==
    /\ At(t, "user") /\ s \in fds[t]
    /\ state[s] = "bound"
    /\ state' = [state EXCEPT ![s] = "listening"]
    /\ is_listening' = is_listening \cup {s}
    /\ UNCHANGED <<peer, accept_queue, listeners, rx, reconnected, undefined, waiting, fds, pc, locals>>

-----------------------------------------------------------------------------
(* unix_socket_connect.  Any socket may be connected, bound and connected ones too. *)

Connect(t, s) == t \in Clients /\ Call(t, s, "connect_find")

ConnectFind(t) ==
    /\ At(t, "connect_find")
    /\ IF listeners = <<>>
       THEN Return(t) /\ UNCHANGED undefined
       ELSE /\ other' = [other EXCEPT ![t] = Head(listeners)]
            /\ Follow(Head(listeners))
            /\ Goto(t, "connect_link")
            /\ UNCHANGED <<sock, conn>>
    /\ UNCHANGED <<state, peer, accept_queue, listeners, rx, is_listening, reconnected, waiting, fds>>

Fresh == {s \in Sockets : state[s] = "none"}

\* Not listening, or process_socket_create has no memory for the server's side.
ConnectRefused(t) ==
    /\ At(t, "connect_link")
    /\ state[other[t]] = "listening" => Fresh = {}
    /\ Return(t)
    /\ UNCHANGED <<sockets, waiting, fds>>

\* unix_socket_create has no memory for its unpcb_t, which is followed nevertheless.
ConnectFaults(t) ==
    /\ At(t, "connect_link")
    /\ state[other[t]] = "listening" /\ Fresh # {}
    /\ undefined' = TRUE
    /\ Goto(t, "fault")
    /\ UNCHANGED <<state, peer, accept_queue, listeners, rx, is_listening, reconnected, waiting, fds, locals>>

\* Mutant: the server's side does not learn its peer.
Linked_OneWay(s, c) == [peer EXCEPT ![s] = c]

\* Both ends know each other.
Linked(s, c) == [peer EXCEPT ![s] = c, ![c] = s]

ConnectLink(t) ==
    /\ At(t, "connect_link")
    /\ state[other[t]] = "listening"
    /\ \E c \in Fresh :
         /\ peer' = Linked(sock[t], c)
         /\ state' = [state EXCEPT ![sock[t]] = "connected", ![c] = "connected"]
         /\ conn' = [conn EXCEPT ![t] = c]
    /\ reconnected' = (reconnected \/ peer[sock[t]] # NULL \/ state[sock[t]] \in {"bound", "listening"})
    /\ Goto(t, "connect_queue")
    /\ UNCHANGED <<accept_queue, listeners, rx, is_listening, undefined, waiting, fds, sock, other>>

HasRoom(s) == Len(accept_queue[s]) < BACKLOG

ConnectQueue(t) ==
    /\ At(t, "connect_queue")
    /\ HasRoom(other[t])
    /\ accept_queue' = [accept_queue EXCEPT ![other[t]] = Append(@, conn[t])]
    /\ Goto(t, "connect_wake")
    /\ UNCHANGED <<state, peer, listeners, rx, marks, waiting, fds, locals>>

ConnectWake(t) ==
    /\ At(t, "connect_wake")
    /\ Wake(accept_waitq[other[t]])
    /\ Return(t)
    /\ UNCHANGED <<sockets, accept_waitq, rx_waitq, fds>>

\* The backlog is full: the server's side is released, which breaks the link.
\* The client's socket stays in state CONNECTED.
ConnectFull(t) ==
    /\ At(t, "connect_queue")
    /\ ~HasRoom(other[t])
    /\ Release(t, conn[t])
    /\ UNCHANGED <<peer, accept_queue, listeners, rx, marks, waiting, fds, other, conn>>

-----------------------------------------------------------------------------
(* unix_socket_accept and fs_cmd_unix_socket_accept *)

Accept(t, s) == s \in is_listening /\ Call(t, s, "accept_take")

\* Mutant: the last connection is taken, and the first one dropped.
NextPending_Last(s) == accept_queue[s][Len(accept_queue[s])]

NextPending(s) == Head(accept_queue[s])

AcceptTake(t) ==
    LET s == sock[t] IN
    /\ At(t, "accept_take")
    /\ accept_queue[s] # <<>>
    /\ accept_queue' = [accept_queue EXCEPT ![s] = Tail(@)]
    /\ conn' = [conn EXCEPT ![t] = NextPending(s)]
    /\ Goto(t, "accept_slot")
    /\ UNCHANGED <<state, peer, listeners, rx, marks, waiting, fds, sock, other>>

\* Mutant: without a free slot the connection is dropped, not released.
AcceptFull_Drops(t) ==
    /\ At(t, "accept_slot")
    /\ Cardinality(fds[t]) >= MAX_PROCESS_FDS
    /\ Return(t)
    /\ UNCHANGED <<sockets, waiting, fds>>

\* fs_alloc_fd_slot finds no slot: the connection is released.
AcceptFull(t) ==
    /\ At(t, "accept_slot")
    /\ Cardinality(fds[t]) >= MAX_PROCESS_FDS
    /\ Release(t, conn[t])
    /\ UNCHANGED <<peer, accept_queue, listeners, rx, marks, waiting, fds, other, conn>>

AcceptSlot(t) ==
    /\ At(t, "accept_slot")
    /\ Cardinality(fds[t]) < MAX_PROCESS_FDS
    /\ fds' = [fds EXCEPT ![t] = @ \cup {conn[t]}]
    /\ Return(t)
    /\ UNCHANGED <<sockets, waiting>>

AcceptBlock(t) ==
    /\ At(t, "accept_take")
    /\ accept_queue[sock[t]] = <<>>
    /\ Goto(t, "accept_block")
    /\ UNCHANGED <<sockets, waiting, fds, locals>>

\* wait_queue_wait: block, then link.
AcceptSleep(t) ==
    \/ /\ At(t, "accept_block")
       /\ blocked' = blocked \cup {t}
       /\ Goto(t, "accept_add")
       /\ UNCHANGED <<sockets, accept_waitq, rx_waitq, fds, locals>>
    \/ /\ At(t, "accept_add")
       /\ accept_waitq' = [accept_waitq EXCEPT ![sock[t]] = @ \cup {t}]
       /\ Goto(t, "accept_sleep")
       /\ UNCHANGED <<sockets, rx_waitq, blocked, fds, locals>>

AcceptWoken(t) ==
    /\ At(t, "accept_sleep") /\ t \notin blocked
    /\ accept_waitq' = [accept_waitq EXCEPT ![sock[t]] = @ \ {t}]
    /\ Goto(t, "accept_take")
    /\ UNCHANGED <<sockets, rx_waitq, blocked, fds, locals>>

-----------------------------------------------------------------------------
(* unix_socketpair *)

Pair(t) ==
    /\ At(t, "user") /\ t \in Clients \cap Talkers
    /\ Cardinality(fds[t]) + 2 <= MAX_PROCESS_FDS
    /\ \E s, c \in Fresh :
         /\ s # c
         /\ state' = [state EXCEPT ![s] = "connected", ![c] = "connected"]
         /\ peer' = Linked(s, c)
         /\ fds' = [fds EXCEPT ![t] = @ \cup {s, c}]
    /\ UNCHANGED <<accept_queue, listeners, rx, marks, waiting, pc, locals>>

-----------------------------------------------------------------------------
(* unix_socket_send *)

Send(t, s) == t \in Talkers /\ Call(t, s, "send_peer")

SendPeer(t) ==
    /\ At(t, "send_peer")
    /\ IF peer[sock[t]] = NULL
       THEN Return(t)
       ELSE /\ other' = [other EXCEPT ![t] = peer[sock[t]]]
            /\ Goto(t, "send_append")
            /\ UNCHANGED <<sock, conn>>
    /\ Follow(peer[sock[t]])
    /\ UNCHANGED <<state, peer, accept_queue, listeners, rx, is_listening, reconnected, waiting, fds>>

\* sockbuf_append: with the buffer full the call returns -2.
SendAppend(t) ==
    /\ At(t, "send_append")
    /\ IF rx[other[t]] < HIWAT
       THEN /\ rx' = [rx EXCEPT ![other[t]] = @ + 1]
            /\ Goto(t, "send_wake")
            /\ UNCHANGED locals
       ELSE Return(t) /\ UNCHANGED rx
    /\ UNCHANGED <<state, peer, accept_queue, listeners, marks, waiting, fds>>

SendWake(t) ==
    /\ At(t, "send_wake")
    /\ Wake(rx_waitq[other[t]])
    /\ Return(t)
    /\ UNCHANGED <<sockets, accept_waitq, rx_waitq, fds>>

-----------------------------------------------------------------------------
(* unix_socket_recv *)

Recv(t, s) == t \in Talkers /\ Call(t, s, "recv_empty")

RecvRead(t) ==
    /\ At(t, "recv_empty")
    /\ rx[sock[t]] > 0
    /\ rx' = [rx EXCEPT ![sock[t]] = 0]
    /\ Return(t)
    /\ UNCHANGED <<state, peer, accept_queue, listeners, marks, waiting, fds>>

RecvEmpty(t) ==
    /\ At(t, "recv_empty")
    /\ rx[sock[t]] = 0
    /\ Goto(t, "recv_peer")
    /\ UNCHANGED <<sockets, waiting, fds, locals>>

\* Mutant: only an explicit close of this end ends the call.
PeerGone_Ignored(s) == state[s] = "closed"

PeerGone(s) == state[s] = "closed" \/ (peer[s] = NULL /\ state[s] # "listening")

RecvPeer(t) ==
    /\ At(t, "recv_peer")
    /\ IF PeerGone(sock[t])
       THEN Return(t)
       ELSE Goto(t, "recv_block") /\ UNCHANGED locals
    /\ UNCHANGED <<sockets, waiting, fds>>

RecvSleep(t) ==
    \/ /\ At(t, "recv_block")
       /\ blocked' = blocked \cup {t}
       /\ Goto(t, "recv_add")
       /\ UNCHANGED <<sockets, accept_waitq, rx_waitq, fds, locals>>
    \/ /\ At(t, "recv_add")
       /\ rx_waitq' = [rx_waitq EXCEPT ![sock[t]] = @ \cup {t}]
       /\ Goto(t, "recv_sleep")
       /\ UNCHANGED <<sockets, accept_waitq, blocked, fds, locals>>

RecvWoken(t) ==
    /\ At(t, "recv_sleep") /\ t \notin blocked
    /\ rx_waitq' = [rx_waitq EXCEPT ![sock[t]] = @ \ {t}]
    /\ Goto(t, "recv_empty")
    /\ UNCHANGED <<sockets, accept_waitq, blocked, fds, locals>>

-----------------------------------------------------------------------------
(* close, and unix_socket_close *)

Close(t, s) ==
    /\ At(t, "user") /\ s \in fds[t] /\ t \in Closers
    /\ fds' = [fds EXCEPT ![t] = @ \ {s}]
    /\ Release(t, s)
    /\ UNCHANGED <<peer, accept_queue, listeners, rx, marks, waiting, other, conn>>

\* Mutant: the listener stays in the list.
Unlisted_Stays(s) == listeners

Unlisted(s) == Remove(listeners, s)

CloseList(t) ==
    /\ At(t, "close_list")
    /\ listeners' = Unlisted(sock[t])
    /\ Goto(t, "close_peer")
    /\ UNCHANGED <<state, peer, accept_queue, rx, marks, waiting, fds, locals>>

ClosePeer(t) ==
    /\ At(t, "close_peer")
    /\ other' = [other EXCEPT ![t] = peer[sock[t]]]
    /\ peer' = [peer EXCEPT ![sock[t]] = NULL]
    /\ Follow(peer[sock[t]])
    /\ Goto(t, IF peer[sock[t]] = NULL THEN "close_free" ELSE "close_unlink")
    /\ UNCHANGED <<state, accept_queue, listeners, rx, is_listening, reconnected, waiting, fds, sock,
                   conn>>

CloseUnlink(t) ==
    /\ At(t, "close_unlink")
    /\ peer' = [peer EXCEPT ![other[t]] = NULL]
    /\ Goto(t, "close_wake")
    /\ UNCHANGED <<state, accept_queue, listeners, rx, marks, waiting, fds, locals>>

CloseWake(t) ==
    /\ At(t, "close_wake")
    /\ Wake(rx_waitq[other[t]])
    /\ Goto(t, "close_free")
    /\ UNCHANGED <<sockets, accept_waitq, rx_waitq, fds, locals>>

\* The unpcb_t and the socket are freed; rx_sb is emptied.
CloseFree(t) ==
    /\ At(t, "close_free")
    /\ Wake(rx_waitq[sock[t]])
    /\ state' = [state EXCEPT ![sock[t]] = "freed"]
    /\ rx' = [rx EXCEPT ![sock[t]] = 0]
    /\ Return(t)
    /\ UNCHANGED <<peer, accept_queue, listeners, marks, accept_waitq, rx_waitq, fds>>

-----------------------------------------------------------------------------

Syscall(t) ==
    \/ Pair(t)
    \/ \E s \in Sockets :
         \/ unix_socket_bind(t, s) \/ unix_socket_listen(t, s) \/ Connect(t, s)
         \/ Accept(t, s) \/ Send(t, s) \/ Recv(t, s) \/ Close(t, s)

InKernel(t) ==
    \/ BindList(t)
    \/ ConnectFind(t) \/ ConnectRefused(t) \/ ConnectFaults(t) \/ ConnectLink(t)
    \/ ConnectQueue(t) \/ ConnectFull(t) \/ ConnectWake(t)
    \/ AcceptTake(t) \/ AcceptSlot(t) \/ AcceptFull(t)
    \/ AcceptBlock(t) \/ AcceptSleep(t) \/ AcceptWoken(t)
    \/ SendPeer(t) \/ SendAppend(t) \/ SendWake(t)
    \/ RecvRead(t) \/ RecvEmpty(t) \/ RecvPeer(t) \/ RecvSleep(t) \/ RecvWoken(t)
    \/ CloseList(t) \/ ClosePeer(t) \/ CloseUnlink(t) \/ CloseWake(t) \/ CloseFree(t)

Next ==
    /\ ~undefined
    /\ UNCHANGED scenario
    /\ \E t \in Threads : Syscall(t) \/ InKernel(t)

Spec == Init /\ [][Next]_vars

-----------------------------------------------------------------------------
(* Properties. *)

\* On one CPU nothing in the kernel names a socket that was freed: not the other
\* end, nor the list of listeners, an accept queue, a descriptor or a call under
\* way.  unix_socket_connect does not look at the state of the socket it connects,
\* so it holds as long as programs connect no socket twice and none they bound.
NoDanglingSocket == OneCpu /\ ~reconnected =>
    /\ \A s \in Sockets : Alive(s) /\ peer[s] # NULL => Alive(peer[s])
    /\ \A s \in Sockets : Alive(s) => \A c \in Range(accept_queue[s]) : Alive(c)
    /\ \A s \in Range(listeners) : Alive(s)
    /\ \A t \in Threads : \A s \in fds[t] : Alive(s)
    /\ \A t \in Threads : other[t] # NULL => Alive(other[t])

\* The two ends of a connection know each other, from connect and socketpair
\* until one of them closes; then neither does.  A second connect of the same
\* socket leaves the server's end of the first one with a peer that has another.
PeersSymmetric == ~reconnected =>
    \A s \in Sockets : Alive(s) /\ peer[s] # NULL =>
       \/ peer[peer[s]] = s
       \/ \E t \in Threads : pc[t] = "close_unlink" /\ other[t] = s

\* No socket names one that was freed, and two that are connected name each other.
SocketsPaired == NoDanglingSocket /\ PeersSymmetric

Making == {"connect_queue", "accept_slot"}
Releasing == {"close_list", "close_peer", "close_unlink", "close_wake", "close_free"}

\* Who would release the socket: a descriptor, an accept queue, or the call that
\* makes, accepts or releases it.
Owners(s) ==
    {<<"descriptor", t>> : t \in {u \in Threads : s \in fds[u]}}
    \cup {<<"queue", q>> : q \in {r \in Sockets \X (1..BACKLOG) :
                                     r[2] \in DOMAIN accept_queue[r[1]] /\ accept_queue[r[1]][r[2]] = s}}
    \cup {<<"made", t>> : t \in {u \in Threads : pc[u] \in Making /\ conn[u] = s}}
    \cup {<<"released", t>> : t \in {u \in Threads : pc[u] \in Releasing /\ sock[u] = s}}

\* Every socket has exactly one owner, on any number of CPUs, when the backlog is
\* full and when the process that accepts has no descriptor left too: no connection
\* is accepted twice, released twice or lost.  The owner of a pending connection
\* remains its queue when the listener is closed: nothing releases it then.
SocketOwnedOnce ==
    \A s \in Sockets : Cardinality(Owners(s)) = IF Alive(s) THEN 1 ELSE 0

\* No system call is in the middle of its work.
Resting == \A t \in Threads : pc[t] \in Yields

\* On one CPU no wake-up is lost: whenever calls rest, a thread that is still blocked
\* in accept has no connection pending, however connects, a full backlog and other
\* calls came between its look at the queue and its sleep.
AcceptServed == OneCpu /\ Resting =>
    \A t \in blocked : pc[t] = "accept_sleep" => accept_queue[sock[t]] = <<>>

\* On one CPU a thread that is still blocked in recv has no message to read, and
\* another end that could send one: closing that end wakes it to learn so.
RecvReturns == OneCpu /\ Resting =>
    \A t \in blocked : pc[t] = "recv_sleep" =>
       /\ rx[sock[t]] = 0
       /\ peer[sock[t]] # NULL \/ state[sock[t]] = "listening"
=============================================================================
