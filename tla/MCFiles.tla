------------------------------ MODULE MCFiles ------------------------------
(* What descriptors stand for.  A behaviour is one of the tables of processes *)
(* (FileTable) or one of local sockets (UnixSocket); the variables of the     *)
(* other rest.                                                                *)
EXTENDS FileTable, Sequences

CONSTANTS NONE, srv, cl1, cl2

VARIABLES part,
    scenario, state, peer, accept_queue, listeners, rx, is_listening, reconnected, undefined,
    accept_waitq, rx_waitq, sock_fds, sock_blocked, sock_pc, sock, other, conn

MCThreads == {srv, cl1, cl2}

\* Sending, receiving and closing on one CPU; a client that binds, and that connects
\* its socket again, with a server that has room for one connection; connecting and
\* accepting on a CPU each.
MCScenarios ==
    {[cpu |-> [t \in MCThreads |-> 0], servers |-> {srv}, talkers |-> MCThreads,
      closers |-> {srv, cl1}, backlog |-> 1, slots |-> 3],
     [cpu |-> [t \in MCThreads |-> 0], servers |-> {srv, cl1}, talkers |-> {},
      closers |-> MCThreads, backlog |-> 2, slots |-> 2],
     [cpu |-> [t \in MCThreads |-> t], servers |-> {srv}, talkers |-> {},
      closers |-> {}, backlog |-> 2, slots |-> 2]}

Local == INSTANCE UnixSocket
    WITH Threads <- MCThreads, Clients <- {cl1, cl2}, Others <- {"c", "d"}, Scenarios <- MCScenarios,
         HIWAT <- 1, NULL <- NONE, fds <- sock_fds, blocked <- sock_blocked, pc <- sock_pc

socket_vars == <<scenario, state, peer, accept_queue, listeners, rx, is_listening, reconnected, undefined,
                 accept_waitq, rx_waitq, sock_fds, sock_blocked, sock_pc, sock, other, conn>>

\* What does not run stays as it starts.
MCInit ==
    /\ Init /\ Local!Init
    /\ \/ part = "files" /\ scenario.backlog = 1
       \/ part = "sockets" /\ OneCpu

MCNext ==
    /\ UNCHANGED part
    /\ \/ part = "files" /\ Next /\ UNCHANGED socket_vars
       \/ part = "sockets" /\ Local!Next /\ UNCHANGED vars

all_vars == <<part, vars, socket_vars>>

\* The fairness of FileTable.
MCSpec ==
    /\ MCInit /\ [][MCNext]_all_vars
    /\ \A p \in Procs :
          /\ WF_vars(part = "files" /\ InKernel(p))
          /\ SF_vars(part = "files" /\ PollReturns(p))

----------------------------------------------------------------------------
\* UnixSocket: as long as programs connect no socket twice, nothing in the kernel
\* names a socket that was freed, and two ends of a connection name each other.
SocketsPaired == part = "sockets" => Local!SocketsPaired

\* UnixSocket: every socket has one owner, which releases it.
SocketOwnedOnce == part = "sockets" => Local!SocketOwnedOnce

\* UnixSocket, on one CPU: no thread sleeps in accept while a connection is pending.
AcceptServed == part = "sockets" => Local!AcceptServed

\* UnixSocket, on one CPU: no thread sleeps in recv with a message to read, or when
\* the other end is closed.
RecvReturns == part = "sockets" => Local!RecvReturns
=============================================================================
