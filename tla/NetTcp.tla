------------------------------- MODULE NetTcp -------------------------------
(***************************************************************************)
(* Accepted TCP connections, as RTMP, HTTP-FLV and RTP over TCP use them:  *)
(* X2TcpServer accepts, X2TcpDataHanlder owns the socket, and              *)
(* X2NetTcpConnection stands between it and the X2NetPeer.                 *)
(*                                                                         *)
(* Two threads meet in a connection.  The loop thread accepts, reads, runs *)
(* the connection's timer and takes it down when the other end closes.     *)
(* The main thread ticks the peer, which may force the connection to       *)
(* close, and deletes connections and peers from two lists.  The loop      *)
(* thread takes a connection down in steps, between which the main thread  *)
(* runs; the check of cb_listener_ and the call through it are one step.   *)
(***************************************************************************)
EXTENDS Integers, FiniteSets

CONSTANTS
  Conns,           \* connections that may be made
  MaxConnections,  \* MaxTcpConnectionsPerServer
  SendOnce,        \* connections whose data has bSendOnce set (RTP)
  MaxUnsent,       \* bound: packets in list_send_data_
  NULL

ASSUME NetTcpAssumption ==
  /\ MaxConnections \in Nat \ {0}
  /\ SendOnce \subseteq Conns
  /\ MaxUnsent \in Nat
  /\ NULL \notin Conns

VARIABLES
  \* the loop thread
  loop,            \* the connection that is being taken down, and how far
  connections,     \* X2TcpServerHandler::connections
  stalled,         \* libuv has stopped to watch the listening socket
  \* X2NetTcpConnection
  conn,            \* "none", "live" or "deleted"
  handler,         \* its X2TcpDataHanlder: "none", "open", "closed",
                   \* "deleted", or "freed" by a failed accept
  x2tcp_data_handler, uv_timer, b_sock_closed, b_force_closed,
  cb_listener,     \* the connection has its peer as listener
  unsent,          \* the length of list_send_data_
  for_delete,      \* list_x2net_connection_for_delete_
  \* the peer of the connection
  peer,            \* "none", "live", "closed" (waiting to be deleted), "deleted"
  close_from_network, close_from_proto

loopVars == <<loop, connections, stalled>>
handlerVars == <<handler, x2tcp_data_handler, uv_timer, b_sock_closed>>
connVars == <<conn, b_force_closed, cb_listener, unsent, for_delete>>
peerVars == <<peer, close_from_network, close_from_proto>>
vars == <<loopVars, handlerVars, connVars, peerVars>>

Idle == [at |-> "idle", c |-> NULL]

\* The process has ended.
Crashed == [at |-> "crashed", c |-> NULL]

TypeOK ==
  /\ loop \in [at : {"notified", "closed"}, c : Conns] \cup {Idle, Crashed}
  /\ connections \subseteq Conns
  /\ stalled \in BOOLEAN
  /\ conn \in [Conns -> {"none", "live", "deleted"}]
  /\ handler \in [Conns -> {"none", "open", "closed", "deleted", "freed"}]
  /\ x2tcp_data_handler \in [Conns -> BOOLEAN]
  /\ uv_timer \in [Conns -> BOOLEAN]
  /\ b_sock_closed \in [Conns -> BOOLEAN]
  /\ b_force_closed \in [Conns -> BOOLEAN]
  /\ cb_listener \in [Conns -> BOOLEAN]
  /\ unsent \in [Conns -> 0 .. MaxUnsent]
  /\ for_delete \subseteq Conns
  /\ peer \in [Conns -> {"none", "live", "closed", "deleted"}]
  /\ close_from_network \in [Conns -> BOOLEAN]
  /\ close_from_proto \in [Conns -> BOOLEAN]

Init ==
  /\ loop = Idle
  /\ connections = {}
  /\ stalled = FALSE
  /\ conn = [c \in Conns |-> "none"]
  /\ handler = [c \in Conns |-> "none"]
  /\ x2tcp_data_handler = [c \in Conns |-> FALSE]
  /\ uv_timer = [c \in Conns |-> FALSE]
  /\ b_sock_closed = [c \in Conns |-> FALSE]
  /\ b_force_closed = [c \in Conns |-> FALSE]
  /\ cb_listener = [c \in Conns |-> FALSE]
  /\ unsent = [c \in Conns |-> 0]
  /\ for_delete = {}
  /\ peer = [c \in Conns |-> "none"]
  /\ close_from_network = [c \in Conns |-> FALSE]
  /\ close_from_proto = [c \in Conns |-> FALSE]

Set(f, c, value) == [f EXCEPT ![c] = value]

-----------------------------------------------------------------------------
(***************************************************************************)
(* The loop thread.                                                        *)
(***************************************************************************)

\* GetNumConnections() against the limit.
Full == Cardinality(connections) >= MaxConnections

\* UserOnTcpConnectionAlloc: handler, connection and peer are made, in this
\* order, and the peer is registered for its tick.
Accept(c) ==
  /\ loop = Idle /\ ~stalled /\ conn[c] = "none"
  /\ ~Full
  /\ connections' = connections \cup {c}
  /\ conn' = Set(conn, c, "live")
  /\ handler' = Set(handler, c, "open")
  /\ x2tcp_data_handler' = Set(x2tcp_data_handler, c, TRUE)
  /\ uv_timer' = Set(uv_timer, c, TRUE)
  /\ cb_listener' = Set(cb_listener, c, TRUE)
  /\ peer' = Set(peer, c, "live")
  /\ UNCHANGED <<loop, stalled, b_sock_closed, b_force_closed, unsent, for_delete,
                 close_from_network, close_from_proto>>

\* AcceptTcpConnection fails.  It deletes the handler and returns, and
\* UserOnTcpConnectionAlloc goes on with it: connection and peer are made, and
\* the connection points to freed memory.  Or the process ends: the handler of
\* a failed Setup is deleted without its uvHandle, which Close uses; a failed
\* uv_accept is thrown through libuv; the freed memory is written to.
AcceptFailed(c) ==
  /\ loop = Idle /\ ~stalled /\ conn[c] = "none"
  /\ ~Full
  /\ \/ /\ conn' = Set(conn, c, "live")
        /\ handler' = Set(handler, c, "freed")
        /\ x2tcp_data_handler' = Set(x2tcp_data_handler, c, TRUE)
        /\ uv_timer' = Set(uv_timer, c, TRUE)
        /\ cb_listener' = Set(cb_listener, c, TRUE)
        /\ peer' = Set(peer, c, "live")
        /\ UNCHANGED <<loop, b_sock_closed>>
     \/ loop' = Crashed /\ UNCHANGED <<handlerVars, conn, cb_listener, peer>>
  /\ UNCHANGED <<connections, stalled, b_force_closed, unsent, for_delete,
                 close_from_network, close_from_proto>>

\* UserOnTcpConnectionAlloc returns without uv_accept.  libuv then stops to
\* watch the listening socket until uv_accept is called, which nobody does.
Refuse ==
  /\ loop = Idle /\ ~stalled
  /\ \E c \in Conns : conn[c] = "none"
  /\ Full
  /\ stalled' = TRUE
  /\ UNCHANGED <<loop, connections, handlerVars, connVars, peerVars>>

\* OnUvRead or OnUvWrite finds the connection closed: Close,
\* OnTcpConnectionClosed, SetClosed, OnX2TcpDataHanlderClosed up to the call
\* of the listener.
RemoteClosed(c) ==
  /\ loop = Idle /\ handler[c] = "open"
  /\ handler' = Set(handler, c, "closed")
  /\ connections' = connections \ {c}
  /\ uv_timer' = Set(uv_timer, c, FALSE)
  /\ close_from_network' = IF cb_listener[c] THEN Set(close_from_network, c, TRUE)
                           ELSE close_from_network
  /\ loop' = [at |-> "notified", c |-> c]
  /\ UNCHANGED <<stalled, x2tcp_data_handler, b_sock_closed, connVars, peer, close_from_proto>>

\* Mutant: the connection is not marked.
SockClosedUnmarked ==
  /\ loop.at = "notified"
  /\ loop' = [loop EXCEPT !.at = "closed"]
  /\ UNCHANGED <<connections, stalled, handler, x2tcp_data_handler, uv_timer,
                 b_sock_closed, connVars, peerVars>>

\* OnX2TcpDataHanlderClosed marks the connection.
SockClosed ==
  /\ loop.at = "notified"
  /\ b_sock_closed' = Set(b_sock_closed, loop.c, TRUE)
  /\ loop' = [loop EXCEPT !.at = "closed"]
  /\ UNCHANGED <<connections, stalled, handler, x2tcp_data_handler, uv_timer,
                 connVars, peerVars>>

\* UserOnTcpConnectionClosed unhooks the handler and queues the connection
\* for deletion; the handler is deleted.
TakenDown ==
  /\ loop.at = "closed"
  /\ x2tcp_data_handler' = Set(x2tcp_data_handler, loop.c, FALSE)
  /\ for_delete' = for_delete \cup {loop.c}
  /\ handler' = Set(handler, loop.c, "deleted")
  /\ loop' = Idle
  /\ UNCHANGED <<connections, stalled, uv_timer, b_sock_closed, conn, b_force_closed,
                 cb_listener, unsent, peerVars>>

\* The timer: RunOnce of a connection that is forced to close.
\* X2TcpConnectionHandler::Close tells nobody.
RunOnceClose(c) ==
  /\ loop = Idle /\ uv_timer[c] /\ b_force_closed[c]
  /\ x2tcp_data_handler[c] /\ handler[c] = "open"
  /\ handler' = Set(handler, c, "closed")
  /\ UNCHANGED <<loopVars, x2tcp_data_handler, uv_timer, b_sock_closed, connVars, peerVars>>

\* Mutant: a packet is taken without a look at the size of the list.
RunOnceSendUnchecked(c) ==
  /\ loop = Idle /\ uv_timer[c] /\ ~b_force_closed[c]
  /\ unsent' = Set(unsent, c, unsent[c] - 1)
  /\ UNCHANGED <<loopVars, handlerVars, conn, b_force_closed, cb_listener, for_delete, peerVars>>

\* The timer: RunOnce writes what is queued, or one packet of it.
RunOnceSend(c) ==
  /\ loop = Idle /\ uv_timer[c] /\ ~b_force_closed[c] /\ unsent[c] > 0
  /\ unsent' = Set(unsent, c, IF c \in SendOnce THEN unsent[c] - 1 ELSE 0)
  /\ UNCHANGED <<loopVars, handlerVars, conn, b_force_closed, cb_listener, for_delete, peerVars>>

\* The timer: RunOnce writes to, or closes, a handler that was freed.  If the
\* memory is what it was, both return at once (closed is set) and RunOnceSend
\* is all that happens.  It may have become the handler of another connection,
\* which is closed in the place of this one, or anything else.
UseFreed(c) ==
  /\ loop = Idle /\ uv_timer[c] /\ handler[c] = "freed"
  /\ \/ /\ b_force_closed[c]
        /\ \E d \in Conns : handler[d] = "open" /\ handler' = Set(handler, d, "closed")
        /\ UNCHANGED loop
     \/ /\ b_force_closed[c] \/ unsent[c] > 0
        /\ loop' = Crashed
        /\ UNCHANGED handler
  /\ UNCHANGED <<connections, stalled, x2tcp_data_handler, uv_timer, b_sock_closed,
                 connVars, peerVars>>

-----------------------------------------------------------------------------
(***************************************************************************)
(* The main thread.                                                        *)
(***************************************************************************)

\* OnX2ProtoHandlerSendData, during the tick of the peer.
Send(c) ==
  /\ loop # Crashed /\ peer[c] = "live" /\ unsent[c] < MaxUnsent
  /\ unsent' = Set(unsent, c, unsent[c] + 1)
  /\ UNCHANGED <<loopVars, handlerVars, conn, b_force_closed, cb_listener, for_delete, peerVars>>

\* The protocol or another publisher asks for the end of the peer.
ProtoClose(c) ==
  /\ loop # Crashed /\ peer[c] = "live"
  /\ close_from_proto' = Set(close_from_proto, c, TRUE)
  /\ UNCHANGED <<loopVars, handlerVars, connVars, peer, close_from_network>>

\* Mutant: the peer leaves its connection alone.
PeerTickNoForceClose(c) ==
  /\ loop # Crashed /\ peer[c] = "live"
  /\ close_from_network[c] \/ close_from_proto[c]
  /\ cb_listener' = Set(cb_listener, c, FALSE)
  /\ peer' = Set(peer, c, "closed")
  /\ close_from_network' = Set(close_from_network, c, FALSE)
  /\ close_from_proto' = Set(close_from_proto, c, FALSE)
  /\ UNCHANGED <<loopVars, handlerVars, conn, b_force_closed, unsent, for_delete>>

\* OnX2RtcTick of a peer that is to close: SetListener(NULL), ForceClose,
\* OnX2NetPeerClosed.
PeerTick(c) ==
  /\ loop # Crashed /\ peer[c] = "live"
  /\ close_from_network[c] \/ close_from_proto[c]
  /\ cb_listener' = Set(cb_listener, c, FALSE)
  /\ b_force_closed' = Set(b_force_closed, c, TRUE)
  /\ peer' = Set(peer, c, "closed")
  /\ close_from_network' = Set(close_from_network, c, FALSE)
  /\ close_from_proto' = Set(close_from_proto, c, FALSE)
  /\ UNCHANGED <<loopVars, handlerVars, conn, unsent, for_delete>>

\* X2ProxyImpl::RunOnce deletes the peers that closed.
DeletePeer(c) ==
  /\ loop # Crashed /\ peer[c] = "closed"
  /\ peer' = Set(peer, c, "deleted")
  /\ UNCHANGED <<loopVars, handlerVars, connVars, close_from_network, close_from_proto>>

CanDelete(c) == b_force_closed[c] /\ b_sock_closed[c]

\* Mutant: every connection that can be deleted is, not only the queued ones.
DeleteConnectionUnqueued(c) ==
  /\ loop # Crashed /\ conn[c] = "live" /\ CanDelete(c)
  /\ for_delete' = for_delete \ {c}
  /\ conn' = Set(conn, c, "deleted")
  /\ UNCHANGED <<loopVars, handlerVars, b_force_closed, cb_listener, unsent, peerVars>>

\* X2NetProcess::RunOnce, for one connection of the list.
DeleteConnection(c) ==
  /\ loop # Crashed /\ c \in for_delete /\ CanDelete(c)
  /\ for_delete' = for_delete \ {c}
  /\ conn' = Set(conn, c, "deleted")
  /\ UNCHANGED <<loopVars, handlerVars, b_force_closed, cb_listener, unsent, peerVars>>

-----------------------------------------------------------------------------
LoopThread ==
  \/ Refuse \/ SockClosed \/ TakenDown
  \/ \E c \in Conns :
       \/ Accept(c) \/ AcceptFailed(c) \/ RemoteClosed(c)
       \/ RunOnceClose(c) \/ RunOnceSend(c) \/ UseFreed(c)

MainThread ==
  \E c \in Conns :
    Send(c) \/ ProtoClose(c) \/ PeerTick(c) \/ DeletePeer(c) \/ DeleteConnection(c)

Next == LoopThread \/ MainThread

Spec == Init /\ [][Next]_vars

\* The threads run on: a timer that is due fires, a peer is ticked, the lists
\* are gone through.  Clients need not connect, send or leave.
Fairness ==
  /\ WF_vars(SockClosed) /\ WF_vars(TakenDown)
  /\ \A c \in Conns :
       /\ SF_vars(RunOnceClose(c) \/ RunOnceSend(c))
       /\ WF_vars(PeerTick(c) \/ DeletePeer(c))
       /\ WF_vars(DeleteConnection(c))

FairSpec == Spec /\ Fairness

-----------------------------------------------------------------------------
\* Neither thread uses a connection that is deleted: not the loop thread in
\* the middle of taking it down, not its timer, not a peer; and its handler
\* is gone, as the destructor checks.
DeletedUnused ==
  \A c \in Conns : conn[c] = "deleted" =>
    /\ loop.c # c
    /\ ~uv_timer[c]
    /\ peer[c] # "live"
    /\ ~x2tcp_data_handler[c]

\* A peer learns of the end of its connection unless it has given it up
\* itself: the loop thread and the tick of the peer cannot both miss it.
ClosedIsKnown ==
  \A c \in Conns :
    b_sock_closed[c] => close_from_network[c] \/ b_force_closed[c]

\* Every connection that the other end closes is deleted in the end, and its
\* peer with it, unless the process ends.
ClosedReclaimed ==
  \A c \in Conns :
    (loop.at = "notified" /\ loop.c = c) ~>
      (loop = Crashed \/ (conn[c] = "deleted" /\ peer[c] = "deleted"))

\* A peer that is told to close closes its socket in the end, whoever told it,
\* unless the process ends.
ForcedEndsClosed ==
  \A c \in Conns : close_from_proto[c] ~> (loop = Crashed \/ handler[c] # "open")

\* "Allow just MaxTcpConnectionsPerServer.": a connection is refused only
\* when that many sockets are open.
RefusedOnlyWhenFull ==
  [][~stalled /\ stalled' =>
       Cardinality({c \in Conns : handler[c] = "open"}) >= MaxConnections]_vars

=============================================================================
