---------------------------- MODULE NetTcpProofs ----------------------------
(***************************************************************************)
(* Proofs about NetTcp, for any number of connections: neither thread uses *)
(* a connection that is deleted, and the end of a socket is never missed.  *)
(***************************************************************************)
EXTENDS NetTcp, TLAPS

USE NetTcpAssumption DEF Idle, Crashed, Set

\* What a connection that was not made yet has.
Unborn(c) ==
  /\ handler[c] = "none" /\ peer[c] = "none"
  /\ ~x2tcp_data_handler[c] /\ ~uv_timer[c]
  /\ ~b_sock_closed[c] /\ ~b_force_closed[c] /\ ~cb_listener[c]

\* The connection is hooked to its handler from Accept to TakenDown, and its
\* timer runs until the loop thread begins to take it down; one whose accept
\* failed stays hooked, and is never deleted.
HandlerInv ==
  \A c \in Conns :
    /\ conn[c] = "none" => Unborn(c)
    /\ handler[c] \in {"open", "closed", "freed"} => conn[c] = "live"
    /\ x2tcp_data_handler[c] => handler[c] \in {"open", "closed", "freed"}
    /\ uv_timer[c] => x2tcp_data_handler[c]
    /\ c \in for_delete => conn[c] = "live" /\ handler[c] = "deleted"
    /\ conn[c] = "deleted" => handler[c] = "deleted"
    /\ loop.c = c => handler[c] = "closed" /\ ~uv_timer[c]

\* The peer and its connection let go of each other in one tick.
PeerInv ==
  \A c \in Conns :
    /\ conn[c] # "none" => peer[c] # "none"
    /\ b_force_closed[c] <=> peer[c] \in {"closed", "deleted"}
    /\ cb_listener[c] <=> peer[c] = "live"
    /\ conn[c] = "deleted" => peer[c] # "live"

\* The peer knows of the end before the connection is marked.
KnownInv ==
  \A c \in Conns :
    b_sock_closed[c] \/ loop.c = c => close_from_network[c] \/ b_force_closed[c]

IInv == TypeOK /\ HandlerInv /\ PeerInv /\ KnownInv

\* The loop thread is in the middle of taking a connection down, or idle.
LEMMA LoopType ==
  ASSUME TypeOK
  PROVE  /\ loop.at \in {"notified", "closed"} => loop.c \in Conns
         /\ loop.at \in {"notified", "closed"} => loop = [at |-> loop.at, c |-> loop.c]
         /\ loop \in {Idle, Crashed} => \A c \in Conns : loop.c # c
BY DEF TypeOK

\* Every step of either thread keeps the invariant.
LEMMA InvStep == IInv /\ [Next]_vars => IInv'
<1> SUFFICES ASSUME IInv, [Next]_vars PROVE IInv'
  OBVIOUS
<1>0. TypeOK /\ HandlerInv /\ PeerInv /\ KnownInv
  BY DEF IInv
<1> USE DEF loopVars, handlerVars, connVars, peerVars
<1>1. CASE UNCHANGED vars
  BY <1>0, <1>1 DEF vars, IInv, TypeOK, HandlerInv, Unborn, PeerInv, KnownInv
<1>2. ASSUME NEW c \in Conns, Accept(c) PROVE IInv'
  <2>1. TypeOK'
    BY <1>0, <1>2, LoopType DEF Accept, TypeOK
  <2>2. HandlerInv'
    BY <1>0, <1>2, LoopType DEF Accept, TypeOK, HandlerInv, Unborn
  <2>3. PeerInv'
    BY <1>0, <1>2, LoopType DEF Accept, TypeOK, HandlerInv, Unborn, PeerInv
  <2>4. KnownInv'
    BY <1>0, <1>2, LoopType DEF Accept, TypeOK, HandlerInv, Unborn, PeerInv, KnownInv
  <2> QED
    BY <2>1, <2>2, <2>3, <2>4 DEF IInv
<1>3. ASSUME NEW c \in Conns, RemoteClosed(c) PROVE IInv'
  <2>1. TypeOK'
    BY <1>0, <1>3, LoopType DEF RemoteClosed, TypeOK
  <2>2. HandlerInv'
    BY <1>0, <1>3, LoopType DEF RemoteClosed, TypeOK, HandlerInv, Unborn
  <2>3. PeerInv'
    BY <1>0, <1>3, LoopType DEF RemoteClosed, TypeOK, HandlerInv, Unborn, PeerInv
  <2>4. KnownInv'
    BY <1>0, <1>3, LoopType DEF RemoteClosed, TypeOK, HandlerInv, Unborn, PeerInv, KnownInv
  <2> QED
    BY <2>1, <2>2, <2>3, <2>4 DEF IInv
<1>4. ASSUME NEW c \in Conns, RunOnceClose(c) PROVE IInv'
  <2>1. TypeOK'
    BY <1>0, <1>4, LoopType DEF RunOnceClose, TypeOK
  <2>2. HandlerInv'
    BY <1>0, <1>4, LoopType DEF RunOnceClose, TypeOK, HandlerInv, Unborn
  <2>3. PeerInv'
    BY <1>0, <1>4, LoopType DEF RunOnceClose, TypeOK, HandlerInv, Unborn, PeerInv
  <2>4. KnownInv'
    BY <1>0, <1>4, LoopType DEF RunOnceClose, TypeOK, HandlerInv, Unborn, PeerInv, KnownInv
  <2> QED
    BY <2>1, <2>2, <2>3, <2>4 DEF IInv
<1>5. ASSUME NEW c \in Conns, RunOnceSend(c) PROVE IInv'
  <2>1. TypeOK'
    BY <1>0, <1>5, LoopType DEF RunOnceSend, TypeOK
  <2>2. HandlerInv'
    BY <1>0, <1>5, LoopType DEF RunOnceSend, TypeOK, HandlerInv, Unborn
  <2>3. PeerInv'
    BY <1>0, <1>5, LoopType DEF RunOnceSend, TypeOK, HandlerInv, Unborn, PeerInv
  <2>4. KnownInv'
    BY <1>0, <1>5, LoopType DEF RunOnceSend, TypeOK, HandlerInv, Unborn, PeerInv, KnownInv
  <2> QED
    BY <2>1, <2>2, <2>3, <2>4 DEF IInv
<1>6. ASSUME NEW c \in Conns, Send(c) PROVE IInv'
  <2>1. TypeOK'
    BY <1>0, <1>6, LoopType DEF Send, TypeOK
  <2>2. HandlerInv'
    BY <1>0, <1>6, LoopType DEF Send, TypeOK, HandlerInv, Unborn
  <2>3. PeerInv'
    BY <1>0, <1>6, LoopType DEF Send, TypeOK, HandlerInv, Unborn, PeerInv
  <2>4. KnownInv'
    BY <1>0, <1>6, LoopType DEF Send, TypeOK, HandlerInv, Unborn, PeerInv, KnownInv
  <2> QED
    BY <2>1, <2>2, <2>3, <2>4 DEF IInv
<1>7. ASSUME NEW c \in Conns, ProtoClose(c) PROVE IInv'
  <2>1. TypeOK'
    BY <1>0, <1>7, LoopType DEF ProtoClose, TypeOK
  <2>2. HandlerInv'
    BY <1>0, <1>7, LoopType DEF ProtoClose, TypeOK, HandlerInv, Unborn
  <2>3. PeerInv'
    BY <1>0, <1>7, LoopType DEF ProtoClose, TypeOK, HandlerInv, Unborn, PeerInv
  <2>4. KnownInv'
    BY <1>0, <1>7, LoopType DEF ProtoClose, TypeOK, HandlerInv, Unborn, PeerInv, KnownInv
  <2> QED
    BY <2>1, <2>2, <2>3, <2>4 DEF IInv
<1>8. ASSUME NEW c \in Conns, PeerTick(c) PROVE IInv'
  <2>1. TypeOK'
    BY <1>0, <1>8, LoopType DEF PeerTick, TypeOK
  <2>2. HandlerInv'
    BY <1>0, <1>8, LoopType DEF PeerTick, TypeOK, HandlerInv, Unborn
  <2>3. PeerInv'
    BY <1>0, <1>8, LoopType DEF PeerTick, TypeOK, HandlerInv, Unborn, PeerInv
  <2>4. KnownInv'
    BY <1>0, <1>8, LoopType DEF PeerTick, TypeOK, HandlerInv, Unborn, PeerInv, KnownInv
  <2> QED
    BY <2>1, <2>2, <2>3, <2>4 DEF IInv
<1>9. ASSUME NEW c \in Conns, DeletePeer(c) PROVE IInv'
  <2>1. TypeOK'
    BY <1>0, <1>9, LoopType DEF DeletePeer, TypeOK
  <2>2. HandlerInv'
    BY <1>0, <1>9, LoopType DEF DeletePeer, TypeOK, HandlerInv, Unborn
  <2>3. PeerInv'
    BY <1>0, <1>9, LoopType DEF DeletePeer, TypeOK, HandlerInv, Unborn, PeerInv
  <2>4. KnownInv'
    BY <1>0, <1>9, LoopType DEF DeletePeer, TypeOK, HandlerInv, Unborn, PeerInv, KnownInv
  <2> QED
    BY <2>1, <2>2, <2>3, <2>4 DEF IInv
<1>10. ASSUME NEW c \in Conns, DeleteConnection(c) PROVE IInv'
  <2>1. TypeOK'
    BY <1>0, <1>10, LoopType DEF DeleteConnection, CanDelete, TypeOK
  <2>2. HandlerInv'
    BY <1>0, <1>10, LoopType DEF DeleteConnection, CanDelete, TypeOK, HandlerInv, Unborn
  <2>3. PeerInv'
    BY <1>0, <1>10, LoopType DEF DeleteConnection, CanDelete, TypeOK, HandlerInv, Unborn, PeerInv
  <2>4. KnownInv'
    BY <1>0, <1>10, LoopType DEF DeleteConnection, CanDelete, TypeOK, HandlerInv, Unborn, PeerInv, KnownInv
  <2> QED
    BY <2>1, <2>2, <2>3, <2>4 DEF IInv
<1>11. CASE Refuse
  <2>1. TypeOK'
    BY <1>0, <1>11, LoopType DEF Refuse, TypeOK
  <2>2. HandlerInv'
    BY <1>0, <1>11, LoopType DEF Refuse, TypeOK, HandlerInv, Unborn
  <2>3. PeerInv'
    BY <1>0, <1>11, LoopType DEF Refuse, TypeOK, HandlerInv, Unborn, PeerInv
  <2>4. KnownInv'
    BY <1>0, <1>11, LoopType DEF Refuse, TypeOK, HandlerInv, Unborn, PeerInv, KnownInv
  <2> QED
    BY <2>1, <2>2, <2>3, <2>4 DEF IInv
<1>12. CASE SockClosed
  <2>1. TypeOK'
    BY <1>0, <1>12, LoopType DEF SockClosed, TypeOK
  <2>2. HandlerInv'
    BY <1>0, <1>12, LoopType DEF SockClosed, TypeOK, HandlerInv, Unborn
  <2>3. PeerInv'
    BY <1>0, <1>12, LoopType DEF SockClosed, TypeOK, HandlerInv, Unborn, PeerInv
  <2>4. KnownInv'
    BY <1>0, <1>12, LoopType DEF SockClosed, TypeOK, HandlerInv, Unborn, PeerInv, KnownInv
  <2> QED
    BY <2>1, <2>2, <2>3, <2>4 DEF IInv
<1>13. CASE TakenDown
  <2>1. TypeOK'
    BY <1>0, <1>13, LoopType DEF TakenDown, TypeOK
  <2>2. HandlerInv'
    BY <1>0, <1>13, LoopType DEF TakenDown, TypeOK, HandlerInv, Unborn
  <2>3. PeerInv'
    BY <1>0, <1>13, LoopType DEF TakenDown, TypeOK, HandlerInv, Unborn, PeerInv
  <2>4. KnownInv'
    BY <1>0, <1>13, LoopType DEF TakenDown, TypeOK, HandlerInv, Unborn, PeerInv, KnownInv
  <2> QED
    BY <2>1, <2>2, <2>3, <2>4 DEF IInv
<1>14. ASSUME NEW c \in Conns, AcceptFailed(c) PROVE IInv'
  <2>1. TypeOK'
    <3>0. Idle # Crashed
      OBVIOUS
    <3>1. CASE loop' = Crashed /\ UNCHANGED <<handlerVars, conn, cb_listener, peer>>
      BY <1>0, <1>14, <3>1 DEF AcceptFailed, TypeOK
    <3>2. CASE UNCHANGED <<loop, b_sock_closed>>
      <4>1. loop' # Crashed
        BY <1>14, <3>0, <3>2 DEF AcceptFailed
      <4>2. /\ conn' = Set(conn, c, "live") /\ handler' = Set(handler, c, "freed")
            /\ x2tcp_data_handler' = Set(x2tcp_data_handler, c, TRUE)
            /\ uv_timer' = Set(uv_timer, c, TRUE) /\ cb_listener' = Set(cb_listener, c, TRUE)
            /\ peer' = Set(peer, c, "live")
        BY <1>14, <4>1 DEF AcceptFailed
      <4> QED
        BY <1>0, <1>14, <3>2, <4>2 DEF AcceptFailed, TypeOK
    <3> QED
      BY <1>14, <3>1, <3>2 DEF AcceptFailed
  <2>2. HandlerInv'
    BY <1>0, <1>14, LoopType DEF AcceptFailed, TypeOK, HandlerInv, Unborn
  <2>3. PeerInv'
    BY <1>0, <1>14, LoopType DEF AcceptFailed, TypeOK, HandlerInv, Unborn, PeerInv
  <2>4. KnownInv'
    BY <1>0, <1>14, LoopType DEF AcceptFailed, TypeOK, HandlerInv, Unborn, PeerInv, KnownInv
  <2> QED
    BY <2>1, <2>2, <2>3, <2>4 DEF IInv
<1>15. ASSUME NEW c \in Conns, UseFreed(c) PROVE IInv'
  <2>1. TypeOK'
    BY <1>0, <1>15, LoopType DEF UseFreed, TypeOK
  <2>2. HandlerInv'
    BY <1>0, <1>15, LoopType DEF UseFreed, TypeOK, HandlerInv, Unborn
  <2>3. PeerInv'
    BY <1>0, <1>15, LoopType DEF UseFreed, TypeOK, HandlerInv, Unborn, PeerInv
  <2>4. KnownInv'
    BY <1>0, <1>15, LoopType DEF UseFreed, TypeOK, HandlerInv, Unborn, PeerInv, KnownInv
  <2> QED
    BY <2>1, <2>2, <2>3, <2>4 DEF IInv
<1> QED
  BY <1>1, <1>2, <1>3, <1>4, <1>5, <1>6, <1>7, <1>8, <1>9, <1>10, <1>11, <1>12, <1>13,
     <1>14, <1>15 DEF Next, LoopThread, MainThread

\* The inductive invariant holds of every reachable state.
THEOREM Invariance == Spec => []IInv
<1>1. Init => IInv
  <2> SUFFICES ASSUME Init PROVE IInv
    OBVIOUS
  <2>1. TypeOK
    <3>1. /\ loop \in [at : {"notified", "closed"}, c : Conns] \cup {Idle, Crashed}
          /\ connections \subseteq Conns /\ for_delete \subseteq Conns /\ stalled \in BOOLEAN
      BY DEF Init
    <3>2. /\ conn \in [Conns -> {"none", "live", "deleted"}]
          /\ handler \in [Conns -> {"none", "open", "closed", "deleted", "freed"}]
          /\ peer \in [Conns -> {"none", "live", "closed", "deleted"}]
      BY DEF Init
    <3>3. unsent \in [Conns -> 0 .. MaxUnsent]
      BY DEF Init
    <3>4. /\ x2tcp_data_handler \in [Conns -> BOOLEAN] /\ uv_timer \in [Conns -> BOOLEAN]
          /\ b_sock_closed \in [Conns -> BOOLEAN] /\ b_force_closed \in [Conns -> BOOLEAN]
          /\ cb_listener \in [Conns -> BOOLEAN] /\ close_from_network \in [Conns -> BOOLEAN]
          /\ close_from_proto \in [Conns -> BOOLEAN]
      BY DEF Init
    <3> QED
      BY <3>1, <3>2, <3>3, <3>4 DEF TypeOK
  <2>2. HandlerInv /\ PeerInv
    BY <2>1, LoopType DEF Init, HandlerInv, Unborn, PeerInv
  <2>3. KnownInv
    BY <2>1, LoopType DEF Init, KnownInv
  <2> QED
    BY <2>1, <2>2, <2>3 DEF IInv
<1> QED
  BY <1>1, InvStep, PTL DEF Spec

\* Neither the loop thread, nor a timer, nor a peer uses a deleted connection
\* (X2NetProcess::RunOnce against SetClosed and RunOnce of X2NetTcpConnection).
THEOREM DeletedIsUnused == Spec => [](TypeOK /\ DeletedUnused)
<1>1. IInv => TypeOK /\ DeletedUnused
  BY DEF IInv, DeletedUnused, HandlerInv, PeerInv
<1> QED
  BY <1>1, Invariance, PTL

\* The end of a socket is known to the peer unless the peer has let go of the
\* connection (OnX2TcpDataHanlderClosed against OnX2RtcTick).
THEOREM CloseIsKnown == Spec => []ClosedIsKnown
<1>1. IInv => ClosedIsKnown
  BY DEF IInv, ClosedIsKnown, KnownInv
<1> QED
  BY <1>1, Invariance, PTL

=============================================================================
