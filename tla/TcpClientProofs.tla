--------------------------- MODULE TcpClientProofs ---------------------------
(***************************************************************************)
(* Proofs about TcpClient, for any number of connection objects and        *)
(* topics, any times and queues of any length.                             *)
(***************************************************************************)
EXTENDS TcpClient, TLAPS

USE TcpClientAssumption DEF Off, Standing

\* Every other connection object is gone with its socket, or has never had
\* one: a callback that is still to come is that of the present attempt, and
\* comes before the timer runs again.  The reconnect time is set exactly when
\* the connection was given up; then, and without a connection, b_connected_
\* is left over from a late callback or there is no deadline that would look
\* at it.
Present ==
  /\ \A s \in Slots \ {conn} : sock[s] \in {"free", "unmade"}
  /\ \A s \in Slots : sock[s] = "unmade" => conn = NULL
  /\ conn = NULL => reconnect = Off
  /\ conn = NULL \/ reconnect # Off => b_connected \/ keepalive = Off
  /\ conn # NULL =>
       /\ sock[conn] # "free"
       /\ sock[conn] = "late" => phase = "poll"
       /\ reconnect # Off <=> sock[conn] \in {"late", "closed"}

IInv == TypeOK /\ OneConnection /\ ComesBack /\ Present

\* Every step of the loop, of the main thread and of the network keeps the
\* invariant.
LEMMA InvStep == IInv /\ [Next]_vars => IInv'
<1> SUFFICES ASSUME IInv, [Next]_vars PROVE IInv'
  OBVIOUS
<1>0. TypeOK /\ OneConnection /\ ComesBack /\ Present
  BY DEF IInv
<1> USE DEF clientVars, mainVars
<1>1. CASE UNCHANGED vars
  BY <1>0, <1>1 DEF vars, IInv, TypeOK, OneConnection, ComesBack, Stranded, Present
<1>t. ReconnectTime \in {Off} \cup 0 .. ReconnectTime /\ KeepAliveTime \in {Off} \cup 0 .. KeepAliveTime
  OBVIOUS
<1>c. \A t \in SockState : Close(t) \in SockState
  BY DEF Close, SockState
<1>w. \A s \in Slots : AfterWrite(s) \in SockState
  BY <1>0 DEF TypeOK, AfterWrite, SockState
<1>2. CASE Reconnect
  <2>1. TypeOK'
    BY <1>0, <1>2 DEF Reconnect, ConnectCall, Freed, Close, TypeOK, SockState
  <2>2. conn # NULL /\ sock[conn] \in {"late", "closed"} /\ phase # "poll"
    BY <1>0, <1>2 DEF Reconnect, Present
  <2>3. Freed(sock[conn]) = "free"
    BY <1>0, <2>2 DEF Present, Freed, Close
  <2>4. PICK s \in Slots \ {conn}, c \in SockState :
          /\ \/ ConnectCall(c) /\ conn' = s /\ keepalive' = KeepAliveTime
             \/ c = "unmade" /\ conn' = NULL /\ UNCHANGED keepalive
          /\ sock' = [[t \in Slots |-> IF t = conn THEN Freed(sock[t]) ELSE sock[t]] EXCEPT ![s] = c]
    BY <1>2 DEF Reconnect
  <2>5. sock'[s] = c /\ \A t \in Slots \ {s} : sock'[t] \in {"free", "unmade"}
    BY <1>0, <2>3, <2>4 DEF Present
  <2>6. \A t \in Slots \ {s} : sock'[t] = "free"
    BY <1>0, <2>2, <2>3, <2>4 DEF Present
  <2>7. reconnect' = Off /\ UNCHANGED b_connected /\ phase' = "send"
    BY <1>2 DEF Reconnect
  <2>8. CASE c = "unmade"
    <3>1. conn' = NULL /\ keepalive' = keepalive
      BY <2>4, <2>8 DEF ConnectCall
    <3>2. b_connected \/ keepalive = Off
      BY <1>0, <2>2 DEF Present
    <3> QED
      BY <2>1, <2>5, <2>6, <2>7, <2>8, <3>1, <3>2 DEF IInv, OneConnection, ComesBack, Stranded, Present
  <2>9. CASE c \in {"connecting", "nosocket", "unconnected"}
    <3>1. conn' = s /\ keepalive' = KeepAliveTime
      BY <2>4, <2>9
    <3> QED
      BY <2>1, <2>5, <2>6, <2>7, <2>9, <3>1 DEF IInv, OneConnection, ComesBack, Stranded, Present
  <2> QED
    BY <2>4, <2>8, <2>9 DEF ConnectCall
<1>3. CASE NoReconnect
  <2>1. TypeOK'
    BY <1>0, <1>3 DEF NoReconnect, TypeOK
  <2>2. OneConnection' /\ ComesBack' /\ Present'
    BY <1>0, <1>3 DEF NoReconnect, TypeOK, OneConnection, ComesBack, Stranded, Present
  <2> QED
    BY <2>1, <2>2 DEF IInv
<1>4. CASE SendQueue
  <2>1. TypeOK'
    <3>1. sock' \in [Slots -> SockState]
      BY <1>0, <1>w, <1>4 DEF SendQueue, TypeOK
    <3> QED
      BY <1>0, <1>t, <1>4, <3>1 DEF SendQueue, HeardAfter, TypeOK
  <2>2. OneConnection' /\ ComesBack' /\ Present'
    BY <1>0, <1>4 DEF SendQueue, HeardAfter, Writes, AfterWrite, TypeOK, OneConnection, ComesBack, Stranded, Present
  <2> QED
    BY <2>1, <2>2 DEF IInv
<1>5. CASE ConnectTimeout
  <2>1. TypeOK'
    <3>1. sock' \in [Slots -> SockState]
      BY <1>0, <1>c, <1>5 DEF ConnectTimeout, SetConnectFailed, TypeOK
    <3> QED
      BY <1>0, <1>t, <1>5, <3>1 DEF ConnectTimeout, SetConnectFailed, TypeOK
  <2>2. OneConnection' /\ ComesBack' /\ Present'
    BY <1>0, <1>5 DEF ConnectTimeout, SetConnectFailed, Close, TypeOK, OneConnection, ComesBack, Stranded, Present, SockState
  <2> QED
    BY <2>1, <2>2 DEF IInv
<1>6. CASE SendKeepAlive
  <2>1. TypeOK'
    <3>1. sock' \in [Slots -> SockState]
      BY <1>0, <1>w, <1>6 DEF SendKeepAlive, TypeOK
    <3> QED
      BY <1>0, <1>t, <1>6, <3>1 DEF SendKeepAlive, TypeOK
  <2>2. OneConnection' /\ ComesBack' /\ Present'
    BY <1>0, <1>6 DEF SendKeepAlive, Writes, AfterWrite, TypeOK, OneConnection, ComesBack, Stranded, Present
  <2> QED
    BY <2>1, <2>2 DEF IInv
<1>7. CASE NoKeepAlive
  <2>1. TypeOK'
    BY <1>0, <1>7 DEF NoKeepAlive, TypeOK
  <2>2. OneConnection' /\ ComesBack' /\ Present'
    BY <1>0, <1>7 DEF NoKeepAlive, TypeOK, OneConnection, ComesBack, Stranded, Present
  <2> QED
    BY <2>1, <2>2 DEF IInv
<1>8. CASE FreeUnmade
  <2>1. TypeOK'
    BY <1>0, <1>8 DEF FreeUnmade, TypeOK
  <2>2. OneConnection' /\ ComesBack' /\ Present'
    BY <1>0, <1>8 DEF FreeUnmade, TypeOK, OneConnection, ComesBack, Stranded, Present
  <2> QED
    BY <2>1, <2>2 DEF IInv
<1>9. CASE CycleEnd
  <2>1. TypeOK'
    BY <1>0, <1>9 DEF CycleEnd, Elapsed, TypeOK
  <2>2. OneConnection' /\ ComesBack' /\ Present'
    BY <1>0, <1>9 DEF CycleEnd, Elapsed, TypeOK, OneConnection, ComesBack, Stranded, Present
  <2> QED
    BY <2>1, <2>2 DEF IInv
<1>10. ASSUME NEW s \in Slots, LateConnect(s) PROVE IInv'
  <2>0. [sock EXCEPT ![s] = "closed"] \in [Slots -> SockState]
    BY <1>0 DEF TypeOK, SockState
  <2>1. CASE SetConnected([sock EXCEPT ![s] = "closed"])
    <3>1. TypeOK'
      BY <1>0, <1>10, <2>0, <2>1 DEF LateConnect, SetConnected, TypeOK
    <3>2. OneConnection' /\ ComesBack' /\ Present'
      BY <1>0, <1>10, <2>1 DEF LateConnect, SetConnected, TypeOK, OneConnection, ComesBack, Stranded, Present, SockState
    <3> QED
      BY <3>1, <3>2 DEF IInv
  <2>2. CASE SetConnectFailed([sock EXCEPT ![s] = "closed"])
    <3>0. sock' \in [Slots -> SockState]
      BY <1>0, <1>c, <2>0, <2>2 DEF SetConnectFailed, TypeOK
    <3>1. TypeOK'
      BY <1>0, <1>t, <1>10, <2>2, <3>0 DEF LateConnect, SetConnectFailed, TypeOK
    <3>2. OneConnection' /\ ComesBack' /\ Present'
      BY <1>0, <1>10, <2>2 DEF LateConnect, SetConnectFailed, Close, TypeOK, OneConnection, ComesBack, Stranded, Present, SockState
    <3> QED
      BY <3>1, <3>2 DEF IInv
  <2> QED
    BY <1>10, <2>1, <2>2 DEF LateConnect
<1>11. ASSUME NEW s \in Slots, Connected(s) PROVE IInv'
  <2>1. TypeOK'
    BY <1>0, <1>11 DEF Connected, SetConnected, TypeOK, SockState
  <2>2. OneConnection' /\ ComesBack' /\ Present'
    BY <1>0, <1>11 DEF Connected, SetConnected, TypeOK, OneConnection, ComesBack, Stranded, Present, SockState
  <2> QED
    BY <2>1, <2>2 DEF IInv
<1>12. ASSUME NEW s \in Slots, ConnectError(s) PROVE IInv'
  <2>1. TypeOK'
    <3>1. [sock EXCEPT ![s] = "unconnected"] \in [Slots -> SockState]
      BY <1>0 DEF TypeOK, SockState
    <3>2. sock' \in [Slots -> SockState]
      BY <1>0, <1>c, <1>12, <3>1 DEF ConnectError, SetConnectFailed, TypeOK
    <3> QED
      BY <1>0, <1>t, <1>12, <3>2 DEF ConnectError, SetConnectFailed, TypeOK
  <2>2. OneConnection' /\ ComesBack' /\ Present'
    BY <1>0, <1>12 DEF ConnectError, SetConnectFailed, Close, TypeOK, OneConnection, ComesBack, Stranded, Present, SockState
  <2> QED
    BY <2>1, <2>2 DEF IInv
<1>13. ASSUME NEW s \in Slots, ConnectionClosed(s) PROVE IInv'
  <2>1. TypeOK'
    <3>1. [sock EXCEPT ![s] = "closed"] \in [Slots -> SockState]
      BY <1>0 DEF TypeOK, SockState
    <3>2. sock' \in [Slots -> SockState]
      BY <1>0, <1>c, <1>13, <3>1 DEF ConnectionClosed, SetConnectFailed, TypeOK
    <3> QED
      BY <1>0, <1>t, <1>13, <3>2 DEF ConnectionClosed, SetConnectFailed, TypeOK
  <2>2. OneConnection' /\ ComesBack' /\ Present'
    BY <1>0, <1>13 DEF ConnectionClosed, SetConnectFailed, Close, TypeOK, OneConnection, ComesBack, Stranded, Present, SockState
  <2> QED
    BY <2>1, <2>2 DEF IInv
<1>14. ASSUME NEW s \in Slots, FrameTooBig(s) PROVE IInv'
  <2>1. TypeOK'
    <3>1. [sock EXCEPT ![s] = "closed"] \in [Slots -> SockState]
      BY <1>0 DEF TypeOK, SockState
    <3>2. sock' \in [Slots -> SockState]
      BY <1>0, <1>c, <1>14, <3>1 DEF FrameTooBig, SetConnectFailed, TypeOK
    <3> QED
      BY <1>0, <1>t, <1>14, <3>2 DEF FrameTooBig, SetConnectFailed, TypeOK
  <2>2. OneConnection' /\ ComesBack' /\ Present'
    BY <1>0, <1>14 DEF FrameTooBig, SetConnectFailed, Close, TypeOK, OneConnection, ComesBack, Stranded, Present, SockState
  <2> QED
    BY <2>1, <2>2 DEF IInv
<1>15. ASSUME NEW x \in Topics, Open(x) PROVE IInv'
  <2>1. TypeOK'
    BY <1>0, <1>15 DEF Open, SendData, TypeOK, Message
  <2>2. OneConnection' /\ ComesBack' /\ Present'
    BY <1>0, <1>15 DEF Open, SendData, TypeOK, OneConnection, ComesBack, Stranded, Present
  <2> QED
    BY <2>1, <2>2 DEF IInv
<1>16. ASSUME NEW x \in Topics, CloseTopic(x) PROVE IInv'
  <2>1. TypeOK'
    BY <1>0, <1>16 DEF CloseTopic, SendData, TypeOK, Message
  <2>2. OneConnection' /\ ComesBack' /\ Present'
    BY <1>0, <1>16 DEF CloseTopic, SendData, TypeOK, OneConnection, ComesBack, Stranded, Present
  <2> QED
    BY <2>1, <2>2 DEF IInv
<1>17. ASSUME NEW x \in Topics, PeerStreamStats(x) PROVE IInv'
  <2>1. TypeOK'
    BY <1>0, <1>17 DEF PeerStreamStats, TypeOK
  <2>2. OneConnection' /\ ComesBack' /\ Present'
    BY <1>0, <1>17 DEF PeerStreamStats, TypeOK, OneConnection, ComesBack, Stranded, Present
  <2> QED
    BY <2>1, <2>2 DEF IInv
<1>18. CASE ReportStreamStats
  <2>1. TypeOK'
    BY <1>0, <1>18 DEF ReportStreamStats, SendData, TypeOK, Message
  <2>2. OneConnection' /\ ComesBack' /\ Present'
    BY <1>0, <1>18 DEF ReportStreamStats, SendData, TypeOK, OneConnection, ComesBack, Stranded, Present
  <2> QED
    BY <2>1, <2>2 DEF IInv
<1>19. CASE ReportSubscribe
  <2>1. TypeOK'
    BY <1>0, <1>19 DEF ReportSubscribe, SendData, TypeOK, Message
  <2>2. OneConnection' /\ ComesBack' /\ Present'
    BY <1>0, <1>19 DEF ReportSubscribe, SendData, TypeOK, OneConnection, ComesBack, Stranded, Present
  <2> QED
    BY <2>1, <2>2 DEF IInv
<1>20. CASE NetworkDown
  <2>1. TypeOK'
    BY <1>0, <1>20 DEF NetworkDown, TypeOK
  <2>2. OneConnection' /\ ComesBack' /\ Present'
    BY <1>0, <1>20 DEF NetworkDown, TypeOK, OneConnection, ComesBack, Stranded, Present
  <2> QED
    BY <2>1, <2>2 DEF IInv
<1>21. CASE NetworkUp
  <2>1. TypeOK'
    BY <1>0, <1>21 DEF NetworkUp, TypeOK
  <2>2. OneConnection' /\ ComesBack' /\ Present'
    BY <1>0, <1>21 DEF NetworkUp, TypeOK, OneConnection, ComesBack, Stranded, Present
  <2> QED
    BY <2>1, <2>2 DEF IInv
<1>22. ASSUME NEW s \in Slots, Break(s) PROVE IInv'
  <2>1. TypeOK'
    BY <1>0, <1>22 DEF Break, TypeOK, SockState
  <2>2. OneConnection' /\ ComesBack' /\ Present'
    BY <1>0, <1>22 DEF Break, TypeOK, OneConnection, ComesBack, Stranded, Present, SockState
  <2> QED
    BY <2>1, <2>2 DEF IInv
<1>23. ASSUME NEW s \in Slots, Overlong(s) PROVE IInv'
  <2>1. TypeOK'
    BY <1>0, <1>23 DEF Overlong, TypeOK, SockState
  <2>2. OneConnection' /\ ComesBack' /\ Present'
    BY <1>0, <1>23 DEF Overlong, TypeOK, OneConnection, ComesBack, Stranded, Present, SockState
  <2> QED
    BY <2>1, <2>2 DEF IInv
<1> QED
  BY <1>1, <1>2, <1>3, <1>4, <1>5, <1>6, <1>7, <1>8, <1>9, <1>10, <1>11, <1>12,
     <1>13, <1>14, <1>15, <1>16, <1>17, <1>18, <1>19, <1>20, <1>21, <1>22, <1>23
     DEF Next, Loop, Poll, Main, Network, Interrupt

\* The inductive invariant holds of every reachable state.
THEOREM Invariance == Spec => []IInv
<1>1. Init => IInv
  <2> SUFFICES ASSUME Init PROVE IInv
    OBVIOUS
  <2>1. TypeOK
    <3>1. sock \in [Slots -> SockState] /\ conn \in Slots \cup {NULL}
      BY DEF Init, ConnectCall, SockState
    <3>2. list_send_data \in Seq(Message)
      BY DEF Init
    <3>3. keepalive \in {Off} \cup 0 .. KeepAliveTime /\ reconnect \in {Off} \cup 0 .. ReconnectTime
      BY DEF Init
    <3> QED
      BY <3>1, <3>2, <3>3 DEF Init, TypeOK
  <2>2. OneConnection /\ ComesBack /\ Present
    BY DEF Init, ConnectCall, OneConnection, ComesBack, Stranded, Present
  <2> QED
    BY <2>1, <2>2 DEF IInv
<1> QED
  BY <1>1, InvStep, PTL DEF Spec

\* The connection to the registration server: every callback of a socket finds
\* the connection it belongs to (on_uv_connect_cb is given the client only),
\* and but for the two ways to be stranded, something is always armed that
\* brings the client back.
THEOREM ClientSafety == Spec => [](TypeOK /\ OneConnection /\ ComesBack)
<1>1. IInv => TypeOK /\ OneConnection /\ ComesBack
  BY DEF IInv
<1> QED
  BY <1>1, Invariance, PTL

\* A standing connection to the registration server ends by what its other end
\* does: no reconnect, no deadline and no late result of an earlier attempt
\* (SetConnectRlt, DisConnect) ever ends it or clears b_connected_.
THEOREM StandingStays == Spec => StandingKept
<1>1. IInv /\ [Next]_vars =>
        [\A s \in Slots : sock[s] = "established" =>
           conn' = s /\ b_connected' /\ sock'[s] \in {"established", "overlong", "broken"}]_vars
  <2> SUFFICES ASSUME IInv, Next, NEW s \in Slots, sock[s] = "established"
               PROVE  conn' = s /\ b_connected' /\ sock'[s] \in {"established", "overlong", "broken"}
    BY DEF vars, clientVars
  <2>0. TypeOK /\ conn = s /\ b_connected /\ reconnect = Off /\ conn # NULL
    BY DEF IInv, TypeOK, OneConnection, Present
  <2>1. \A t \in Slots : sock[t] \notin {"connecting", "late", "broken", "overlong", "unmade"}
    BY <2>0 DEF IInv, OneConnection, Present
  <2>2. ~Reconnect /\ ~ConnectTimeout /\ ~FreeUnmade
    BY <2>0, <2>1 DEF Reconnect, ConnectTimeout, FreeUnmade
  <2>3. \A t \in Slots : ~LateConnect(t) /\ ~Connected(t) /\ ~ConnectError(t)
                         /\ ~ConnectionClosed(t) /\ ~FrameTooBig(t)
    BY <2>1 DEF LateConnect, Connected, ConnectError, ConnectionClosed, FrameTooBig
  <2>4. CASE SendQueue \/ SendKeepAlive
    BY <2>0, <2>4 DEF SendQueue, SendKeepAlive, AfterWrite, TypeOK, clientVars
  <2>5. CASE Interrupt
    BY <2>0, <2>5 DEF Interrupt, Break, Overlong, TypeOK, clientVars
  <2>6. CASE NoReconnect \/ NoKeepAlive \/ CycleEnd \/ Main \/ NetworkDown \/ NetworkUp
    BY <2>0, <2>6 DEF NoReconnect, NoKeepAlive, CycleEnd, Main, Open, CloseTopic, PeerStreamStats,
       ReportStreamStats, ReportSubscribe, NetworkDown, NetworkUp, clientVars
  <2> QED
    BY <2>2, <2>3, <2>4, <2>5, <2>6 DEF Next, Loop, Poll, Network
<1> QED
  BY <1>1, Invariance, PTL DEF Spec, StandingKept

=============================================================================
