------------------------------ MODULE TcpClient ------------------------------
(***************************************************************************)
(* The connection to the registration server: X2NetTcpClient, driven by    *)
(* the timer of X2ProxyImpl on the thread that runs the uv loop, and the   *)
(* announcements X2ProxyImpl sends over it from the main thread.           *)
(*                                                                         *)
(* The uv loop is a cycle of phases: the timer (reconnect, drain the send  *)
(* queue, keep-alive) and the poll (connect results, what is read, failed  *)
(* writes, objects to free).  on_uv_connect_cb is given the client, not    *)
(* the attempt: it acts on whatever x2tcp_connection_ is then.             *)
(*                                                                         *)
(* Time passes once per cycle.  A time that is not set (0 in the code) is  *)
(* Off; any other is the number of cycles that are left.                   *)
(*                                                                         *)
(* What is delivered is what the server is told over the present           *)
(* connection (heard): libuv keeps what is written while it connects, and  *)
(* what is written to a connection that broke is lost.                     *)
(***************************************************************************)
EXTENDS Integers, Sequences, FiniteSetsExt

CONSTANTS
  Slots,          \* X2RpcConnection objects, each with its socket
  Streams,
  KeepAliveTime,  \* KEEP_ALIVE_TIME, in cycles of the loop
  ReconnectTime,  \* the 3 s of OnX2NetTcpClientFailed and ...Closed
  MaxQueue,       \* bound: messages in list_send_data_
  NULL

ASSUME TcpClientAssumption ==
  /\ KeepAliveTime \in Nat \ {0} /\ ReconnectTime \in Nat \ {0}
  /\ MaxQueue \in Nat
  /\ NULL \notin Slots

VARIABLES
  phase,          \* where the loop thread is
  conn,           \* x2tcp_connection_
  sock,           \* the sockets
  b_connected, keepalive, reconnect, list_send_data,
  live,           \* what is published and subscribed here
  stats,          \* map_app_pub_stream_: streams to report
  up,             \* there is a descriptor, a route and a server that accepts
  heard           \* what the server is told over this connection

clientVars == <<conn, b_connected, keepalive, reconnect>>
mainVars == <<live, stats>>
vars == <<phase, clientVars, sock, list_send_data, mainVars, up, heard>>

Off == -1

Topics == {"pub", "sub"} \X Streams

\* PublishOpen, SubscribeOpen; PublishClose, SubscribeClose; PubReport, SubscribeList.
Message == [op : {"open", "close", "report"}, names : SUBSET Topics]

SockState ==
  {"free",         \* no connection object
   "unmade",       \* Setup failed: no handle, the object is yet to be freed
   "nosocket",     \* uv_tcp_connect got no descriptor: no callback will come
   "unconnected",  \* connect() failed at once: no callback, but writes fail
   "connecting", "established",
   "overlong",     \* a frame that cannot fit the buffer has come
   "broken",       \* its end, or a failed write, is waiting to be noticed
   "late",         \* closed while connecting, the callback is yet to come
   "closed"}

\* The other end is there.
Standing == {"established", "overlong"}

TypeOK ==
  /\ phase \in {"timer", "send", "keepalive", "poll", "crashed"}
  /\ conn \in Slots \cup {NULL}
  /\ sock \in [Slots -> SockState]
  /\ b_connected \in BOOLEAN
  /\ keepalive \in {Off} \cup 0 .. KeepAliveTime
  /\ reconnect \in {Off} \cup 0 .. ReconnectTime
  /\ list_send_data \in Seq(Message)
  /\ live \subseteq Topics
  /\ stats \subseteq Topics
  /\ up \in BOOLEAN
  /\ heard \subseteq Topics

-----------------------------------------------------------------------------
(***************************************************************************)
(* The client.                                                             *)
(***************************************************************************)

\* uv_tcp_connect, whose result nobody looks at.
ConnectCall(result) ==
  result = "connecting" \/ (~up /\ result \in {"nosocket", "unconnected"})

\* StartTask connects the client before the loop runs; Setup may fail.
Init ==
  /\ phase = "timer"
  /\ up \in BOOLEAN
  /\ \E s \in Slots :
       \/ /\ conn = s /\ keepalive = KeepAliveTime
          /\ \E c \in SockState :
               ConnectCall(c) /\ sock = [t \in Slots |-> IF t = s THEN c ELSE "free"]
       \/ /\ conn = NULL /\ keepalive = Off
          /\ sock = [t \in Slots |-> IF t = s THEN "unmade" ELSE "free"]
  /\ b_connected = FALSE
  /\ reconnect = Off
  /\ list_send_data = <<>>
  /\ live = {}
  /\ stats = {}
  /\ heard = {}

\* The socket after X2TcpConnectionHandler::Close.  One that is connecting
\* takes uv_shutdown, which libuv accepts and answers by looking for the
\* result of the attempt at once.
Close(state) ==
  CASE state = "connecting" -> "late"
    [] state \in {"nosocket", "unconnected", "broken"} \cup Standing -> "closed"
    [] OTHER -> state

\* The slot after DisConnect: closed, and its object is freed.
Freed(state) == IF Close(state) = "closed" THEN "free" ELSE Close(state)

\* Mutant: a time that is not set, or has come, runs on.
ElapsedAlways(t) == t - 1

Elapsed(t) == IF t > 0 THEN t - 1 ELSE t

\* Mutant: a failed attempt is left to DisConnect to close.
SetConnectFailedNoClose(socks) ==
  /\ b_connected' = FALSE
  /\ keepalive' = Off
  /\ sock' = socks
  /\ reconnect' = ReconnectTime
  /\ heard' = {}
  /\ UNCHANGED conn

\* SetConnectRlt with an error.  The listener arms the reconnect, whether it
\* is told that the attempt failed or that the connection closed.
SetConnectFailed(socks) ==
  /\ b_connected' = FALSE
  /\ keepalive' = Off
  /\ sock' = [socks EXCEPT ![conn] = Close(@)]
  /\ reconnect' = ReconnectTime
  /\ heard' = {}
  /\ UNCHANGED conn

\* SetConnectRlt(0): the keep-alive time is now.  It does not ask whether the
\* connection is closed.
SetConnected(socks) ==
  /\ b_connected' = TRUE
  /\ keepalive' = 0
  /\ sock' = socks
  /\ UNCHANGED <<conn, reconnect, heard>>

\* Mutant: ReConnect does not arm the time that ends an unanswered attempt.
ReconnectNoDeadline ==
  /\ phase = "timer" /\ reconnect = 0
  /\ \E s \in Slots \ {conn}, c \in SockState :
       /\ sock[s] = "free" /\ ConnectCall(c)
       /\ sock' = [[t \in Slots |-> IF t = conn THEN Freed(sock[t]) ELSE sock[t]] EXCEPT ![s] = c]
       /\ conn' = s
  /\ reconnect' = Off
  /\ phase' = "send"
  /\ UNCHANGED <<b_connected, keepalive, list_send_data, mainVars, up, heard>>

\* OnTimer, the reconnect time has come: DisConnect and ReConnect.  When Setup
\* fails, no connection is left and nothing is armed.
Reconnect ==
  /\ phase = "timer" /\ reconnect = 0
  /\ \E s \in Slots \ {conn}, c \in SockState :
       /\ sock[s] = "free"
       /\ \/ ConnectCall(c) /\ conn' = s /\ keepalive' = KeepAliveTime
          \/ c = "unmade" /\ conn' = NULL /\ UNCHANGED keepalive
       /\ sock' = [[t \in Slots |-> IF t = conn THEN Freed(sock[t]) ELSE sock[t]] EXCEPT ![s] = c]
  /\ reconnect' = Off
  /\ phase' = "send"
  /\ UNCHANGED <<b_connected, list_send_data, mainVars, up, heard>>

NoReconnect ==
  /\ phase = "timer" /\ reconnect # 0
  /\ phase' = "send"
  /\ UNCHANGED <<clientVars, sock, list_send_data, mainVars, up, heard>>

\* RunOnce writes when there is a connection and b_connected_ says so.
Writes == b_connected /\ conn # NULL

\* A write to a socket that is not connected fails, and onWrite will say so.
AfterWrite(s) == IF s = conn /\ sock[s] = "unconnected" THEN "broken" ELSE sock[s]

\* What the server knows after the messages of a queue: the last message
\* that names a topic decides.
HeardAfter(queue, known) ==
  {x \in Topics :
     LET naming == {i \in DOMAIN queue : x \in queue[i].names}
     IN  IF naming = {} THEN x \in known ELSE queue[Max(naming)].op # "close"}

\* RunOnce empties the queue.  Messages are dropped unless it is connected,
\* and lost when the other end is gone.
SendQueue ==
  /\ phase = "send"
  /\ list_send_data' = <<>>
  /\ heard' = IF Writes /\ sock[conn] \in {"connecting"} \cup Standing
              THEN HeardAfter(list_send_data, heard) ELSE heard
  /\ sock' = IF Writes /\ list_send_data # <<>> THEN [s \in Slots |-> AfterWrite(s)] ELSE sock
  /\ phase' = "keepalive"
  /\ UNCHANGED <<clientVars, mainVars, up>>

\* RunOnce: the attempt has not been answered in time.
ConnectTimeout ==
  /\ phase = "keepalive" /\ ~b_connected /\ keepalive = 0
  /\ SetConnectFailed(sock)
  /\ phase' = "poll"
  /\ UNCHANGED <<list_send_data, mainVars, up>>

SendKeepAlive ==
  /\ phase = "keepalive" /\ b_connected /\ keepalive = 0
  /\ keepalive' = KeepAliveTime
  /\ sock' = IF Writes THEN [s \in Slots |-> AfterWrite(s)] ELSE sock
  /\ phase' = "poll"
  /\ UNCHANGED <<conn, b_connected, reconnect, list_send_data, mainVars, up, heard>>

NoKeepAlive ==
  /\ phase = "keepalive" /\ keepalive # 0
  /\ phase' = "poll"
  /\ UNCHANGED <<clientVars, sock, list_send_data, mainVars, up, heard>>

\* on_uv_connect_cb(0) for the attempt of slot s.
Connected(s) ==
  /\ phase = "poll" /\ sock[s] = "connecting" /\ up
  /\ SetConnected([sock EXCEPT ![s] = "established"])
  /\ UNCHANGED <<phase, list_send_data, mainVars, up>>

\* on_uv_connect_cb with an error: refused, unreachable, or timed out.
ConnectError(s) ==
  /\ phase = "poll" /\ sock[s] = "connecting"
  /\ SetConnectFailed([sock EXCEPT ![s] = "unconnected"])
  /\ UNCHANGED <<phase, list_send_data, mainVars, up>>

\* on_uv_connect_cb for an attempt that was closed.  The socket has no error
\* yet, which libuv takes for success, or one that came just then; where
\* uv_shutdown refuses a socket that is connecting, it is cancelled.
LateConnect(s) ==
  /\ phase = "poll" /\ sock[s] = "late"
  /\ \/ SetConnected([sock EXCEPT ![s] = "closed"])
     \/ SetConnectFailed([sock EXCEPT ![s] = "closed"])
  /\ UNCHANGED <<phase, list_send_data, mainVars, up>>

\* OnUvRead, OnUvWrite: end of file or an error, OnTcpConnectionClosed.
ConnectionClosed(s) ==
  /\ phase = "poll" /\ sock[s] = "broken"
  /\ SetConnectFailed([sock EXCEPT ![s] = "closed"])
  /\ UNCHANGED <<phase, list_send_data, mainVars, up>>

\* The buffer is full and the frame is not whole: ErrorReceiving.
FrameTooBig(s) ==
  /\ phase = "poll" /\ sock[s] = "overlong"
  /\ SetConnectFailed([sock EXCEPT ![s] = "closed"])
  /\ UNCHANGED <<phase, list_send_data, mainVars, up>>

\* cb_async_free_rpc_connection, for an object whose Setup failed: its
\* destructor calls Close, which uses the handle that Setup has deleted and
\* set to NULL.
FreeUnmade ==
  /\ phase = "poll"
  /\ \E s \in Slots : sock[s] = "unmade"
  /\ phase' = "crashed"
  /\ UNCHANGED <<clientVars, sock, list_send_data, mainVars, up, heard>>

\* The poll is over when what it found ready has been called.
CycleEnd ==
  /\ phase = "poll"
  /\ \A s \in Slots : sock[s] \notin {"late", "unmade"}
  /\ keepalive' = Elapsed(keepalive)
  /\ reconnect' = Elapsed(reconnect)
  /\ phase' = "timer"
  /\ UNCHANGED <<conn, b_connected, sock, list_send_data, mainVars, up, heard>>

-----------------------------------------------------------------------------
(***************************************************************************)
(* The main thread.                                                        *)
(***************************************************************************)

SendData(op, names) ==
  /\ phase # "crashed"
  /\ Len(list_send_data) < MaxQueue
  /\ list_send_data' = Append(list_send_data, [op |-> op, names |-> names])

\* OnX2MediaDispatchPublishOpen and OnX2MediaDispatchSubscribeOpen.
Open(x) ==
  /\ x \notin live
  /\ live' = live \cup {x}
  /\ SendData("open", {x})
  /\ UNCHANGED <<phase, clientVars, sock, stats, up, heard>>

\* OnX2MediaDispatchPublishClose and OnX2MediaDispatchSubscribeClose.
CloseTopic(x) ==
  /\ x \in live
  /\ live' = live \ {x}
  /\ SendData("close", {x})
  /\ UNCHANGED <<phase, clientVars, sock, stats, up, heard>>

\* OnX2NetPeerStreamStats, once a second for every publishing peer.
PeerStreamStats(x) ==
  /\ phase # "crashed" /\ x \in live /\ x[1] = "pub"
  /\ stats' = stats \cup {x}
  /\ UNCHANGED <<phase, clientVars, sock, list_send_data, live, up, heard>>

\* ReportStreamStats: what was gathered since the last report.
ReportStreamStats ==
  /\ stats # {}
  /\ SendData("report", stats)
  /\ stats' = {}
  /\ UNCHANGED <<phase, clientVars, sock, live, up, heard>>

\* Mutant: the list is made from the map of the publishers.
ReportSubscribeWrongMap ==
  /\ \E x \in live : x[1] = "sub"
  /\ SendData("report", {x \in live : x[1] = "pub"})
  /\ UNCHANGED <<phase, clientVars, sock, mainVars, up, heard>>

\* RunOnce: the list of StatsSubscribe, if it is not empty.
ReportSubscribe ==
  /\ \E x \in live : x[1] = "sub"
  /\ SendData("report", {x \in live : x[1] = "sub"})
  /\ UNCHANGED <<phase, clientVars, sock, mainVars, up, heard>>

-----------------------------------------------------------------------------
(***************************************************************************)
(* The network and the server.                                             *)
(***************************************************************************)

NetworkDown ==
  /\ up
  /\ up' = FALSE
  /\ UNCHANGED <<phase, clientVars, sock, list_send_data, mainVars, heard>>

NetworkUp ==
  /\ ~up
  /\ up' = TRUE
  /\ UNCHANGED <<phase, clientVars, sock, list_send_data, mainVars, heard>>

\* The connection ends: in an outage, or because the server closes or resets
\* it.  The server forgets what it heard.
Break(s) ==
  /\ sock[s] \in Standing
  /\ sock' = [sock EXCEPT ![s] = "broken"]
  /\ heard' = {}
  /\ UNCHANGED <<phase, clientVars, list_send_data, mainVars, up>>

\* The server sends a frame that does not fit the buffer.
Overlong(s) ==
  /\ sock[s] = "established"
  /\ sock' = [sock EXCEPT ![s] = "overlong"]
  /\ UNCHANGED <<phase, clientVars, list_send_data, mainVars, up, heard>>

Interrupt == \E s \in Slots : Break(s) \/ Overlong(s)

-----------------------------------------------------------------------------
Loop ==
  \/ Reconnect \/ NoReconnect \/ SendQueue
  \/ ConnectTimeout \/ SendKeepAlive \/ NoKeepAlive
  \/ FreeUnmade \/ CycleEnd
  \/ \E s \in Slots : LateConnect(s)

Poll ==
  \E s \in Slots :
    Connected(s) \/ ConnectError(s) \/ ConnectionClosed(s) \/ FrameTooBig(s)

Main ==
  \/ \E x \in Topics : Open(x) \/ CloseTopic(x) \/ PeerStreamStats(x)
  \/ ReportStreamStats \/ ReportSubscribe

Network == NetworkDown \/ NetworkUp \/ Interrupt

Next == Loop \/ Poll \/ Main \/ Network

Spec == Init /\ [][Next]_vars

\* The loop runs on; what the network can answer again and again it answers
\* at last, and what has come is read; the timers of the main thread fire
\* (the queue has room again and again, its bound is the model's).
Fairness ==
  /\ WF_vars(Loop)
  /\ SF_vars(\E s \in Slots : Connected(s))
  /\ SF_vars(\E s \in Slots : ConnectionClosed(s))
  /\ SF_vars(\E s \in Slots : FrameTooBig(s))
  /\ \A x \in Topics : SF_vars(PeerStreamStats(x))
  /\ SF_vars(ReportStreamStats)
  /\ SF_vars(ReportSubscribe)

FairSpec == Spec /\ Fairness

-----------------------------------------------------------------------------
\* Every callback that may still come finds the connection it belongs to:
\* on_uv_connect_cb and OnTcpConnectionClosed act on x2tcp_connection_,
\* whichever socket they come from.  A connection that stands is known to
\* (b_connected_ may also be set when none does).
OneConnection ==
  \A s \in Slots :
    /\ sock[s] \in {"connecting", "late", "broken"} \cup Standing => conn = s
    /\ sock[s] \in {"broken"} \cup Standing => b_connected

\* The two ways to lose the server for good.  Setup fails: there is no
\* connection, no time is armed, and freeing the object ends the process.  Or
\* an attempt gets no descriptor while b_connected_ is left over from the late
\* callback of the one before: no callback comes, no write fails, and the
\* deadline is not looked at.
Stranded ==
  \/ phase = "crashed"
  \/ conn = NULL
  \/ b_connected /\ sock[conn] = "nosocket"

\* In every other state something is under way that leads to a connection: an
\* attempt has its deadline (or the keep-alive whose write fails) even when
\* uv_tcp_connect failed and nobody looked, and a closed connection has its
\* reconnect time.
ComesBack ==
  Stranded \/
    /\ sock[conn] \in {"nosocket", "unconnected", "connecting"} => keepalive # Off
    /\ sock[conn] \in {"closed", "late", "free"} => reconnect # Off

\* A connection that stands ends by what its other end does, never by a timer
\* or the late result of an earlier attempt.
StandingKept ==
  [][\A s \in Slots :
       sock[s] = "established" =>
         conn' = s /\ b_connected' /\ sock'[s] \in {"established", "overlong", "broken"}]_vars

\* If the server stays reachable and ends no connection, the client is
\* connected in the end and stays so, or is stranded, however the outages
\* before met timeouts, closed attempts and their late callbacks.
StaysConnected ==
  <>[]up /\ <>[][~Interrupt]_vars =>
    \/ <>[](b_connected /\ conn # NULL /\ sock[conn] = "established")
    \/ <>Stranded

\* Announcements that were dropped while it was not connected are made good
\* by the periodic reports: what stays published or subscribed is known to a
\* server that stays reachable and ends no connection.
AnnouncedInTheEnd ==
  \A x \in Topics :
    <>[](up /\ x \in live) /\ <>[][~Interrupt]_vars => <>[](x \in heard) \/ <>Stranded

=============================================================================
