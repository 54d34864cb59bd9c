------------------------------- MODULE WebRtc -------------------------------
(***************************************************************************)
(* WebRTC connections: X2NetWebRtcProcess answers offers, exchanges        *)
(* requests, responses and events with the media library over two pipes,   *)
(* and X2NetWebRtcConnection follows the state of its transport until it   *)
(* is lost.                                                                *)
(*                                                                         *)
(* The loop thread runs all of that, one callback at a time.  The main     *)
(* thread ticks the peer and deletes connections; it may run               *)
(* between the two steps in which the loop thread ends a connection.       *)
(* The packets themselves (RunOnce, producers and consumers) are left out, *)
(* as are offers that are refused before a connection is made.             *)
(***************************************************************************)
EXTENDS Integers, Sequences

CONSTANTS
  Conns,       \* connections that may be made; each is its own id
  Kinds,       \* "audio" and "video"
  MediaLists,  \* what an offer may end up with: sequences of kinds
  LostTime,    \* runs of the timer without data until a connection is lost
  MaxEvents,   \* bound: messages in the pipe to the process
  NULL

ASSUME WebRtcAssumption ==
  /\ MediaLists \subseteq Seq(Kinds)
  /\ LostTime \in Nat \ {0}
  /\ MaxEvents \in Nat
  /\ NULL \notin Conns

VARIABLES
  \* X2NetWebRtcProcess
  mapped,      \* map_x2net_connection_
  waiting,     \* map_rtc_request_waitfor_response_
  for_delete,  \* list_x2net_connection_for_delete_
  closing,     \* the connection whose DeInit is under way, or NULL
  \* the pipes to and from the media library
  to_rtc, to_local,
  remote_ids,  \* connections that the single port table refers to
  ice_state, dtls_state,
  sending,     \* the client is still there
  \* X2NetWebRtcConnection
  conn,        \* "none", "live" or "deleted"
  transport,   \* webrtc_transport_ exists
  b_ice, b_dtls, b_lost, b_force_closed, lost_time,
  cb_listener,
  \* the peer of the connection
  peer,        \* "none", "live" or "closed"
  notify_close,
  connected    \* Connected of the last StatueChanged it got

procVars == <<mapped, waiting, for_delete, closing>>
pipeVars == <<to_rtc, to_local>>
rtcVars == <<remote_ids, ice_state, dtls_state, sending>>
stateVars == <<b_ice, b_dtls, lost_time>>
endVars == <<transport, conn, b_lost, b_force_closed, cb_listener>>
peerVars == <<peer, notify_close, connected>>
vars == <<procVars, pipeVars, rtcVars, stateVars, endVars, peerVars>>

Methods == {"connect"} \cup Kinds          \* produce or consume, of a kind
Requests == [c : Conns, method : Methods]
IceStates == {"new", "connected", "completed", "disconnected"}
DtlsStates == {"new", "connected", "failed", "closed"}
Messages == [type : {"accepted", "rejected"}, c : Conns, method : Methods]
            \cup [type : {"ice"}, c : Conns, method : IceStates]
            \cup [type : {"dtls"}, c : Conns, method : DtlsStates]

TypeOK ==
  /\ mapped \subseteq Conns /\ for_delete \subseteq Conns /\ remote_ids \subseteq Conns
  /\ waiting \subseteq Requests
  /\ closing \in Conns \cup {NULL}
  /\ to_rtc \in Seq(Requests) /\ to_local \in Seq(Messages)
  /\ ice_state \in [Conns -> IceStates] /\ dtls_state \in [Conns -> DtlsStates]
  /\ conn \in [Conns -> {"none", "live", "deleted"}]
  /\ sending \in [Conns -> BOOLEAN] /\ transport \in [Conns -> BOOLEAN]
  /\ b_ice \in [Conns -> BOOLEAN] /\ b_dtls \in [Conns -> BOOLEAN]
  /\ b_lost \in [Conns -> BOOLEAN] /\ b_force_closed \in [Conns -> BOOLEAN]
  /\ cb_listener \in [Conns -> BOOLEAN] /\ notify_close \in [Conns -> BOOLEAN]
  /\ connected \in [Conns -> BOOLEAN]
  /\ lost_time \in [Conns -> 1 .. LostTime]
  /\ peer \in [Conns -> {"none", "live", "closed"}]

Init ==
  /\ mapped = {} /\ waiting = {} /\ for_delete = {} /\ closing = NULL
  /\ to_rtc = <<>> /\ to_local = <<>>
  /\ remote_ids = {}
  /\ ice_state = [c \in Conns |-> "new"]
  /\ dtls_state = [c \in Conns |-> "new"]
  /\ sending = [c \in Conns |-> TRUE]
  /\ conn = [c \in Conns |-> "none"]
  /\ transport = [c \in Conns |-> FALSE]
  /\ b_ice = [c \in Conns |-> FALSE]
  /\ b_dtls = [c \in Conns |-> FALSE]
  /\ b_lost = [c \in Conns |-> FALSE]
  /\ b_force_closed = [c \in Conns |-> FALSE]
  /\ lost_time = [c \in Conns |-> LostTime]
  /\ cb_listener = [c \in Conns |-> FALSE]
  /\ peer = [c \in Conns |-> "none"]
  /\ notify_close = [c \in Conns |-> FALSE]
  /\ connected = [c \in Conns |-> FALSE]

Set(f, c, value) == [f EXCEPT ![c] = value]

Request(c, m) == [c |-> c, method |-> m]
Message(t, c, m) == [type |-> t, c |-> c, method |-> m]

-----------------------------------------------------------------------------
(***************************************************************************)
(* The end of a connection.                                                *)
(***************************************************************************)

\* Mutant: requests of a lost connection keep waiting for their response.
SetConnectionLostKeepsRequests(c) ==
  /\ mapped' = mapped \ {c}
  /\ for_delete' = for_delete \cup {c}
  /\ waiting' = waiting
  /\ b_lost' = Set(b_lost, c, TRUE)
  /\ closing' = c

\* Mutant: a lost connection is not queued for deletion.
SetConnectionLostUnlisted(c) ==
  /\ mapped' = mapped \ {c}
  /\ for_delete' = for_delete
  /\ waiting' = {r \in waiting : r.c # c}
  /\ b_lost' = Set(b_lost, c, TRUE)
  /\ closing' = c

\* SetConnectionLost up to DeInit: the process forgets the connection and its
\* requests and queues it for deletion.
SetConnectionLost(c) ==
  /\ mapped' = mapped \ {c}
  /\ for_delete' = for_delete \cup {c}
  /\ waiting' = {r \in waiting : r.c # c}
  /\ b_lost' = Set(b_lost, c, TRUE)
  /\ closing' = c

\* Mutant: the id stays in the single port table.
DeInitKeepsRemoteId ==
  /\ closing # NULL
  /\ transport' = Set(transport, closing, FALSE)
  /\ remote_ids' = remote_ids
  /\ notify_close' = Set(notify_close, closing, notify_close[closing] \/ cb_listener[closing])
  /\ closing' = NULL
  /\ UNCHANGED <<mapped, waiting, for_delete, pipeVars, ice_state, dtls_state, sending,
                 stateVars, conn, b_lost, b_force_closed, cb_listener, peer, connected>>

\* DeInit: timer, single port id and transport go, the listener is told.  It
\* runs on even when the main thread has deleted the connection meanwhile.
DeInit ==
  /\ closing # NULL
  /\ transport' = Set(transport, closing, FALSE)
  /\ remote_ids' = remote_ids \ {closing}
  /\ notify_close' = Set(notify_close, closing, notify_close[closing] \/ cb_listener[closing])
  /\ closing' = NULL
  /\ UNCHANGED <<mapped, waiting, for_delete, pipeVars, ice_state, dtls_state, sending,
                 stateVars, conn, b_lost, b_force_closed, cb_listener, peer, connected>>

-----------------------------------------------------------------------------
(***************************************************************************)
(* Offers.                                                                 *)
(***************************************************************************)

\* Init succeeds: transport, single port id, the connect request, the timer;
\* then the offer is answered and the connection gets its peer.
Offer(c) ==
  /\ closing = NULL /\ conn[c] = "none"
  /\ conn' = Set(conn, c, "live")
  /\ mapped' = mapped \cup {c}
  /\ transport' = Set(transport, c, TRUE)
  /\ remote_ids' = remote_ids \cup {c}
  /\ waiting' = waiting \cup {Request(c, "connect")}
  /\ to_rtc' = Append(to_rtc, Request(c, "connect"))
  /\ peer' = Set(peer, c, "live")
  /\ cb_listener' = Set(cb_listener, c, TRUE)
  /\ UNCHANGED <<for_delete, closing, to_local, ice_state, dtls_state, sending, stateVars,
                 b_lost, b_force_closed, notify_close, connected>>

\* Init fails on the offer's SDP: it returns without DeInit, and the
\* connection is deleted.
OfferBadSdp(c) ==
  /\ closing = NULL /\ conn[c] = "none"
  /\ conn' = Set(conn, c, "deleted")
  /\ transport' = Set(transport, c, TRUE)
  /\ remote_ids' = remote_ids \cup {c}
  /\ UNCHANGED <<procVars, pipeVars, ice_state, dtls_state, sending, stateVars,
                 b_lost, b_force_closed, cb_listener, peerVars>>

\* Init fails to make the transport: GotMediaSoupError queues the connection
\* for deletion, and the process deletes it at once.
OfferNoTransport(c) ==
  /\ closing = NULL /\ conn[c] = "none"
  /\ conn' = Set(conn, c, "deleted")
  /\ b_lost' = Set(b_lost, c, TRUE)
  /\ for_delete' = for_delete \cup {c}
  /\ UNCHANGED <<mapped, waiting, closing, pipeVars, rtcVars, stateVars, transport,
                 b_force_closed, cb_listener, peerVars>>

-----------------------------------------------------------------------------
(***************************************************************************)
(* Requests, responses and events.                                         *)
(***************************************************************************)

\* HandleRequest: the transport of a connection that is still there answers.
HandleRequest ==
  /\ closing = NULL /\ to_rtc # <<>>
  /\ LET r == Head(to_rtc) IN
       IF r.c \in mapped
       THEN \E answer \in {"accepted", "rejected"} :
              to_local' = Append(to_local, Message(answer, r.c, r.method))
       ELSE to_local' = to_local
  /\ to_rtc' = Tail(to_rtc)
  /\ UNCHANGED <<procVars, rtcVars, stateVars, endVars, peerVars>>

\* OnChannelPResponse: the next message is of this type.
Receive(type) ==
  /\ closing = NULL /\ to_local # <<>> /\ Head(to_local).type = type
  /\ to_local' = Tail(to_local)

Received == Request(Head(to_local).c, Head(to_local).method)

\* A response nobody waits for any more.
LateResponse ==
  /\ Receive("accepted") \/ Receive("rejected")
  /\ Received \notin waiting
  /\ UNCHANGED <<procVars, to_rtc, rtcVars, stateVars, endVars, peerVars>>

\* Produce or consume requests, one for each of the media.
Asked(c, media) == [i \in DOMAIN media |-> Request(c, media[i])]

\* RecvResponse, transport.connect accepted: a produce or consume request for
\* each of the media.
ConnectAccepted ==
  /\ Receive("accepted") /\ Received \in waiting /\ Received.method = "connect"
  /\ \E media \in MediaLists :
       /\ waiting' = (waiting \ {Received})
                       \cup {Asked(Received.c, media)[i] : i \in DOMAIN media}
       /\ to_rtc' = to_rtc \o Asked(Received.c, media)
  /\ UNCHANGED <<mapped, for_delete, closing, rtcVars, stateVars, endVars, peerVars>>

\* RecvResponse, transport.produce or transport.consume accepted.
MediaAccepted ==
  /\ Receive("accepted") /\ Received \in waiting /\ Received.method # "connect"
  /\ waiting' = waiting \ {Received}
  /\ UNCHANGED <<mapped, for_delete, closing, to_rtc, rtcVars, stateVars, endVars, peerVars>>

\* RecvResponse, a request that failed.
ResponseRejected ==
  /\ Receive("rejected") /\ Received \in waiting
  /\ SetConnectionLost(Received.c)
  /\ UNCHANGED <<to_rtc, rtcVars, stateVars, transport, conn, b_force_closed, cb_listener,
                 peerVars>>

\* RecvResponse, transport.connect accepted, with media that do not fit: some
\* requests may have been sent by then.
ConnectUnusable ==
  /\ Receive("accepted") /\ Received \in waiting /\ Received.method = "connect"
  /\ \E media \in MediaLists : to_rtc' = to_rtc \o Asked(Received.c, media)
  /\ SetConnectionLost(Received.c)
  /\ UNCHANGED <<rtcVars, stateVars, transport, conn, b_force_closed, cb_listener,
                 peerVars>>

\* StatueChanged, to the peer if there is one.
Tell(c, value) ==
  connected' = IF cb_listener[c] THEN Set(connected, c, value) ELSE connected

\* RecvEvent, icestatechange, connected.
IceConnected(c) ==
  /\ b_ice' = Set(b_ice, c, TRUE)
  /\ IF ~b_ice[c] /\ b_dtls[c] THEN Tell(c, TRUE) ELSE connected' = connected

\* RecvEvent, icestatechange, completed.
IceCompleted(c) ==
  /\ b_ice' = b_ice
  /\ IF b_ice[c] THEN connected' = connected ELSE Tell(c, FALSE)

\* Mutant: the flag survives.
IceDisconnectedKeeps(c) ==
  /\ b_ice' = b_ice
  /\ Tell(c, FALSE)

\* RecvEvent, icestatechange, disconnected.
IceDisconnected(c) ==
  /\ b_ice' = Set(b_ice, c, FALSE)
  /\ Tell(c, FALSE)

\* RecvEvent for a connection that is still there, icestatechange.
IceEvent ==
  /\ Receive("ice")
  /\ LET c == Head(to_local).c
         state == Head(to_local).method
     IN IF c \in mapped
        THEN \/ state = "connected" /\ IceConnected(c)
             \/ state = "completed" /\ IceCompleted(c)
             \/ state = "disconnected" /\ IceDisconnected(c)
        ELSE UNCHANGED <<b_ice, connected>>
  /\ UNCHANGED <<procVars, to_rtc, rtcVars, b_dtls, lost_time, endVars, peer, notify_close>>

\* RecvEvent, dtlsstatechange, connected.
DtlsConnected(c) ==
  /\ b_dtls' = Set(b_dtls, c, TRUE)
  /\ IF ~b_dtls[c] /\ b_ice[c] THEN Tell(c, TRUE) ELSE connected' = connected
  /\ UNCHANGED <<procVars, b_lost>>

\* RecvEvent, dtlsstatechange, failed or closed.
DtlsEnded(c, state) ==
  /\ b_dtls' = IF state = "closed" THEN Set(b_dtls, c, FALSE) ELSE b_dtls
  /\ Tell(c, FALSE)
  /\ SetConnectionLost(c)

\* RecvEvent for a connection that is still there, dtlsstatechange.
DtlsEvent ==
  /\ Receive("dtls")
  /\ LET c == Head(to_local).c
         state == Head(to_local).method
     IN IF c \in mapped
        THEN \/ state = "connected" /\ DtlsConnected(c)
             \/ state \in {"failed", "closed"} /\ DtlsEnded(c, state)
        ELSE UNCHANGED <<procVars, b_dtls, b_lost, connected>>
  /\ UNCHANGED <<to_rtc, rtcVars, b_ice, lost_time, transport, conn, b_force_closed,
                 cb_listener, peer, notify_close>>

\* Mutant: the deadline is never looked at.
OnTimerNoDeadline(c) ==
  /\ closing = NULL /\ c \in mapped
  /\ lost_time' = Set(lost_time, c, lost_time[c] - 1)
  /\ UNCHANGED <<procVars, b_lost>>
  /\ UNCHANGED <<pipeVars, rtcVars, b_ice, b_dtls, transport, conn, b_force_closed,
                 cb_listener, peerVars>>

\* OnTimer: data have come, or the connection gets closer to being lost.
OnTimer(c) ==
  /\ closing = NULL /\ c \in mapped
  /\ \/ /\ sending[c]
        /\ lost_time' = Set(lost_time, c, LostTime)
        /\ UNCHANGED <<procVars, b_lost>>
     \/ /\ lost_time[c] > 1
        /\ lost_time' = Set(lost_time, c, lost_time[c] - 1)
        /\ UNCHANGED <<procVars, b_lost>>
     \/ /\ lost_time[c] = 1
        /\ lost_time' = lost_time
        /\ SetConnectionLost(c)
  /\ UNCHANGED <<pipeVars, rtcVars, b_ice, b_dtls, transport, conn, b_force_closed,
                 cb_listener, peerVars>>

-----------------------------------------------------------------------------
(***************************************************************************)
(* The media library and the client (not part of the program).             *)
(***************************************************************************)

\* The transport reports a change of its ICE state.
IceChange(c) ==
  /\ closing = NULL /\ conn[c] = "live" /\ transport[c] /\ Len(to_local) < MaxEvents
  /\ \E state \in IceStates \ {"new", ice_state[c]} :
       /\ ice_state[c] = "new" => state # "disconnected"
       /\ ice_state[c] = "completed" => state = "disconnected"
       /\ ice_state' = Set(ice_state, c, state)
       /\ to_local' = Append(to_local, Message("ice", c, state))
  /\ UNCHANGED <<procVars, to_rtc, remote_ids, dtls_state, sending, stateVars, endVars, peerVars>>

\* The transport reports a change of its DTLS state.
DtlsChange(c) ==
  /\ closing = NULL /\ conn[c] = "live" /\ transport[c] /\ Len(to_local) < MaxEvents
  /\ \E state \in {"connected", "failed", "closed"} :
       /\ \/ dtls_state[c] = "new" /\ state # "closed"
          \/ dtls_state[c] = "connected" /\ state = "closed"
       /\ dtls_state' = Set(dtls_state, c, state)
       /\ to_local' = Append(to_local, Message("dtls", c, state))
  /\ UNCHANGED <<procVars, to_rtc, remote_ids, ice_state, sending, stateVars, endVars, peerVars>>

\* Nothing comes from the client any more.
ClientGone(c) ==
  /\ conn[c] = "live" /\ sending[c]
  /\ sending' = Set(sending, c, FALSE)
  /\ UNCHANGED <<procVars, pipeVars, remote_ids, ice_state, dtls_state, stateVars, endVars, peerVars>>

-----------------------------------------------------------------------------
(***************************************************************************)
(* The main thread.                                                        *)
(***************************************************************************)

\* The protocol or another publisher asks for the end of the peer.
ProtoClose(c) ==
  /\ peer[c] = "live"
  /\ notify_close' = Set(notify_close, c, TRUE)
  /\ UNCHANGED <<procVars, pipeVars, rtcVars, stateVars, endVars, peer, connected>>

\* OnX2RtcTick of a peer that is to close.
PeerTick(c) ==
  /\ peer[c] = "live" /\ notify_close[c]
  /\ cb_listener' = Set(cb_listener, c, FALSE)
  /\ b_force_closed' = Set(b_force_closed, c, TRUE)
  /\ peer' = Set(peer, c, "closed")
  /\ notify_close' = Set(notify_close, c, FALSE)
  /\ UNCHANGED <<procVars, pipeVars, rtcVars, stateVars, transport, conn, b_lost, connected>>

CanDelete(c) == b_force_closed[c] /\ b_lost[c]

\* X2NetProcess::RunOnce, for one connection of the list.  Of one that is
\* deleted already it reads freed memory, and finds anything there.
DeleteConnection(c) ==
  /\ c \in for_delete
  /\ CanDelete(c) \/ conn[c] = "deleted"
  /\ for_delete' = for_delete \ {c}
  /\ conn' = Set(conn, c, "deleted")
  /\ UNCHANGED <<mapped, waiting, closing, pipeVars, rtcVars, stateVars, transport, b_lost,
                 b_force_closed, cb_listener, peerVars>>

-----------------------------------------------------------------------------
LoopThread ==
  \/ DeInit \/ HandleRequest
  \/ LateResponse \/ ConnectAccepted \/ MediaAccepted \/ ResponseRejected \/ ConnectUnusable
  \/ IceEvent \/ DtlsEvent
  \/ \E c \in Conns : Offer(c) \/ OfferBadSdp(c) \/ OfferNoTransport(c) \/ OnTimer(c)

Environment == \E c \in Conns : IceChange(c) \/ DtlsChange(c) \/ ClientGone(c)

MainThread ==
  \E c \in Conns : ProtoClose(c) \/ PeerTick(c) \/ DeleteConnection(c)

Next == LoopThread \/ Environment \/ MainThread

Spec == Init /\ [][Next]_vars

\* Both threads run on: timers fire, peers are ticked, the list is gone
\* through.  Nothing is asked of clients and of the media library.
Fairness ==
  /\ WF_vars(DeInit)
  /\ \A c \in Conns :
       WF_vars(OnTimer(c)) /\ WF_vars(PeerTick(c)) /\ WF_vars(DeleteConnection(c))

FairSpec == Spec /\ Fairness

-----------------------------------------------------------------------------
\* What the process finds in its maps can be used: a connection in
\* map_x2net_connection_ exists and has its transport, and only such a
\* connection has requests under way, so that no late response or event
\* reaches one that is lost or deleted.
MapAlive ==
  /\ \A c \in mapped : conn[c] = "live" /\ ~b_lost[c] /\ transport[c]
  /\ \A r \in waiting : r.c \in mapped

\* What a peer was last told of its connection is what RunOnce goes by when
\* it sends: connected means ICE and DTLS, in whichever order they came.
ConnectedIsKnown ==
  \A c \in mapped : cb_listener[c] => (connected[c] <=> b_ice[c] /\ b_dtls[c])

\* Nothing refers to a connection that had a peer and is deleted, once the
\* loop thread is done with it: no list, no map, no single port id, no peer;
\* and its transport is gone.
DeletedUnreferenced ==
  \A c \in Conns :
    conn[c] = "deleted" /\ peer[c] # "none" /\ closing # c =>
      /\ c \notin for_delete \cup mapped \cup remote_ids
      /\ ~transport[c]
      /\ peer[c] # "live"

\* A connection whose client is gone is deleted in the end, whatever the peer
\* did before.  (One that a peer gives up lives on while its client sends.)
GoneInTheEnd ==
  \A c \in Conns : (conn[c] = "live" /\ ~sending[c]) ~> (conn[c] = "deleted")

\* "Closed connection that waitting for delete": a connection is not deleted
\* from that list while the loop thread is still closing it.
ClosingExists == closing # NULL => conn[closing] = "live"

=============================================================================
