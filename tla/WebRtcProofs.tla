---------------------------- MODULE WebRtcProofs ----------------------------
(***************************************************************************)
(* Proofs about WebRtc, for any number of connections, any media and pipes *)
(* of any length.                                                          *)
(***************************************************************************)
EXTENDS WebRtc, TLAPS

USE WebRtcAssumption DEF Set

\* A connection that was not made yet.
Unborn(c) ==
  /\ c \notin mapped \cup for_delete \cup remote_ids
  /\ ~transport[c] /\ ~b_lost[c] /\ peer[c] = "none" /\ closing # c
  /\ ~b_ice[c] /\ ~b_dtls[c] /\ ~connected[c]

\* A connection with a peer is mapped until it is lost, listed from then on
\* until it is deleted, and has let go of everything when DeInit is done.
LifeInv ==
  \A c \in Conns :
    /\ conn[c] = "none" => Unborn(c)
    /\ conn[c] = "live" => peer[c] # "none"
    /\ cb_listener[c] <=> peer[c] = "live"
    /\ b_force_closed[c] <=> peer[c] = "closed"
    /\ c \in for_delete => b_lost[c] /\ c \notin mapped
    /\ closing = c => b_lost[c] /\ c \notin mapped
    /\ b_lost[c] /\ closing # c /\ peer[c] # "none" => ~transport[c] /\ c \notin remote_ids
    /\ conn[c] = "deleted" /\ peer[c] # "none" =>
         b_lost[c] /\ c \notin for_delete /\ peer[c] = "closed"

IInv == TypeOK /\ MapAlive /\ ConnectedIsKnown /\ LifeInv

\* Every step of either thread, of the media library and of the client keeps
\* the invariant.
LEMMA InvStep == IInv /\ [Next]_vars => IInv'
<1> SUFFICES ASSUME IInv, [Next]_vars PROVE IInv'
  OBVIOUS
<1>0. TypeOK /\ MapAlive /\ ConnectedIsKnown /\ LifeInv
  BY DEF IInv
<1> USE DEF procVars, pipeVars, rtcVars, stateVars, endVars, peerVars
<1>1. CASE UNCHANGED vars
  BY <1>0, <1>1 DEF vars, IInv, TypeOK, MapAlive, ConnectedIsKnown, LifeInv, Unborn
<1>a. ASSUME to_rtc # <<>>
      PROVE  Head(to_rtc) \in Requests /\ Tail(to_rtc) \in Seq(Requests)
  BY <1>0, <1>a DEF TypeOK
<1>b. ASSUME to_local # <<>>
      PROVE  /\ Head(to_local) \in Messages /\ Tail(to_local) \in Seq(Messages)
             /\ Head(to_local).c \in Conns
  <2>1. Head(to_local) \in Messages /\ Tail(to_local) \in Seq(Messages)
    BY <1>0, <1>b DEF TypeOK
  <2> QED
    BY <2>1 DEF Messages
<1>c. ASSUME to_local # <<>>, Head(to_local).type \in {"accepted", "rejected"}
      PROVE  Received \in Requests /\ Received.c = Head(to_local).c
  BY <1>b, <1>c DEF Messages, Requests, Received, Request
<1>d. \A c \in Conns, media \in MediaLists :
        Asked(c, media) \in Seq(Requests) /\ DOMAIN Asked(c, media) = DOMAIN media
  <2> SUFFICES ASSUME NEW c \in Conns, NEW media \in MediaLists
               PROVE  Asked(c, media) \in Seq(Requests) /\ DOMAIN Asked(c, media) = DOMAIN media
    OBVIOUS
  <2>1. /\ Len(media) \in Nat /\ DOMAIN media = 1 .. Len(media)
        /\ \A i \in 1 .. Len(media) : media[i] \in Kinds
    BY media \in Seq(Kinds)
  <2>2. \A i \in 1 .. Len(media) : Request(c, media[i]) \in Requests
    BY <2>1 DEF Request, Requests, Methods
  <2>3. Asked(c, media) = [i \in 1 .. Len(media) |-> Request(c, media[i])]
    BY <2>1 DEF Asked
  <2> HIDE DEF Request, Requests
  <2> QED
    BY <2>1, <2>2, <2>3
<1>2. ASSUME NEW c \in Conns, Offer(c) PROVE IInv'
  <2>1. TypeOK'
    BY <1>0, <1>2 DEF Offer, Request, TypeOK, Requests, Methods
  <2>2. MapAlive'
    BY <1>0, <1>2 DEF Offer, Request, TypeOK, MapAlive, LifeInv, Unborn
  <2>3. ConnectedIsKnown'
    BY <1>0, <1>2 DEF Offer, Request, TypeOK, MapAlive, ConnectedIsKnown, LifeInv, Unborn
  <2>4. LifeInv'
    BY <1>0, <1>2 DEF Offer, Request, TypeOK, MapAlive, LifeInv, Unborn
  <2> QED
    BY <2>1, <2>2, <2>3, <2>4 DEF IInv
<1>3. ASSUME NEW c \in Conns, OfferBadSdp(c) PROVE IInv'
  <2>1. TypeOK'
    BY <1>0, <1>3 DEF OfferBadSdp, TypeOK
  <2>2. MapAlive'
    BY <1>0, <1>3 DEF OfferBadSdp, TypeOK, MapAlive, LifeInv, Unborn
  <2>3. ConnectedIsKnown'
    BY <1>0, <1>3 DEF OfferBadSdp, TypeOK, MapAlive, ConnectedIsKnown, LifeInv, Unborn
  <2>4. LifeInv'
    BY <1>0, <1>3 DEF OfferBadSdp, TypeOK, MapAlive, LifeInv, Unborn
  <2> QED
    BY <2>1, <2>2, <2>3, <2>4 DEF IInv
<1>4. ASSUME NEW c \in Conns, OfferNoTransport(c) PROVE IInv'
  <2>1. TypeOK'
    BY <1>0, <1>4 DEF OfferNoTransport, TypeOK
  <2>2. MapAlive'
    BY <1>0, <1>4 DEF OfferNoTransport, TypeOK, MapAlive, LifeInv, Unborn
  <2>3. ConnectedIsKnown'
    BY <1>0, <1>4 DEF OfferNoTransport, TypeOK, MapAlive, ConnectedIsKnown, LifeInv, Unborn
  <2>4. LifeInv'
    BY <1>0, <1>4 DEF OfferNoTransport, TypeOK, MapAlive, LifeInv, Unborn
  <2> QED
    BY <2>1, <2>2, <2>3, <2>4 DEF IInv
<1>5. ASSUME NEW c \in Conns, OnTimer(c) PROVE IInv'
  <2>1. TypeOK'
    <3>0. lost_time' \in [Conns -> 1 .. LostTime]
      <4>1. lost_time \in [Conns -> 1 .. LostTime] /\ lost_time[c] \in 1 .. LostTime
        BY <1>0 DEF TypeOK
      <4>2. LostTime \in 1 .. LostTime
        BY LostTime \in Nat \ {0}
      <4>3. CASE lost_time' = [lost_time EXCEPT ![c] = LostTime]
        BY <4>1, <4>2, <4>3
      <4>4. CASE lost_time[c] > 1 /\ lost_time' = [lost_time EXCEPT ![c] = lost_time[c] - 1]
        <5>1. lost_time[c] - 1 \in 1 .. LostTime
          BY <4>1, <4>4, LostTime \in Nat \ {0}
        <5> QED
          BY <4>1, <4>4, <5>1
      <4> QED
        BY <1>5, <4>1, <4>3, <4>4 DEF OnTimer
    <3>1. CASE UNCHANGED <<procVars, b_lost>>
      BY <1>0, <1>5, <3>0, <3>1 DEF OnTimer, TypeOK
    <3>2. CASE lost_time' = lost_time /\ SetConnectionLost(c)
      BY <1>0, <1>5, <3>2 DEF OnTimer, SetConnectionLost, TypeOK
    <3> QED
      BY <1>5, <3>1, <3>2 DEF OnTimer
  <2>2. MapAlive'
    BY <1>0, <1>5 DEF OnTimer, SetConnectionLost, TypeOK, MapAlive, LifeInv, Unborn
  <2>3. ConnectedIsKnown'
    BY <1>0, <1>5
       DEF OnTimer, SetConnectionLost, TypeOK, MapAlive, ConnectedIsKnown, LifeInv,
           Unborn
  <2>4. LifeInv'
    BY <1>0, <1>5 DEF OnTimer, SetConnectionLost, TypeOK, MapAlive, LifeInv, Unborn
  <2> QED
    BY <2>1, <2>2, <2>3, <2>4 DEF IInv
<1>6. ASSUME NEW c \in Conns, IceChange(c) PROVE IInv'
  <2>1. TypeOK'
    BY <1>0, <1>6 DEF IceChange, Message, TypeOK, Messages, IceStates
  <2>2. MapAlive'
    BY <1>0, <1>6 DEF IceChange, Message, TypeOK, MapAlive, LifeInv, Unborn
  <2>3. ConnectedIsKnown'
    BY <1>0, <1>6
       DEF IceChange, Message, TypeOK, MapAlive, ConnectedIsKnown, LifeInv, Unborn
  <2>4. LifeInv'
    BY <1>0, <1>6 DEF IceChange, Message, TypeOK, MapAlive, LifeInv, Unborn
  <2> QED
    BY <2>1, <2>2, <2>3, <2>4 DEF IInv
<1>7. ASSUME NEW c \in Conns, DtlsChange(c) PROVE IInv'
  <2>1. TypeOK'
    BY <1>0, <1>7 DEF DtlsChange, Message, TypeOK, Messages, DtlsStates
  <2>2. MapAlive'
    BY <1>0, <1>7 DEF DtlsChange, Message, TypeOK, MapAlive, LifeInv, Unborn
  <2>3. ConnectedIsKnown'
    BY <1>0, <1>7
       DEF DtlsChange, Message, TypeOK, MapAlive, ConnectedIsKnown, LifeInv, Unborn
  <2>4. LifeInv'
    BY <1>0, <1>7 DEF DtlsChange, Message, TypeOK, MapAlive, LifeInv, Unborn
  <2> QED
    BY <2>1, <2>2, <2>3, <2>4 DEF IInv
<1>8. ASSUME NEW c \in Conns, ClientGone(c) PROVE IInv'
  <2>1. TypeOK'
    BY <1>0, <1>8 DEF ClientGone, TypeOK
  <2>2. MapAlive'
    BY <1>0, <1>8 DEF ClientGone, TypeOK, MapAlive, LifeInv, Unborn
  <2>3. ConnectedIsKnown'
    BY <1>0, <1>8 DEF ClientGone, TypeOK, MapAlive, ConnectedIsKnown, LifeInv, Unborn
  <2>4. LifeInv'
    BY <1>0, <1>8 DEF ClientGone, TypeOK, MapAlive, LifeInv, Unborn
  <2> QED
    BY <2>1, <2>2, <2>3, <2>4 DEF IInv
<1>9. ASSUME NEW c \in Conns, ProtoClose(c) PROVE IInv'
  <2>1. TypeOK'
    BY <1>0, <1>9 DEF ProtoClose, TypeOK
  <2>2. MapAlive'
    BY <1>0, <1>9 DEF ProtoClose, TypeOK, MapAlive, LifeInv, Unborn
  <2>3. ConnectedIsKnown'
    BY <1>0, <1>9 DEF ProtoClose, TypeOK, MapAlive, ConnectedIsKnown, LifeInv, Unborn
  <2>4. LifeInv'
    BY <1>0, <1>9 DEF ProtoClose, TypeOK, MapAlive, LifeInv, Unborn
  <2> QED
    BY <2>1, <2>2, <2>3, <2>4 DEF IInv
<1>10. ASSUME NEW c \in Conns, PeerTick(c) PROVE IInv'
  <2>1. TypeOK'
    BY <1>0, <1>10 DEF PeerTick, TypeOK
  <2>2. MapAlive'
    BY <1>0, <1>10 DEF PeerTick, TypeOK, MapAlive, LifeInv, Unborn
  <2>3. ConnectedIsKnown'
    BY <1>0, <1>10 DEF PeerTick, TypeOK, MapAlive, ConnectedIsKnown, LifeInv, Unborn
  <2>4. LifeInv'
    BY <1>0, <1>10 DEF PeerTick, TypeOK, MapAlive, LifeInv, Unborn
  <2> QED
    BY <2>1, <2>2, <2>3, <2>4 DEF IInv
<1>11. ASSUME NEW c \in Conns, DeleteConnection(c) PROVE IInv'
  <2>1. TypeOK'
    BY <1>0, <1>11 DEF DeleteConnection, CanDelete, TypeOK
  <2>2. MapAlive'
    BY <1>0, <1>11 DEF DeleteConnection, CanDelete, TypeOK, MapAlive, LifeInv, Unborn
  <2>3. ConnectedIsKnown'
    BY <1>0, <1>11
       DEF DeleteConnection, CanDelete, TypeOK, MapAlive, ConnectedIsKnown, LifeInv,
           Unborn
  <2>4. LifeInv'
    BY <1>0, <1>11 DEF DeleteConnection, CanDelete, TypeOK, MapAlive, LifeInv, Unborn
  <2> QED
    BY <2>1, <2>2, <2>3, <2>4 DEF IInv
<1>12. CASE DeInit
  <2>1. TypeOK'
    BY <1>0, <1>12 DEF DeInit, TypeOK
  <2>2. MapAlive'
    BY <1>0, <1>12 DEF DeInit, TypeOK, MapAlive, LifeInv, Unborn
  <2>3. ConnectedIsKnown'
    BY <1>0, <1>12 DEF DeInit, TypeOK, MapAlive, ConnectedIsKnown, LifeInv, Unborn
  <2>4. LifeInv'
    BY <1>0, <1>12 DEF DeInit, TypeOK, MapAlive, LifeInv, Unborn
  <2> QED
    BY <2>1, <2>2, <2>3, <2>4 DEF IInv
<1>13. CASE HandleRequest
  <2>1. TypeOK'
    <3>1. to_rtc' \in Seq(Requests)
      BY <1>13, <1>a DEF HandleRequest
    <3>2. to_local' \in Seq(Messages)
      <4>1. \A answer \in {"accepted", "rejected"} :
              Message(answer, Head(to_rtc).c, Head(to_rtc).method) \in Messages
        BY <1>13, <1>a DEF HandleRequest, Requests, Messages, Message
      <4>2. \/ to_local' = to_local
            \/ \E answer \in {"accepted", "rejected"} :
                 to_local' = Append(to_local, Message(answer, Head(to_rtc).c, Head(to_rtc).method))
        BY <1>13 DEF HandleRequest
      <4>3. to_local \in Seq(Messages)
        BY <1>0 DEF TypeOK
      <4> QED
        BY <4>1, <4>2, <4>3
    <3> QED
      BY <1>0, <1>13, <3>1, <3>2 DEF HandleRequest, TypeOK
  <2>2. MapAlive'
    BY <1>0, <1>13 DEF HandleRequest, Message, TypeOK, MapAlive, LifeInv, Unborn
  <2>3. ConnectedIsKnown'
    BY <1>0, <1>13
       DEF HandleRequest, Message, TypeOK, MapAlive, ConnectedIsKnown, LifeInv, Unborn
  <2>4. LifeInv'
    BY <1>0, <1>13 DEF HandleRequest, Message, TypeOK, MapAlive, LifeInv, Unborn
  <2> QED
    BY <2>1, <2>2, <2>3, <2>4 DEF IInv
<1>14. CASE LateResponse
  <2>1. TypeOK'
    <3>1. to_local' \in Seq(Messages)
      BY <1>14, <1>b DEF LateResponse, Receive
    <3> QED
      BY <1>0, <1>14, <3>1 DEF LateResponse, TypeOK
  <2>2. MapAlive'
    BY <1>0, <1>14 DEF LateResponse, Receive, Received, TypeOK, MapAlive, LifeInv, Unborn
  <2>3. ConnectedIsKnown'
    BY <1>0, <1>14
       DEF LateResponse, Receive, Received, TypeOK, MapAlive, ConnectedIsKnown, LifeInv,
           Unborn
  <2>4. LifeInv'
    BY <1>0, <1>14 DEF LateResponse, Receive, Received, TypeOK, MapAlive, LifeInv, Unborn
  <2> QED
    BY <2>1, <2>2, <2>3, <2>4 DEF IInv
<1>15. CASE ConnectAccepted
  <2>1. TypeOK'
    <3>1. Received \in Requests /\ Received.c \in Conns /\ to_local' \in Seq(Messages)
      BY <1>15, <1>b, <1>c DEF ConnectAccepted, Receive
    <3>2. PICK media \in MediaLists :
            /\ waiting' = (waiting \ {Received})
                            \cup {Asked(Received.c, media)[i] : i \in DOMAIN media}
            /\ to_rtc' = to_rtc \o Asked(Received.c, media)
      BY <1>15 DEF ConnectAccepted
    <3>3. /\ Asked(Received.c, media) \in Seq(Requests)
          /\ \A i \in DOMAIN media : Asked(Received.c, media)[i] \in Requests
      BY <1>d, <3>1
    <3>4. to_rtc' \in Seq(Requests)
      BY <1>0, <3>2, <3>3 DEF TypeOK
    <3>5. waiting' \subseteq Requests
      BY <1>0, <3>2, <3>3 DEF TypeOK
    <3> QED
      BY <1>0, <1>15, <3>1, <3>4, <3>5 DEF ConnectAccepted, TypeOK
  <2>2. MapAlive'
    BY <1>0, <1>15
       DEF ConnectAccepted, Receive, Received, Asked, Request, TypeOK, MapAlive, LifeInv,
           Unborn
  <2>3. ConnectedIsKnown'
    BY <1>0, <1>15
       DEF ConnectAccepted, Receive, Received, Asked, Request, TypeOK, MapAlive,
           ConnectedIsKnown, LifeInv, Unborn
  <2>4. LifeInv'
    BY <1>0, <1>15
       DEF ConnectAccepted, Receive, Received, Asked, Request, TypeOK, MapAlive, LifeInv,
           Unborn
  <2> QED
    BY <2>1, <2>2, <2>3, <2>4 DEF IInv
<1>16. CASE MediaAccepted
  <2>1. TypeOK'
    BY <1>0, <1>16, <1>b DEF MediaAccepted, Receive, Received, Request, TypeOK
  <2>2. MapAlive'
    BY <1>0, <1>16
       DEF MediaAccepted, Receive, Received, Request, TypeOK, MapAlive, LifeInv, Unborn
  <2>3. ConnectedIsKnown'
    BY <1>0, <1>16
       DEF MediaAccepted, Receive, Received, Request, TypeOK, MapAlive, ConnectedIsKnown,
           LifeInv, Unborn
  <2>4. LifeInv'
    BY <1>0, <1>16
       DEF MediaAccepted, Receive, Received, Request, TypeOK, MapAlive, LifeInv, Unborn
  <2> QED
    BY <2>1, <2>2, <2>3, <2>4 DEF IInv
<1>17. CASE ResponseRejected
  <2>1. TypeOK'
    BY <1>0, <1>17, <1>b, <1>c
       DEF ResponseRejected, Receive, Received, Request, SetConnectionLost, TypeOK
  <2>2. MapAlive'
    BY <1>0, <1>17
       DEF ResponseRejected, Receive, Received, Request, SetConnectionLost, TypeOK,
           MapAlive, LifeInv, Unborn
  <2>3. ConnectedIsKnown'
    BY <1>0, <1>17
       DEF ResponseRejected, Receive, Received, Request, SetConnectionLost, TypeOK,
           MapAlive, ConnectedIsKnown, LifeInv, Unborn
  <2>4. LifeInv'
    BY <1>0, <1>17
       DEF ResponseRejected, Receive, Received, Request, SetConnectionLost, TypeOK,
           MapAlive, LifeInv, Unborn
  <2> QED
    BY <2>1, <2>2, <2>3, <2>4 DEF IInv
<1>18. CASE ConnectUnusable
  <2>1. TypeOK'
    <3>1. Received.c \in Conns /\ to_local' \in Seq(Messages)
      BY <1>18, <1>b, <1>c DEF ConnectUnusable, Receive
    <3>2. to_rtc' \in Seq(Requests)
      BY <1>0, <1>18, <1>d, <3>1 DEF ConnectUnusable, TypeOK
    <3> QED
      BY <1>0, <1>18, <3>1, <3>2 DEF ConnectUnusable, SetConnectionLost, TypeOK
  <2>2. MapAlive'
    BY <1>0, <1>18
       DEF ConnectUnusable, Receive, Received, Request, Asked, SetConnectionLost, TypeOK,
           MapAlive, LifeInv, Unborn
  <2>3. ConnectedIsKnown'
    BY <1>0, <1>18
       DEF ConnectUnusable, Receive, Received, Request, Asked, SetConnectionLost, TypeOK,
           MapAlive, ConnectedIsKnown, LifeInv, Unborn
  <2>4. LifeInv'
    BY <1>0, <1>18
       DEF ConnectUnusable, Receive, Received, Request, Asked, SetConnectionLost, TypeOK,
           MapAlive, LifeInv, Unborn
  <2> QED
    BY <2>1, <2>2, <2>3, <2>4 DEF IInv
<1>19. CASE IceEvent
  <2>0. Head(to_local).c \in Conns /\ to_local' \in Seq(Messages)
    BY <1>19, <1>b DEF IceEvent, Receive
  <2>1. TypeOK'
    <3>1. b_ice' \in [Conns -> BOOLEAN]
      BY <1>0, <1>19, <2>0 DEF IceEvent, IceConnected, IceCompleted, IceDisconnected, TypeOK
    <3>2. connected' \in [Conns -> BOOLEAN]
      BY <1>0, <1>19, <2>0
         DEF IceEvent, IceConnected, IceCompleted, IceDisconnected, Tell, TypeOK
    <3> QED
      BY <1>0, <1>19, <2>0, <3>1, <3>2 DEF IceEvent, TypeOK
  <2>2. MapAlive'
    BY <1>0, <1>19
       DEF IceEvent, Receive, Received, IceConnected, IceCompleted, IceDisconnected,
           Tell, TypeOK, MapAlive, LifeInv, Unborn
  <2>3. ConnectedIsKnown'
    <3> DEFINE d == Head(to_local).c
    <3>1. CASE d \notin mapped
      BY <1>0, <1>19, <3>1 DEF IceEvent, ConnectedIsKnown
    <3>2. CASE d \in mapped /\ IceConnected(d)
      BY <1>0, <1>19, <2>0, <3>2 DEF IceEvent, IceConnected, Tell, ConnectedIsKnown, TypeOK
    <3>3. CASE d \in mapped /\ IceCompleted(d)
      BY <1>0, <1>19, <2>0, <3>3 DEF IceEvent, IceCompleted, Tell, ConnectedIsKnown, TypeOK
    <3>4. CASE d \in mapped /\ IceDisconnected(d)
      BY <1>0, <1>19, <2>0, <3>4
         DEF IceEvent, IceDisconnected, Tell, ConnectedIsKnown, TypeOK
    <3> QED
      BY <1>19, <3>1, <3>2, <3>3, <3>4 DEF IceEvent
  <2>4. LifeInv'
    BY <1>0, <1>19
       DEF IceEvent, Receive, Received, IceConnected, IceCompleted, IceDisconnected,
           Tell, TypeOK, MapAlive, LifeInv, Unborn
  <2> QED
    BY <2>1, <2>2, <2>3, <2>4 DEF IInv
<1>20. CASE DtlsEvent
  <2> DEFINE d == Head(to_local).c
  <2>0. /\ d \in Conns /\ to_local' \in Seq(Messages)
        /\ \/ d \notin mapped /\ UNCHANGED <<procVars, b_dtls, b_lost, connected>>
           \/ d \in mapped /\ DtlsConnected(d)
           \/ d \in mapped /\ \E state : DtlsEnded(d, state)
    BY <1>20, <1>b DEF DtlsEvent, Receive
  <2> HIDE DEF d
  <2>1. TypeOK'
    <3>1. b_dtls' \in [Conns -> BOOLEAN]
      BY <1>0, <2>0 DEF DtlsConnected, DtlsEnded, TypeOK
    <3>2. connected' \in [Conns -> BOOLEAN]
      BY <1>0, <2>0 DEF DtlsConnected, DtlsEnded, Tell, TypeOK
    <3>3. b_lost' \in [Conns -> BOOLEAN] /\ waiting' \subseteq Requests
          /\ closing' \in Conns \cup {NULL}
          /\ mapped' \subseteq Conns /\ for_delete' \subseteq Conns
      BY <1>0, <2>0 DEF DtlsConnected, DtlsEnded, SetConnectionLost, TypeOK
    <3> QED
      BY <1>0, <1>20, <2>0, <3>1, <3>2, <3>3 DEF DtlsEvent, TypeOK
  <2>2. MapAlive'
    BY <1>0, <1>20
       DEF DtlsEvent, Receive, Received, DtlsConnected, DtlsEnded, Tell,
           SetConnectionLost, TypeOK, MapAlive, LifeInv, Unborn
  <2>3. ConnectedIsKnown'
    BY <1>0, <1>20
       DEF DtlsEvent, Receive, Received, DtlsConnected, DtlsEnded, Tell,
           SetConnectionLost, TypeOK, MapAlive, ConnectedIsKnown, LifeInv, Unborn
  <2>4. LifeInv'
    <3>1. CASE d \notin mapped /\ UNCHANGED <<procVars, b_dtls, b_lost, connected>>
      BY <1>0, <1>20, <2>0, <3>1 DEF DtlsEvent, LifeInv, Unborn
    <3>2. CASE d \in mapped /\ DtlsConnected(d)
      BY <1>0, <1>20, <2>0, <3>2
         DEF DtlsEvent, DtlsConnected, Tell, LifeInv, Unborn, MapAlive, TypeOK
    <3>3. ASSUME NEW state, d \in mapped, DtlsEnded(d, state) PROVE LifeInv'
      <4>0. UNCHANGED <<to_rtc, rtcVars, b_ice, lost_time, transport, conn, b_force_closed,
                        cb_listener, peer, notify_close>> /\ closing = NULL
        BY <1>20 DEF DtlsEvent, Receive
      <4> SUFFICES ASSUME NEW c \in Conns PROVE LifeInv!(c)'
        BY DEF LifeInv
      <4>1. CASE c = d
        BY <1>0, <2>0, <3>3, <4>0, <4>1
           DEF DtlsEnded, SetConnectionLost, Tell, LifeInv, Unborn, MapAlive, TypeOK
      <4>2. CASE c # d
        BY <1>0, <2>0, <3>3, <4>0, <4>2
           DEF DtlsEnded, SetConnectionLost, Tell, LifeInv, Unborn, MapAlive, TypeOK
      <4> QED
        BY <4>1, <4>2
    <3> QED
      BY <2>0, <3>1, <3>2, <3>3
  <2> QED
    BY <2>1, <2>2, <2>3, <2>4 DEF IInv
<1> QED
  BY <1>1, <1>2, <1>3, <1>4, <1>5, <1>6, <1>7, <1>8, <1>9, <1>10, 
     <1>11, <1>12, <1>13, <1>14, <1>15, <1>16, <1>17, <1>18, <1>19, <1>20
     DEF Next, LoopThread, Environment, MainThread

\* The inductive invariant holds of every reachable state.
THEOREM Invariance == Spec => []IInv
<1>1. Init => IInv
  <2> SUFFICES ASSUME Init PROVE IInv
    OBVIOUS
  <2>1. TypeOK
    BY DEF Init, TypeOK, IceStates, DtlsStates
  <2>2. MapAlive /\ ConnectedIsKnown /\ LifeInv
    BY DEF Init, MapAlive, ConnectedIsKnown, LifeInv, Unborn
  <2> QED
    BY <2>1, <2>2 DEF IInv
<1> QED
  BY <1>1, InvStep, PTL DEF Spec

\* No late response or event reaches a lost connection, a peer knows whether
\* its connection carries media, and nothing refers to a deleted connection
\* that had a peer (X2NetWebRtcProcess and X2NetWebRtcConnection).
THEOREM WebRtcSafety ==
  Spec => [](TypeOK /\ MapAlive /\ ConnectedIsKnown /\ DeletedUnreferenced)
<1>1. IInv => TypeOK /\ MapAlive /\ ConnectedIsKnown /\ DeletedUnreferenced
  BY DEF IInv, LifeInv, MapAlive, DeletedUnreferenced
<1> QED
  BY <1>1, Invariance, PTL

=============================================================================
