------------------------ MODULE MediaDispatchProofs ------------------------
(***************************************************************************)
(* Proofs about MediaDispatch: the type invariant, and the inductive       *)
(* invariant IInv from which the safety properties of the registry follow. *)
(***************************************************************************)
EXTENDS MediaDispatch, FiniteSetTheorems, TLAPS

USE ConstantsAssumption DEF Threads

USE DEF Goto

\* Every step keeps the types of the variables.
LEMMA TypeStep == TypeOK /\ ControlInv /\ SmsInv /\ [Next]_vars => TypeOK'
<1> SUFFICES ASSUME TypeOK, ControlInv, SmsInv, [Next]_vars PROVE TypeOK'
  OBVIOUS
<1>0. /\ pc \notin {"proxy", "dispatch", "round"} => self \in Peers
      /\ pc \in CallPC => stream[self] \in Streams
  BY DEF ControlInv
\* X2MediaPuber::SetStreamMediaSuber, applied to the publisher of a stream, if
\* there is one, sets fields of that publisher only.
<1>r. ASSUME NEW k \in Streams, NEW s \in Sms \cup {NULL}, SetRegistered(k, s)
      PROVE  /\ stream_media_suber' \in [Peers -> Sms \cup {NULL}]
             /\ n_aud_sub_codec_changed' \in [Peers -> Nat]
  <2> USE <1>r
  <2>1. CASE mapX2MediaPuber[k] = NULL
    BY <2>1 DEF SetRegistered, TypeOK
  <2>2. CASE mapX2MediaPuber[k] # NULL
    <3>1. mapX2MediaPuber[k] \in Peers
      BY <2>2 DEF TypeOK
    <3>2. stream_media_suber' = [stream_media_suber EXCEPT ![mapX2MediaPuber[k]] = s]
      BY <2>2 DEF SetRegistered
    <3>3. n_aud_sub_codec_changed' =
            IF s = NULL THEN [n_aud_sub_codec_changed EXCEPT ![mapX2MediaPuber[k]] = 0]
            ELSE n_aud_sub_codec_changed
      BY <2>2 DEF SetRegistered
    <3>4. stream_media_suber' \in [Peers -> Sms \cup {NULL}]
      BY <3>1, <3>2 DEF TypeOK
    <3>5. n_aud_sub_codec_changed' \in [Peers -> Nat]
      BY <3>1, <3>3 DEF TypeOK
    <3> QED
      BY <3>4, <3>5
  <2> QED
    BY <2>1, <2>2
\* Counting a codec once less keeps the counts natural numbers.
<1>u. ASSUME NEW s \in Sms, NEW c \in Codecs, UnCount(s, c)
      PROVE  /\ mapAudSubCodec' \in [Sms -> [Codecs -> Nat]]
             /\ nAudSubCodecChanged' \in [Sms -> Nat]
  <2> USE <1>u
  <2>1. mapAudSubCodec[s][c] \in Nat /\ mapAudSubCodec[s] \in [Codecs -> Nat]
    BY DEF TypeOK
  <2>2. mapAudSubCodec' \in [Sms -> [Codecs -> Nat]]
    <3>1. CASE mapAudSubCodec[s][c] = 0
      BY <3>1 DEF UnCount, TypeOK
    <3>2. CASE mapAudSubCodec[s][c] # 0
      <4>1. mapAudSubCodec[s][c] - 1 \in Nat
        BY <2>1, <3>2
      <4>2. [mapAudSubCodec[s] EXCEPT ![c] = mapAudSubCodec[s][c] - 1] \in [Codecs -> Nat]
        BY <2>1, <4>1
      <4>3. mapAudSubCodec' = [mapAudSubCodec EXCEPT ![s] =
              [mapAudSubCodec[s] EXCEPT ![c] = mapAudSubCodec[s][c] - 1]]
        BY <3>2 DEF UnCount, TypeOK
      <4> QED
        BY <4>2, <4>3 DEF TypeOK
    <3> QED
      BY <3>1, <3>2
  <2>3. nAudSubCodecChanged' \in [Sms -> Nat]
    BY DEF UnCount, TypeOK
  <2> QED
    BY <2>2, <2>3
\* The encoders a publisher keeps are for codecs.
<1>e. ASSUME NEW p \in Peers, NEW s \in Sms, SyncEncoders(p, s)
      PROVE  /\ n_aud_sub_codec_changed' \in [Peers -> Nat]
             /\ mapAudEncoder' \in [Peers -> SUBSET Codecs]
  <2> USE <1>e
  <2>1. nAudSubCodecChanged[s] \in Nat /\ Wanted(s) \subseteq Codecs
    BY DEF TypeOK, Wanted
  <2>2. n_aud_sub_codec_changed' \in [Peers -> Nat]
    BY <2>1 DEF SyncEncoders, TypeOK
  <2>3. mapAudEncoder' \in [Peers -> SUBSET Codecs]
    BY <2>1 DEF SyncEncoders, TypeOK
  <2> QED
    BY <2>2, <2>3
<1> USE DEF TypeOK, PC, peerVars, puberVars, smsVars, registryVars, mainVars,
            poolVars
<1>1. CASE UNCHANGED vars
  BY <1>0, <1>1 DEF vars
<1>2. ASSUME NEW p \in Peers, NEW b \in BOOLEAN, NewConnection(p, b) PROVE TypeOK'
  BY <1>0, <1>2, ZenonT(40) DEF NewConnection
<1>3. ASSUME NEW p \in Peers, ConnectionClosed(p) PROVE TypeOK'
  BY <1>0, <1>3 DEF ConnectionClosed
<1>4. ASSUME NEW p \in Peers, RtnPublishClosed(p) PROVE TypeOK'
  BY <1>0, <1>4 DEF RtnPublishClosed
<1>5. ASSUME NEW p \in Peers, TryTimeDue(p) PROVE TypeOK'
  BY <1>0, <1>5 DEF TryTimeDue
<1>6. CASE ProxyRunOnce
  BY <1>0, <1>6 DEF ProxyRunOnce
<1>7. CASE DispatchRunOnce
  BY <1>0, <1>7 DEF DispatchRunOnce
<1>8. CASE TickNext
  BY <1>0, <1>8 DEF TickNext, Following
<1>9. CASE TickEnd
  BY <1>0, <1>9 DEF TickEnd
<1>10. CASE SetStreamId
  <2>0. self \in Peers /\ pc' \in PC /\ setParams' \subseteq Peers
    BY <1>0, <1>10 DEF SetStreamId, Publish, Play
  <2>1. ASSUME NEW k \in Streams, Publish(k, "retry") PROVE TypeOK'
    <3>1. nextThread' \in Threads
      BY <2>1 DEF Publish, NextThread
    <3> QED
      BY <2>0, <2>1, <3>1 DEF Publish
  <2>2. ASSUME NEW k \in Streams, NEW c \in BOOLEAN, Play(k, c, "retry") PROVE TypeOK'
    BY <2>0, <2>2 DEF Play
  <2> HIDE DEF TypeOK
  <2> QED
    BY <1>10, <2>1, <2>2 DEF SetStreamId
<1>11. CASE NoParams
  BY <1>0, <1>11 DEF NoParams
<1>12. CASE RetryPublish
  BY <1>0, <1>12 DEF RetryPublish
<1>13. CASE NoRetry
  BY <1>0, <1>13 DEF NoRetry
<1>14. CASE CheckClose
  BY <1>0, <1>14 DEF CheckClose
<1>15. CASE RecvCommand
  <2>0. self \in Peers /\ pc' \in PC /\ setParams' \subseteq Peers
    BY <1>0, <1>15 DEF RecvCommand, Publish, Play
  <2>1. ASSUME NEW k \in Streams, Publish(k, "data") PROVE TypeOK'
    <3>1. nextThread' \in Threads
      BY <2>1 DEF Publish, NextThread
    <3> QED
      BY <2>0, <2>1, <3>1 DEF Publish
  <2>2. ASSUME NEW k \in Streams, NEW c \in BOOLEAN, Play(k, c, "data") PROVE TypeOK'
    BY <2>0, <2>2 DEF Play
  <2> HIDE DEF TypeOK
  <2> QED
    BY <1>15, <2>1, <2>2 DEF RecvCommand
<1>16. CASE RecvClose
  BY <1>0, <1>16 DEF RecvClose
<1>17. CASE NoMoreData
  BY <1>0, <1>17 DEF NoMoreData
<1>18. CASE DeletePuber
  BY <1>0, <1>18 DEF DeletePuber
<1>19. CASE FinishClose
  BY <1>0, <1>19 DEF FinishClose
<1>20. CASE TryPublishRefused
  BY <1>0, <1>20, ZenonT(40) DEF TryPublishRefused, CallPC
<1>21. CASE TryPublishOK
  BY <1>0, <1>21 DEF TryPublishOK
<1>22. CASE TryPublishAttach
  BY <1>0, <1>22 DEF TryPublishAttach, CallPC
<1>23. CASE UnPublish
  <2>1. stream[self] \in Streams /\ SetRegistered(stream[self], NULL)
    BY <1>0, <1>23 DEF UnPublish, CallPC
  <2>2. /\ stream_media_suber' \in [Peers -> Sms \cup {NULL}]
        /\ n_aud_sub_codec_changed' \in [Peers -> Nat]
    <3> HIDE DEF TypeOK
    <3>1. local \in Sms \cup {NULL}
      BY DEF TypeOK
    <3> QED
      BY <2>1, <3>1, <1>r
  <2> QED
    BY <1>0, <1>23, <2>1, <2>2 DEF UnPublish, CallPC
<1>24. CASE SubscribeAttach
  <2>1. stream[self] \in Streams /\ SetRegistered(stream[self], local)
    BY <1>0, <1>24 DEF SubscribeAttach, CallPC
  <2>2. /\ stream_media_suber' \in [Peers -> Sms \cup {NULL}]
        /\ n_aud_sub_codec_changed' \in [Peers -> Nat]
    <3> HIDE DEF TypeOK
    <3>1. local \in Sms \cup {NULL}
      BY DEF TypeOK
    <3> QED
      BY <2>1, <3>1, <1>r
  <2> QED
    BY <1>0, <1>24, <2>1, <2>2 DEF SubscribeAttach, CallPC
<1>25. CASE SubscribeJoin
  BY <1>0, <1>25, ZenonT(40) DEF SubscribeJoin
<1>26. CASE ResetNotJoined
  BY <1>0, <1>26 DEF ResetNotJoined
<1>27. CASE UnSubscribeNotJoined
  BY <1>0, <1>27 DEF UnSubscribeNotJoined
<1>28. CASE UnSubscribeDetach
  <2>1. stream[self] \in Streams /\ SetRegistered(stream[self], NULL)
    BY <1>0, <1>28 DEF UnSubscribeDetach, CallPC
  <2>2. /\ stream_media_suber' \in [Peers -> Sms \cup {NULL}]
        /\ n_aud_sub_codec_changed' \in [Peers -> Nat]
    <3> HIDE DEF TypeOK
    <3>1. local \in Sms \cup {NULL}
      BY DEF TypeOK
    <3> QED
      BY <2>1, <3>1, <1>r
  <2>3. local \in Sms
    BY <1>28 DEF UnSubscribeDetach, SmsInv
  <2> QED
    BY <1>0, <1>28, <2>1, <2>2, <2>3 DEF UnSubscribeDetach, CallPC
<1>29. ASSUME NEW b \in BOOLEAN, RecvStatueChanged(b) PROVE TypeOK'
  <2>1. events' \in [Peers -> 0 .. MaxEvents]
    BY <1>0, <1>29 DEF RecvStatueChanged
  <2> QED
    BY <1>0, <1>29, <2>1 DEF RecvStatueChanged
<1>30. ASSUME NEW s \in Sms, SubscribeFirst(s) PROVE TypeOK'
  <2>1. mapAudSubCodec' \in [Sms -> [Codecs -> Nat]]
    BY <1>30 DEF SubscribeFirst
  <2> QED
    BY <1>0, <1>30, <2>1, SMTT(30) DEF SubscribeFirst, CallPC
<1>31. ASSUME NEW s \in Sms, ResetSubCodecType(s) PROVE TypeOK'
  <2>0. self \in Peers /\ AudCodec[self] \in Codecs
    BY <1>0, <1>31 DEF ResetSubCodecType
  <2>1. mapAudSubCodec' \in [Sms -> [Codecs -> Nat]]
    BY <1>31, <2>0 DEF ResetSubCodecType
  <2>2. nAudSubCodecChanged' \in [Sms -> Nat]
    BY <1>31 DEF ResetSubCodecType
  <2> QED
    BY <1>31, <2>0, <2>1, <2>2 DEF ResetSubCodecType
<1>32. ASSUME NEW s \in Sms, UnSubscribe(s) PROVE TypeOK'
  <2>0. self \in Peers
    BY <1>0, <1>32 DEF UnSubscribe
  <2>1. /\ mapAudSubCodec' \in [Sms -> [Codecs -> Nat]]
        /\ nAudSubCodecChanged' \in [Sms -> Nat]
    <3>1. CASE eAudCodecType[self] = NULL
      BY <1>32, <3>1 DEF UnSubscribe
    <3>2. CASE eAudCodecType[self] # NULL
      <4>1. eAudCodecType[self] \in Codecs
        BY <2>0, <3>2
      <4>2. UnCount(s, eAudCodecType[self])
        BY <1>32, <3>2 DEF UnSubscribe
      <4> HIDE DEF TypeOK
      <4> QED
        BY <4>1, <4>2, <1>u
    <3> QED
      BY <3>1, <3>2
  <2>2. /\ mapStreamMediaSuber' \in [Streams -> Sms \cup {NULL}]
        /\ announcedSub' \subseteq Streams
        /\ local' \in Sms \cup {NULL}
        /\ pc' \in PC
    BY <1>32, ZenonT(40) DEF UnSubscribe
  <2> QED
    BY <1>32, <2>0, <2>1, <2>2 DEF UnSubscribe
<1>33. ASSUME NEW t \in Threads, RoundBegin(t) PROVE TypeOK'
  BY <1>0, <1>33 DEF RoundBegin
<1>34. ASSUME NEW t \in Threads, RoundEnd(t) PROVE TypeOK'
  BY <1>0, <1>34 DEF RoundEnd
<1>35. ASSUME NEW t \in Threads, TickDispatch(t) PROVE TypeOK'
  BY <1>0, <1>35 DEF TickDispatch
<1>36. ASSUME NEW t \in Threads, NEW p \in Peers, TickFrameNoSuber(t, p) PROVE TypeOK'
  BY <1>0, <1>36 DEF TickFrameNoSuber
<1>37. ASSUME NEW t \in Threads, NEW p \in Peers, NEW b \in BOOLEAN,
              TickFrame(t, p, b)
       PROVE  TypeOK'
  <2>1. /\ n_aud_sub_codec_changed' \in [Peers -> Nat]
        /\ mapAudEncoder' \in [Peers -> SUBSET Codecs]
    <3>1. CASE b
      <4>1. SyncEncoders(p, stream_media_suber[p]) /\ stream_media_suber[p] \in Sms
        BY <1>37, <3>1 DEF TickFrame
      <4> HIDE DEF TypeOK
      <4> QED
        BY <4>1, <1>e
    <3>2. CASE ~b
      BY <1>37, <3>2 DEF TickFrame
    <3> QED
      BY <3>1, <3>2
  <2> QED
    BY <1>37, <2>1, ZenonT(40) DEF TickFrame
<1> HIDE DEF TypeOK, PC, peerVars, puberVars, smsVars, registryVars, mainVars,
             poolVars
<1> QED
  BY <1>1, <1>2, <1>3, <1>4, <1>5, <1>6, <1>7, <1>8, <1>9, <1>10, <1>11, <1>12,
     <1>13, <1>14, <1>15, <1>16, <1>17, <1>18, <1>19, <1>20, <1>21, <1>22,
     <1>23, <1>24, <1>25, <1>26, <1>27, <1>28, <1>29, <1>30, <1>31, <1>32,
     <1>33, <1>34, <1>35, <1>36, <1>37
     DEF Next, Environment, Main, MainLoop, PeerTick, Dispatch, Pool, PoolFrame

-----------------------------------------------------------------------------
(* The steps, grouped by what they change *)

\* Steps of a peer's tick that call nothing and keep its publisher and suber.
ControlStep ==
  \/ NoParams \/ RetryPublish \/ NoRetry \/ CheckClose \/ RecvClose \/ NoMoreData
  \/ \E b \in BOOLEAN : RecvStatueChanged(b)

\* A session names its stream.
CommandStep == SetStreamId \/ RecvCommand

\* Calls that change at most the codec counts.
CodecStep ==
  (\E s \in Sms : ResetSubCodecType(s)) \/ ResetNotJoined \/ UnSubscribeNotJoined

\* The network threads, the RTN library and the clock open peers and set flags.
LEMMA EnvironmentFrame ==
  ASSUME IInv, Environment
  PROVE  /\ UNCHANGED <<stream, selfCtrl, pubers, subers, puberVars, smsVars,
                        registryVars, mainVars, poolVars>>
         /\ \A p \in Peers : peerState[p] = "open" => peerState'[p] = "open"
         /\ \A p \in Peers : tryTime'[p] # "off" => tryTime[p] # "off"
         /\ \A p \in Peers : peerState'[p] # peerState[p] =>
              peerState[p] = "absent" /\ peerState'[p] = "open"
<1> USE DEF IInv, TypeOK
<1>1. CASE \E p \in Peers, b \in BOOLEAN : NewConnection(p, b)
  BY <1>1 DEF NewConnection
<1>2. CASE \E p \in Peers : ConnectionClosed(p)
  BY <1>2 DEF ConnectionClosed
<1>3. CASE \E p \in Peers : RtnPublishClosed(p)
  BY <1>3 DEF RtnPublishClosed
<1>4. CASE \E p \in Peers : TryTimeDue(p)
  BY <1>4 DEF TryTimeDue
<1> HIDE DEF IInv, TypeOK
<1> QED
  BY <1>1, <1>2, <1>3, <1>4 DEF Environment

\* These steps of a peer's tick set its flags and the control of the main thread.
LEMMA ControlFrame ==
  ASSUME ControlStep
  PROVE  /\ UNCHANGED <<peerState, stream, selfCtrl, pubers, subers, self, local,
                        puberVars, smsVars, registryVars, poolVars>>
         /\ pc \notin CallPC
         /\ pc' \notin {"attach", "subattach", "detach", "delpuber"}
BY DEF ControlStep, NoParams, RetryPublish, NoRetry, CheckClose, RecvClose,
       NoMoreData, RecvStatueChanged, CallPC, peerVars, mainVars

\* The pool threads change encoders and their own control only.
LEMMA PoolFrames ==
  ASSUME NEW t \in Threads, Pool(t)
  PROVE  UNCHANGED <<peerVars, thread, stream_media_suber, nextThread, smsVars,
                     registryVars, mainVars>>
BY DEF Pool, PoolFrame, RoundBegin, RoundEnd, TickFrame, TickFrameNoSuber,
       TickDispatch, puberVars, poolVars

\* A peer that names its stream had neither a publisher nor a suber before.
LEMMA CommandFrame ==
  ASSUME IInv, CommandStep
  PROVE  /\ self \in Peers /\ self \notin pubers \cup subers
         /\ \A p \in Peers \ {self} : stream'[p] = stream[p] /\ thread'[p] = thread[p]
         /\ stream'[self] \in Streams
         /\ pubers \subseteq pubers' /\ subers \subseteq subers'
         /\ pc \notin CallPC /\ pc' \in {"trypub", "sub", "codec"}
         /\ UNCHANGED <<self, local, stream_media_suber, smsVars, registryVars, poolVars>>
<1> USE DEF IInv, TypeOK
<1>1. self \in Peers
  BY DEF CommandStep, SetStreamId, RecvCommand, ControlInv
<1>2. stream[self] = NULL /\ self \notin pubers \cup subers
  BY <1>1 DEF CommandStep, SetStreamId, RecvCommand, Publish, Play, PeerInv
<1>3. pc \in {"params", "data"}
  BY DEF CommandStep, SetStreamId, RecvCommand
<1>4. PICK k \in Streams, l \in {"retry", "data"} :
        Publish(k, l) \/ \E c \in BOOLEAN : Play(k, c, l)
  BY DEF CommandStep, SetStreamId, RecvCommand
<1>5. CASE Publish(k, l)
  BY <1>1, <1>2, <1>3, <1>5 DEF Publish, CallPC, smsVars
<1>6. CASE \E c \in BOOLEAN : Play(k, c, l)
  BY <1>1, <1>2, <1>3, <1>6 DEF Play, CallPC, puberVars
<1> HIDE DEF IInv, TypeOK
<1> QED
  BY <1>4, <1>5, <1>6

\* SetRegistered waits for the lock of the publisher it changes.
LEMMA SetRegisteredFrame ==
  ASSUME TypeOK, NEW k \in Streams, NEW s \in Sms \cup {NULL}, SetRegistered(k, s)
  PROVE  /\ \A p \in Peers : stream_media_suber'[p] =
                IF p = mapX2MediaPuber[k] THEN s ELSE stream_media_suber[p]
         /\ mapX2MediaPuber[k] # NULL => SuberLockFree(mapX2MediaPuber[k])
<1>1. CASE mapX2MediaPuber[k] = NULL
  <2>1. UNCHANGED stream_media_suber
    BY <1>1 DEF SetRegistered
  <2>2. \A p \in Peers : p # mapX2MediaPuber[k]
    BY <1>1
  <2> QED
    BY <2>1, <2>2, <1>1 DEF TypeOK
<1>2. CASE mapX2MediaPuber[k] # NULL
  <2>1. stream_media_suber' = [stream_media_suber EXCEPT ![mapX2MediaPuber[k]] = s]
    BY <1>2 DEF SetRegistered
  <2>2. SuberLockFree(mapX2MediaPuber[k])
    BY <1>2 DEF SetRegistered
  <2>3. \A p \in Peers : stream_media_suber'[p] =
          IF p = mapX2MediaPuber[k] THEN s ELSE stream_media_suber[p]
    BY <2>1 DEF TypeOK
  <2> QED
    BY <2>2, <2>3
<1> QED
  BY <1>1, <1>2

\* ResetSubCodecType, and the calls that find no suber of the peer, change the
\* codec counts only and return.
LEMMA CodecFrame ==
  ASSUME IInv, CodecStep
  PROVE  /\ pc \in {"codec", "unsub"} /\ pc' = ret
         /\ pc = "unsub" => \A s \in Sms : self \notin mapMediaSuber[s]
         /\ UNCHANGED <<peerVars, puberVars, allocated, mapMediaSuber, registryVars,
                        self, ret, local, poolVars>>
<1>1. CASE \E s \in Sms : ResetSubCodecType(s)
  BY <1>1 DEF ResetSubCodecType
<1>2. CASE ResetNotJoined
  BY <1>2 DEF ResetNotJoined, smsVars
<1>3. CASE UnSubscribeNotJoined
  <2>1. \A s \in Sms : self \notin mapMediaSuber[s]
    BY <1>3 DEF UnSubscribeNotJoined, NotJoined, Joined, IInv, SmsInv
  <2> QED
    BY <1>3, <2>1 DEF UnSubscribeNotJoined, smsVars
<1> QED
  BY <1>1, <1>2, <1>3 DEF CodecStep

\* What SmsInv depends on.
LEMMA SmsInvFrame ==
  ASSUME SmsInv,
         UNCHANGED <<listDelete, allocated, mapStreamMediaSuber, mapMediaSuber,
                     subers, stream, self, local>>,
         pc' = pc \/ pc' \notin {"subattach", "detach"}
  PROVE  SmsInv'
BY DEF SmsInv

-----------------------------------------------------------------------------
(* Each conjunct of the invariant is kept by every step *)

\* Where the main thread is says what the peer it ticks has.
LEMMA ControlInvStep == IInv /\ [Next]_vars => ControlInv'
<1> SUFFICES ASSUME IInv, [Next]_vars PROVE ControlInv'
  OBVIOUS
<1>0. TypeOK /\ ControlInv /\ PeerInv /\ SmsInv
  BY DEF IInv
<1> USE DEF TypeOK, PC, ControlInv, CallPC, PeerInv, Closing, SmsInv, peerVars,
            puberVars, smsVars, registryVars, mainVars, poolVars
<1>1. CASE UNCHANGED vars
  BY <1>0, <1>1 DEF vars
<1>2. CASE Environment
  BY <1>0, <1>2, SMTT(30)
    DEF Environment, NewConnection, ConnectionClosed,
         RtnPublishClosed, TryTimeDue, PeerTickLockFree
<1>3. CASE MainLoop
  <2>1. CASE ProxyRunOnce
    BY <1>0, <2>1 DEF ProxyRunOnce
  <2>2. CASE DispatchRunOnce
    BY <1>0, <2>2 DEF DispatchRunOnce
  <2>3. CASE TickNext
    BY <1>0, <2>3 DEF TickNext, Following
  <2>4. CASE TickEnd
    BY <1>0, <2>4 DEF TickEnd
  <2> QED
    BY <1>3, <2>1, <2>2, <2>3, <2>4 DEF MainLoop
<1>4. CASE ControlStep
  BY <1>0, <1>4, SMTT(30)
    DEF ControlStep, NoParams, RetryPublish, NoRetry, CheckClose,
         RecvClose, NoMoreData, RecvStatueChanged
<1>5. CASE CommandStep
  BY <1>0, <1>5 DEF CommandStep, SetStreamId, RecvCommand, Publish, Play
<1>6. CASE DeletePuber
  BY <1>0, <1>6 DEF DeletePuber, TickLockFree
<1>7. CASE FinishClose
  BY <1>0, <1>7 DEF FinishClose
<1>8. CASE TryPublishRefused
  BY <1>0, <1>8 DEF TryPublishRefused
<1>9. CASE TryPublishOK
  BY <1>0, <1>9 DEF TryPublishOK
<1>10. CASE TryPublishAttach
  BY <1>0, <1>10 DEF TryPublishAttach, SuberLockFree
<1>11. CASE UnPublish
  BY <1>0, <1>11 DEF UnPublish, SetRegistered, SuberLockFree
<1>12. CASE \E s \in Sms : SubscribeFirst(s)
  BY <1>0, <1>12 DEF SubscribeFirst
<1>13. CASE SubscribeAttach
  BY <1>0, <1>13 DEF SubscribeAttach, SetRegistered, SuberLockFree
<1>14. CASE SubscribeJoin
  BY <1>0, <1>14 DEF SubscribeJoin
<1>15. CASE CodecStep
  BY <1>0, <1>15, CodecFrame
<1>16. CASE \E s \in Sms : UnSubscribe(s)
  BY <1>0, <1>16, SMTT(30) DEF UnSubscribe, Joined
<1>17. CASE UnSubscribeDetach
  BY <1>0, <1>17 DEF UnSubscribeDetach, SetRegistered, SuberLockFree
<1>18. CASE \E t \in Threads : Pool(t)
  BY <1>0, <1>18
    DEF Pool, PoolFrame, RoundBegin, RoundEnd, TickFrame,
         TickFrameNoSuber, TickDispatch
<1> HIDE DEF TypeOK, PC, ControlInv, CallPC, PeerInv, Closing, SmsInv,
             peerVars, puberVars, smsVars, registryVars, mainVars, poolVars
<1> QED
  BY <1>1, <1>2, <1>3, <1>4, <1>5, <1>6, <1>7, <1>8, <1>9, <1>10, <1>11,
      <1>12, <1>13, <1>14, <1>15, <1>16, <1>17, <1>18
     DEF Next, Main, MainLoop, PeerTick, Dispatch, ControlStep, CommandStep,
         CodecStep

\* Publishers and subers belong to open peers.
LEMMA PeerInvStep == IInv /\ [Next]_vars => PeerInv'
<1> SUFFICES ASSUME IInv, [Next]_vars PROVE PeerInv'
  OBVIOUS
<1>0. TypeOK /\ ControlInv /\ PeerInv
  BY DEF IInv
<1> USE DEF TypeOK, ControlInv, CallPC, PeerInv, Closing, peerVars, puberVars,
            smsVars, registryVars, mainVars, poolVars
<1>1. CASE UNCHANGED vars
  BY <1>0, <1>1 DEF vars
<1>2. CASE Environment
  BY <1>0, <1>2, EnvironmentFrame
<1>3. CASE MainLoop
  BY <1>0, <1>3, SMTT(30)
    DEF MainLoop, ProxyRunOnce, DispatchRunOnce, TickNext, TickEnd,
         Following
<1>4. CASE ControlStep
  BY <1>0, <1>4
    DEF ControlStep, NoParams, RetryPublish, NoRetry, CheckClose,
         RecvClose, NoMoreData, RecvStatueChanged
<1>5. CASE CommandStep
  BY <1>0, <1>5, SMTT(30) DEF CommandStep, SetStreamId, RecvCommand, Publish, Play
<1>6. CASE DeletePuber
  BY <1>0, <1>6 DEF DeletePuber, TickLockFree
<1>7. CASE FinishClose
  BY <1>0, <1>7 DEF FinishClose
<1>8. CASE TryPublishRefused
  BY <1>0, <1>8 DEF TryPublishRefused
<1>9. CASE TryPublishOK
  BY <1>0, <1>9 DEF TryPublishOK
<1>10. CASE TryPublishAttach
  BY <1>0, <1>10 DEF TryPublishAttach, SuberLockFree
<1>11. CASE UnPublish
  BY <1>0, <1>11 DEF UnPublish, SetRegistered, SuberLockFree
<1>12. CASE \E s \in Sms : SubscribeFirst(s)
  BY <1>0, <1>12 DEF SubscribeFirst
<1>13. CASE SubscribeAttach
  BY <1>0, <1>13 DEF SubscribeAttach, SetRegistered, SuberLockFree
<1>14. CASE SubscribeJoin
  BY <1>0, <1>14 DEF SubscribeJoin
<1>15. CASE CodecStep
  BY <1>0, <1>15, CodecFrame
<1>16. CASE \E s \in Sms : UnSubscribe(s)
  BY <1>0, <1>16 DEF UnSubscribe, Joined
<1>17. CASE UnSubscribeDetach
  BY <1>0, <1>17 DEF UnSubscribeDetach, SetRegistered, SuberLockFree
<1>18. CASE \E t \in Threads : Pool(t)
  BY <1>0, <1>18, SMTT(30)
    DEF Pool, PoolFrame, RoundBegin, RoundEnd, TickFrame,
         TickFrameNoSuber, TickDispatch
<1> HIDE DEF TypeOK, ControlInv, CallPC, PeerInv, Closing, peerVars, puberVars,
             smsVars, registryVars, mainVars, poolVars
<1> QED
  BY <1>1, <1>2, <1>3, <1>4, <1>5, <1>6, <1>7, <1>8, <1>9, <1>10, <1>11,
      <1>12, <1>13, <1>14, <1>15, <1>16, <1>17, <1>18
     DEF Next, Main, MainLoop, PeerTick, Dispatch, ControlStep, CommandStep,
         CodecStep

\* UnPublish takes a publisher out of the registry before it is deleted.
LEMMA PuberInvStep == IInv /\ [Next]_vars => PuberInv'
<1> SUFFICES ASSUME IInv, [Next]_vars PROVE PuberInv'
  OBVIOUS
<1>0. TypeOK /\ ControlInv /\ PeerInv /\ PuberInv
  BY DEF IInv
<1> USE DEF TypeOK, ControlInv, CallPC, PeerInv, PuberInv, peerVars, puberVars,
            smsVars, registryVars, mainVars, poolVars
<1>1. CASE UNCHANGED vars
  BY <1>0, <1>1 DEF vars
<1>2. CASE Environment
  BY <1>0, <1>2, EnvironmentFrame
<1>3. CASE MainLoop
  BY <1>0, <1>3
    DEF MainLoop, ProxyRunOnce, DispatchRunOnce, TickNext, TickEnd,
         Following
<1>4. CASE ControlStep
  BY <1>0, <1>4, ControlFrame
<1>5. CASE CommandStep
  <2> HIDE DEF TypeOK, ControlInv, PeerInv, PuberInv
  <2>1. mapX2MediaPuber \in [Streams -> Peers \cup {NULL}]
    BY <1>0 DEF TypeOK
  <2> QED
    BY <1>0, <1>5, <2>1, CommandFrame DEF PuberInv
<1>6. CASE DeletePuber
  BY <1>0, <1>6 DEF DeletePuber, TickLockFree
<1>7. CASE FinishClose
  BY <1>0, <1>7 DEF FinishClose
<1>8. CASE TryPublishRefused
  BY <1>0, <1>8 DEF TryPublishRefused
<1>9. CASE TryPublishOK
  BY <1>0, <1>9 DEF TryPublishOK
<1>10. CASE TryPublishAttach
  BY <1>0, <1>10 DEF TryPublishAttach, SuberLockFree
<1>11. CASE UnPublish
  BY <1>0, <1>11 DEF UnPublish, SetRegistered, SuberLockFree
<1>12. CASE \E s \in Sms : SubscribeFirst(s)
  BY <1>0, <1>12 DEF SubscribeFirst
<1>13. CASE SubscribeAttach
  BY <1>0, <1>13 DEF SubscribeAttach, SetRegistered, SuberLockFree
<1>14. CASE SubscribeJoin
  BY <1>0, <1>14 DEF SubscribeJoin
<1>15. CASE CodecStep
  BY <1>0, <1>15, CodecFrame
<1>16. CASE \E s \in Sms : UnSubscribe(s)
  BY <1>0, <1>16 DEF UnSubscribe, Joined
<1>17. CASE UnSubscribeDetach
  BY <1>0, <1>17 DEF UnSubscribeDetach, SetRegistered, SuberLockFree
<1>18. CASE \E t \in Threads : Pool(t)
  BY <1>0, <1>18
    DEF Pool, PoolFrame, RoundBegin, RoundEnd, TickFrame,
         TickFrameNoSuber, TickDispatch
<1> HIDE DEF TypeOK, ControlInv, CallPC, PeerInv, PuberInv, peerVars,
             puberVars, smsVars, registryVars, mainVars, poolVars
<1> QED
  BY <1>1, <1>2, <1>3, <1>4, <1>5, <1>6, <1>7, <1>8, <1>9, <1>10, <1>11,
      <1>12, <1>13, <1>14, <1>15, <1>16, <1>17, <1>18
     DEF Next, Main, MainLoop, PeerTick, Dispatch, ControlStep, CommandStep,
         CodecStep

\* A StreamMediaSuber is queued for deletion once it is in no map.
LEMMA SmsInvStep == IInv /\ [Next]_vars => SmsInv'
<1> SUFFICES ASSUME IInv, [Next]_vars PROVE SmsInv'
  OBVIOUS
<1>0. TypeOK /\ ControlInv /\ PeerInv /\ SmsInv
  BY DEF IInv
<1> USE DEF TypeOK, ControlInv, CallPC, PeerInv, SmsInv, peerVars, puberVars,
            smsVars, registryVars, mainVars, poolVars
<1>1. CASE UNCHANGED vars
  BY <1>0, <1>1 DEF vars
<1>2. CASE Environment
  <2> HIDE DEF TypeOK, ControlInv, PeerInv, SmsInv
  <2> QED
    BY <1>0, <1>2, EnvironmentFrame, SmsInvFrame
<1>3. CASE MainLoop
  BY <1>0, <1>3, ZenonT(40)
    DEF MainLoop, ProxyRunOnce, DispatchRunOnce, TickNext, TickEnd,
         Following
<1>4. CASE ControlStep
  <2> HIDE DEF TypeOK, ControlInv, PeerInv, SmsInv
  <2> QED
    BY <1>0, <1>4, ControlFrame, SmsInvFrame
<1>5. CASE CommandStep
  <2> HIDE DEF TypeOK, ControlInv, PeerInv, SmsInv
  <2>1. mapMediaSuber \in [Sms -> SUBSET Peers]
    BY <1>0 DEF TypeOK
  <2>2. /\ \A p \in Peers \cap subers : p \in subers' /\ stream'[p] = stream[p]
        /\ UNCHANGED <<listDelete, allocated, mapStreamMediaSuber, mapMediaSuber>>
        /\ pc' \notin {"subattach", "detach"}
    BY <1>5, CommandFrame
  <2> QED
    BY <1>0, <2>1, <2>2 DEF SmsInv
<1>6. CASE DeletePuber
  BY <1>0, <1>6 DEF DeletePuber, TickLockFree
<1>7. CASE FinishClose
  BY <1>0, <1>7 DEF FinishClose
<1>8. CASE TryPublishRefused
  BY <1>0, <1>8 DEF TryPublishRefused
<1>9. CASE TryPublishOK
  BY <1>0, <1>9 DEF TryPublishOK
<1>10. CASE TryPublishAttach
  BY <1>0, <1>10 DEF TryPublishAttach, SuberLockFree
<1>11. CASE UnPublish
  BY <1>0, <1>11 DEF UnPublish, SetRegistered, SuberLockFree
<1>12. CASE \E s \in Sms : SubscribeFirst(s)
  BY <1>0, <1>12 DEF SubscribeFirst
<1>13. CASE SubscribeAttach
  BY <1>0, <1>13 DEF SubscribeAttach, SetRegistered, SuberLockFree
<1>14. CASE SubscribeJoin
  BY <1>0, <1>14 DEF SubscribeJoin
<1>15. CASE CodecStep
  <2> HIDE DEF TypeOK, ControlInv, PeerInv, SmsInv
  <2>1. ret \notin {"subattach", "detach"}
    BY <1>0 DEF TypeOK
  <2> QED
    BY <1>0, <1>15, <2>1, CodecFrame, SmsInvFrame
<1>16. CASE \E s \in Sms : UnSubscribe(s)
  <2>1. PICK s \in Sms : UnSubscribe(s)
    BY <1>16
  <2>2. /\ self \in Peers /\ stream[self] \in Streams /\ pc' # "subattach"
        /\ s = mapStreamMediaSuber[stream[self]]
        /\ s \in allocated \ listDelete
        /\ mapMediaSuber' = [mapMediaSuber EXCEPT ![s] = @ \ {self}]
        /\ UNCHANGED <<stream, subers, allocated, listDelete, self>>
    BY <1>0, <2>1 DEF UnSubscribe, Joined
  <2>3. CASE mapMediaSuber[s] = {self}
    <3>1. /\ mapStreamMediaSuber' = [mapStreamMediaSuber EXCEPT ![stream[self]] = NULL]
          /\ local' = s
      BY <2>1, <2>3 DEF UnSubscribe
    <3> QED
      BY <1>0, <2>2, <2>3, <3>1
  <2>4. CASE mapMediaSuber[s] # {self}
    <3>1. UNCHANGED mapStreamMediaSuber /\ pc' # "detach"
      BY <1>0, <2>1, <2>4 DEF UnSubscribe
    <3> QED
      BY <1>0, <2>2, <3>1
  <2> QED
    BY <2>3, <2>4
<1>17. CASE UnSubscribeDetach
  BY <1>0, <1>17 DEF UnSubscribeDetach, SetRegistered, SuberLockFree
<1>18. CASE \E t \in Threads : Pool(t)
  <2> HIDE DEF TypeOK, ControlInv, PeerInv, SmsInv
  <2> QED
    BY <1>0, <1>18, PoolFrames, SmsInvFrame
<1> HIDE DEF TypeOK, ControlInv, CallPC, PeerInv, SmsInv, peerVars, puberVars,
             smsVars, registryVars, mainVars, poolVars
<1> QED
  BY <1>1, <1>2, <1>3, <1>4, <1>5, <1>6, <1>7, <1>8, <1>9, <1>10, <1>11,
      <1>12, <1>13, <1>14, <1>15, <1>16, <1>17, <1>18
     DEF Next, Main, MainLoop, PeerTick, Dispatch, ControlStep, CommandStep,
         CodecStep

\* A publisher feeds the subscribers of its own stream only.
LEMMA FeedInvStep == IInv /\ [Next]_vars => FeedInv'
<1> SUFFICES ASSUME IInv, [Next]_vars PROVE FeedInv'
  OBVIOUS
<1>0. TypeOK /\ ControlInv /\ PeerInv /\ PuberInv /\ SmsInv /\ FeedInv /\ ConnectInv
  BY DEF IInv
<1> USE DEF TypeOK, ControlInv, CallPC, PeerInv, PuberInv, SmsInv, FeedInv,
            ConnectInv, peerVars, puberVars, smsVars, registryVars, mainVars,
            poolVars
<1>1. CASE UNCHANGED vars
  BY <1>0, <1>1 DEF vars
<1>2. CASE Environment
  BY <1>0, <1>2, EnvironmentFrame
<1>3. CASE MainLoop
  BY <1>0, <1>3, SMTT(30)
    DEF MainLoop, ProxyRunOnce, DispatchRunOnce, TickNext, TickEnd,
         Following
<1>4. CASE ControlStep
  BY <1>0, <1>4, ControlFrame
<1>5. CASE CommandStep
  BY <1>0, <1>5, SMTT(30) DEF CommandStep, SetStreamId, RecvCommand, Publish, Play
<1>6. CASE DeletePuber
  BY <1>0, <1>6 DEF DeletePuber, TickLockFree
<1>7. CASE FinishClose
  BY <1>0, <1>7 DEF FinishClose
<1>8. CASE TryPublishRefused
  BY <1>0, <1>8 DEF TryPublishRefused
<1>9. CASE TryPublishOK
  BY <1>0, <1>9 DEF TryPublishOK
<1>10. CASE TryPublishAttach
  <2>1. self \in Peers /\ stream[self] \in Streams
    BY <1>0, <1>10 DEF TryPublishAttach
  <2>2. CASE mapStreamMediaSuber[stream[self]] = NULL
    BY <1>0, <1>10, <2>1, <2>2 DEF TryPublishAttach
  <2>3. CASE mapStreamMediaSuber[stream[self]] # NULL
    <3>1. /\ SuberLockFree(self)
          /\ \A p \in Peers : stream_media_suber'[p] =
               IF p = self THEN mapStreamMediaSuber[stream[self]]
               ELSE stream_media_suber[p]
      BY <1>0, <1>10, <2>1, <2>3 DEF TryPublishAttach
    <3> QED
      BY <1>0, <1>10, <2>1, <2>3, <3>1, SMTT(30) DEF TryPublishAttach, SuberLockFree
  <2> QED
    BY <2>2, <2>3
<1>11. CASE UnPublish
  BY <1>0, <1>11, SMTT(30) DEF UnPublish, SetRegistered, SuberLockFree
<1>12. CASE \E s \in Sms : SubscribeFirst(s)
  BY <1>0, <1>12 DEF SubscribeFirst
<1>13. CASE SubscribeAttach
  BY <1>0, <1>13 DEF SubscribeAttach, SetRegistered, SuberLockFree
<1>14. CASE SubscribeJoin
  BY <1>0, <1>14 DEF SubscribeJoin
<1>15. CASE CodecStep
  BY <1>0, <1>15, CodecFrame
<1>16. CASE \E s \in Sms : UnSubscribe(s)
  BY <1>0, <1>16, SMTT(30) DEF UnSubscribe, Joined
<1>17. CASE UnSubscribeDetach
  BY <1>0, <1>17 DEF UnSubscribeDetach, SetRegistered, SuberLockFree
<1>18. CASE \E t \in Threads : Pool(t)
  BY <1>0, <1>18, PoolFrames, SMTT(30)
<1> HIDE DEF TypeOK, ControlInv, CallPC, PeerInv, PuberInv, SmsInv, FeedInv,
             ConnectInv, peerVars, puberVars, smsVars, registryVars, mainVars,
             poolVars
<1> QED
  BY <1>1, <1>2, <1>3, <1>4, <1>5, <1>6, <1>7, <1>8, <1>9, <1>10, <1>11,
      <1>12, <1>13, <1>14, <1>15, <1>16, <1>17, <1>18
     DEF Next, Main, MainLoop, PeerTick, Dispatch, ControlStep, CommandStep,
         CodecStep

\* Publisher and subscribers are connected in either order of arrival.
LEMMA ConnectInvStep == IInv /\ [Next]_vars => ConnectInv'
<1> SUFFICES ASSUME IInv, [Next]_vars PROVE ConnectInv'
  OBVIOUS
<1>0. TypeOK /\ ControlInv /\ PeerInv /\ PuberInv /\ SmsInv /\ FeedInv /\ ConnectInv
  BY DEF IInv
<1> USE DEF TypeOK, ControlInv, CallPC, PeerInv, PuberInv, SmsInv, FeedInv,
            ConnectInv, peerVars, puberVars, smsVars, registryVars, mainVars,
            poolVars
<1>1. CASE UNCHANGED vars
  BY <1>0, <1>1 DEF vars
<1>2. CASE Environment
  BY <1>0, <1>2
    DEF Environment, NewConnection, ConnectionClosed,
         RtnPublishClosed, TryTimeDue, PeerTickLockFree
<1>3. CASE MainLoop
  BY <1>0, <1>3
    DEF MainLoop, ProxyRunOnce, DispatchRunOnce, TickNext, TickEnd,
         Following
<1>4. CASE ControlStep
  BY <1>0, <1>4, ControlFrame
<1>5. CASE CommandStep
  BY <1>0, <1>5 DEF CommandStep, SetStreamId, RecvCommand, Publish, Play
<1>6. CASE DeletePuber
  BY <1>0, <1>6 DEF DeletePuber, TickLockFree
<1>7. CASE FinishClose
  BY <1>0, <1>7 DEF FinishClose
<1>8. CASE TryPublishRefused
  BY <1>0, <1>8 DEF TryPublishRefused
<1>9. CASE TryPublishOK
  BY <1>0, <1>9 DEF TryPublishOK
<1>10. CASE TryPublishAttach
  <2>1. self \in Peers /\ stream[self] \in Streams
    BY <1>0, <1>10 DEF TryPublishAttach
  <2>2. CASE mapStreamMediaSuber[stream[self]] = NULL
    BY <1>0, <1>10, <2>1, <2>2 DEF TryPublishAttach
  <2>3. CASE mapStreamMediaSuber[stream[self]] # NULL
    <3>1. /\ SuberLockFree(self)
          /\ \A p \in Peers : stream_media_suber'[p] =
               IF p = self THEN mapStreamMediaSuber[stream[self]]
               ELSE stream_media_suber[p]
      BY <1>0, <1>10, <2>1, <2>3 DEF TryPublishAttach
    <3>2. \A k \in Streams : mapX2MediaPuber[k] # NULL =>
            mapX2MediaPuber[k] \in Peers /\ (mapX2MediaPuber[k] = self => k = stream[self])
      BY <1>0
    <3>3. ret # "attach" /\ ret \notin {"subattach", "detach"}
      BY <1>0
    <3>4. UNCHANGED <<mapX2MediaPuber, mapStreamMediaSuber, stream, self>> /\ pc' = ret
      BY <1>10 DEF TryPublishAttach
    <3>5. pc = "attach"
      BY <1>10 DEF TryPublishAttach
    <3> HIDE DEF TypeOK, ControlInv, PeerInv, PuberInv, SmsInv, FeedInv
    <3> QED
      BY <1>0, <2>1, <3>1, <3>2, <3>3, <3>4, <3>5
  <2> QED
    BY <2>2, <2>3
<1>11. CASE UnPublish
  <2>1. stream[self] \in Streams /\ local \in Sms \cup {NULL}
    BY <1>0, <1>11 DEF UnPublish
  <2>2. SetRegistered(stream[self], NULL)
    BY <1>0, <1>11 DEF UnPublish
  <2> HIDE DEF TypeOK, ControlInv, PeerInv, PuberInv, SmsInv, FeedInv, ConnectInv
  <2>3. /\ \A p \in Peers : stream_media_suber'[p] =
              IF p = mapX2MediaPuber[stream[self]] THEN NULL ELSE stream_media_suber[p]
        /\ mapX2MediaPuber[stream[self]] # NULL =>
             SuberLockFree(mapX2MediaPuber[stream[self]])
    BY <1>0, <2>1, <2>2, SetRegisteredFrame
  <2>4. \A k \in Streams : mapX2MediaPuber[k] # NULL =>
          /\ mapX2MediaPuber[k] \in Peers
          /\ k # stream[self] => mapX2MediaPuber[k] # mapX2MediaPuber[stream[self]]
    BY <1>0, <2>1 DEF PuberInv, TypeOK
  <2>5. mapX2MediaPuber \in [Streams -> Peers \cup {NULL}] /\ ret # "attach"
        /\ ret \notin {"subattach", "detach"}
    BY <1>0 DEF TypeOK
  <2> QED
    BY <1>0, <1>11, <2>1, <2>3, <2>4, <2>5 DEF UnPublish, ConnectInv
<1>12. CASE \E s \in Sms : SubscribeFirst(s)
  BY <1>0, <1>12 DEF SubscribeFirst
<1>13. CASE SubscribeAttach
  <2>1. stream[self] \in Streams /\ local \in Sms \cup {NULL}
    BY <1>0, <1>13 DEF SubscribeAttach
  <2>2. SetRegistered(stream[self], local)
    BY <1>0, <1>13 DEF SubscribeAttach
  <2> HIDE DEF TypeOK, ControlInv, PeerInv, PuberInv, SmsInv, FeedInv, ConnectInv
  <2>3. /\ \A p \in Peers : stream_media_suber'[p] =
              IF p = mapX2MediaPuber[stream[self]] THEN local ELSE stream_media_suber[p]
        /\ mapX2MediaPuber[stream[self]] # NULL =>
             SuberLockFree(mapX2MediaPuber[stream[self]])
    BY <1>0, <2>1, <2>2, SetRegisteredFrame
  <2>4. \A k \in Streams : mapX2MediaPuber[k] # NULL =>
          /\ mapX2MediaPuber[k] \in Peers
          /\ k # stream[self] => mapX2MediaPuber[k] # mapX2MediaPuber[stream[self]]
    BY <1>0, <2>1 DEF PuberInv, TypeOK
  <2>5. mapX2MediaPuber \in [Streams -> Peers \cup {NULL}] /\ ret # "attach"
        /\ ret \notin {"subattach", "detach"}
    BY <1>0 DEF TypeOK
  <2> QED
    BY <1>0, <1>13, <2>1, <2>3, <2>4, <2>5 DEF SubscribeAttach, ConnectInv, SmsInv
<1>14. CASE SubscribeJoin
  BY <1>0, <1>14 DEF SubscribeJoin
<1>15. CASE CodecStep
  BY <1>0, <1>15, CodecFrame
<1>16. CASE \E s \in Sms : UnSubscribe(s)
  BY <1>0, <1>16, SMTT(30) DEF UnSubscribe, Joined
<1>17. CASE UnSubscribeDetach
  <2>1. stream[self] \in Streams /\ local \in Sms \cup {NULL}
    BY <1>0, <1>17 DEF UnSubscribeDetach
  <2>2. SetRegistered(stream[self], NULL)
    BY <1>0, <1>17 DEF UnSubscribeDetach
  <2> HIDE DEF TypeOK, ControlInv, PeerInv, PuberInv, SmsInv, FeedInv, ConnectInv
  <2>3. /\ \A p \in Peers : stream_media_suber'[p] =
              IF p = mapX2MediaPuber[stream[self]] THEN NULL ELSE stream_media_suber[p]
        /\ mapX2MediaPuber[stream[self]] # NULL =>
             SuberLockFree(mapX2MediaPuber[stream[self]])
    BY <1>0, <2>1, <2>2, SetRegisteredFrame
  <2>4. \A k \in Streams : mapX2MediaPuber[k] # NULL =>
          /\ mapX2MediaPuber[k] \in Peers
          /\ k # stream[self] => mapX2MediaPuber[k] # mapX2MediaPuber[stream[self]]
    BY <1>0, <2>1 DEF PuberInv, TypeOK
  <2>5. mapX2MediaPuber \in [Streams -> Peers \cup {NULL}] /\ ret # "attach"
        /\ ret \notin {"subattach", "detach"}
    BY <1>0 DEF TypeOK
  <2> QED
    BY <1>0, <1>17, <2>1, <2>3, <2>4, <2>5 DEF UnSubscribeDetach, ConnectInv,
       SmsInv
<1>18. CASE \E t \in Threads : Pool(t)
  BY <1>0, <1>18
    DEF Pool, PoolFrame, RoundBegin, RoundEnd, TickFrame,
         TickFrameNoSuber, TickDispatch
<1> HIDE DEF TypeOK, ControlInv, CallPC, PeerInv, PuberInv, SmsInv, FeedInv,
             ConnectInv, peerVars, puberVars, smsVars, registryVars, mainVars,
             poolVars
<1> QED
  BY <1>1, <1>2, <1>3, <1>4, <1>5, <1>6, <1>7, <1>8, <1>9, <1>10, <1>11,
      <1>12, <1>13, <1>14, <1>15, <1>16, <1>17, <1>18
     DEF Next, Main, MainLoop, PeerTick, Dispatch, ControlStep, CommandStep,
         CodecStep

\* What a pool thread holds cs_stream_media_suber_ for stays in place.
LEMMA TickInvStep == IInv /\ [Next]_vars => TickInv'
<1> SUFFICES ASSUME IInv, [Next]_vars PROVE TickInv'
  OBVIOUS
<1>0. TypeOK /\ ControlInv /\ PeerInv /\ PuberInv /\ FeedInv /\ TickInv /\ SmsInv
  BY DEF IInv
<1> USE DEF TypeOK, ControlInv, CallPC, PeerInv, PuberInv, FeedInv, TickInv,
            SmsInv, peerVars, puberVars, smsVars, registryVars, mainVars,
            poolVars
<1>1. CASE UNCHANGED vars
  BY <1>0, <1>1 DEF vars
<1>2. CASE Environment
  BY <1>0, <1>2
    DEF Environment, NewConnection, ConnectionClosed,
         RtnPublishClosed, TryTimeDue, PeerTickLockFree
<1>3. CASE MainLoop
  BY <1>0, <1>3
    DEF MainLoop, ProxyRunOnce, DispatchRunOnce, TickNext, TickEnd,
         Following
<1>4. CASE ControlStep
  BY <1>0, <1>4
    DEF ControlStep, NoParams, RetryPublish, NoRetry, CheckClose,
         RecvClose, NoMoreData, RecvStatueChanged
<1>5. CASE CommandStep
  <2> HIDE DEF TypeOK, ControlInv, PeerInv, PuberInv, FeedInv, TickInv, SmsInv
  <2>1. pubers \subseteq Peers
    BY <1>0 DEF TypeOK
  <2>2. /\ \A p \in pubers : p \in pubers' /\ thread'[p] = thread[p]
        /\ UNCHANGED <<stream_media_suber, tickPc, tickCur>>
    BY <1>5, <2>1, CommandFrame
  <2> QED
    BY <1>0, <2>2 DEF TickInv
<1>6. CASE DeletePuber
  BY <1>0, <1>6 DEF DeletePuber, TickLockFree
<1>7. CASE FinishClose
  BY <1>0, <1>7 DEF FinishClose
<1>8. CASE TryPublishRefused
  BY <1>0, <1>8 DEF TryPublishRefused
<1>9. CASE TryPublishOK
  BY <1>0, <1>9 DEF TryPublishOK
<1>10. CASE TryPublishAttach
  <2>1. self \in Peers /\ stream[self] \in Streams
    BY <1>0, <1>10 DEF TryPublishAttach
  <2>2. CASE mapStreamMediaSuber[stream[self]] = NULL
    BY <1>0, <1>10, <2>1, <2>2 DEF TryPublishAttach
  <2>3. CASE mapStreamMediaSuber[stream[self]] # NULL
    <3>1. /\ SuberLockFree(self)
          /\ \A p \in Peers : stream_media_suber'[p] =
               IF p = self THEN mapStreamMediaSuber[stream[self]]
               ELSE stream_media_suber[p]
      BY <1>0, <1>10, <2>1, <2>3, SMTT(30) DEF TryPublishAttach
    <3> QED
      BY <1>0, <1>10, <2>1, <2>3, <3>1, ZenonT(40) DEF TryPublishAttach, SuberLockFree
  <2> QED
    BY <2>2, <2>3
<1>11. CASE UnPublish
  <2>1. stream[self] \in Streams /\ local \in Sms \cup {NULL}
    BY <1>0, <1>11 DEF UnPublish
  <2>2. SetRegistered(stream[self], NULL)
    BY <1>0, <1>11 DEF UnPublish
  <2> HIDE DEF TypeOK, ControlInv, PeerInv, PuberInv, FeedInv, TickInv, SmsInv
  <2>3. /\ \A p \in Peers : stream_media_suber'[p] =
              IF p = mapX2MediaPuber[stream[self]] THEN NULL ELSE stream_media_suber[p]
        /\ mapX2MediaPuber[stream[self]] # NULL =>
             SuberLockFree(mapX2MediaPuber[stream[self]])
    BY <1>0, <2>1, <2>2, SetRegisteredFrame
  <2>4. pubers \subseteq Peers
    BY <1>0 DEF TypeOK
  <2>5. NULL \notin Peers
    OBVIOUS
  <2> QED
    BY <1>0, <1>11, <2>1, <2>3, <2>4, <2>5, ZenonT(40)
     DEF UnPublish, TickInv, SuberLockFree
<1>12. CASE \E s \in Sms : SubscribeFirst(s)
  BY <1>0, <1>12 DEF SubscribeFirst
<1>13. CASE SubscribeAttach
  <2>1. stream[self] \in Streams /\ local \in Sms \cup {NULL}
    BY <1>0, <1>13 DEF SubscribeAttach
  <2>2. SetRegistered(stream[self], local)
    BY <1>0, <1>13 DEF SubscribeAttach
  <2> HIDE DEF TypeOK, ControlInv, PeerInv, PuberInv, FeedInv, TickInv, SmsInv
  <2>3. /\ \A p \in Peers : stream_media_suber'[p] =
              IF p = mapX2MediaPuber[stream[self]] THEN local ELSE stream_media_suber[p]
        /\ mapX2MediaPuber[stream[self]] # NULL =>
             SuberLockFree(mapX2MediaPuber[stream[self]])
    BY <1>0, <2>1, <2>2, SetRegisteredFrame
  <2>4. pubers \subseteq Peers
    BY <1>0 DEF TypeOK
  <2>5. local # NULL
    BY <1>0, <1>13 DEF SmsInv, SubscribeAttach
  <2> QED
    BY <1>0, <1>13, <2>1, <2>3, <2>4, <2>5 DEF SubscribeAttach, TickInv,
       SuberLockFree
<1>14. CASE SubscribeJoin
  BY <1>0, <1>14 DEF SubscribeJoin
<1>15. CASE CodecStep
  BY <1>0, <1>15, CodecFrame
<1>16. CASE \E s \in Sms : UnSubscribe(s)
  BY <1>0, <1>16 DEF UnSubscribe, Joined
<1>17. CASE UnSubscribeDetach
  <2>1. stream[self] \in Streams /\ local \in Sms \cup {NULL}
    BY <1>0, <1>17 DEF UnSubscribeDetach
  <2>2. SetRegistered(stream[self], NULL)
    BY <1>0, <1>17 DEF UnSubscribeDetach
  <2> HIDE DEF TypeOK, ControlInv, PeerInv, PuberInv, FeedInv, TickInv, SmsInv
  <2>3. /\ \A p \in Peers : stream_media_suber'[p] =
              IF p = mapX2MediaPuber[stream[self]] THEN NULL ELSE stream_media_suber[p]
        /\ mapX2MediaPuber[stream[self]] # NULL =>
             SuberLockFree(mapX2MediaPuber[stream[self]])
    BY <1>0, <2>1, <2>2, SetRegisteredFrame
  <2>4. pubers \subseteq Peers
    BY <1>0 DEF TypeOK
  <2>5. NULL \notin Peers
    OBVIOUS
  <2> QED
    BY <1>0, <1>17, <2>1, <2>3, <2>4, <2>5, ZenonT(40) DEF UnSubscribeDetach, TickInv,
       SuberLockFree
<1>18. CASE \E t \in Threads : Pool(t)
  BY <1>0, <1>18
    DEF Pool, PoolFrame, RoundBegin, RoundEnd, TickFrame,
         TickFrameNoSuber, TickDispatch
<1> HIDE DEF TypeOK, ControlInv, CallPC, PeerInv, PuberInv, FeedInv, TickInv,
             SmsInv, peerVars, puberVars, smsVars, registryVars, mainVars,
             poolVars
<1> QED
  BY <1>1, <1>2, <1>3, <1>4, <1>5, <1>6, <1>7, <1>8, <1>9, <1>10, <1>11,
      <1>12, <1>13, <1>14, <1>15, <1>16, <1>17, <1>18
     DEF Next, Main, MainLoop, PeerTick, Dispatch, ControlStep, CommandStep,
         CodecStep

\* Each change of the registry is announced.
LEMMA RegistrarInvStep == IInv /\ [Next]_vars => RegistrarInv'
<1> SUFFICES ASSUME IInv, [Next]_vars PROVE RegistrarInv'
  OBVIOUS
<1>0. TypeOK /\ ControlInv /\ PeerInv /\ PuberInv /\ ConnectInv /\ RegistrarInv
  BY DEF IInv
<1> USE DEF TypeOK, ControlInv, CallPC, PeerInv, PuberInv, ConnectInv,
            RegistrarInv, peerVars, puberVars, smsVars, registryVars, mainVars,
            poolVars
<1>1. CASE UNCHANGED vars
  BY <1>0, <1>1 DEF vars
<1>2. CASE Environment
  BY <1>0, <1>2, SMTT(30)
    DEF Environment, NewConnection, ConnectionClosed,
         RtnPublishClosed, TryTimeDue, PeerTickLockFree
<1>3. CASE MainLoop
  BY <1>0, <1>3
    DEF MainLoop, ProxyRunOnce, DispatchRunOnce, TickNext, TickEnd,
         Following
<1>4. CASE ControlStep
  BY <1>0, <1>4, ControlFrame
<1>5. CASE CommandStep
  BY <1>0, <1>5 DEF CommandStep, SetStreamId, RecvCommand, Publish, Play
<1>6. CASE DeletePuber
  BY <1>0, <1>6 DEF DeletePuber, TickLockFree
<1>7. CASE FinishClose
  BY <1>0, <1>7 DEF FinishClose
<1>8. CASE TryPublishRefused
  BY <1>0, <1>8 DEF TryPublishRefused
<1>9. CASE TryPublishOK
  BY <1>0, <1>9 DEF TryPublishOK
<1>10. CASE TryPublishAttach
  BY <1>0, <1>10 DEF TryPublishAttach, SuberLockFree
<1>11. CASE UnPublish
  BY <1>0, <1>11 DEF UnPublish, SetRegistered, SuberLockFree
<1>12. CASE \E s \in Sms : SubscribeFirst(s)
  BY <1>0, <1>12 DEF SubscribeFirst
<1>13. CASE SubscribeAttach
  BY <1>0, <1>13 DEF SubscribeAttach, SetRegistered, SuberLockFree
<1>14. CASE SubscribeJoin
  BY <1>0, <1>14 DEF SubscribeJoin
<1>15. CASE CodecStep
  BY <1>0, <1>15, CodecFrame
<1>16. CASE \E s \in Sms : UnSubscribe(s)
  BY <1>0, <1>16 DEF UnSubscribe, Joined
<1>17. CASE UnSubscribeDetach
  BY <1>0, <1>17 DEF UnSubscribeDetach, SetRegistered, SuberLockFree
<1>18. CASE \E t \in Threads : Pool(t)
  BY <1>0, <1>18
    DEF Pool, PoolFrame, RoundBegin, RoundEnd, TickFrame,
         TickFrameNoSuber, TickDispatch
<1> HIDE DEF TypeOK, ControlInv, CallPC, PeerInv, PuberInv, ConnectInv,
             RegistrarInv, peerVars, puberVars, smsVars, registryVars,
             mainVars, poolVars
<1> QED
  BY <1>1, <1>2, <1>3, <1>4, <1>5, <1>6, <1>7, <1>8, <1>9, <1>10, <1>11,
      <1>12, <1>13, <1>14, <1>15, <1>16, <1>17, <1>18
     DEF Next, Main, MainLoop, PeerTick, Dispatch, ControlStep, CommandStep,
         CodecStep

-----------------------------------------------------------------------------
(* The encoders of a publisher *)

\* What EncoderInv depends on: a step that changes the counts of at most one
\* StreamMediaSuber, and its version whenever the codecs it wants change.
LEMMA EncoderInvFrame ==
  ASSUME TypeOK, EncoderInv, NEW s \in Sms,
         UNCHANGED <<stream_media_suber, n_aud_sub_codec_changed, mapAudEncoder>>,
         \A r \in Sms \ {s} : /\ Wanted(r)' = Wanted(r)
                              /\ nAudSubCodecChanged'[r] = nAudSubCodecChanged[r],
         \/ nAudSubCodecChanged'[s] = nAudSubCodecChanged[s] + 1
         \/ /\ nAudSubCodecChanged'[s] = nAudSubCodecChanged[s]
            /\ Wanted(s)' = Wanted(s)
  PROVE  EncoderInv'
<1> SUFFICES ASSUME NEW p \in Peers
             PROVE  /\ AudCodec[p] \notin mapAudEncoder[p]
                    /\ stream_media_suber[p] = NULL => n_aud_sub_codec_changed[p] = 0
                    /\ \A r \in Sms : stream_media_suber[p] = r =>
                         /\ n_aud_sub_codec_changed[p] <= nAudSubCodecChanged'[r]
                         /\ n_aud_sub_codec_changed[p] = nAudSubCodecChanged'[r]
                              /\ n_aud_sub_codec_changed[p] > 0
                              => mapAudEncoder[p] = Wanted(r)' \ {AudCodec[p]}
  BY DEF EncoderInv
<1>1. /\ n_aud_sub_codec_changed[p] \in Nat
      /\ \A r \in Sms : nAudSubCodecChanged[r] \in Nat
  BY DEF TypeOK
<1>2. /\ AudCodec[p] \notin mapAudEncoder[p]
      /\ stream_media_suber[p] = NULL => n_aud_sub_codec_changed[p] = 0
      /\ \A r \in Sms : stream_media_suber[p] = r =>
           /\ n_aud_sub_codec_changed[p] <= nAudSubCodecChanged[r]
           /\ n_aud_sub_codec_changed[p] = nAudSubCodecChanged[r]
                /\ n_aud_sub_codec_changed[p] > 0
                => mapAudEncoder[p] = Wanted(r) \ {AudCodec[p]}
  BY DEF EncoderInv
<1> QED
  BY <1>1, <1>2

\* Counting a codec once more or once less changes the version exactly when a
\* codec is wanted for the first time, or no longer.
LEMMA CountKeepsEncoders ==
  ASSUME TypeOK, EncoderInv, NEW s \in Sms, NEW c \in Codecs, NEW n \in Nat,
         UNCHANGED <<stream_media_suber, n_aud_sub_codec_changed, mapAudEncoder>>,
         mapAudSubCodec' = [mapAudSubCodec EXCEPT ![s][c] = n],
         nAudSubCodecChanged' =
           IF (n = 0) = (mapAudSubCodec[s][c] = 0) THEN nAudSubCodecChanged
           ELSE [nAudSubCodecChanged EXCEPT ![s] = @ + 1]
  PROVE  EncoderInv'
<1>1. /\ mapAudSubCodec \in [Sms -> [Codecs -> Nat]]
      /\ nAudSubCodecChanged \in [Sms -> Nat]
  BY DEF TypeOK
<1>2. \A r \in Sms \ {s} : /\ Wanted(r)' = Wanted(r)
                           /\ nAudSubCodecChanged'[r] = nAudSubCodecChanged[r]
  BY <1>1 DEF Wanted
<1>3. CASE (n = 0) = (mapAudSubCodec[s][c] = 0)
  <2>1. nAudSubCodecChanged'[s] = nAudSubCodecChanged[s]
    BY <1>3
  <2>2. \A d \in Codecs : mapAudSubCodec'[s][d] > 0 <=> mapAudSubCodec[s][d] > 0
    BY <1>1, <1>3
  <2>3. Wanted(s)' = Wanted(s)
    BY <2>2 DEF Wanted
  <2> QED
    BY <1>2, <2>1, <2>3, EncoderInvFrame
<1>4. CASE (n = 0) # (mapAudSubCodec[s][c] = 0)
  <2>1. nAudSubCodecChanged'[s] = nAudSubCodecChanged[s] + 1
    BY <1>1, <1>4
  <2> QED
    BY <1>2, <2>1, EncoderInvFrame
<1> QED
  BY <1>3, <1>4

\* A publisher that feeds nobody may be given a StreamMediaSuber, and one that
\* feeds somebody may lose it when its version is reset.
LEMMA AttachKeepsEncoders ==
  ASSUME TypeOK, EncoderInv, NEW q \in Peers, NEW s \in Sms \cup {NULL},
         UNCHANGED <<mapAudEncoder, mapAudSubCodec, nAudSubCodecChanged>>,
         stream_media_suber' = [stream_media_suber EXCEPT ![q] = s],
         s = NULL \/ stream_media_suber[q] \in {NULL, s},
         n_aud_sub_codec_changed' =
           IF s = NULL THEN [n_aud_sub_codec_changed EXCEPT ![q] = 0]
           ELSE n_aud_sub_codec_changed
  PROVE  EncoderInv'
<1>1. /\ n_aud_sub_codec_changed \in [Peers -> Nat]
      /\ stream_media_suber \in [Peers -> Sms \cup {NULL}]
      /\ nAudSubCodecChanged \in [Sms -> Nat]
  BY DEF TypeOK
<1>2. \A r \in Sms : Wanted(r)' = Wanted(r)
  BY DEF Wanted
<1>3. \A p \in Peers \ {q} :
        /\ stream_media_suber'[p] = stream_media_suber[p]
        /\ n_aud_sub_codec_changed'[p] = n_aud_sub_codec_changed[p]
  BY <1>1
<1>4. CASE s = NULL
  <2>1. stream_media_suber'[q] = NULL /\ n_aud_sub_codec_changed'[q] = 0
    BY <1>1, <1>4
  <2> QED
    BY <1>2, <1>3, <2>1 DEF EncoderInv
<1>5. CASE s # NULL
  <2>1. stream_media_suber'[q] = s /\ UNCHANGED n_aud_sub_codec_changed /\ s \in Sms
    BY <1>1, <1>5
  <2>2. CASE stream_media_suber[q] = NULL
    <3>1. n_aud_sub_codec_changed[q] = 0 /\ nAudSubCodecChanged[s] \in Nat
      BY <1>1, <2>1, <2>2 DEF EncoderInv
    <3> QED
      BY <1>2, <1>3, <2>1, <3>1 DEF EncoderInv
  <2>3. CASE stream_media_suber[q] = s
    BY <1>2, <1>3, <2>1, <2>3 DEF EncoderInv
  <2> QED
    BY <1>5, <2>2, <2>3
<1> QED
  BY <1>4, <1>5

\* SetRegistered is such a step.
LEMMA SetRegisteredKeepsEncoders ==
  ASSUME TypeOK, EncoderInv, NEW k \in Streams, NEW s \in Sms \cup {NULL},
         UNCHANGED <<mapAudEncoder, mapAudSubCodec, nAudSubCodecChanged>>,
         SetRegistered(k, s),
         \/ s = NULL
         \/ mapX2MediaPuber[k] # NULL =>
              stream_media_suber[mapX2MediaPuber[k]] \in {NULL, s}
  PROVE  EncoderInv'
<1>1. CASE mapX2MediaPuber[k] = NULL
  <2>1. UNCHANGED <<stream_media_suber, n_aud_sub_codec_changed>>
    BY <1>1 DEF SetRegistered
  <2> QED
    BY <2>1 DEF EncoderInv, Wanted
<1>2. CASE mapX2MediaPuber[k] # NULL
  <2>1. mapX2MediaPuber[k] \in Peers
    BY <1>2 DEF TypeOK
  <2>2. stream_media_suber' = [stream_media_suber EXCEPT ![mapX2MediaPuber[k]] = s]
    BY <1>2 DEF SetRegistered
  <2>3. n_aud_sub_codec_changed' =
          IF s = NULL THEN [n_aud_sub_codec_changed EXCEPT ![mapX2MediaPuber[k]] = 0]
          ELSE n_aud_sub_codec_changed
    BY <1>2 DEF SetRegistered
  <2> QED
    BY <1>2, <2>1, <2>2, <2>3, AttachKeepsEncoders
<1> QED
  BY <1>1, <1>2

\* What a publisher feeds has not been deleted.
LEMMA FedIsAllocated ==
  ASSUME TypeOK, PeerInv, SmsInv, FeedInv
  PROVE  \A p \in Peers : stream_media_suber[p] # NULL =>
           stream_media_suber[p] \in allocated
<1> SUFFICES ASSUME NEW p \in Peers, stream_media_suber[p] # NULL
             PROVE  stream_media_suber[p] \in allocated
  OBVIOUS
<1>1. stream[p] \in Streams
  BY DEF FeedInv, PeerInv
<1>2. CASE mapStreamMediaSuber[stream[p]] = stream_media_suber[p]
  BY <1>1, <1>2 DEF SmsInv
<1>3. CASE pc = "detach" /\ local = stream_media_suber[p]
  BY <1>3 DEF SmsInv
<1> QED
  BY <1>2, <1>3 DEF FeedInv

\* A publisher keeps the encoders of the version it has seen.
LEMMA EncoderInvStep == IInv /\ [Next]_vars => EncoderInv'
<1> SUFFICES ASSUME IInv, [Next]_vars PROVE EncoderInv'
  OBVIOUS
<1>0. TypeOK /\ ControlInv /\ PeerInv /\ PuberInv /\ SmsInv /\ FeedInv /\ ConnectInv
      /\ EncoderInv
  BY DEF IInv
<1>1. CASE UNCHANGED <<stream_media_suber, n_aud_sub_codec_changed, mapAudEncoder,
                       mapAudSubCodec, nAudSubCodecChanged>>
  BY <1>0, <1>1 DEF EncoderInv, Wanted
<1>2. CASE DeletePuber
  <2>1. self \in Peers /\ stream[self] \in Streams
    BY <1>0, <1>2 DEF DeletePuber, ControlInv, CallPC
  <2>2. stream_media_suber[self] = NULL
    BY <1>0, <1>2, <2>1 DEF DeletePuber, FeedInv, PuberInv
  <2>3. /\ UNCHANGED <<stream_media_suber, n_aud_sub_codec_changed, mapAudSubCodec,
                       nAudSubCodecChanged>>
        /\ mapAudEncoder' = [mapAudEncoder EXCEPT ![self] = {}]
    BY <1>2 DEF DeletePuber, smsVars
  <2>4. mapAudEncoder \in [Peers -> SUBSET Codecs]
    BY <1>0 DEF TypeOK
  <2> QED
    BY <1>0, <2>1, <2>2, <2>3, <2>4 DEF EncoderInv, Wanted
<1>3. CASE TryPublishAttach
  <2>1. self \in Peers /\ stream[self] \in Streams
    BY <1>0, <1>3 DEF TryPublishAttach, ControlInv, CallPC
  <2>2. CASE mapStreamMediaSuber[stream[self]] = NULL
    BY <1>0, <1>3, <2>2 DEF TryPublishAttach, EncoderInv, Wanted, smsVars
  <2>3. CASE mapStreamMediaSuber[stream[self]] # NULL
    <3> DEFINE s == mapStreamMediaSuber[stream[self]]
    <3>1. s \in Sms
      BY <1>0, <2>1, <2>3 DEF TypeOK
    <3>2. stream_media_suber[self] \in {NULL, s}
      BY <1>0, <1>3, <2>1 DEF TryPublishAttach, ConnectInv
    <3>3. /\ UNCHANGED <<mapAudEncoder, mapAudSubCodec, nAudSubCodecChanged,
                         n_aud_sub_codec_changed>>
          /\ stream_media_suber' = [stream_media_suber EXCEPT ![self] = s]
      BY <1>3, <2>3 DEF TryPublishAttach, smsVars
    <3>4. s # NULL
      BY <2>3
    <3> HIDE DEF s
    <3> QED
      BY <1>0, <2>1, <3>1, <3>2, <3>3, <3>4, AttachKeepsEncoders
  <2> QED
    BY <2>2, <2>3
<1>4. CASE UnPublish
  <2>1. stream[self] \in Streams
    BY <1>0, <1>4 DEF UnPublish, ControlInv, CallPC
  <2> QED
    BY <1>0, <1>4, <2>1, SetRegisteredKeepsEncoders DEF UnPublish, smsVars
<1>5. CASE SubscribeAttach
  <2>1. stream[self] \in Streams /\ local \in Sms
    BY <1>0, <1>5 DEF SubscribeAttach, ControlInv, CallPC, SmsInv
  <2>2. mapX2MediaPuber[stream[self]] # NULL =>
          stream_media_suber[mapX2MediaPuber[stream[self]]] \in {NULL, local}
    BY <1>0, <1>5, <2>1 DEF SubscribeAttach, ConnectInv, SmsInv
  <2> QED
    BY <1>0, <1>5, <2>1, <2>2, SetRegisteredKeepsEncoders DEF SubscribeAttach,
       smsVars
<1>6. CASE UnSubscribeDetach
  <2>1. stream[self] \in Streams
    BY <1>0, <1>6 DEF UnSubscribeDetach, ControlInv, CallPC
  <2> QED
    BY <1>0, <1>6, <2>1, SetRegisteredKeepsEncoders DEF UnSubscribeDetach, smsVars
<1>7. ASSUME NEW s \in Sms, SubscribeFirst(s) PROVE EncoderInv'
  <2>1. \A p \in Peers : stream_media_suber[p] # s
    <3>1. s \notin allocated /\ s # NULL
      BY <1>7 DEF SubscribeFirst
    <3>2. \A p \in Peers : stream_media_suber[p] # NULL =>
            stream_media_suber[p] \in allocated
      BY <1>0, <1>7, FedIsAllocated
    <3> QED
      BY <3>1, <3>2
  <2>2. UNCHANGED <<stream_media_suber, n_aud_sub_codec_changed, mapAudEncoder>>
    BY <1>7 DEF SubscribeFirst, puberVars
  <2>3. \A r \in Sms \ {s} : /\ mapAudSubCodec'[r] = mapAudSubCodec[r]
                             /\ nAudSubCodecChanged'[r] = nAudSubCodecChanged[r]
    BY <1>0, <1>7 DEF SubscribeFirst, TypeOK
  <2>4. \A r \in Sms \ {s} : Wanted(r)' = Wanted(r)
    BY <2>3 DEF Wanted
  <2>5. \A p \in Peers : \A r \in Sms : stream_media_suber[p] = r => r # s
    BY <2>1
  <2> SUFFICES ASSUME NEW p \in Peers, NEW r \in Sms, stream_media_suber[p] = r
               PROVE  /\ n_aud_sub_codec_changed[p] <= nAudSubCodecChanged'[r]
                      /\ n_aud_sub_codec_changed[p] = nAudSubCodecChanged'[r]
                           /\ n_aud_sub_codec_changed[p] > 0
                           => mapAudEncoder[p] = Wanted(r)' \ {AudCodec[p]}
    BY <1>0, <2>2 DEF EncoderInv
  <2>6. /\ n_aud_sub_codec_changed[p] <= nAudSubCodecChanged[r]
        /\ n_aud_sub_codec_changed[p] = nAudSubCodecChanged[r]
             /\ n_aud_sub_codec_changed[p] > 0
             => mapAudEncoder[p] = Wanted(r) \ {AudCodec[p]}
    BY <1>0 DEF EncoderInv
  <2>7. r # s
    BY <2>5
  <2> QED
    BY <2>3, <2>4, <2>6, <2>7
<1>8. ASSUME NEW s \in Sms, ResetSubCodecType(s) PROVE EncoderInv'
  <2> DEFINE c == AudCodec[self]
             n == mapAudSubCodec[s][c] + 1
  <2>1. self \in Peers /\ c \in Codecs
    BY <1>0, <1>8 DEF ResetSubCodecType, ControlInv
  <2>2. mapAudSubCodec[s][c] \in Nat
    BY <1>0, <2>1 DEF TypeOK
  <2>3. n \in Nat /\ n # 0
    BY <2>2
  <2>4. UNCHANGED <<stream_media_suber, n_aud_sub_codec_changed, mapAudEncoder>>
    BY <1>8 DEF ResetSubCodecType, puberVars
  <2>5. mapAudSubCodec' = [mapAudSubCodec EXCEPT ![s][c] = n]
    BY <1>0, <1>8, <2>1 DEF ResetSubCodecType, TypeOK
  <2>6. nAudSubCodecChanged' =
          IF (n = 0) = (mapAudSubCodec[s][c] = 0) THEN nAudSubCodecChanged
          ELSE [nAudSubCodecChanged EXCEPT ![s] = @ + 1]
    BY <1>8, <2>3 DEF ResetSubCodecType
  <2> HIDE DEF c, n
  <2> QED
    BY <1>0, <2>1, <2>3, <2>4, <2>5, <2>6, CountKeepsEncoders
<1>9. ASSUME NEW s \in Sms, UnSubscribe(s) PROVE EncoderInv'
  <2>1. UNCHANGED <<stream_media_suber, n_aud_sub_codec_changed, mapAudEncoder>>
    BY <1>9 DEF UnSubscribe, puberVars
  <2>2. CASE eAudCodecType[self] = NULL
    BY <1>0, <1>9, <2>1, <2>2 DEF UnSubscribe, EncoderInv, Wanted
  <2>3. CASE eAudCodecType[self] # NULL
    <3> DEFINE c == eAudCodecType[self]
               n == IF mapAudSubCodec[s][c] = 0 THEN 0 ELSE mapAudSubCodec[s][c] - 1
    <3>1. c \in Codecs
      BY <1>0, <1>9, <2>3 DEF UnSubscribe, ControlInv, TypeOK
    <3>2. mapAudSubCodec[s][c] \in Nat
      BY <1>0, <3>1 DEF TypeOK
    <3>3. n \in Nat /\ ((n = 0) <=> mapAudSubCodec[s][c] \in {0, 1})
      BY <3>2
    <3>4. UnCount(s, c)
      BY <1>9, <2>3 DEF UnSubscribe
    <3>5. mapAudSubCodec' = [mapAudSubCodec EXCEPT ![s][c] = n]
      <4>1. mapAudSubCodec \in [Sms -> [Codecs -> Nat]]
        BY <1>0 DEF TypeOK
      <4>2. CASE mapAudSubCodec[s][c] = 0
        <5>1. UNCHANGED mapAudSubCodec /\ n = 0
          BY <3>4, <4>2 DEF UnCount
        <5> QED
          BY <3>1, <4>1, <4>2, <5>1
      <4>3. CASE mapAudSubCodec[s][c] # 0
        BY <3>1, <3>4, <4>1, <4>3 DEF UnCount
      <4> QED
        BY <4>2, <4>3
    <3>6. nAudSubCodecChanged' =
            IF (n = 0) = (mapAudSubCodec[s][c] = 0) THEN nAudSubCodecChanged
            ELSE [nAudSubCodecChanged EXCEPT ![s] = @ + 1]
      BY <3>2, <3>3, <3>4 DEF UnCount
    <3> HIDE DEF c, n
    <3> QED
      BY <1>0, <2>1, <3>1, <3>3, <3>5, <3>6, CountKeepsEncoders
  <2> QED
    BY <2>2, <2>3
<1>10. ASSUME NEW t \in Threads, Pool(t) PROVE EncoderInv'
  <2>1. UNCHANGED <<stream_media_suber, mapAudSubCodec, nAudSubCodecChanged>>
    BY <1>10, PoolFrames DEF smsVars
  <2>2. \A r \in Sms : Wanted(r)' = Wanted(r)
    BY <2>1 DEF Wanted
  <2>3. CASE UNCHANGED <<n_aud_sub_codec_changed, mapAudEncoder>>
    BY <1>0, <2>1, <2>2, <2>3 DEF EncoderInv
  <2>4. ASSUME NEW p \in Peers, TickFrameNoSuber(t, p) PROVE EncoderInv'
    <3>1. /\ UNCHANGED n_aud_sub_codec_changed
          /\ mapAudEncoder' = [mapAudEncoder EXCEPT ![p] = {}]
          /\ stream_media_suber[p] = NULL
      BY <2>4 DEF TickFrameNoSuber
    <3>2. mapAudEncoder \in [Peers -> SUBSET Codecs]
      BY <1>0 DEF TypeOK
    <3> QED
      BY <1>0, <2>1, <2>2, <3>1, <3>2 DEF EncoderInv
  <2>5. ASSUME NEW p \in Peers, TickFrame(t, p, TRUE) PROVE EncoderInv'
    <3> DEFINE s == stream_media_suber[p]
    <3>1. s \in Sms /\ SyncEncoders(p, s)
      BY <1>0, <2>5 DEF TickFrame, TypeOK
    <3>2. CASE n_aud_sub_codec_changed[p] = nAudSubCodecChanged[s]
      BY <2>3, <3>1, <3>2 DEF SyncEncoders
    <3>3. CASE n_aud_sub_codec_changed[p] # nAudSubCodecChanged[s]
      <4>1. /\ n_aud_sub_codec_changed' =
                 [n_aud_sub_codec_changed EXCEPT ![p] = nAudSubCodecChanged[s]]
            /\ mapAudEncoder' = [mapAudEncoder EXCEPT ![p] =
                 (@ \cup (Wanted(s) \ {AudCodec[p]})) \cap Wanted(s)]
        BY <3>1, <3>3 DEF SyncEncoders
      <4>2. /\ n_aud_sub_codec_changed \in [Peers -> Nat]
            /\ nAudSubCodecChanged \in [Sms -> Nat]
            /\ mapAudEncoder \in [Peers -> SUBSET Codecs]
        BY <1>0 DEF TypeOK
      <4>3. \A q \in Peers \ {p} :
              /\ n_aud_sub_codec_changed'[q] = n_aud_sub_codec_changed[q]
              /\ mapAudEncoder'[q] = mapAudEncoder[q]
        BY <4>1, <4>2
      <4>4. n_aud_sub_codec_changed'[p] = nAudSubCodecChanged[s]
        BY <4>1, <4>2
      <4>5. mapAudEncoder'[p] = Wanted(s) \ {AudCodec[p]}
        <5>1. AudCodec[p] \notin mapAudEncoder[p]
          BY <1>0 DEF EncoderInv
        <5>2. mapAudEncoder'[p] =
                (mapAudEncoder[p] \cup (Wanted(s) \ {AudCodec[p]})) \cap Wanted(s)
          BY <4>1, <4>2
        <5> QED
          BY <5>1, <5>2
      <4> HIDE DEF s
      <4>6. s = stream_media_suber[p] /\ s # NULL /\ nAudSubCodecChanged[s] \in Nat
        BY <3>1, <4>2 DEF s
      <4>7. \A q \in Peers : AudCodec[q] \notin mapAudEncoder'[q]
        BY <1>0, <4>3, <4>5 DEF EncoderInv
      <4>8. \A q \in Peers : stream_media_suber[q] = NULL =>
              n_aud_sub_codec_changed'[q] = 0
        BY <1>0, <4>3, <4>6 DEF EncoderInv
      <4>9. \A q \in Peers : \A r \in Sms : stream_media_suber[q] = r =>
              /\ n_aud_sub_codec_changed'[q] <= nAudSubCodecChanged[r]
              /\ n_aud_sub_codec_changed'[q] = nAudSubCodecChanged[r]
                   /\ n_aud_sub_codec_changed'[q] > 0
                   => mapAudEncoder'[q] = Wanted(r) \ {AudCodec[q]}
        BY <1>0, <4>3, <4>4, <4>5, <4>6 DEF EncoderInv
      <4> QED
        BY <2>1, <2>2, <4>7, <4>8, <4>9 DEF EncoderInv
    <3> QED
      BY <3>2, <3>3
  <2> QED
    BY <1>10, <2>3, <2>4, <2>5
       DEF Pool, PoolFrame, RoundBegin, RoundEnd, TickDispatch, TickFrame, puberVars
<1>11. CASE CodecStep /\ ~(\E s \in Sms : ResetSubCodecType(s))
  BY <1>1, <1>11 DEF CodecStep, ResetNotJoined, UnSubscribeNotJoined,
     puberVars, smsVars
<1>12. CASE Environment \/ MainLoop \/ ControlStep \/ CommandStep
  <2>1. CASE Environment
    BY <1>1, <2>1, EnvironmentFrame DEF puberVars, smsVars
  <2>2. CASE MainLoop
    BY <1>1, <2>2 DEF MainLoop, ProxyRunOnce, DispatchRunOnce, TickNext, TickEnd,
                      puberVars, smsVars
  <2>3. CASE ControlStep
    BY <1>1, <2>3 DEF ControlStep, NoParams, RetryPublish, NoRetry, CheckClose,
                      RecvClose, NoMoreData, RecvStatueChanged, puberVars, smsVars
  <2>4. CASE CommandStep
    BY <1>1, <2>4 DEF CommandStep, SetStreamId, RecvCommand, Publish, Play,
                      puberVars, smsVars
  <2> QED
    BY <1>12, <2>1, <2>2, <2>3, <2>4
<1>13. CASE FinishClose \/ TryPublishRefused \/ TryPublishOK \/ SubscribeJoin
  BY <1>1, <1>13 DEF FinishClose, TryPublishRefused, TryPublishOK, SubscribeJoin,
                     puberVars, smsVars
<1>14. CASE UNCHANGED vars
  BY <1>1, <1>14 DEF vars, puberVars, smsVars
<1> QED
  BY <1>2, <1>3, <1>4, <1>5, <1>6, <1>7, <1>8, <1>9, <1>10, <1>11, <1>12, <1>13,
     <1>14
     DEF Next, Main, PeerTick, Dispatch, ControlStep, CommandStep, CodecStep

-----------------------------------------------------------------------------
(* The theorems *)

\* Every step of the network threads, the main thread and the pool threads
\* keeps the inductive invariant.
THEOREM Invariance == Spec => []IInv
<1>1. IInv /\ [Next]_vars => IInv'
  <2>1. IInv => TypeOK /\ ControlInv /\ SmsInv
    BY DEF IInv
  <2> QED
    BY <2>1, TypeStep, ControlInvStep, PeerInvStep, PuberInvStep, SmsInvStep,
       FeedInvStep, ConnectInvStep, TickInvStep, RegistrarInvStep, EncoderInvStep
       DEF IInv
<1>2. Init => IInv
  <2> SUFFICES ASSUME Init PROVE IInv
    OBVIOUS
  <2>1. TypeOK
    BY DEF Init, TypeOK, PC
  <2>2. ControlInv /\ PeerInv /\ PuberInv /\ SmsInv
    BY DEF Init, ControlInv, CallPC, PeerInv, Closing, PuberInv, SmsInv
  <2>3. FeedInv /\ ConnectInv /\ TickInv /\ RegistrarInv
    BY DEF Init, FeedInv, ConnectInv, TickInv, RegistrarInv
  <2>4. EncoderInv
    BY DEF Init, EncoderInv
  <2> QED
    BY <2>1, <2>2, <2>3, <2>4 DEF IInv
<1> QED
  BY <1>1, <1>2, PTL DEF Spec

\* The variables of the dispatch core keep their types, and the maps of
\* X2MediaDispatch never hold a pointer to an X2MediaPuber or a StreamMediaSuber
\* that was deleted.
THEOREM RegistryNeverDangles == Spec => [](TypeOK /\ RegistryLive)
<1>1. IInv => TypeOK /\ RegistryLive
  BY DEF IInv, PuberInv, SmsInv, RegistryLive
<1> QED
  BY <1>1, Invariance, PTL

\* X2MediaPuber::OnX2RtcTick never dispatches a frame from or to a deleted
\* object, although the main thread deletes publishers, subers, peers and
\* StreamMediaSubers while pool threads tick.
THEOREM TicksAreSafe == Spec => []TickTouchesLive
<1>1. IInv => TickTouchesLive
  <2> SUFFICES ASSUME IInv, NEW t \in Threads, tickPc[t] = "dispatch"
               PROVE  /\ tickCur[t] \in pubers
                      /\ stream_media_suber[tickCur[t]] \in allocated
                      /\ \A p \in mapMediaSuber[stream_media_suber[tickCur[t]]] :
                           p \in subers /\ peerState[p] = "open"
    BY DEF TickTouchesLive
  <2> DEFINE s == stream_media_suber[tickCur[t]]
  <2>1. tickCur[t] \in pubers /\ s # NULL
    BY DEF IInv, TickInv
  <2>2. tickCur[t] \in Peers /\ s \in Sms
    BY <2>1 DEF IInv, TypeOK
  <2>3. s \in allocated
    BY <2>1, <2>2, FedIsAllocated DEF IInv
  <2>4. \A p \in mapMediaSuber[s] : p \in Peers /\ p \in subers
    BY <2>2 DEF IInv, SmsInv, TypeOK
  <2>5. \A p \in mapMediaSuber[s] : peerState[p] = "open"
    BY <2>4 DEF IInv, PeerInv
  <2> QED
    BY <2>1, <2>3, <2>4, <2>5
<1> QED
  BY <1>1, Invariance, PTL

\* Whichever of TryPublish and Subscribe comes first, the publisher of a stream
\* feeds exactly its subscribers, and one that is not registered for its stream
\* feeds nobody.
THEOREM StreamsAreConnected == Spec => [](StreamConnected /\ OnlyRegisteredFeeds)
<1>1. IInv => StreamConnected
  BY DEF IInv, ConnectInv, StreamConnected
<1>2. IInv => OnlyRegisteredFeeds
  BY DEF IInv, FeedInv, OnlyRegisteredFeeds, TypeOK
<1> QED
  BY <1>1, <1>2, Invariance, PTL

\* The registration server knows the streams that are published and subscribed.
THEOREM RegistrarIsCurrent == Spec => []RegistrarAgrees
<1>1. IInv => RegistrarAgrees
  <2> SUFFICES ASSUME IInv PROVE RegistrarAgrees
    OBVIOUS
  <2>1. announcedPub \subseteq Streams /\ announcedSub \subseteq Streams
    BY DEF IInv, TypeOK
  <2>2. announcedSub = {k \in Streams : mapStreamMediaSuber[k] # NULL}
    BY <2>1 DEF IInv, RegistrarInv
  <2>3. pc # "attach" => announcedPub = {k \in Streams : mapX2MediaPuber[k] # NULL}
    BY <2>1 DEF IInv, RegistrarInv
  <2> QED
    BY <2>2, <2>3 DEF RegistrarAgrees
<1> QED
  BY <1>1, Invariance, PTL

\* A publisher that has seen the current codec version has exactly the encoders
\* its subscribers need, although every StreamMediaSuber counts versions from 0.
THEOREM EncodersFollowSubers == Spec => []EncodersInSync
<1>1. IInv => EncodersInSync
  <2>1. IInv => EncoderInv /\ pubers \subseteq Peers
    BY DEF IInv, TypeOK
  <2> QED
    BY <2>1 DEF EncoderInv, EncodersInSync
<1> QED
  BY <1>1, Invariance, PTL

-----------------------------------------------------------------------------
(* The codecs that are counted *)

\* A StreamMediaSuber has finitely many members, a codec is noted for members
\* only, and is counted at least once for each member it is noted for.
CountInv ==
  /\ \A s \in Sms : IsFiniteSet(mapMediaSuber[s])
  /\ \A p \in Peers : eAudCodecType[p] # NULL => \E s \in Sms : p \in mapMediaSuber[s]
  /\ CodecCounted

\* Subscribe begins at zero with a member that has no codec noted, and
\* ResetSubCodecType counts before UnSubscribe takes back: a peer is a member of
\* the StreamMediaSuber of its own stream only.
LEMMA CountInvStep == IInv /\ CountInv /\ [Next]_vars => CountInv'
<1> SUFFICES ASSUME IInv, CountInv, [Next]_vars PROVE CountInv'
  OBVIOUS
<1> USE DEF peerVars, puberVars, smsVars, registryVars, mainVars, poolVars
<1>0. TypeOK /\ SmsInv /\ CodecCounted
  BY DEF IInv, CountInv
<1>f. ASSUME NEW s \in Sms, NEW c
      PROVE  /\ IsFiniteSet(mapMediaSuber[s]) /\ IsFiniteSet(Askers(s, c))
             /\ Cardinality(Askers(s, c)) \in Nat
  <2>1. IsFiniteSet(mapMediaSuber[s])
    BY DEF CountInv
  <2>2. IsFiniteSet(Askers(s, c))
    BY <2>1, FS_Subset DEF Askers
  <2> QED
    BY <2>1, <2>2, FS_CardinalityType
<1>m. \A s \in Sms, r \in Sms : \A p : p \in mapMediaSuber[s] /\ p \in mapMediaSuber[r] => s = r
  BY <1>0 DEF SmsInv
<1>1. ASSUME UNCHANGED <<mapMediaSuber, eAudCodecType, mapAudSubCodec>>, allocated' \subseteq allocated
      PROVE  CountInv'
  BY <1>1 DEF CountInv, CodecCounted, Askers
<1>2. ASSUME NEW s \in Sms, SubscribeFirst(s) PROVE CountInv'
  <2>1. self \in Peers /\ stream[self] \in Streams
    BY <1>2 DEF SubscribeFirst, IInv, ControlInv, CallPC
  <2>2. /\ mapStreamMediaSuber[stream[self]] = NULL /\ s \notin allocated
        /\ allocated' = allocated \cup {s}
        /\ mapMediaSuber' = [mapMediaSuber EXCEPT ![s] = {self}]
        /\ mapAudSubCodec' = [mapAudSubCodec EXCEPT ![s] = [c \in Codecs |-> 0]]
        /\ UNCHANGED eAudCodecType
    BY <1>2 DEF SubscribeFirst
  <2>3. \A r \in Sms : self \notin mapMediaSuber[r]
    BY <1>0, <2>2 DEF SmsInv
  <2>4. eAudCodecType[self] = NULL
    BY <2>1, <2>3 DEF CountInv
  <2>5. mapMediaSuber[s] = {}
    <3> SUFFICES ASSUME NEW p \in mapMediaSuber[s] PROVE FALSE
      OBVIOUS
    <3>1. p \in Peers /\ p \in subers /\ mapStreamMediaSuber[stream[p]] = s
      BY <1>0 DEF SmsInv, TypeOK
    <3>2. stream[p] \in Streams
      BY <3>1 DEF IInv, PeerInv
    <3> QED
      BY <1>0, <2>2, <3>1, <3>2 DEF SmsInv
  <2>6. \A r \in Sms : mapMediaSuber'[r] = IF r = s THEN {self} ELSE mapMediaSuber[r]
    BY <1>0, <2>2 DEF TypeOK
  <2>7. \A r \in Sms : IsFiniteSet(mapMediaSuber'[r])
    <3>1. IsFiniteSet({self})
      BY FS_Singleton
    <3>2. \A r \in Sms : IsFiniteSet(mapMediaSuber[r])
      BY DEF CountInv
    <3> QED
      BY <2>6, <3>1, <3>2
  <2>8. \A p \in Peers : eAudCodecType'[p] # NULL => \E r \in Sms : p \in mapMediaSuber'[r]
    BY <2>2, <2>5, <2>6 DEF CountInv
  <2>9. ASSUME NEW r \in allocated', NEW c \in Codecs
        PROVE  Cardinality(Askers(r, c)') <= mapAudSubCodec'[r][c]
    <3>1. CASE r = s
      <4>1. Askers(r, c)' = {}
        BY <2>2, <2>4, <2>6, <3>1 DEF Askers
      <4>2. mapAudSubCodec'[r][c] = 0
        BY <1>0, <2>2, <3>1 DEF TypeOK
      <4> QED
        BY <4>1, <4>2, FS_EmptySet
    <3>2. CASE r # s
      <4>1. r \in allocated /\ r \in Sms
        BY <1>0, <2>2, <3>2 DEF TypeOK
      <4>2. Askers(r, c)' = Askers(r, c)
        BY <2>2, <2>6, <3>2, <4>1 DEF Askers
      <4>3. mapAudSubCodec'[r][c] = mapAudSubCodec[r][c]
        BY <1>0, <2>2, <3>2, <4>1 DEF TypeOK
      <4> QED
        BY <1>0, <4>1, <4>2, <4>3 DEF CodecCounted
    <3> QED
      BY <3>1, <3>2
  <2> QED
    BY <2>7, <2>8, <2>9 DEF CountInv, CodecCounted
<1>3. CASE SubscribeJoin
  <2> DEFINE s == mapStreamMediaSuber[stream[self]]
  <2>1. self \in Peers /\ stream[self] \in Streams
    BY <1>3 DEF SubscribeJoin, IInv, ControlInv, CallPC
  <2>2. /\ s \in Sms /\ mapMediaSuber' = [mapMediaSuber EXCEPT ![s] = @ \cup {self}]
        /\ UNCHANGED <<allocated, eAudCodecType, mapAudSubCodec>>
    BY <1>0, <1>3, <2>1 DEF SubscribeJoin, TypeOK
  <2> HIDE DEF s
  <2>3. \A r \in Sms : mapMediaSuber'[r] = IF r = s THEN mapMediaSuber[s] \cup {self} ELSE mapMediaSuber[r]
    BY <1>0, <2>2 DEF TypeOK
  <2>4. \A r \in Sms : IsFiniteSet(mapMediaSuber'[r])
    BY <1>f, <2>3, FS_AddElement
  <2>5. \A p \in Peers : eAudCodecType'[p] # NULL => \E r \in Sms : p \in mapMediaSuber'[r]
    BY <2>2, <2>3 DEF CountInv
  <2>6. self \in mapMediaSuber[s] \/ eAudCodecType[self] = NULL
    BY <1>0, <2>1, <2>2 DEF CountInv, SmsInv, s
  <2>7. \A r \in Sms, c \in Codecs : Askers(r, c)' = Askers(r, c)
    BY <2>2, <2>3, <2>6 DEF Askers
  <2>8. \A r \in allocated, c \in Codecs : Cardinality(Askers(r, c)') <= mapAudSubCodec[r][c]
    BY <1>0, <2>7 DEF CodecCounted, TypeOK
  <2> QED
    BY <2>2, <2>4, <2>5, <2>8 DEF CountInv, CodecCounted
<1>4. ASSUME NEW s \in Sms, ResetSubCodecType(s) PROVE CountInv'
  <2> DEFINE d == AudCodec[self]
  <2>1. self \in Peers /\ d \in Codecs /\ self \in mapMediaSuber[s]
    BY <1>4 DEF ResetSubCodecType, Joined, IInv, ControlInv, CallPC
  <2>2. /\ eAudCodecType' = [eAudCodecType EXCEPT ![self] = d]
        /\ mapAudSubCodec' = [mapAudSubCodec EXCEPT ![s][d] = @ + 1]
        /\ UNCHANGED <<allocated, mapMediaSuber>>
    BY <1>4 DEF ResetSubCodecType
  <2>3. \A r \in Sms, c \in Codecs :
          /\ mapAudSubCodec[r][c] \in Nat
          /\ mapAudSubCodec'[r][c] =
               IF r = s /\ c = d THEN mapAudSubCodec[r][c] + 1 ELSE mapAudSubCodec[r][c]
    BY <1>0, <2>1, <2>2 DEF TypeOK
  <2>4. \A p \in Peers : eAudCodecType'[p] = IF p = self THEN d ELSE eAudCodecType[p]
    BY <1>0, <2>2 DEF TypeOK
  <2>5. \A p \in Peers : eAudCodecType'[p] # NULL => \E r \in Sms : p \in mapMediaSuber[r]
    BY <2>1, <2>4 DEF CountInv
  <2> HIDE DEF d
  <2>6. ASSUME NEW r \in allocated, NEW c \in Codecs
        PROVE  Cardinality(Askers(r, c)') <= mapAudSubCodec'[r][c]
    <3>1. r \in Sms /\ Cardinality(Askers(r, c)) <= mapAudSubCodec[r][c]
      BY <1>0 DEF TypeOK, CodecCounted
    <3>2. Askers(r, c)' = {p \in mapMediaSuber[r] : eAudCodecType'[p] = c}
      BY <2>2 DEF Askers
    <3>p. mapMediaSuber[r] \subseteq Peers
      BY <1>0, <3>1 DEF TypeOK
    <3>3. CASE r = s /\ c = d
      <4>1. Askers(r, c)' = Askers(r, c) \cup {self}
        BY <2>1, <2>4, <3>2, <3>3, <3>p DEF Askers
      <4>2. Cardinality(Askers(r, c) \cup {self}) <= Cardinality(Askers(r, c)) + 1
        <5>1. /\ IsFiniteSet(Askers(r, c)) /\ Cardinality(Askers(r, c)) \in Nat
          BY <1>f, <3>1
        <5>2. Cardinality(Askers(r, c) \cup {self}) =
                IF self \in Askers(r, c) THEN Cardinality(Askers(r, c))
                ELSE Cardinality(Askers(r, c)) + 1
          BY <5>1, FS_AddElement
        <5> QED
          BY <5>1, <5>2
      <4>3. Cardinality(Askers(r, c)) \in Nat /\ Cardinality(Askers(r, c) \cup {self}) \in Nat
        <5>1. IsFiniteSet(Askers(r, c) \cup {self})
          BY <1>f, <3>1, FS_AddElement
        <5> QED
          BY <1>f, <3>1, <5>1, FS_CardinalityType
      <4> QED
        BY <2>3, <3>1, <3>3, <4>1, <4>2, <4>3
    <3>4. CASE ~(r = s /\ c = d)
      <4>1. Askers(r, c)' \subseteq Askers(r, c)
        BY <1>m, <2>1, <2>4, <3>1, <3>2, <3>4, <3>p DEF Askers
      <4>2. Cardinality(Askers(r, c)') <= Cardinality(Askers(r, c))
            /\ Cardinality(Askers(r, c)') \in Nat
        BY <1>f, <3>1, <4>1, FS_Subset, FS_CardinalityType
      <4>3. Cardinality(Askers(r, c)) \in Nat /\ mapAudSubCodec'[r][c] = mapAudSubCodec[r][c]
        BY <1>f, <2>3, <3>1, <3>4
      <4> QED
        BY <2>3, <3>1, <4>2, <4>3
    <3> QED
      BY <3>3, <3>4
  <2> QED
    BY <2>2, <2>5, <2>6 DEF CountInv, CodecCounted
<1>5. ASSUME NEW s \in Sms, UnSubscribe(s) PROVE CountInv'
  <2> DEFINE d == eAudCodecType[self]
  <2>1. self \in Peers /\ self \in mapMediaSuber[s] /\ d \in Codecs \cup {NULL}
    BY <1>0, <1>5 DEF UnSubscribe, Joined, IInv, ControlInv, CallPC, TypeOK
  <2>2. /\ eAudCodecType' = [eAudCodecType EXCEPT ![self] = NULL]
        /\ mapMediaSuber' = [mapMediaSuber EXCEPT ![s] = @ \ {self}]
        /\ UNCHANGED allocated
    BY <1>5 DEF UnSubscribe
  <2>3. /\ \A p \in Peers : eAudCodecType'[p] = IF p = self THEN NULL ELSE eAudCodecType[p]
        /\ \A r \in Sms : mapMediaSuber'[r] =
             IF r = s THEN mapMediaSuber[s] \ {self} ELSE mapMediaSuber[r]
    BY <1>0, <2>2 DEF TypeOK
  <2>4. \A r \in Sms, c \in Codecs :
          /\ mapAudSubCodec[r][c] \in Nat
          /\ mapAudSubCodec'[r][c] =
               IF r = s /\ c = d /\ mapAudSubCodec[r][c] # 0 THEN mapAudSubCodec[r][c] - 1
               ELSE mapAudSubCodec[r][c]
    <3>1. CASE d = NULL
      <4>1. UNCHANGED mapAudSubCodec
        BY <1>5, <3>1 DEF UnSubscribe
      <4> QED
        BY <1>0, <3>1, <4>1 DEF TypeOK
    <3>2. CASE d # NULL
      <4>1. mapAudSubCodec' = IF mapAudSubCodec[s][d] = 0 THEN mapAudSubCodec
                              ELSE [mapAudSubCodec EXCEPT ![s][d] = @ - 1]
        BY <1>5, <3>2 DEF UnSubscribe, UnCount
      <4> QED
        BY <1>0, <2>1, <3>2, <4>1 DEF TypeOK
    <3> QED
      BY <3>1, <3>2
  <2> HIDE DEF d
  <2>5. \A r \in Sms : IsFiniteSet(mapMediaSuber'[r])
    <3>1. \A r \in Sms : mapMediaSuber'[r] \subseteq mapMediaSuber[r]
      BY <2>3
    <3> QED
      BY <1>f, <3>1, FS_Subset
  <2>6. \A p \in Peers : eAudCodecType'[p] # NULL => \E r \in Sms : p \in mapMediaSuber'[r]
    BY <2>3 DEF CountInv
  <2>7. ASSUME NEW r \in allocated, NEW c \in Codecs
        PROVE  Cardinality(Askers(r, c)') <= mapAudSubCodec'[r][c]
    <3>1. r \in Sms /\ Cardinality(Askers(r, c)) <= mapAudSubCodec[r][c]
      BY <1>0 DEF TypeOK, CodecCounted
    <3>2. Askers(r, c)' = {p \in mapMediaSuber'[r] : eAudCodecType'[p] = c}
      BY DEF Askers
    <3>p. mapMediaSuber[r] \subseteq Peers
      BY <1>0, <3>1 DEF TypeOK
    <3>f. /\ IsFiniteSet(Askers(r, c)) /\ Cardinality(Askers(r, c)) \in Nat
          /\ mapAudSubCodec[r][c] \in Nat
      BY <1>f, <2>4, <3>1
    <3>3. CASE r = s /\ c = d
      <4>1. Askers(r, c)' = Askers(r, c) \ {self} /\ self \in Askers(r, c)
        BY <2>1, <2>3, <3>1, <3>2, <3>3, <3>p DEF Askers, d
      <4>2. Cardinality(Askers(r, c) \ {self}) = Cardinality(Askers(r, c)) - 1
        BY <3>f, <4>1, FS_RemoveElement
      <4>3. Cardinality(Askers(r, c)) # 0
        BY <3>f, <4>1, FS_EmptySet
      <4> QED
        BY <2>4, <3>1, <3>3, <3>f, <4>1, <4>2, <4>3
    <3>4. CASE ~(r = s /\ c = d)
      <4>1. Askers(r, c)' \subseteq Askers(r, c)
        BY <2>3, <3>1, <3>2, <3>p DEF Askers
      <4>2. Cardinality(Askers(r, c)') <= Cardinality(Askers(r, c))
            /\ Cardinality(Askers(r, c)') \in Nat
        BY <3>f, <4>1, FS_Subset, FS_CardinalityType
      <4>3. mapAudSubCodec'[r][c] = mapAudSubCodec[r][c]
        BY <2>4, <3>1, <3>4
      <4> QED
        BY <3>1, <3>f, <4>2, <4>3
    <3> QED
      BY <3>3, <3>4
  <2> QED
    BY <2>2, <2>5, <2>6, <2>7 DEF CountInv, CodecCounted
<1>6. CASE UNCHANGED vars
  BY <1>1, <1>6 DEF vars
<1>7. CASE Environment
  BY <1>1, <1>7, EnvironmentFrame
<1>8. CASE MainLoop
  BY <1>1, <1>8 DEF MainLoop, ProxyRunOnce, DispatchRunOnce, TickNext, TickEnd
<1>9. CASE ControlStep
  BY <1>1, <1>9, ControlFrame
<1>10. CASE CommandStep
  BY <1>1, <1>10, CommandFrame
<1>11. CASE DeletePuber \/ FinishClose \/ TryPublishRefused \/ TryPublishOK \/ TryPublishAttach
  BY <1>1, <1>11 DEF DeletePuber, FinishClose, TryPublishRefused, TryPublishOK, TryPublishAttach
<1>12. CASE UnPublish \/ SubscribeAttach \/ UnSubscribeDetach
  BY <1>1, <1>12 DEF UnPublish, SubscribeAttach, UnSubscribeDetach
<1>13. CASE ResetNotJoined \/ UnSubscribeNotJoined
  BY <1>1, <1>13 DEF ResetNotJoined, UnSubscribeNotJoined
<1>14. CASE \E t \in Threads : Pool(t)
  BY <1>1, <1>14, PoolFrames
<1> QED
  BY <1>2, <1>3, <1>4, <1>5, <1>6, <1>7, <1>8, <1>9, <1>10, <1>11, <1>12, <1>13, <1>14
     DEF Next, Main, PeerTick, Dispatch, ControlStep, CommandStep

\* A codec is never counted less often than there are subers that need it, so
\* that UnSubscribe of one suber does not take it from the others.
THEOREM CodecsAreCounted == Spec => []CodecCounted
<1>1. Init => CountInv
  <2> SUFFICES ASSUME Init PROVE CountInv
    OBVIOUS
  <2>1. \A s \in Sms : mapMediaSuber[s] = {}
    BY DEF Init
  <2> QED
    BY <2>1, FS_EmptySet DEF Init, CountInv, CodecCounted
<1>2. IInv /\ CountInv /\ [Next]_vars => CountInv'
  BY CountInvStep
<1>3. CountInv => CodecCounted
  BY DEF CountInv
<1> QED
  BY <1>1, <1>2, <1>3, Invariance, PTL DEF Spec

=============================================================================
