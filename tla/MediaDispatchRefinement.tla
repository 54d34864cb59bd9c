---------------------- MODULE MediaDispatchRefinement ----------------------
(***************************************************************************)
(* The proof that MediaDispatch implements PubSub.  The initial state maps *)
(* to the initial state of PubSub; a step that changes neither the         *)
(* registry, nor a set of subers, nor the pointer of a puber stutters; and *)
(* each of the eight actions that do change one of them maps to a step.    *)
(***************************************************************************)
EXTENDS MediaDispatchProofs

USE ConstantsAssumption

\* The four variables the refinement mapping reads.
mappedVars ==
  <<mapX2MediaPuber, mapStreamMediaSuber, mapMediaSuber, stream_media_suber>>

\* Every step of MediaDispatch is a step of PubSub or stutters.
LEMMA RefinementStep == IInv /\ [Next]_vars => [PS!Next]_(PS!vars)
<1> SUFFICES ASSUME IInv, [Next]_vars PROVE PS!Next \/ UNCHANGED PS!vars
  OBVIOUS
<1>0. TypeOK
  BY DEF IInv
\* A step that leaves the mapped variables alone is a stuttering step of PubSub.
<1>a. ASSUME UNCHANGED mappedVars PROVE UNCHANGED PS!vars
  BY <1>a DEF mappedVars, PS!vars, Audience, Reach
\* A puber that is told what subers the stream has serves its audience.
<1>b. ASSUME NEW k \in Streams, mapX2MediaPuber[k] # NULL,
             UNCHANGED <<mapX2MediaPuber, mapStreamMediaSuber, mapMediaSuber>>,
             stream_media_suber' =
               [stream_media_suber EXCEPT ![mapX2MediaPuber[k]] = mapStreamMediaSuber[k]]
      PROVE  PS!Next
  <2> USE <1>0, <1>b
  <2>1. mapX2MediaPuber[k] \in Peers
    BY DEF TypeOK
  <2>2. UNCHANGED [l \in Streams |-> Audience(l)]
    BY DEF Audience
  <2>3. \A p \in Peers : Reach(p)' = IF p = mapX2MediaPuber[k] THEN Audience(k) ELSE Reach(p)
    BY <2>1 DEF Reach, Audience, TypeOK
  <2>4. PS!Serve(k)
    BY <2>1, <2>2, <2>3 DEF PS!Serve
  <2> QED
    BY <2>4 DEF PS!Next
<1>1. CASE UNCHANGED vars
  BY <1>1, <1>a DEF vars, mappedVars, puberVars, smsVars, registryVars
<1>2. CASE Environment
  BY <1>2, EnvironmentFrame, <1>a DEF mappedVars, puberVars, smsVars, registryVars
<1>3. CASE MainLoop
  BY <1>3, <1>a
     DEF MainLoop, ProxyRunOnce, DispatchRunOnce, TickNext, TickEnd,
         mappedVars, puberVars, smsVars, registryVars
<1>4. CASE ControlStep
  BY <1>4, ControlFrame, <1>a DEF mappedVars, puberVars, smsVars, registryVars
<1>5. CASE CommandStep
  BY <1>5, CommandFrame, <1>a DEF mappedVars, smsVars, registryVars
<1>6. CASE DeletePuber \/ FinishClose \/ TryPublishRefused
  BY <1>6, <1>a DEF DeletePuber, FinishClose, TryPublishRefused,
     mappedVars, puberVars, smsVars, registryVars
\* TryPublish of a stream without publisher: the new one feeds nobody yet.
<1>7. CASE TryPublishOK
  <2> USE <1>7
  <2>1. self \in Peers /\ stream[self] \in Streams
    BY DEF TryPublishOK, IInv, ControlInv, CallPC
  <2>2. mapX2MediaPuber[stream[self]] = NULL
    BY DEF TryPublishOK
  <2>3. stream_media_suber[self] = NULL
    BY <2>1, <2>2 DEF IInv, FeedInv
  <2>4. UNCHANGED <<mapStreamMediaSuber, mapMediaSuber, stream_media_suber>>
    BY DEF TryPublishOK, puberVars, smsVars
  <2>5. mapX2MediaPuber' = [mapX2MediaPuber EXCEPT ![stream[self]] = self]
    BY DEF TryPublishOK
  <2>6. PS!Acquire(stream[self], self)
    BY <2>1, <2>2, <2>3, <2>4, <2>5 DEF PS!Acquire, Audience, Reach
  <2> QED
    BY <2>1, <2>6 DEF PS!Next
<1>8. CASE TryPublishAttach
  <2>1. self \in Peers /\ stream[self] \in Streams /\ mapX2MediaPuber[stream[self]] = self
    BY <1>8 DEF TryPublishAttach, IInv, ControlInv, CallPC, ConnectInv
  <2>2. UNCHANGED <<mapX2MediaPuber, mapStreamMediaSuber, mapMediaSuber>>
    BY <1>8 DEF TryPublishAttach, smsVars
  <2>3. CASE UNCHANGED stream_media_suber
    BY <2>2, <2>3, <1>a DEF mappedVars
  <2>4. CASE stream_media_suber' =
               [stream_media_suber EXCEPT ![self] = mapStreamMediaSuber[stream[self]]]
    BY <1>0, <2>1, <2>2, <2>4, <1>b
  <2> QED
    BY <1>8, <2>3, <2>4 DEF TryPublishAttach
\* UnPublish, by whoever names the stream: its publisher reaches nobody.
<1>9. CASE UnPublish
  <2> USE <1>9
  <2> DEFINE k == stream[self]
  <2>0. TypeOK
    BY DEF IInv
  <2>1. k \in Streams
    BY DEF UnPublish, IInv, ControlInv, CallPC
  <2>2. UNCHANGED <<mapStreamMediaSuber, mapMediaSuber>> /\ SetRegistered(k, NULL)
    BY DEF UnPublish, smsVars
  <2>3. mapX2MediaPuber' = [mapX2MediaPuber EXCEPT ![k] = NULL]
    BY DEF UnPublish
  <2>4. CASE mapX2MediaPuber[k] = NULL
    <3>1. UNCHANGED <<mapX2MediaPuber, stream_media_suber>>
      BY <2>0, <2>1, <2>2, <2>3, <2>4 DEF SetRegistered, TypeOK
    <3> QED
      BY <2>2, <3>1, <1>a DEF mappedVars
  <2>5. CASE mapX2MediaPuber[k] # NULL
    <3>1. mapX2MediaPuber[k] \in Peers
      BY <2>0, <2>1, <2>5 DEF TypeOK
    <3>2. \A p \in Peers : stream_media_suber'[p] =
            IF p = mapX2MediaPuber[k] THEN NULL ELSE stream_media_suber[p]
      BY <2>0, <2>1, <2>2, SetRegisteredFrame
    <3>3. \A p \in Peers : Reach(p)' = IF p = mapX2MediaPuber[k] THEN {} ELSE Reach(p)
      BY <2>2, <3>1, <3>2 DEF Reach
    <3>4. UNCHANGED [l \in Streams |-> Audience(l)]
      BY <2>2 DEF Audience
    <3>5. PS!Release(k)
      BY <2>3, <2>5, <3>1, <3>3, <3>4 DEF PS!Release
    <3> QED
      BY <2>1, <3>5 DEF PS!Next
  <2> QED
    BY <2>4, <2>5
\* Subscribe to a stream nobody subscribes to: nobody reaches the new suber yet.
<1>10. ASSUME NEW s \in Sms, SubscribeFirst(s) PROVE PS!Next
  <2> USE <1>10
  <2> DEFINE k == stream[self]
  <2>0. TypeOK /\ SmsInv /\ FeedInv
    BY DEF IInv
  <2>1. self \in Peers /\ k \in Streams
    BY DEF SubscribeFirst, IInv, ControlInv, CallPC
  <2>2. \A r \in Sms : self \notin mapMediaSuber[r]
    BY <2>0, <2>1 DEF SubscribeFirst, SmsInv
  <2>3. \A l \in Streams : mapStreamMediaSuber[l] # s
    BY <2>0 DEF SubscribeFirst, SmsInv
  <2>4. \A p \in Peers : stream_media_suber[p] # s
    <3> SUFFICES ASSUME NEW p \in Peers, stream_media_suber[p] = s PROVE FALSE
      OBVIOUS
    <3>1. s # NULL
      OBVIOUS
    <3>2. p \in pubers /\ mapStreamMediaSuber[stream[p]] = s
      BY <2>0, <3>1 DEF FeedInv, SubscribeFirst
    <3>3. stream[p] \in Streams
      BY <3>2 DEF IInv, PeerInv, TypeOK
    <3> QED
      BY <2>3, <3>2, <3>3
  <2>5. UNCHANGED <<mapX2MediaPuber, stream_media_suber>>
    BY DEF SubscribeFirst, puberVars
  <2>6. /\ mapMediaSuber' = [mapMediaSuber EXCEPT ![s] = {self}]
        /\ mapStreamMediaSuber' = [mapStreamMediaSuber EXCEPT ![k] = s]
        /\ mapStreamMediaSuber[k] = NULL
    BY DEF SubscribeFirst
  <2>7. \A l \in Streams : Audience(l)' = IF l = k THEN Audience(k) \cup {self} ELSE Audience(l)
    BY <2>0, <2>1, <2>3, <2>6 DEF Audience, TypeOK
  <2>8. \A p \in Peers : Reach(p)' = Reach(p)
    BY <2>0, <2>4, <2>5, <2>6 DEF Reach, TypeOK
  <2>9. \A l \in Streams : self \notin Audience(l)
    BY <2>0, <2>2 DEF Audience, TypeOK
  <2>10. PS!Join(k, self)
    BY <2>1, <2>5, <2>7, <2>8, <2>9 DEF PS!Join
  <2> QED
    BY <2>1, <2>10 DEF PS!Next
<1>11. CASE SubscribeAttach
  <2>1. /\ stream[self] \in Streams /\ local = mapStreamMediaSuber[stream[self]]
        /\ SetRegistered(stream[self], local) /\ local # NULL
    BY <1>11 DEF SubscribeAttach, IInv, ControlInv, CallPC, SmsInv
  <2>2. UNCHANGED <<mapX2MediaPuber, mapStreamMediaSuber, mapMediaSuber>>
    BY <1>11 DEF SubscribeAttach, smsVars, registryVars
  <2>3. CASE mapX2MediaPuber[stream[self]] = NULL
    BY <2>1, <2>2, <2>3, <1>a DEF SetRegistered, mappedVars
  <2>4. CASE mapX2MediaPuber[stream[self]] # NULL
    BY <1>0, <2>1, <2>2, <2>4, <1>b DEF SetRegistered
  <2> QED
    BY <2>3, <2>4
\* Subscribe to a stream that has subscribers: the publisher, if there is one,
\* reaches the new one at once.
<1>12. CASE SubscribeJoin
  <2> USE <1>12
  <2> DEFINE k == stream[self]
             s == mapStreamMediaSuber[k]
             q == mapX2MediaPuber[k]
  <2>0. TypeOK /\ SmsInv /\ FeedInv /\ ConnectInv
    BY DEF IInv
  <2>1. self \in Peers /\ k \in Streams /\ s \in Sms /\ pc = "sub"
    BY <2>0 DEF SubscribeJoin, IInv, ControlInv, CallPC, TypeOK
  <2>2. UNCHANGED <<mapX2MediaPuber, stream_media_suber, mapStreamMediaSuber>>
    BY DEF SubscribeJoin, puberVars, registryVars
  <2>3. mapMediaSuber' = [mapMediaSuber EXCEPT ![s] = @ \cup {self}]
    BY DEF SubscribeJoin
  <2>4. CASE self \in mapMediaSuber[s]
    <3>1. UNCHANGED mapMediaSuber
      BY <2>0, <2>1, <2>3, <2>4 DEF TypeOK
    <3> QED
      BY <2>2, <3>1, <1>a DEF mappedVars
  <2>5. CASE self \notin mapMediaSuber[s]
    <3>1. \A r \in Sms : self \notin mapMediaSuber[r]
      BY <2>0, <2>1, <2>5 DEF SmsInv
    <3>2. \A l \in Streams : self \notin Audience(l)
      BY <2>0, <3>1 DEF Audience, TypeOK
    <3>3. \A l \in Streams : mapStreamMediaSuber[l] = s => l = k
      BY <2>0, <2>1 DEF SmsInv
    <3>4. \A l \in Streams : Audience(l)' = IF l = k THEN Audience(k) \cup {self} ELSE Audience(l)
      BY <2>0, <2>1, <2>2, <2>3, <3>3 DEF Audience, TypeOK
    <3>5. \A p \in Peers : stream_media_suber[p] = s => p = q
      BY <2>0, <2>1, <3>3 DEF FeedInv, IInv, PeerInv
    <3>6. CASE q = NULL
      <4>1. \A p \in Peers : stream_media_suber[p] # s
        BY <3>5, <3>6
      <4>2. \A p \in Peers : Reach(p)' = Reach(p)
        BY <2>0, <2>1, <2>2, <2>3, <4>1 DEF Reach, TypeOK
      <4>3. PS!Join(k, self)
        BY <2>1, <2>2, <3>2, <3>4, <4>2 DEF PS!Join
      <4> QED
        BY <2>1, <4>3 DEF PS!Next
    <3>7. CASE q # NULL
      <4>1. q \in Peers /\ stream_media_suber[q] = s
        BY <2>0, <2>1, <3>7 DEF ConnectInv, TypeOK
      <4>2. \A p \in Peers : Reach(p)' =
              IF p = q THEN Audience(k) \cup {self} ELSE Reach(p)
        BY <2>0, <2>1, <2>2, <2>3, <3>5, <4>1 DEF Reach, Audience, TypeOK
      <4>3. PS!Join(k, self)
        BY <2>1, <2>2, <3>2, <3>4, <3>7, <4>1, <4>2 DEF PS!Join
      <4> QED
        BY <2>1, <4>3 DEF PS!Next
    <3> QED
      BY <3>6, <3>7
  <2> QED
    BY <2>4, <2>5
<1>13. CASE CodecStep
  BY <1>13, CodecFrame, <1>a DEF mappedVars, puberVars, registryVars
\* UnSubscribe: nobody reaches the suber from that step on.
<1>14. ASSUME NEW s \in Sms, UnSubscribe(s) PROVE PS!Next
  <2> USE <1>14
  <2> DEFINE k == stream[self]
  <2>0. TypeOK /\ SmsInv /\ FeedInv
    BY DEF IInv
  <2>1. self \in Peers /\ k \in Streams
    BY DEF UnSubscribe, IInv, ControlInv, CallPC
  <2>2. mapStreamMediaSuber[k] = s /\ self \in mapMediaSuber[s]
    BY DEF UnSubscribe, Joined
  <2>3. \A r \in Sms : self \in mapMediaSuber[r] => r = s
    BY <2>0, <2>1, <2>2 DEF SmsInv
  <2>4. \A l \in Streams : mapStreamMediaSuber[l] = s => l = k
    BY <2>0, <2>1, <2>2 DEF SmsInv
  <2>5. UNCHANGED <<mapX2MediaPuber, stream_media_suber>>
    BY DEF UnSubscribe, puberVars
  <2>6. mapMediaSuber' = [mapMediaSuber EXCEPT ![s] = @ \ {self}]
    BY DEF UnSubscribe
  <2>7. \/ mapStreamMediaSuber' = mapStreamMediaSuber
        \/ /\ mapMediaSuber[s] = {self}
           /\ mapStreamMediaSuber' = [mapStreamMediaSuber EXCEPT ![k] = NULL]
    BY DEF UnSubscribe
  <2>8. \A l \in Streams : Audience(l)' = IF l = k THEN Audience(k) \ {self} ELSE Audience(l)
    <3>1. CASE mapStreamMediaSuber' = mapStreamMediaSuber
      BY <2>0, <2>1, <2>2, <2>4, <2>6, <3>1 DEF Audience, TypeOK
    <3>2. CASE /\ mapMediaSuber[s] = {self}
               /\ mapStreamMediaSuber' = [mapStreamMediaSuber EXCEPT ![k] = NULL]
      BY <2>0, <2>1, <2>2, <2>4, <2>6, <3>2 DEF Audience, TypeOK
    <3> QED
      BY <2>7, <3>1, <3>2
  <2>9. \A p \in Peers : Reach(p)' = Reach(p) \ {self}
    BY <2>0, <2>3, <2>5, <2>6 DEF Reach, TypeOK
  <2>10. self \in Audience(k)
    BY <2>2 DEF Audience
  <2>11. PS!Leave(k, self)
    BY <2>1, <2>5, <2>8, <2>9, <2>10 DEF PS!Leave
  <2> QED
    BY <2>1, <2>11 DEF PS!Next
\* The StreamMediaSuber that is taken from the publisher is empty by then.
<1>15. CASE UnSubscribeDetach
  <2> USE <1>15
  <2> DEFINE k == stream[self]
  <2>0. TypeOK /\ SmsInv /\ FeedInv /\ PuberInv
    BY DEF IInv
  <2>1. k \in Streams /\ pc = "detach" /\ local \in Sms
    BY <2>0 DEF UnSubscribeDetach, IInv, ControlInv, CallPC, SmsInv, TypeOK
  <2>2. UNCHANGED <<mapX2MediaPuber, mapStreamMediaSuber, mapMediaSuber>>
        /\ SetRegistered(k, NULL)
    BY DEF UnSubscribeDetach, smsVars
  <2>3. mapMediaSuber[local] = {}
    <3> SUFFICES ASSUME NEW p \in mapMediaSuber[local] PROVE FALSE
      OBVIOUS
    <3>1. p \in Peers /\ p \in subers /\ mapStreamMediaSuber[stream[p]] = local
      BY <2>0, <2>1 DEF SmsInv, TypeOK
    <3>2. stream[p] \in Streams
      BY <3>1 DEF IInv, PeerInv
    <3> QED
      BY <2>0, <2>1, <3>1, <3>2 DEF SmsInv
  <2>4. \A p \in Peers : stream_media_suber'[p] =
          IF p = mapX2MediaPuber[k] THEN NULL ELSE stream_media_suber[p]
    BY <2>0, <2>1, <2>2, SetRegisteredFrame
  <2>5. \A p \in Peers : p = mapX2MediaPuber[k] => stream_media_suber[p] \in {local, NULL}
    BY <2>0, <2>1 DEF FeedInv, SmsInv, PuberInv
  <2>6. \A p \in Peers : Reach(p)' = Reach(p)
    BY <2>2, <2>3, <2>4, <2>5 DEF Reach
  <2>7. UNCHANGED [l \in Streams |-> Audience(l)]
    BY <2>2 DEF Audience
  <2> QED
    BY <2>2, <2>6, <2>7 DEF PS!vars
<1>16. CASE \E t \in Threads : Pool(t)
  BY <1>16, PoolFrames, <1>a DEF mappedVars, smsVars, registryVars
<1> QED
  BY <1>1, <1>2, <1>3, <1>4, <1>5, <1>6, <1>7, <1>8, <1>9, <1>10, <1>11, <1>12,
     <1>13, <1>14, <1>15, <1>16
     DEF Next, Main, MainLoop, PeerTick, Dispatch, ControlStep, CommandStep, CodecStep

\* The dispatch core implements PubSub, for any number of peers, streams and
\* pool threads (X2MediaDispatch, X2NetPeer and X2MediaPuber::OnX2RtcTick).
THEOREM Refinement == Spec => ImplementsPubSub
<1>1. Init => PS!Init
  BY DEF Init, PS!Init, Audience, Reach
<1>2. IInv /\ [Next]_vars => [PS!Next]_(PS!vars)
  BY RefinementStep
<1> QED
  BY <1>1, <1>2, Invariance, PTL DEF Spec, ImplementsPubSub, PS!Spec

\* Frames reach only players of a stream that the publisher has: the tick of a
\* puber that was unseated, or that is about to be detached, goes through none.
THEOREM FramesReachAudience == Spec => []PS!ReachesItsAudience
<1>1. IInv => PS!ReachesItsAudience
  <2> SUFFICES ASSUME IInv, NEW p \in Peers, Reach(p) # {}
               PROVE  \E k \in Streams : mapX2MediaPuber[k] = p /\ Reach(p) \subseteq Audience(k)
    BY DEF PS!ReachesItsAudience
  <2>0. TypeOK /\ PeerInv /\ SmsInv /\ FeedInv
    BY DEF IInv
  <2>1. stream_media_suber[p] \in Sms
    BY <2>0 DEF Reach, TypeOK
  <2>2. PICK q \in mapMediaSuber[stream_media_suber[p]] : TRUE
    BY <2>1 DEF Reach
  <2>3. q \in Peers /\ q \in subers /\ mapStreamMediaSuber[stream[q]] = stream_media_suber[p]
    BY <2>0, <2>1, <2>2 DEF SmsInv, TypeOK
  <2>4. stream[q] \in Streams
    BY <2>0, <2>3 DEF PeerInv
  <2>5. p \in pubers /\ mapX2MediaPuber[stream[p]] = p /\ stream[p] \in Streams
    BY <2>0, <2>1 DEF FeedInv, PeerInv
  <2>6. mapStreamMediaSuber[stream[p]] = stream_media_suber[p]
    BY <2>0, <2>1, <2>3, <2>4 DEF FeedInv, SmsInv
  <2> QED
    BY <2>1, <2>5, <2>6 DEF Reach, Audience
<1> QED
  BY <1>1, Invariance, PTL

=============================================================================
