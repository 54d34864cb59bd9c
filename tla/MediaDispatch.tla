--------------------------- MODULE MediaDispatch ---------------------------
(***************************************************************************)
(* The dispatch core: X2MediaDispatch (the registry of publishers and of   *)
(* subscriptions), the life cycle of X2NetPeer, and the part of            *)
(* X2MediaPuber::OnX2RtcTick, run by the threads of X2RtcThreadPool, that  *)
(* shares state with the registry.                                         *)
(*                                                                         *)
(* Threads.  The main thread loops over X2ProxyImpl::RunOnce,              *)
(* X2MediaDispatch::RunOnce and X2RtcThreadPool::RunOnce (main.cpp); the   *)
(* last one ticks every peer in the order of its address.  Each pool       *)
(* thread ticks the publishers registered with it.  Network threads and    *)
(* the RTN library only create peers and set close flags.                  *)
(*                                                                         *)
(* A section of code under one mutex that takes no lock which another      *)
(* thread keeps over a step is one action.  The locks a pool thread keeps  *)
(* over a step are cs_rtc_tick_ of the thread and cs_stream_media_suber_   *)
(* of the publisher it is ticking; they are read off tickPc and tickCur.   *)
(* An X2MediaPuber and an X2MediaSuber are identified with the one peer    *)
(* that owns them.  What the frames contain is the subject of MediaPuber.  *)
(*                                                                         *)
(* Wrong versions of some definitions stand before them ("Mutant"): put in *)
(* place of the right one, each violates a property below.                 *)
(***************************************************************************)
EXTENDS Naturals, FiniteSets

CONSTANTS
  Peers,      \* addresses of X2NetPeer objects; the tick map orders them
  Streams,    \* (app id, stream id) pairs
  Sms,        \* addresses a StreamMediaSuber can be allocated at
  Codecs,     \* audio codec types other than X2Codec_None
  NumThreads, \* threads of the pool (main.cpp starts 2)
  RtcPeers,   \* the peers whose protocol is WebRTC
  Players,    \* the peers whose session may ask to play
  AudCodec,   \* the audio codec a peer publishes, or asks for when it plays
  MaxEvents,  \* bound: "StatueChanged" events a WebRTC peer delivers
  NULL

ASSUME ConstantsAssumption ==
  /\ Peers \subseteq Nat \ {0}
  /\ RtcPeers \subseteq Peers
  /\ Players \subseteq Peers
  /\ AudCodec \in [Peers -> Codecs]
  /\ MaxEvents \in Nat
  /\ NumThreads \in Nat \ {0}
  /\ NULL \notin Peers \cup Streams \cup Sms \cup Codecs

Threads == 0 .. NumThreads - 1

VARIABLES
  \* X2NetPeer
  peerState,        \* "absent", "open", "closed" (b_self_closed_), "gone"
  stream,           \* str_app_id_ and str_stream_id_
  setParams,        \* the peers with b_set_params_
  notified,         \* the peers with one of the b_notify_close_ flags set
  tryTime,          \* n_next_try_publish_time_: "off", "armed", "due"
  selfCtrl,         \* the peers with b_play_self_ctrl_
  events,           \* "StatueChanged" events delivered so far
  pubers,           \* the peers that own an X2MediaPuber
  subers,           \* the peers that own an X2MediaSuber
  \* X2MediaPuber
  thread,           \* the pool thread the publisher is registered with
  stream_media_suber, n_aud_sub_codec_changed, mapAudEncoder,
  \* X2MediaDispatch
  mapX2MediaPuber, mapStreamMediaSuber, listDelete,
  \* StreamMediaSuber objects
  allocated, mapMediaSuber, eAudCodecType, mapAudSubCodec, nAudSubCodecChanged,
  \* What the registration server was last told, per stream
  announcedPub, announcedSub,
  \* Control of the main thread and of the pool threads
  pc,               \* where the main thread is
  self,             \* the peer being ticked (0: none yet in this round)
  ret,              \* where to continue after a call into X2MediaDispatch
  local,            \* streamMediaSuberNew / streamMediaSuberDelete
  nextThread,       \* n_thread_cur_, modulo the number of threads
  tickPc, tickCur   \* pool threads: "idle", "locked", "dispatch"; the puber

peerVars == <<peerState, stream, setParams, notified, tryTime, selfCtrl,
              events, pubers, subers>>
puberVars == <<thread, stream_media_suber, n_aud_sub_codec_changed,
               mapAudEncoder, nextThread>>
smsVars == <<allocated, mapMediaSuber, eAudCodecType, mapAudSubCodec,
             nAudSubCodecChanged>>
registryVars == <<mapX2MediaPuber, mapStreamMediaSuber, listDelete,
                  announcedPub, announcedSub>>
mainVars == <<pc, self, ret, local>>
poolVars == <<tickPc, tickCur>>
vars == <<peerVars, puberVars, smsVars, registryVars, mainVars, poolVars>>

PC == {"proxy", "dispatch", "round", "params", "retry", "check", "data",
       "trypub", "attach", "sub", "subattach", "codec", "unpublish",
       "delpuber", "unsub", "detach", "finish"}

TypeOK ==
  /\ peerState \in [Peers -> {"absent", "open", "closed", "gone"}]
  /\ stream \in [Peers -> Streams \cup {NULL}]
  /\ setParams \subseteq Peers
  /\ notified \subseteq Peers
  /\ tryTime \in [Peers -> {"off", "armed", "due"}]
  /\ selfCtrl \subseteq Peers
  /\ events \in [Peers -> 0 .. MaxEvents]
  /\ pubers \subseteq Peers
  /\ subers \subseteq Peers
  /\ thread \in [Peers -> Threads]
  /\ stream_media_suber \in [Peers -> Sms \cup {NULL}]
  /\ n_aud_sub_codec_changed \in [Peers -> Nat]
  /\ mapAudEncoder \in [Peers -> SUBSET Codecs]
  /\ mapX2MediaPuber \in [Streams -> Peers \cup {NULL}]
  /\ mapStreamMediaSuber \in [Streams -> Sms \cup {NULL}]
  /\ listDelete \subseteq Sms
  /\ allocated \subseteq Sms
  /\ mapMediaSuber \in [Sms -> SUBSET Peers]
  /\ eAudCodecType \in [Peers -> Codecs \cup {NULL}]
  /\ mapAudSubCodec \in [Sms -> [Codecs -> Nat]]
  /\ nAudSubCodecChanged \in [Sms -> Nat]
  /\ announcedPub \subseteq Streams
  /\ announcedSub \subseteq Streams
  /\ pc \in PC
  /\ self \in Peers \cup {0}
  /\ ret \in {"check", "retry", "data", "finish"}
  /\ local \in Sms \cup {NULL}
  /\ nextThread \in Threads
  /\ tickPc \in [Threads -> {"idle", "locked", "dispatch"}]
  /\ tickCur \in [Threads -> Peers \cup {NULL}]

Init ==
  /\ peerState = [p \in Peers |-> "absent"]
  /\ stream = [p \in Peers |-> NULL]
  /\ setParams = {}
  /\ notified = {}
  /\ tryTime = [p \in Peers |-> "off"]
  /\ selfCtrl = {}
  /\ events = [p \in Peers |-> 0]
  /\ pubers = {}
  /\ subers = {}
  /\ thread = [p \in Peers |-> 0]
  /\ stream_media_suber = [p \in Peers |-> NULL]
  /\ n_aud_sub_codec_changed = [p \in Peers |-> 0]
  /\ mapAudEncoder = [p \in Peers |-> {}]
  /\ mapX2MediaPuber = [k \in Streams |-> NULL]
  /\ mapStreamMediaSuber = [k \in Streams |-> NULL]
  /\ listDelete = {}
  /\ allocated = {}
  /\ mapMediaSuber = [s \in Sms |-> {}]
  /\ eAudCodecType = [p \in Peers |-> NULL]
  /\ mapAudSubCodec = [s \in Sms |-> [c \in Codecs |-> 0]]
  /\ nAudSubCodecChanged = [s \in Sms |-> 0]
  /\ announcedPub = {}
  /\ announcedSub = {}
  /\ pc = "proxy"
  /\ self = 0
  /\ ret = "check"
  /\ local = NULL
  /\ nextThread = 0
  /\ tickPc = [t \in Threads |-> "idle"]
  /\ tickCur = [t \in Threads |-> NULL]

-----------------------------------------------------------------------------
(* Locks *)

\* cs_rtc_tick_ of the main pool is held for the whole round of peer ticks.
PeerTickLockFree == pc \in {"proxy", "dispatch"}

\* cs_rtc_tick_ of a pool thread is held for the whole round of puber ticks.
TickLockFree(t) == tickPc[t] = "idle"

\* Mutant: SetStreamMediaSuber does not take the lock.
SuberLockIgnored(p) == TRUE

\* cs_stream_media_suber_ of a puber is held while a frame is dispatched.
SuberLockFree(p) == \A t \in Threads : ~(tickPc[t] = "dispatch" /\ tickCur[t] = p)

-----------------------------------------------------------------------------
(* Network threads, the RTN library and the clock *)

\* X2ProxyImpl::OnX2NetProcessNewConnection: a peer is created, and registered
\* with the main tick.  A connection that already knows its parameters
\* (WebRTC, SRT, RTP) has them set on the peer.
NewConnection(p, hasParams) ==
  /\ peerState[p] = "absent"
  /\ PeerTickLockFree
  /\ p \in RtcPeers => hasParams
  /\ peerState' = [peerState EXCEPT ![p] = "open"]
  /\ setParams' = IF hasParams THEN setParams \cup {p} ELSE setParams
  /\ UNCHANGED <<stream, notified, tryTime, selfCtrl, events, pubers, subers,
                 puberVars, smsVars, registryVars, mainVars, poolVars>>

\* X2NetPeer::OnX2NetConnectionClosed, on the thread of the connection.
ConnectionClosed(p) ==
  /\ peerState[p] = "open"
  /\ p \notin notified
  /\ notified' = notified \cup {p}
  /\ UNCHANGED <<peerState, stream, setParams, tryTime, selfCtrl, events,
                 pubers, subers, puberVars, smsVars, registryVars, mainVars,
                 poolVars>>

\* X2MediaRtnPub::OnX2GtRtnPublishEvent with Failed or Closed, on a thread of
\* the RTN library, for a puber whose RtnPublish is in force.
RtnPublishClosed(p) ==
  /\ \E k \in Streams : mapX2MediaPuber[k] = p
  /\ p \notin notified
  /\ notified' = notified \cup {p}
  /\ UNCHANGED <<peerState, stream, setParams, tryTime, selfCtrl, events,
                 pubers, subers, puberVars, smsVars, registryVars, mainVars,
                 poolVars>>

\* 100 ms have passed since a refused TryPublish.
TryTimeDue(p) ==
  /\ peerState[p] = "open"
  /\ tryTime[p] = "armed"
  /\ tryTime' = [tryTime EXCEPT ![p] = "due"]
  /\ UNCHANGED <<peerState, stream, setParams, notified, selfCtrl, events,
                 pubers, subers, puberVars, smsVars, registryVars, mainVars,
                 poolVars>>

-----------------------------------------------------------------------------
(* Main thread: the loop *)

Goto(l) == pc' = l

\* X2ProxyImpl::RunOnce: the peers that reported OnX2NetPeerClosed are
\* unregistered and deleted.
ProxyRunOnce ==
  /\ pc = "proxy"
  /\ peerState' = [p \in Peers |->
                     IF peerState[p] = "closed" THEN "gone" ELSE peerState[p]]
  /\ Goto("dispatch")
  /\ UNCHANGED <<stream, setParams, notified, tryTime, selfCtrl, events, pubers,
                 subers, self, ret, local, puberVars, smsVars, registryVars,
                 poolVars>>

\* X2MediaDispatch::RunOnce: the queued StreamMediaSubers are deleted.
DispatchRunOnce ==
  /\ pc = "dispatch"
  /\ allocated' = allocated \ listDelete
  /\ listDelete' = {}
  /\ Goto("round")
  /\ self' = 0
  /\ UNCHANGED <<mapMediaSuber, eAudCodecType, mapAudSubCodec,
                 nAudSubCodecChanged, mapX2MediaPuber, mapStreamMediaSuber,
                 announcedPub, announcedSub, ret, local, peerVars, puberVars,
                 poolVars>>

\* X2RtcThreadPool::RunOnce: the registered peers in the order of their
\* addresses; a peer that has closed itself returns at once.
Following == {p \in Peers : p > self /\ peerState[p] \in {"open", "closed"}}

TickNext ==
  /\ pc = "round"
  /\ \E p \in Following :
       /\ \A q \in Following : p <= q
       /\ self' = p
       /\ Goto(IF peerState[p] = "closed" THEN "round" ELSE "params")
  /\ UNCHANGED <<ret, local, peerVars, puberVars, smsVars, registryVars, poolVars>>

TickEnd ==
  /\ pc = "round"
  /\ Following = {}
  /\ Goto("proxy")
  /\ UNCHANGED <<self, ret, local, peerVars, puberVars, smsVars, registryVars,
                 poolVars>>

-----------------------------------------------------------------------------
(* Main thread: X2NetPeer::OnX2RtcTick *)

\* Mutant: the index is not reduced modulo the number of threads.
NextThreadUnwrapped == nextThread + 1

\* X2RtcThreadPool::RegisteX2RtcTick: the threads in turn.
NextThread == IF nextThread + 1 = NumThreads THEN 0 ELSE nextThread + 1

\* The commands of a session: OnX2ProtoHandlerPublish and OnX2ProtoHandlerPlay.
\* A session names one stream.  Creating the puber registers it with the next
\* pool thread, whose tick lock must be free.
Publish(k, l) ==
  /\ stream[self] = NULL
  /\ TickLockFree(nextThread)
  /\ stream' = [stream EXCEPT ![self] = k]
  /\ pubers' = pubers \cup {self}
  /\ thread' = [thread EXCEPT ![self] = nextThread]
  /\ nextThread' = NextThread
  /\ ret' = l
  /\ Goto("trypub")
  /\ UNCHANGED <<peerState, notified, tryTime, selfCtrl, events, subers, self,
                 local, stream_media_suber, n_aud_sub_codec_changed,
                 mapAudEncoder, smsVars, registryVars, poolVars>>

Play(k, ctrl, l) ==
  /\ self \in Players
  /\ stream[self] = NULL
  /\ stream' = [stream EXCEPT ![self] = k]
  /\ subers' = subers \cup {self}
  /\ selfCtrl' = IF ctrl THEN selfCtrl \cup {self} ELSE selfCtrl
  /\ ret' = l
  /\ Goto(IF ctrl THEN "codec" ELSE "sub")
  /\ UNCHANGED <<peerState, notified, tryTime, events, pubers, self, local,
                 puberVars, smsVars, registryVars, poolVars>>

\* The protocol handler reads the parameters of the connection once.
SetStreamId ==
  /\ pc = "params"
  /\ self \in setParams
  /\ setParams' = setParams \ {self}
  /\ \E k \in Streams :
       \/ Publish(k, "retry")
       \/ \E ctrl \in BOOLEAN : Play(k, ctrl, "retry")

NoParams ==
  /\ pc = "params"
  /\ self \notin setParams
  /\ Goto("retry")
  /\ UNCHANGED <<self, ret, local, peerVars, puberVars, smsVars, registryVars,
                 poolVars>>

RetryPublish ==
  /\ pc = "retry"
  /\ tryTime[self] = "due"
  /\ tryTime' = [tryTime EXCEPT ![self] = "off"]
  /\ ret' = "check"
  /\ Goto("trypub")
  /\ UNCHANGED <<peerState, stream, setParams, notified, selfCtrl, events,
                 pubers, subers, self, local, puberVars, smsVars, registryVars,
                 poolVars>>

NoRetry ==
  /\ pc = "retry"
  /\ tryTime[self] # "due"
  /\ Goto("check")
  /\ UNCHANGED <<self, ret, local, peerVars, puberVars, smsVars, registryVars,
                 poolVars>>

\* Mutant: the publisher is deleted without UnPublish.
CheckCloseSkipsUnPublish ==
  /\ pc = "check"
  /\ ret' = IF self \in notified THEN "finish" ELSE ret
  /\ Goto(IF self \notin notified THEN "data"
          ELSE IF self \in pubers THEN "delpuber"
          ELSE IF self \in subers THEN "unsub" ELSE "finish")
  /\ UNCHANGED <<self, local, peerVars, puberVars, smsVars, registryVars, poolVars>>

\* Mutant: only a peer that publishes or plays is closed.
CheckCloseOnlyNamed ==
  /\ pc = "check"
  /\ ret' = IF self \in notified THEN "finish" ELSE ret
  /\ Goto(IF self \in notified \cap pubers THEN "unpublish"
          ELSE IF self \in notified \cap subers THEN "unsub" ELSE "data")
  /\ UNCHANGED <<self, local, peerVars, puberVars, smsVars, registryVars, poolVars>>

\* The close flags: the connection is released and the close path begins.
CheckClose ==
  /\ pc = "check"
  /\ IF self \in notified
       THEN /\ ret' = "finish"
            /\ Goto(IF self \in pubers THEN "unpublish"
                    ELSE IF self \in subers THEN "unsub" ELSE "finish")
       ELSE /\ Goto("data")
            /\ UNCHANGED ret
  /\ UNCHANGED <<self, local, peerVars, puberVars, smsVars, registryVars, poolVars>>

\* The received data is handed to the protocol handler, message by message:
\* a command (RTMP, HTTP-FLV), ...
RecvCommand ==
  /\ pc = "data"
  /\ self \notin RtcPeers
  /\ \E k \in Streams :
       \/ Publish(k, "data")
       \/ \E ctrl \in BOOLEAN : Play(k, ctrl, "data")
  /\ UNCHANGED setParams

\* ... the end of the session, X2NetPeer::OnX2ProtoHandlerClose, ...
RecvClose ==
  /\ pc = "data"
  /\ notified' = notified \cup {self}
  /\ UNCHANGED <<peerState, stream, setParams, tryTime, selfCtrl, events,
                 pubers, subers, mainVars, puberVars, smsVars, registryVars,
                 poolVars>>

\* ... or a "StatueChanged" event of a WebRTC session:
\* OnX2ProtoHandlerPlayStateChanged, then OnX2ProtoHandlerSetPlayCodecType
\* when it is connected.
RecvStatueChanged(connected) ==
  /\ pc = "data"
  /\ self \in RtcPeers
  /\ stream[self] # NULL
  /\ events[self] < MaxEvents
  /\ events' = [events EXCEPT ![self] = @ + 1]
  /\ ret' = "data"
  /\ IF self \in selfCtrl
       THEN Goto(IF connected THEN "sub" ELSE "unsub")
       ELSE Goto(IF connected THEN "codec" ELSE "data")
  /\ UNCHANGED <<peerState, stream, setParams, notified, tryTime, selfCtrl,
                 pubers, subers, self, local, puberVars, smsVars, registryVars,
                 poolVars>>

NoMoreData ==
  /\ pc = "data"
  /\ Goto("round")
  /\ UNCHANGED <<self, ret, local, peerVars, puberVars, smsVars, registryVars,
                 poolVars>>

\* ~X2MediaPuber: UnRegisteX2RtcTick waits for the round of the pool thread
\* (and briefly takes the locks of the threads before it).
DeletePuber ==
  /\ pc = "delpuber"
  /\ TickLockFree(thread[self])
  /\ pubers' = pubers \ {self}
  /\ mapAudEncoder' = [mapAudEncoder EXCEPT ![self] = {}]
  /\ Goto(IF self \in subers THEN "unsub" ELSE "finish")
  /\ UNCHANGED <<peerState, stream, setParams, notified, tryTime, selfCtrl,
                 events, subers, thread, stream_media_suber, nextThread,
                 n_aud_sub_codec_changed, self, ret, local, smsVars,
                 registryVars, poolVars>>

\* The suber is deleted, the peer is closed and queued for deletion.
FinishClose ==
  /\ pc = "finish"
  /\ subers' = subers \ {self}
  /\ peerState' = [peerState EXCEPT ![self] = "closed"]
  /\ Goto("round")
  /\ UNCHANGED <<stream, setParams, notified, tryTime, selfCtrl, events, pubers,
                 self, ret, local, puberVars, smsVars, registryVars, poolVars>>

-----------------------------------------------------------------------------
(* Main thread: X2MediaDispatch, called by the peer being ticked *)

\* Mutant: NULL does not reset the codec version.
SetRegisteredKeepsVersion(k, s) ==
  LET q == mapX2MediaPuber[k]
  IN  /\ q # NULL => SuberLockFree(q)
      /\ stream_media_suber' = [p \in Peers |->
                                 IF p = q THEN s ELSE stream_media_suber[p]]
      /\ UNCHANGED n_aud_sub_codec_changed

\* Mutant: NULL is ignored.
SetRegisteredNeverNull(k, s) ==
  LET q == mapX2MediaPuber[k]
  IN  /\ q # NULL => SuberLockFree(q)
      /\ stream_media_suber' = [p \in Peers |->
                                 IF p = q /\ s # NULL THEN s
                                 ELSE stream_media_suber[p]]
      /\ UNCHANGED n_aud_sub_codec_changed

\* X2MediaPuber::SetStreamMediaSuber on the puber registered for stream k, if
\* there is one; NULL also resets the codec version it has seen.
SetRegistered(k, s) ==
  LET q == mapX2MediaPuber[k]
  IN  IF q = NULL
      THEN UNCHANGED <<stream_media_suber, n_aud_sub_codec_changed>>
      ELSE /\ SuberLockFree(q)
           /\ stream_media_suber' = [stream_media_suber EXCEPT ![q] = s]
           /\ n_aud_sub_codec_changed' =
                IF s = NULL THEN [n_aud_sub_codec_changed EXCEPT ![q] = 0]
                ELSE n_aud_sub_codec_changed

\* Mutant: the publisher in the way is not told to close.
TryPublishNoForceClose ==
  /\ pc = "trypub"
  /\ mapX2MediaPuber[stream[self]] # NULL
  /\ tryTime' = [tryTime EXCEPT ![self] = "armed"]
  /\ Goto(ret)
  /\ UNCHANGED <<peerState, stream, setParams, notified, selfCtrl, events, pubers,
                 subers, self, ret, local, puberVars, smsVars, registryVars,
                 poolVars>>

\* TryPublish when the stream has a publisher: that publisher is told to close
\* (ForceClose) and the caller tries again later.
TryPublishRefused ==
  /\ pc = "trypub"
  /\ mapX2MediaPuber[stream[self]] # NULL
  /\ notified' = notified \cup {mapX2MediaPuber[stream[self]]}
  /\ tryTime' = [tryTime EXCEPT ![self] = "armed"]
  /\ Goto(ret)
  /\ UNCHANGED <<peerState, stream, setParams, selfCtrl, events, pubers, subers,
                 self, ret, local, puberVars, smsVars, registryVars, poolVars>>

\* TryPublish when it has none: the caller is registered, ...
TryPublishOK ==
  /\ pc = "trypub"
  /\ mapX2MediaPuber[stream[self]] = NULL
  /\ mapX2MediaPuber' = [mapX2MediaPuber EXCEPT ![stream[self]] = self]
  /\ Goto("attach")
  /\ UNCHANGED <<mapStreamMediaSuber, listDelete, announcedPub, announcedSub,
                 self, ret, local, peerVars, puberVars, smsVars, poolVars>>

\* Mutant: waiting subscribers are not connected.
TryPublishNoAttach ==
  /\ pc = "attach"
  /\ announcedPub' = announcedPub \cup {stream[self]}
  /\ Goto(ret)
  /\ UNCHANGED <<mapX2MediaPuber, mapStreamMediaSuber, listDelete, announcedSub,
                 self, ret, local, peerVars, puberVars, smsVars, poolVars>>

\* ... announced, and connected to the subscribers that are waiting for it.
TryPublishAttach ==
  /\ pc = "attach"
  /\ announcedPub' = announcedPub \cup {stream[self]}
  /\ IF mapStreamMediaSuber[stream[self]] = NULL
       THEN UNCHANGED stream_media_suber
       ELSE /\ SuberLockFree(self)
            /\ stream_media_suber' = [stream_media_suber EXCEPT
                 ![self] = mapStreamMediaSuber[stream[self]]]
  /\ Goto(ret)
  /\ UNCHANGED <<thread, n_aud_sub_codec_changed, mapAudEncoder, nextThread,
                 mapX2MediaPuber, mapStreamMediaSuber, listDelete, announcedSub,
                 self, ret, local, peerVars, smsVars, poolVars>>

\* Mutant: the registration server is not told.
UnPublishSilent ==
  /\ pc = "unpublish"
  /\ SetRegistered(stream[self], NULL)
  /\ mapX2MediaPuber' = [mapX2MediaPuber EXCEPT ![stream[self]] = NULL]
  /\ Goto("delpuber")
  /\ UNCHANGED <<thread, mapAudEncoder, nextThread, mapStreamMediaSuber,
                 listDelete, announcedPub, announcedSub, self, ret, local,
                 peerVars, smsVars, poolVars>>

\* UnPublish finds the registration by the name of the stream alone.
UnPublish ==
  /\ pc = "unpublish"
  /\ SetRegistered(stream[self], NULL)
  /\ mapX2MediaPuber' = [mapX2MediaPuber EXCEPT ![stream[self]] = NULL]
  /\ announcedPub' = announcedPub \ {stream[self]}
  /\ Goto("delpuber")
  /\ UNCHANGED <<thread, mapAudEncoder, nextThread, mapStreamMediaSuber,
                 listDelete, announcedSub, self, ret, local, peerVars, smsVars,
                 poolVars>>

\* Subscribe to a stream nobody subscribes to: a new StreamMediaSuber, ...
SubscribeFirst(s) ==
  /\ pc = "sub"
  /\ mapStreamMediaSuber[stream[self]] = NULL
  /\ s \notin allocated
  /\ allocated' = allocated \cup {s}
  /\ mapMediaSuber' = [mapMediaSuber EXCEPT ![s] = {self}]
  /\ mapAudSubCodec' = [mapAudSubCodec EXCEPT ![s] = [c \in Codecs |-> 0]]
  /\ nAudSubCodecChanged' = [nAudSubCodecChanged EXCEPT ![s] = 0]
  /\ mapStreamMediaSuber' = [mapStreamMediaSuber EXCEPT ![stream[self]] = s]
  /\ announcedSub' = announcedSub \cup {stream[self]}
  /\ local' = s
  /\ Goto("subattach")
  /\ UNCHANGED <<eAudCodecType, mapX2MediaPuber, listDelete, announcedPub,
                 self, ret, peerVars, puberVars, poolVars>>

\* ... given to the publisher of the stream if it has one.
SubscribeAttach ==
  /\ pc = "subattach"
  /\ SetRegistered(stream[self], local)
  /\ Goto("codec")
  /\ UNCHANGED <<thread, mapAudEncoder, nextThread, self, ret, local, peerVars,
                 smsVars, registryVars, poolVars>>

SubscribeJoin ==
  /\ pc = "sub"
  /\ mapStreamMediaSuber[stream[self]] # NULL
  /\ mapMediaSuber' = [mapMediaSuber EXCEPT
                         ![mapStreamMediaSuber[stream[self]]] = @ \cup {self}]
  /\ Goto("codec")
  /\ UNCHANGED <<allocated, eAudCodecType, mapAudSubCodec, nAudSubCodecChanged,
                 self, ret, local, peerVars, puberVars, registryVars, poolVars>>

\* The StreamMediaSuber in which the peer being ticked is a suber, if any.
Joined(s) ==
  /\ s \in Sms
  /\ s = mapStreamMediaSuber[stream[self]]
  /\ self \in mapMediaSuber[s]

NotJoined == \A s \in Sms : ~Joined(s)

\* ResetSubCodecType after Subscribe, and on every connected event: the codec
\* is counted once more.
ResetSubCodecType(s) ==
  /\ pc = "codec"
  /\ Joined(s)
  /\ LET c == AudCodec[self]
     IN  /\ eAudCodecType' = [eAudCodecType EXCEPT ![self] = c]
         /\ mapAudSubCodec' = [mapAudSubCodec EXCEPT ![s][c] = @ + 1]
         /\ nAudSubCodecChanged' =
              IF mapAudSubCodec[s][c] = 0
              THEN [nAudSubCodecChanged EXCEPT ![s] = @ + 1]
              ELSE nAudSubCodecChanged
  /\ Goto(ret)
  /\ UNCHANGED <<allocated, mapMediaSuber, self, ret, local, peerVars, puberVars,
                 registryVars, poolVars>>

ResetNotJoined ==
  /\ pc = "codec"
  /\ NotJoined
  /\ Goto(ret)
  /\ UNCHANGED <<self, ret, local, peerVars, puberVars, smsVars, registryVars,
                 poolVars>>

\* Mutant: the count is dropped with the first suber that leaves.
UnCountErases(s, c) ==
  /\ mapAudSubCodec' = [mapAudSubCodec EXCEPT ![s][c] = 0]
  /\ nAudSubCodecChanged' = [nAudSubCodecChanged EXCEPT ![s] = @ + 1]

\* UnSubscribe: the codec of the suber is counted once less, the suber leaves,
\* and with the last suber the StreamMediaSuber leaves the registry, ...
UnCount(s, c) ==
  /\ mapAudSubCodec' = IF mapAudSubCodec[s][c] = 0 THEN mapAudSubCodec
                       ELSE [mapAudSubCodec EXCEPT ![s][c] = @ - 1]
  /\ nAudSubCodecChanged' =
       IF mapAudSubCodec[s][c] = 1 THEN [nAudSubCodecChanged EXCEPT ![s] = @ + 1]
       ELSE nAudSubCodecChanged

UnSubscribe(s) ==
  /\ pc = "unsub"
  /\ Joined(s)
  /\ IF eAudCodecType[self] = NULL
       THEN UNCHANGED <<mapAudSubCodec, nAudSubCodecChanged>>
       ELSE UnCount(s, eAudCodecType[self])
  /\ eAudCodecType' = [eAudCodecType EXCEPT ![self] = NULL]
  /\ mapMediaSuber' = [mapMediaSuber EXCEPT ![s] = @ \ {self}]
  /\ IF mapMediaSuber[s] = {self}
       THEN /\ mapStreamMediaSuber' =
                 [mapStreamMediaSuber EXCEPT ![stream[self]] = NULL]
            /\ announcedSub' = announcedSub \ {stream[self]}
            /\ local' = s
            /\ Goto("detach")
       ELSE /\ Goto(ret)
            /\ UNCHANGED <<mapStreamMediaSuber, announcedSub, local>>
  /\ UNCHANGED <<allocated, mapX2MediaPuber, listDelete, announcedPub, self, ret,
                 peerVars, puberVars, poolVars>>

UnSubscribeNotJoined ==
  /\ pc = "unsub"
  /\ NotJoined
  /\ Goto(ret)
  /\ UNCHANGED <<self, ret, local, peerVars, puberVars, smsVars, registryVars,
                 poolVars>>

\* ... is taken from the publisher, and queued for deletion.
UnSubscribeDetach ==
  /\ pc = "detach"
  /\ SetRegistered(stream[self], NULL)
  /\ listDelete' = listDelete \cup {local}
  /\ Goto(ret)
  /\ UNCHANGED <<thread, mapAudEncoder, nextThread, mapX2MediaPuber,
                 mapStreamMediaSuber, announcedPub, announcedSub, self, ret,
                 local, peerVars, smsVars, poolVars>>

-----------------------------------------------------------------------------
(* Pool threads *)

\* X2RtcThread::Thread: a round of ticks under cs_rtc_tick_.
RoundBegin(t) ==
  /\ tickPc[t] = "idle"
  /\ tickPc' = [tickPc EXCEPT ![t] = "locked"]
  /\ UNCHANGED <<tickCur, peerVars, puberVars, smsVars, registryVars, mainVars>>

RoundEnd(t) ==
  /\ tickPc[t] = "locked"
  /\ tickPc' = [tickPc EXCEPT ![t] = "idle"]
  /\ UNCHANGED <<tickCur, peerVars, puberVars, smsVars, registryVars, mainVars>>

\* The codecs some suber of s asks for.
Wanted(s) == {c \in Codecs : mapAudSubCodec[s][c] > 0}

\* One encoder for each wanted codec but the publisher's own.
SyncEncoders(p, s) ==
  IF n_aud_sub_codec_changed[p] = nAudSubCodecChanged[s]
  THEN UNCHANGED <<n_aud_sub_codec_changed, mapAudEncoder>>
  ELSE /\ n_aud_sub_codec_changed' =
            [n_aud_sub_codec_changed EXCEPT ![p] = nAudSubCodecChanged[s]]
       /\ mapAudEncoder' = [mapAudEncoder EXCEPT ![p] =
            (@ \cup (Wanted(s) \ {AudCodec[p]})) \cap Wanted(s)]

\* OnX2RtcTick takes a frame and, with subscribers, keeps
\* cs_stream_media_suber_ until it is dispatched; an audio frame first brings
\* the encoders up to date.
TickFrame(t, p, isAudio) ==
  /\ tickPc[t] = "locked"
  /\ p \in pubers
  /\ thread[p] = t
  /\ stream_media_suber[p] # NULL
  /\ IF isAudio THEN SyncEncoders(p, stream_media_suber[p])
     ELSE UNCHANGED <<n_aud_sub_codec_changed, mapAudEncoder>>
  /\ tickPc' = [tickPc EXCEPT ![t] = "dispatch"]
  /\ tickCur' = [tickCur EXCEPT ![t] = p]
  /\ UNCHANGED <<thread, stream_media_suber, nextThread, peerVars, smsVars,
                 registryVars, mainVars>>

\* Without subscribers it frees the encoders.
TickFrameNoSuber(t, p) ==
  /\ tickPc[t] = "locked"
  /\ p \in pubers
  /\ thread[p] = t
  /\ stream_media_suber[p] = NULL
  /\ mapAudEncoder' = [mapAudEncoder EXCEPT ![p] = {}]
  /\ UNCHANGED <<thread, stream_media_suber, n_aud_sub_codec_changed, nextThread,
                 peerVars, smsVars, registryVars, mainVars, poolVars>>

\* The frame is queued on the peer of every suber in mapMediaSuber and the
\* lock is released.
TickDispatch(t) ==
  /\ tickPc[t] = "dispatch"
  /\ tickPc' = [tickPc EXCEPT ![t] = "locked"]
  /\ tickCur' = [tickCur EXCEPT ![t] = NULL]
  /\ UNCHANGED <<peerVars, puberVars, smsVars, registryVars, mainVars>>

-----------------------------------------------------------------------------

Environment ==
  \E p \in Peers :
    \/ \E b \in BOOLEAN : NewConnection(p, b)
    \/ ConnectionClosed(p)
    \/ RtnPublishClosed(p)
    \/ TryTimeDue(p)

MainLoop == ProxyRunOnce \/ DispatchRunOnce \/ TickNext \/ TickEnd

PeerTick ==
  \/ SetStreamId \/ NoParams \/ RetryPublish \/ NoRetry \/ CheckClose
  \/ RecvCommand \/ RecvClose \/ NoMoreData
  \/ \E b \in BOOLEAN : RecvStatueChanged(b)
  \/ DeletePuber \/ FinishClose

Dispatch ==
  \/ TryPublishRefused \/ TryPublishOK \/ TryPublishAttach \/ UnPublish
  \/ SubscribeAttach \/ SubscribeJoin
  \/ ResetNotJoined \/ UnSubscribeNotJoined \/ UnSubscribeDetach
  \/ \E s \in Sms : SubscribeFirst(s) \/ ResetSubCodecType(s) \/ UnSubscribe(s)

Main == MainLoop \/ PeerTick \/ Dispatch

PoolFrame(t) ==
  \E p \in Peers : TickFrameNoSuber(t, p) \/ \E b \in BOOLEAN : TickFrame(t, p, b)

Pool(t) == RoundBegin(t) \/ RoundEnd(t) \/ PoolFrame(t) \/ TickDispatch(t)

Next == Environment \/ Main \/ \E t \in Threads : Pool(t)

Spec == Init /\ [][Next]_vars

\* Fairness.  The main thread runs, and gets a mutex that is free again and
\* again (a pool thread sleeps between two rounds); a round of ticks ends, since
\* its frames come from the main thread alone; a frame is dispatched; time passes.
Fairness ==
  /\ SF_vars(Main)
  /\ \A t \in Threads : SF_vars(RoundEnd(t)) /\ WF_vars(TickDispatch(t))
  /\ \A p \in Peers : WF_vars(TryTimeDue(p))

FairSpec == Spec /\ Fairness

-----------------------------------------------------------------------------
(* Safety *)

\* Every pointer the registry holds is to a live object: the publisher of a
\* stream has not been deleted, and its StreamMediaSuber is neither deleted nor
\* queued for deletion.  UnPublish runs before `delete x2media_puber_`, and
\* UnSubscribe takes the StreamMediaSuber out of the map before it queues it.
RegistryLive ==
  \A k \in Streams :
    /\ mapX2MediaPuber[k] # NULL => mapX2MediaPuber[k] \in pubers
    /\ mapStreamMediaSuber[k] # NULL =>
         mapStreamMediaSuber[k] \in allocated \ listDelete

\* Whatever a pool thread touches while it dispatches a frame is alive: the
\* publisher, its StreamMediaSuber, every X2MediaSuber in it and the peer that
\* the suber calls back.  The main thread deletes all four, concurrently.
TickTouchesLive ==
  \A t \in Threads : tickPc[t] = "dispatch" =>
    /\ tickCur[t] \in pubers
    /\ stream_media_suber[tickCur[t]] \in allocated
    /\ \A p \in mapMediaSuber[stream_media_suber[tickCur[t]]] :
         p \in subers /\ peerState[p] = "open"

\* Between two calls into X2MediaDispatch the publisher of a stream feeds
\* exactly the subscribers of the stream, whichever of the two came first, and
\* nobody when there are none.
StreamConnected ==
  pc \notin {"attach", "subattach", "detach"} =>
    \A k \in Streams : mapX2MediaPuber[k] # NULL =>
      stream_media_suber[mapX2MediaPuber[k]] = mapStreamMediaSuber[k]

\* A publisher that lost its registration, or never got it, feeds nobody.
OnlyRegisteredFeeds ==
  \A p \in pubers : stream_media_suber[p] # NULL => mapX2MediaPuber[stream[p]] = p

\* The registration server was told of exactly the streams that have a
\* publisher, and of exactly those that have subscribers (PublishOpen/Close and
\* SubscribeOpen/Close of X2ProxyImpl).
RegistrarAgrees ==
  /\ pc # "attach" => announcedPub = {k \in Streams : mapX2MediaPuber[k] # NULL}
  /\ announcedSub = {k \in Streams : mapStreamMediaSuber[k] # NULL}

\* A publisher that has seen the current codec version of its subscribers has
\* exactly the encoders they need.  The version is a bare counter that starts
\* again at 0 in every StreamMediaSuber, so a publisher must not carry the
\* counter of one over to the next.
EncodersInSync ==
  \A p \in pubers : \A s \in Sms :
    ( /\ stream_media_suber[p] = s
      /\ nAudSubCodecChanged[s] > 0
      /\ n_aud_sub_codec_changed[p] = nAudSubCodecChanged[s] )
    => mapAudEncoder[p] = Wanted(s) \ {AudCodec[p]}

\* The subers of s that asked for codec c.
Askers(s, c) == {p \in mapMediaSuber[s] : eAudCodecType[p] = c}

\* No codec is dropped while a suber still needs it.
CodecCounted ==
  \A s \in allocated : \A c \in Codecs :
    Cardinality(Askers(s, c)) <= mapAudSubCodec[s][c]

\* mapAudSubCodec counts "how many subscribed which audio codec type".
CodecCountExact ==
  \A s \in allocated : \A c \in Codecs :
    Cardinality(Askers(s, c)) = mapAudSubCodec[s][c]

\* A publisher whose stream was published (it is neither waiting to retry nor in
\* the middle of TryPublish) is the registered one unless it was told to close.
UnseatedIsNotified ==
  \A p \in pubers :
    \/ mapX2MediaPuber[stream[p]] = p
    \/ p \in notified
    \/ tryTime[p] # "off"
    \/ pc = "trypub" /\ self = p

-----------------------------------------------------------------------------
(* The inductive invariant behind the safety properties.                     *)

\* Where the main thread is says what the peer being ticked has.
CallPC == {"trypub", "attach", "sub", "subattach", "codec", "unpublish",
           "delpuber", "unsub", "detach"}

ControlInv ==
  /\ pc \notin {"proxy", "dispatch", "round"} =>
       self \in Peers /\ peerState[self] = "open"
  /\ pc \in CallPC => stream[self] \in Streams
  /\ pc \in {"trypub", "attach", "unpublish", "delpuber"} => self \in pubers
  /\ pc \in {"sub", "subattach"} => self \in subers
  /\ pc \in {"unpublish", "delpuber", "finish"} => ret = "finish"
  /\ pc \in {"trypub", "attach", "sub", "subattach", "codec"} => ret # "finish"
  /\ pc \in {"unsub", "detach", "finish"} /\ ret = "finish" => self \notin pubers
  /\ pc = "finish" => \A s \in Sms : self \notin mapMediaSuber[s]

\* The main thread is on the close path of p and its publisher is deleted.
Closing(p) == self = p /\ ret = "finish" /\ pc \in {"unsub", "detach", "finish"}

\* Publishers and subers belong to open peers that named their stream.
PeerInv ==
  \A p \in Peers :
    /\ peerState[p] = "absent" => tryTime[p] = "off" /\ p \notin selfCtrl
    /\ p \in pubers \cup subers => peerState[p] = "open" /\ stream[p] \in Streams
    /\ p \in selfCtrl /\ peerState[p] = "open" => p \in subers
    /\ tryTime[p] # "off" /\ peerState[p] = "open" => p \in pubers \/ Closing(p)

\* The publisher of a stream has not begun to be deleted.
PuberInv ==
  \A k \in Streams : mapX2MediaPuber[k] # NULL =>
    /\ mapX2MediaPuber[k] \in pubers
    /\ stream[mapX2MediaPuber[k]] = k
    /\ ~(pc = "delpuber" /\ self = mapX2MediaPuber[k])

\* A StreamMediaSuber is registered for at most one stream, is not queued for
\* deletion while it is registered, and has members only then.
SmsInv ==
  /\ listDelete \subseteq allocated
  /\ \A k \in Streams : mapStreamMediaSuber[k] # NULL =>
       mapStreamMediaSuber[k] \in allocated \ listDelete
  /\ \A k, l \in Streams :
       mapStreamMediaSuber[k] # NULL /\ mapStreamMediaSuber[k] = mapStreamMediaSuber[l]
       => k = l
  /\ \A s \in Sms : \A p \in mapMediaSuber[s] :
       p \in subers /\ mapStreamMediaSuber[stream[p]] = s
  /\ pc = "subattach" => local \in Sms /\ mapStreamMediaSuber[stream[self]] = local
  /\ pc = "detach" =>
       /\ local \in allocated \ listDelete
       /\ mapStreamMediaSuber[stream[self]] = NULL
       /\ \A k \in Streams : mapStreamMediaSuber[k] # local

\* What a publisher feeds is what its stream has, or what is being detached.
FeedInv ==
  \A p \in Peers : stream_media_suber[p] # NULL =>
    /\ p \in pubers
    /\ mapX2MediaPuber[stream[p]] = p
    /\ \/ mapStreamMediaSuber[stream[p]] = stream_media_suber[p]
       \/ pc = "detach" /\ local = stream_media_suber[p] /\ stream[self] = stream[p]

\* A registered publisher is connected unless a call is about to do it.
ConnectInv ==
  /\ pc = "attach" => mapX2MediaPuber[stream[self]] = self
  /\ \A k \in Streams : mapX2MediaPuber[k] # NULL =>
       \/ stream_media_suber[mapX2MediaPuber[k]] = mapStreamMediaSuber[k]
       \/ pc \in {"attach", "subattach"} /\ k = stream[self]
          /\ stream_media_suber[mapX2MediaPuber[k]] = NULL
       \/ pc = "detach" /\ k = stream[self]

\* A pool thread that dispatches holds the tick lock its publisher is under.
TickInv ==
  \A t \in Threads : tickPc[t] = "dispatch" =>
    /\ tickCur[t] \in pubers
    /\ thread[tickCur[t]] = t
    /\ stream_media_suber[tickCur[t]] # NULL

\* The registration server lags behind in the middle of TryPublish only.
RegistrarInv ==
  \A k \in Streams :
    /\ k \in announcedPub <=>
         mapX2MediaPuber[k] # NULL /\ ~(pc = "attach" /\ k = stream[self])
    /\ k \in announcedSub <=> mapStreamMediaSuber[k] # NULL

\* A publisher never encodes into the codec it receives, has seen no version
\* while it feeds nobody, never a later one than its StreamMediaSuber has, and
\* has the encoders of the version it has seen last.
EncoderInv ==
  \A p \in Peers :
    /\ AudCodec[p] \notin mapAudEncoder[p]
    /\ stream_media_suber[p] = NULL => n_aud_sub_codec_changed[p] = 0
    /\ \A s \in Sms : stream_media_suber[p] = s =>
         /\ n_aud_sub_codec_changed[p] <= nAudSubCodecChanged[s]
         /\ n_aud_sub_codec_changed[p] = nAudSubCodecChanged[s]
              /\ n_aud_sub_codec_changed[p] > 0
              => mapAudEncoder[p] = Wanted(s) \ {AudCodec[p]}

IInv ==
  /\ TypeOK /\ ControlInv /\ PeerInv /\ PuberInv /\ SmsInv /\ FeedInv
  /\ ConnectInv /\ TickInv /\ RegistrarInv /\ EncoderInv

-----------------------------------------------------------------------------
(* The promise to publishers and players *)

\* Who subscribes to stream k: the subers of its StreamMediaSuber.
Audience(k) ==
  IF mapStreamMediaSuber[k] = NULL THEN {} ELSE mapMediaSuber[mapStreamMediaSuber[k]]

\* Whom a frame of p is dispatched to: what the tick of its puber goes through.
Reach(p) ==
  IF stream_media_suber[p] = NULL THEN {} ELSE mapMediaSuber[stream_media_suber[p]]

PS == INSTANCE PubSub WITH
        owner <- mapX2MediaPuber,
        audience <- [k \in Streams |-> Audience(k)],
        reach <- [p \in Peers |-> Reach(p)]

\* The registry, the pointers the pool threads follow and the sets they go
\* through implement PubSub: every step of any thread is a step of it or
\* changes nothing it speaks of, so that UnSubscribe stops the frames of the
\* publisher at once and a publisher that is unseated reaches nobody.
ImplementsPubSub == PS!Spec

-----------------------------------------------------------------------------
(* Liveness *)

\* A peer that was told to close, by the network, by its protocol, by another
\* publisher or by the RTN, is closed and deleted, whatever the pool threads are
\* doing with its publisher at that time.
ClosedPeerReleased ==
  \A p \in Peers : p \in notified ~> peerState[p] = "gone"

\* A publisher that was refused keeps trying until it holds the stream, unless
\* it is itself told to close: the one in its way does go.
RefusedTakesOver ==
  \A p \in Peers : tryTime[p] # "off" ~>
    p \in notified \/ \E k \in Streams : mapX2MediaPuber[k] = p

=============================================================================
