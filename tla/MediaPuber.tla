----------------------------- MODULE MediaPuber -----------------------------
(***************************************************************************)
(* The way of a frame from a publisher to its players:                     *)
(* X2MediaPuber::RecvCodecData queues it (main thread),                    *)
(* X2MediaPuber::OnX2RtcTick takes it (pool thread), keeps the cache of    *)
(* the current group of pictures and offers it to every MediaSuber, and    *)
(* the tick of the player's X2NetPeer passes it through VideoCanSend       *)
(* (main thread) and muxes it.                                             *)
(*                                                                         *)
(* A frame is its kind, its scale (simulcast layer) and its position among *)
(* the video frames of that scale.  Audio is cached and queued like video; *)
(* the players here have the audio codec of the publisher (who gets which  *)
(* audio codec is the subject of MediaDispatch).                           *)
(* Handling one frame is one action: all of it that the main thread can    *)
(* see happens under cs_stream_media_suber_ and csMapMediaSuber.           *)
(*                                                                         *)
(* Wrong versions of some definitions stand before them ("Mutant"): put in *)
(* place of the right one, each violates a property below.                 *)
(***************************************************************************)
EXTENDS Naturals, Sequences

CONSTANTS
  Players,   \* the peers that may play the stream
  Scales,    \* values of nVidScaleRD; 1 is the original
  MaxFrames, \* bound: frames the publisher sends
  MaxSubs,   \* bound: times a player subscribes (selfCtrl players come back)
  NULL

ASSUME PuberAssumption ==
  /\ Scales \subseteq Nat \ {0} /\ 1 \in Scales
  /\ MaxFrames \in Nat /\ MaxSubs \in Nat

VARIABLES
  \* the publisher
  frames,              \* video frames received so far, per scale
  received,            \* frames received so far
  list_recv_data, video_keyframe_cache,
  \* the pool thread
  ticking,             \* it is inside OnX2RtcTick
  keyframeTime,        \* n_last_recv_keyframe_time_ is not 0
  list_cache_data,
  \* MediaSuber, in the mapMediaSuber of the stream
  joined, bRealTimeStream, bCacheFrameSended, bVideoStreamSubOK,
  \* the peers of the players
  subscribed,          \* times the player has subscribed
  list_recv_sub_data,
  vid_recv_status,
  sent                 \* the last video frame muxed for the player

puberVars == <<frames, received, list_recv_data, video_keyframe_cache>>
tickVars == <<ticking, keyframeTime, list_cache_data>>
suberVars == <<joined, bRealTimeStream, bCacheFrameSended, bVideoStreamSubOK>>
peerVars == <<subscribed, list_recv_sub_data, vid_recv_status, sent>>
vars == <<puberVars, tickVars, suberVars, peerVars>>

Frame == [kind : {"audio", "key", "delta"}, scale : Scales, pos : 0 .. MaxFrames]

\* A frame queued for a player, with the subscription it was queued under.
Queued == [frame : Frame, sub : 1 .. MaxSubs]

ASSUME NullAssumption == NULL \notin Queued

VideoRecvStatus ==
  [b_need_switch_stream : BOOLEAN, b_cur_sub_stream : BOOLEAN,
   b_tmp_need_main_keyframe : BOOLEAN, b_tmp_need_sub_keyframe : BOOLEAN,
   n_last_scale_rd_ok : Scales, n_req_scale_rd : Scales]

TypeOK ==
  /\ frames \in [Scales -> 0 .. MaxFrames]
  /\ received \in 0 .. MaxFrames
  /\ list_recv_data \in Seq(Frame)
  /\ video_keyframe_cache \in Frame \cup {NULL}
  /\ ticking \in BOOLEAN
  /\ keyframeTime \in BOOLEAN
  /\ list_cache_data \in Seq(Frame)
  /\ joined \subseteq Players
  /\ bRealTimeStream \subseteq Players
  /\ bCacheFrameSended \subseteq Players
  /\ bVideoStreamSubOK \subseteq Players
  /\ subscribed \in [Players -> 0 .. MaxSubs]
  /\ list_recv_sub_data \in [Players -> Seq(Queued)]
  /\ vid_recv_status \in [Players -> VideoRecvStatus]
  /\ sent \in [Players -> Queued \cup {NULL}]

\* Mutant: an absent parameter is not defaulted.
RecvStatusNoDefault(scale) ==
  [b_need_switch_stream |-> scale # 0, b_cur_sub_stream |-> FALSE,
   b_tmp_need_main_keyframe |-> TRUE, b_tmp_need_sub_keyframe |-> TRUE,
   n_last_scale_rd_ok |-> 1, n_req_scale_rd |-> scale]

\* Mutant: the first frame need not be a keyframe.
RecvStatusAnyFrame(scale) ==
  [b_need_switch_stream |-> scale # 0, b_cur_sub_stream |-> FALSE,
   b_tmp_need_main_keyframe |-> FALSE, b_tmp_need_sub_keyframe |-> TRUE,
   n_last_scale_rd_ok |-> 1, n_req_scale_rd |-> IF scale = 0 THEN 1 ELSE scale]

\* The parameter "scale" of OnX2ProtoHandlerPlay asks for a layer (0: absent).
RecvStatus(scale) ==
  [b_need_switch_stream |-> scale # 0, b_cur_sub_stream |-> FALSE,
   b_tmp_need_main_keyframe |-> TRUE, b_tmp_need_sub_keyframe |-> TRUE,
   n_last_scale_rd_ok |-> 1, n_req_scale_rd |-> IF scale = 0 THEN 1 ELSE scale]

Init ==
  /\ frames = [x \in Scales |-> 0]
  /\ received = 0
  /\ list_recv_data = <<>>
  /\ video_keyframe_cache = NULL
  /\ ticking = FALSE
  /\ keyframeTime = FALSE
  /\ list_cache_data = <<>>
  /\ joined = {}
  /\ bRealTimeStream \in SUBSET Players
  /\ bCacheFrameSended = {}
  /\ bVideoStreamSubOK = {}
  /\ subscribed = [p \in Players |-> 0]
  /\ list_recv_sub_data = [p \in Players |-> <<>>]
  /\ \E f \in [Players -> Scales \cup {0}] :
       vid_recv_status = [p \in Players |-> RecvStatus(f[p])]
  /\ sent = [p \in Players |-> NULL]

IsVideo(f) == f.kind # "audio"

\* A keyframe of the original layer, the only one the publisher looks at.
IsMainKey(f) == f.kind = "key" /\ f.scale = 1

-----------------------------------------------------------------------------
(* Main thread: the publisher's peer *)

\* Mutant: the first keyframe is kept.
KeyframeFirst(f) ==
  IF IsMainKey(f) /\ video_keyframe_cache = NULL THEN f ELSE video_keyframe_cache

\* The newest keyframe is kept for players in real time.
KeyframeKept(f) == IF IsMainKey(f) THEN f ELSE video_keyframe_cache

\* RecvCodecData: the frame is queued for the tick.
RecvCodecData(kind, scale) ==
  /\ received < MaxFrames
  /\ kind = "audio" => scale = 1
  /\ received' = received + 1
  /\ frames' = IF kind = "audio" THEN frames ELSE [frames EXCEPT ![scale] = @ + 1]
  /\ LET f == [kind |-> kind, scale |-> scale,
               pos |-> IF kind = "audio" THEN 0 ELSE frames[scale] + 1]
     IN  /\ list_recv_data' = Append(list_recv_data, f)
         /\ video_keyframe_cache' = KeyframeKept(f)
  /\ UNCHANGED <<tickVars, suberVars, peerVars>>

-----------------------------------------------------------------------------
(* Main thread: the player's peer *)

\* Subscribe makes a new MediaSuber; bRealTimeStream is fixed by "cacheGop".
Subscribe(p) ==
  /\ p \notin joined
  /\ subscribed[p] < MaxSubs
  /\ subscribed' = [subscribed EXCEPT ![p] = @ + 1]
  /\ joined' = joined \cup {p}
  /\ bCacheFrameSended' = bCacheFrameSended \ {p}
  /\ bVideoStreamSubOK' = bVideoStreamSubOK \ {p}
  /\ UNCHANGED <<bRealTimeStream, list_recv_sub_data, vid_recv_status, sent,
                 puberVars, tickVars>>

\* UnSubscribe erases it; what the peer has queued stays queued.
UnSubscribe(p) ==
  /\ p \in joined
  /\ joined' = joined \ {p}
  /\ UNCHANGED <<bRealTimeStream, bCacheFrameSended, bVideoStreamSubOK, peerVars,
                 puberVars, tickVars>>

\* VideoCanSend: whether a frame is sent, and the status it leaves.
VideoCanSend(f, st) ==
  LET key == f.kind = "key"
      switched == [st EXCEPT !.b_need_switch_stream = FALSE]
      main == [switched EXCEPT !.b_cur_sub_stream = FALSE]
      sub == [switched EXCEPT !.b_cur_sub_stream = TRUE]
  IN
  IF f.scale = st.n_last_scale_rd_ok THEN
    IF st.n_req_scale_rd # st.n_last_scale_rd_ok
      THEN [ok |-> st.b_need_switch_stream, st |-> st]
    ELSE IF st.b_need_switch_stream /\ ~key
      THEN [ok |-> FALSE, st |-> [st EXCEPT !.b_cur_sub_stream = FALSE]]
    ELSE IF st.b_tmp_need_main_keyframe
      THEN [ok |-> key,
            st |-> IF key THEN [main EXCEPT !.b_tmp_need_main_keyframe = FALSE]
                   ELSE main]
    ELSE [ok |-> TRUE, st |-> main]
  ELSE
    IF f.scale # st.n_req_scale_rd
      THEN [ok |-> FALSE, st |-> st]
    ELSE IF st.b_need_switch_stream /\ ~key
      THEN [ok |-> FALSE, st |-> [st EXCEPT !.b_cur_sub_stream = TRUE]]
    ELSE IF st.b_tmp_need_sub_keyframe
      THEN [ok |-> key,
            st |-> IF key THEN [sub EXCEPT !.b_tmp_need_sub_keyframe = FALSE,
                                           !.b_tmp_need_main_keyframe = FALSE,
                                           !.n_last_scale_rd_ok = f.scale]
                   ELSE sub]
    ELSE [ok |-> TRUE, st |-> sub]

\* OnX2RtcTick of the player's peer takes one frame and muxes it if it may;
\* audio always may.
SendData(p) ==
  /\ list_recv_sub_data[p] # <<>>
  /\ LET q == Head(list_recv_sub_data[p])
         r == VideoCanSend(q.frame, vid_recv_status[p])
     IN  IF IsVideo(q.frame)
         THEN /\ vid_recv_status' = [vid_recv_status EXCEPT ![p] = r.st]
              /\ sent' = IF r.ok THEN [sent EXCEPT ![p] = q] ELSE sent
         ELSE UNCHANGED <<vid_recv_status, sent>>
  /\ list_recv_sub_data' = [list_recv_sub_data EXCEPT ![p] = Tail(@)]
  /\ UNCHANGED <<subscribed, puberVars, tickVars, suberVars>>

-----------------------------------------------------------------------------
(* Pool thread: X2MediaPuber::OnX2RtcTick *)

\* 15 s without a keyframe drop the cache; without one, a cache of audio is
\* trimmed to the last 15 s.
TickBegin ==
  /\ ~ticking
  /\ ticking' = TRUE
  /\ \/ /\ keyframeTime
        /\ UNCHANGED <<keyframeTime, list_cache_data, video_keyframe_cache>>
     \/ /\ keyframeTime
        /\ keyframeTime' = FALSE
        /\ list_cache_data' = <<>>
        /\ video_keyframe_cache' = NULL
     \/ /\ ~keyframeTime
        /\ \E i \in 1 .. Len(list_cache_data) + 1 :
             /\ i > 1 => i <= Len(list_cache_data)
             /\ list_cache_data' = SubSeq(list_cache_data, i, Len(list_cache_data))
        /\ UNCHANGED <<keyframeTime, video_keyframe_cache>>
  /\ UNCHANGED <<frames, received, list_recv_data, suberVars, peerVars>>

\* Mutant: a keyframe of any layer clears the cache.
CacheClearedByAny(f) == IF f.kind = "key" THEN <<>> ELSE list_cache_data

\* A keyframe of the original layer begins a new group of pictures.
CacheFor(f) == IF IsMainKey(f) THEN <<>> ELSE list_cache_data

\* Mutant: a player in real time gets what follows the keyframe kept for it.
DispatchedAfterCache(p, f, c) ==
  IF p \in bVideoStreamSubOK \cup bCacheFrameSended \/ IsMainKey(f) THEN <<f>>
  ELSE IF p \in bRealTimeStream
    THEN IF video_keyframe_cache # NULL THEN <<video_keyframe_cache>> ELSE <<>>
  ELSE c \o <<f>>

\* Mutant: a player in real time is given the kept keyframe only.
DispatchedNotLive(p, f, c) ==
  IF p \in bVideoStreamSubOK THEN <<f>>
  ELSE IF p \in bRealTimeStream
    THEN IF p \notin bCacheFrameSended /\ video_keyframe_cache # NULL
         THEN <<video_keyframe_cache>> ELSE <<>>
  ELSE c \o <<f>>

\* The frames a MediaSuber gets when frame f is dispatched, its cache being c:
\* until a keyframe comes, one in real time gets the kept keyframe, once, and
\* audio, any other one the cache, once, and everything from then on.
Dispatched(p, f, c) ==
  IF p \in bVideoStreamSubOK \/ IsMainKey(f) THEN <<f>>
  ELSE IF p \in bRealTimeStream
    THEN (IF p \notin bCacheFrameSended /\ video_keyframe_cache # NULL
          THEN <<video_keyframe_cache>> ELSE <<>>)
         \o (IF IsVideo(f) THEN <<>> ELSE <<f>>)
  ELSE (IF p \in bCacheFrameSended THEN <<>> ELSE c) \o <<f>>

\* One frame is dispatched and cached.  Without a keyframe so far, a video frame
\* is not cached and ends the tick.
TickFrame ==
  /\ ticking
  /\ list_recv_data # <<>>
  /\ LET f == Head(list_recv_data)
         c == CacheFor(f)
         uncached == ~keyframeTime /\ ~IsMainKey(f) /\ IsVideo(f)
     IN  /\ list_recv_data' = Tail(list_recv_data)
         /\ keyframeTime' = (keyframeTime \/ IsMainKey(f))
         /\ list_recv_sub_data' = [p \in Players |->
              IF p \notin joined THEN list_recv_sub_data[p]
              ELSE LET d == Dispatched(p, f, c)
                   IN  list_recv_sub_data[p] \o
                         [i \in 1 .. Len(d) |-> [frame |-> d[i], sub |-> subscribed[p]]]]
         /\ bVideoStreamSubOK' = bVideoStreamSubOK \cup
              {p \in joined : IsMainKey(f) \/ p \notin bRealTimeStream}
         /\ bCacheFrameSended' = bCacheFrameSended \cup
              {p \in joined : \/ IsMainKey(f)
                              \/ p \notin bRealTimeStream
                              \/ video_keyframe_cache # NULL}
         /\ list_cache_data' = IF f.scale = 1 /\ ~uncached THEN Append(c, f) ELSE c
         /\ ticking' = ~uncached
  /\ UNCHANGED <<frames, received, video_keyframe_cache, joined, bRealTimeStream,
                 subscribed, vid_recv_status, sent>>

TickEnd ==
  /\ ticking
  /\ list_recv_data = <<>>
  /\ ticking' = FALSE
  /\ UNCHANGED <<keyframeTime, list_cache_data, puberVars, suberVars, peerVars>>

Tick == TickBegin \/ TickFrame \/ TickEnd

Next ==
  \/ \E kind \in {"audio", "key", "delta"}, scale \in Scales : RecvCodecData(kind, scale)
  \/ \E p \in Players : Subscribe(p) \/ UnSubscribe(p) \/ SendData(p)
  \/ Tick

Spec == Init /\ [][Next]_vars

\* The pool thread keeps ticking, and so does the main thread.
FairSpec == Spec /\ WF_vars(Tick) /\ \A p \in Players : WF_vars(SendData(p))

-----------------------------------------------------------------------------
(* Properties *)

IsMainVideo(f) == IsVideo(f) /\ f.scale = 1

\* The cache is one group of pictures of the original layer without a gap: it
\* begins with its only keyframe and holds, together with what waits in the
\* queue, every frame received since, in order.  While no keyframe is known it
\* holds no video at all.
GopCache ==
  IF keyframeTime
  THEN LET s == list_cache_data \o list_recv_data
           video == {i \in 1 .. Len(s) : IsMainVideo(s[i])}
       IN  /\ list_cache_data # <<>>
           /\ IsMainKey(list_cache_data[1])
           /\ \A i \in 2 .. Len(list_cache_data) : list_cache_data[i].kind # "key"
           /\ \A i, j \in video : i < j => s[i].pos < s[j].pos
           /\ {s[i].pos : i \in video} = s[1].pos .. frames[1]
  ELSE \A i \in 1 .. Len(list_cache_data) : ~IsVideo(list_cache_data[i])

\* The keyframe a player in real time starts with is never older than the one
\* at the head of the cache, though one is written by the main thread and the
\* other by the pool thread.
KeyframeCacheFresh ==
  keyframeTime /\ video_keyframe_cache # NULL =>
    video_keyframe_cache.pos >= list_cache_data[1].pos

\* f can be decoded by a player that was sent g last.
Follows(f, g) == f.kind = "key" \/ (f.scale = g.scale /\ f.pos = g.pos + 1)

\* Within a subscription, every frame a player is sent is a keyframe or the
\* successor, in the same layer, of the frame it was sent before: the caches
\* join the live stream without a gap, and layers are never mixed (the comment
\* on b_cur_sub_stream_).  This is said of one publisher: when another takes
\* the stream over, its players keep their flags and may be sent the deltas of
\* a group of pictures they have not seen begin.
ChainUnbroken ==
  [][\A p \in Players :
       LET q == sent'[p] IN
       (q # sent[p] /\ sent[p] # NULL /\ sent[p].sub = q.sub) =>
         Follows(q.frame, sent[p].frame)]_vars

\* A player that asks for the original layer is sent nothing before a keyframe
\* in its first subscription.
FirstIsKeyframe ==
  [][\A p \in Players :
       (sent[p] = NULL /\ sent'[p] # NULL /\ vid_recv_status[p].n_req_scale_rd = 1)
         => sent'[p].frame.kind = "key"]_vars

\* Once a keyframe of the original layer is in the publisher's queue, a player
\* that asks for this layer and stays is sent video, though the tick may time
\* the caches out, or return early, before it comes to the keyframe.
KeyframeReaches ==
  \A p \in Players :
    (/\ p \in joined /\ vid_recv_status[p].n_req_scale_rd = 1
     /\ \E i \in 1 .. Len(list_recv_data) : IsMainKey(list_recv_data[i]))
      ~> (p \notin joined \/ (sent[p] # NULL /\ sent[p].sub = subscribed[p]))

=============================================================================
