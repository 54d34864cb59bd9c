--------------------------- MODULE MediaPuberProofs ---------------------------
(***************************************************************************)
(* Proofs about MediaPuber, for any layers, any number of players, frames  *)
(* and subscriptions: the caches hold what they should, and what a player  *)
(* is sent can be decoded.                                                 *)
(***************************************************************************)
EXTENDS MediaPuber, TLAPS

USE PuberAssumption, NullAssumption

\* A video frame of layer x.
OfLayer(f, x) == IsVideo(f) /\ f.scale = x

\* The next frame of layer x to be taken from the queue, or to be received,
\* has position n: the queue holds exactly those from n on.
Upcoming(x, n) ==
  /\ n \in 1 .. frames[x] + 1
  /\ \A i \in 1 .. Len(list_recv_data) :
       OfLayer(list_recv_data[i], x) => list_recv_data[i].pos >= n
  /\ \A m \in n .. frames[x] : \E i \in 1 .. Len(list_recv_data) :
       OfLayer(list_recv_data[i], x) /\ list_recv_data[i].pos = m

\* Upcoming after the step, of values before it.
UpcomingNext(x, n) ==
  /\ n \in 1 .. frames'[x] + 1
  /\ \A i \in 1 .. Len(list_recv_data') :
       OfLayer(list_recv_data'[i], x) => list_recv_data'[i].pos >= n
  /\ \A m \in n .. frames'[x] : \E i \in 1 .. Len(list_recv_data') :
       OfLayer(list_recv_data'[i], x) /\ list_recv_data'[i].pos = m

\* The queue holds the latest frames of every layer, in order, without a gap.
QueueInv ==
  \A x \in Scales :
    /\ frames[x] <= received
    /\ \A i \in 1 .. Len(list_recv_data) : OfLayer(list_recv_data[i], x) =>
         /\ list_recv_data[i].pos \in 1 .. frames[x]
         /\ \A j \in i + 1 .. Len(list_recv_data) :
              OfLayer(list_recv_data[j], x) => list_recv_data[j].pos > list_recv_data[i].pos
         /\ \A m \in list_recv_data[i].pos + 1 .. frames[x] :
              \E j \in i + 1 .. Len(list_recv_data) :
                OfLayer(list_recv_data[j], x) /\ list_recv_data[j].pos = m

\* The cache is a group of pictures up to the next frame of the original layer,
\* which has position n.
CacheUpTo(n) ==
  /\ Upcoming(1, n)
  /\ \A i \in 1 .. Len(list_cache_data) : IsVideo(list_cache_data[i]) =>
       /\ list_cache_data[i].pos \in list_cache_data[1].pos .. n - 1
       /\ \A j \in i + 1 .. Len(list_cache_data) :
            IsVideo(list_cache_data[j]) => list_cache_data[j].pos > list_cache_data[i].pos
  /\ \A m \in list_cache_data[1].pos .. n - 1 : \E i \in 1 .. Len(list_cache_data) :
       IsVideo(list_cache_data[i]) /\ list_cache_data[i].pos = m

CacheInv ==
  /\ \A i \in 1 .. Len(list_cache_data) : list_cache_data[i].scale = 1
  /\ IF keyframeTime
     THEN /\ list_cache_data # <<>>
          /\ IsMainKey(list_cache_data[1])
          /\ \A i \in 2 .. Len(list_cache_data) : list_cache_data[i].kind # "key"
          /\ \E n \in Nat : CacheUpTo(n)
     ELSE \A i \in 1 .. Len(list_cache_data) : ~IsVideo(list_cache_data[i])

\* The kept keyframe is the newest one there is.
KeyInv ==
  video_keyframe_cache # NULL =>
    /\ IsMainKey(video_keyframe_cache)
    /\ \A i \in 1 .. Len(list_recv_data) :
         IsMainKey(list_recv_data[i]) => list_recv_data[i].pos <= video_keyframe_cache.pos
    /\ keyframeTime => list_cache_data[1].pos <= video_keyframe_cache.pos

\* The four states of a player: it waits for a keyframe of the original layer,
\* is sent this layer, is sent it until a keyframe of the layer it asked for
\* comes, or is sent the layer it asked for.
StatusInv ==
  \A p \in Players :
    LET st == vid_recv_status[p] IN
    /\ \/ /\ st.n_req_scale_rd = 1 /\ st.n_last_scale_rd_ok = 1
          /\ st.b_tmp_need_main_keyframe /\ sent[p] = NULL
       \/ /\ st.n_req_scale_rd = 1 /\ st.n_last_scale_rd_ok = 1
          /\ ~st.b_tmp_need_main_keyframe /\ ~st.b_need_switch_stream /\ sent[p] # NULL
       \/ /\ st.n_req_scale_rd # 1 /\ st.n_last_scale_rd_ok = 1
          /\ st.b_need_switch_stream /\ st.b_tmp_need_sub_keyframe
       \/ /\ st.n_req_scale_rd # 1 /\ st.n_last_scale_rd_ok = st.n_req_scale_rd
          /\ ~st.b_tmp_need_main_keyframe /\ ~st.b_need_switch_stream
    /\ sent[p] # NULL =>
         IsVideo(sent[p].frame) /\ sent[p].frame.scale = st.n_last_scale_rd_ok

\* What a player was sent last and what is queued for it: entry i of its line.
Entry(p, i) == IF i = 0 THEN sent[p] ELSE list_recv_sub_data[p][i]

EntryNext(p, i) == IF i = 0 THEN sent'[p] ELSE list_recv_sub_data'[p][i]

EntryType ==
  \A p \in Players : \A i \in 0 .. Len(list_recv_sub_data[p]) :
    Entry(p, i) # NULL => Entry(p, i).sub <= subscribed[p]

SameLayer(f, g) == IsVideo(f) /\ IsVideo(g) /\ f.scale = g.scale

\* Video of the same layer and subscription.
Linked(a, b) ==
  /\ a # NULL /\ b # NULL
  /\ IsVideo(a.frame) /\ IsVideo(b.frame)
  /\ a.frame.scale = b.frame.scale /\ a.sub = b.sub

\* In a player's line a frame follows the one before it in its layer.
ChainInv ==
  \A p \in Players : \A i, j \in 0 .. Len(list_recv_sub_data[p]) :
    i < j /\ Linked(Entry(p, i), Entry(p, j)) =>
      \/ Follows(Entry(p, j).frame, Entry(p, i).frame)
      \/ \E k \in i + 1 .. j - 1 : Linked(Entry(p, k), Entry(p, j))

\* The last frame of a layer in the line of a player that gets everything is
\* the last one taken from the queue; one that does not get everything yet is
\* in real time and has the kept keyframe at most.
LiveInv ==
  \A p \in joined : \A i \in 0 .. Len(list_recv_sub_data[p]) :
    LET e == Entry(p, i) IN
    e # NULL /\ IsVideo(e.frame) /\ e.sub = subscribed[p] =>
      IF p \in bVideoStreamSubOK
      THEN \/ Upcoming(e.frame.scale, e.frame.pos + 1)
           \/ \E k \in i + 1 .. Len(list_recv_sub_data[p]) : Linked(e, Entry(p, k))
      ELSE p \in bRealTimeStream /\ e.frame.scale = 1

JoinedInv == \A p \in joined : subscribed[p] >= 1

IInv ==
  /\ TypeOK /\ QueueInv /\ CacheInv /\ KeyInv /\ StatusInv
  /\ EntryType /\ ChainInv /\ LiveInv /\ JoinedInv

-----------------------------------------------------------------------------
\* RecvCodecData appends the next frame of its layer: what is upcoming stays so.
LEMMA ReceiveKeepsUpcoming ==
  ASSUME TypeOK, QueueInv,
         NEW kind \in {"audio", "key", "delta"}, NEW scale \in Scales,
         RecvCodecData(kind, scale)
  PROVE  /\ QueueInv'
         /\ \A x \in Scales, n \in Nat : Upcoming(x, n) => Upcoming(x, n)'
<1> DEFINE f == [kind |-> kind, scale |-> scale,
                 pos |-> IF kind = "audio" THEN 0 ELSE frames[scale] + 1]
           L == list_recv_data
<1>1. /\ L \in Seq(Frame) /\ list_recv_data' = Append(L, f)
      /\ received' = received + 1
      /\ frames' = IF kind = "audio" THEN frames ELSE [frames EXCEPT ![scale] = @ + 1]
      /\ frames \in [Scales -> Nat] /\ received \in Nat
  BY DEF RecvCodecData, TypeOK
<1>2. /\ Len(list_recv_data') = Len(L) + 1 /\ Len(L) \in Nat
      /\ list_recv_data'[Len(L) + 1] = f
      /\ \A i \in 1 .. Len(L) : list_recv_data'[i] = L[i] /\ L[i].pos \in Nat
  <2>1. \A i \in 1 .. Len(L) : L[i] \in Frame
    BY <1>1
  <2>2. \A g \in Frame : g.pos \in Nat
    BY DEF Frame
  <2>3. /\ Len(Append(L, f)) = Len(L) + 1 /\ Len(L) \in Nat
        /\ Append(L, f)[Len(L) + 1] = f
        /\ \A i \in 1 .. Len(L) : Append(L, f)[i] = L[i]
    <3> HIDE DEF f
    <3> QED
      BY <1>1
  <2> QED
    BY <1>1, <2>1, <2>2, <2>3
<1>3. \A x \in Scales :
        /\ OfLayer(f, x) => frames'[x] = frames[x] + 1 /\ f.pos = frames[x] + 1
        /\ ~OfLayer(f, x) => frames'[x] = frames[x]
        /\ frames[x] \in Nat /\ frames'[x] \in Nat
  BY <1>1 DEF OfLayer, IsVideo
<1> HIDE DEF f
<1>4. QueueInv'
  <2> SUFFICES ASSUME NEW x \in Scales
               PROVE  /\ frames'[x] <= received'
                      /\ \A i \in 1 .. Len(L) + 1 : OfLayer(list_recv_data'[i], x) =>
                           /\ list_recv_data'[i].pos \in 1 .. frames'[x]
                           /\ \A j \in i + 1 .. Len(L) + 1 :
                                OfLayer(list_recv_data'[j], x) =>
                                  list_recv_data'[j].pos > list_recv_data'[i].pos
                           /\ \A m \in list_recv_data'[i].pos + 1 .. frames'[x] :
                                \E j \in i + 1 .. Len(L) + 1 :
                                  OfLayer(list_recv_data'[j], x) /\ list_recv_data'[j].pos = m
    BY <1>2 DEF QueueInv, OfLayer, IsVideo
  <2>1. frames'[x] <= received'
    BY <1>1, <1>3 DEF QueueInv
  <2>2. ASSUME NEW i \in 1 .. Len(L) + 1, OfLayer(list_recv_data'[i], x)
        PROVE  /\ list_recv_data'[i].pos \in 1 .. frames'[x]
               /\ \A j \in i + 1 .. Len(L) + 1 : OfLayer(list_recv_data'[j], x) =>
                    list_recv_data'[j].pos > list_recv_data'[i].pos
               /\ \A m \in list_recv_data'[i].pos + 1 .. frames'[x] :
                    \E j \in i + 1 .. Len(L) + 1 :
                      OfLayer(list_recv_data'[j], x) /\ list_recv_data'[j].pos = m
    <3>1. CASE i = Len(L) + 1
      BY <1>2, <1>3, <2>2, <3>1
    <3>2. CASE i \in 1 .. Len(L)
      <4>1. /\ OfLayer(L[i], x) /\ list_recv_data'[i] = L[i] /\ L[i].pos \in Nat
        BY <1>2, <2>2, <3>2
      <4>2. /\ L[i].pos \in 1 .. frames[x]
            /\ \A j \in i + 1 .. Len(L) : OfLayer(L[j], x) => L[j].pos > L[i].pos
            /\ \A m \in L[i].pos + 1 .. frames[x] :
                 \E j \in i + 1 .. Len(L) : OfLayer(L[j], x) /\ L[j].pos = m
        BY <3>2, <4>1 DEF QueueInv
      <4>3. ASSUME NEW j \in i + 1 .. Len(L) + 1, OfLayer(list_recv_data'[j], x)
            PROVE  list_recv_data'[j].pos > L[i].pos
        <5>1. CASE j = Len(L) + 1
          <6>1. list_recv_data'[j] = f /\ OfLayer(f, x)
            BY <1>2, <4>3, <5>1
          <6>2. f.pos = frames[x] + 1 /\ frames[x] \in Nat
            BY <1>3, <6>1
          <6> QED
            BY <4>2, <6>1, <6>2
        <5>2. CASE j \in i + 1 .. Len(L)
          <6>1. list_recv_data'[j] = L[j]
            BY <1>2, <3>2, <5>2
          <6> QED
            BY <4>2, <4>3, <5>2, <6>1
        <5> QED
          BY <1>2, <5>1, <5>2
      <4>4. ASSUME NEW m \in L[i].pos + 1 .. frames'[x]
            PROVE  \E j \in i + 1 .. Len(L) + 1 :
                     OfLayer(list_recv_data'[j], x) /\ list_recv_data'[j].pos = m
        <5>1. CASE m \in L[i].pos + 1 .. frames[x]
          <6>1. PICK j \in i + 1 .. Len(L) : OfLayer(L[j], x) /\ L[j].pos = m
            BY <4>2, <5>1
          <6>2. j \in i + 1 .. Len(L) + 1 /\ list_recv_data'[j] = L[j]
            BY <1>2, <3>2
          <6> QED
            BY <6>1, <6>2
        <5>2. CASE m = frames[x] + 1
          <6>1. OfLayer(f, x) /\ f.pos = m /\ Len(L) + 1 \in i + 1 .. Len(L) + 1
            BY <1>2, <1>3, <3>2, <4>1, <5>2
          <6> QED
            BY <1>2, <6>1
        <5> QED
          BY <1>3, <4>1, <5>1, <5>2
      <4>5. L[i].pos \in 1 .. frames'[x]
        BY <1>3, <4>2
      <4> QED
        BY <4>1, <4>3, <4>4, <4>5
    <3>3. i = Len(L) + 1 \/ i \in 1 .. Len(L)
      BY <1>2
    <3> QED
      BY <3>1, <3>2, <3>3
  <2> QED
    BY <2>1, <2>2
<1>5. ASSUME NEW x \in Scales, NEW n \in Nat, Upcoming(x, n)
      PROVE  Upcoming(x, n)'
  <2>a. /\ n \in 1 .. frames[x] + 1
        /\ \A i \in 1 .. Len(L) : OfLayer(L[i], x) => L[i].pos >= n
        /\ \A m \in n .. frames[x] : \E i \in 1 .. Len(L) : OfLayer(L[i], x) /\ L[i].pos = m
    BY <1>5 DEF Upcoming
  <2>1. n \in 1 .. frames'[x] + 1
    <3>1. frames[x] \in Nat /\ (frames'[x] = frames[x] \/ frames'[x] = frames[x] + 1)
      BY <1>3
    <3>2. n \in 1 .. frames[x] + 1
      BY <2>a
    <3> QED
      BY <3>1, <3>2
  <2>2. ASSUME NEW i \in 1 .. Len(L) + 1, OfLayer(list_recv_data'[i], x)
        PROVE  list_recv_data'[i].pos >= n
    <3>1. CASE i = Len(L) + 1
      <4>1. list_recv_data'[i] = f /\ OfLayer(f, x)
        BY <1>2, <2>2, <3>1
      <4>2. f.pos = frames[x] + 1 /\ frames[x] \in Nat
        BY <1>3, <4>1
      <4> QED
        BY <2>a, <4>1, <4>2
    <3>2. CASE i \in 1 .. Len(L)
      BY <1>2, <2>2, <2>a, <3>2
    <3> QED
      BY <1>2, <3>1, <3>2
  <2>3. ASSUME NEW m \in n .. frames'[x]
        PROVE  \E i \in 1 .. Len(L) + 1 :
                 OfLayer(list_recv_data'[i], x) /\ list_recv_data'[i].pos = m
    <3>1. CASE m \in n .. frames[x]
      <4>1. PICK i \in 1 .. Len(L) : OfLayer(L[i], x) /\ L[i].pos = m
        BY <2>a, <3>1
      <4>2. i \in 1 .. Len(L) + 1 /\ list_recv_data'[i] = L[i]
        BY <1>2
      <4> QED
        BY <4>1, <4>2
    <3>2. CASE m = frames[x] + 1
      <4>1. OfLayer(f, x) /\ f.pos = m /\ Len(L) + 1 \in 1 .. Len(L) + 1
        BY <1>2, <1>3, <3>2
      <4> QED
        BY <1>2, <4>1
    <3> QED
      BY <1>3, <3>1, <3>2
  <2> QED
    BY <1>2, <2>1, <2>2, <2>3 DEF Upcoming, OfLayer, IsVideo
<1> QED
  BY <1>4, <1>5

\* The frame the tick takes is the upcoming one of its layer, and the next one
\* is upcoming then; the other layers are not touched.
LEMMA TakeUpcoming ==
  ASSUME TypeOK, QueueInv, list_recv_data # <<>>,
         list_recv_data' = Tail(list_recv_data), UNCHANGED <<frames, received>>
  PROVE  LET f == Head(list_recv_data) IN
         /\ QueueInv'
         /\ f \in Frame
         /\ \A x \in Scales, n \in Nat : Upcoming(x, n) =>
              IF OfLayer(f, x) THEN f.pos = n ELSE Upcoming(x, n)'
         /\ \A x \in Scales, n \in Nat :
              OfLayer(f, x) /\ n = f.pos + 1 => Upcoming(x, n)'
<1> DEFINE f == Head(list_recv_data)
           L == list_recv_data
<1>1. /\ L \in Seq(Frame) /\ Len(L) \in Nat /\ Len(L) >= 1 /\ f = L[1] /\ f \in Frame
      /\ list_recv_data' = Tail(L) /\ frames' = frames /\ received' = received
      /\ frames \in [Scales -> Nat] /\ received \in Nat
  BY DEF TypeOK
<1>2. /\ Len(list_recv_data') = Len(L) - 1
      /\ \A i \in 1 .. Len(L) - 1 : list_recv_data'[i] = L[i + 1]
      /\ \A i \in 1 .. Len(L) : L[i].pos \in Nat
      /\ f.pos \in Nat
  <2>1. \A i \in 1 .. Len(L) : L[i] \in Frame
    BY <1>1
  <2>2. \A g \in Frame : g.pos \in Nat
    BY DEF Frame
  <2>3. /\ Len(Tail(L)) = Len(L) - 1
        /\ \A i \in 1 .. Len(L) - 1 : Tail(L)[i] = L[i + 1]
    BY <1>1
  <2> QED
    BY <1>1, <2>1, <2>2, <2>3
<1> HIDE DEF f
<1>3. QueueInv'
  <2> SUFFICES ASSUME NEW x \in Scales
               PROVE  /\ frames'[x] <= received'
                      /\ \A i \in 1 .. Len(list_recv_data') : OfLayer(list_recv_data'[i], x) =>
                           /\ list_recv_data'[i].pos \in 1 .. frames'[x]
                           /\ \A j \in i + 1 .. Len(list_recv_data') :
                                OfLayer(list_recv_data'[j], x) =>
                                  list_recv_data'[j].pos > list_recv_data'[i].pos
                           /\ \A m \in list_recv_data'[i].pos + 1 .. frames'[x] :
                                \E j \in i + 1 .. Len(list_recv_data') :
                                  OfLayer(list_recv_data'[j], x) /\ list_recv_data'[j].pos = m
    BY DEF QueueInv, OfLayer, IsVideo
  <2>1. frames'[x] <= received'
    BY <1>1 DEF QueueInv
  <2>2. ASSUME NEW i \in 1 .. Len(L) - 1, OfLayer(L[i + 1], x)
        PROVE  /\ L[i + 1].pos \in 1 .. frames[x]
               /\ \A j \in i + 1 .. Len(L) - 1 : OfLayer(L[j + 1], x) =>
                    L[j + 1].pos > L[i + 1].pos
               /\ \A m \in L[i + 1].pos + 1 .. frames[x] :
                    \E j \in i + 1 .. Len(L) - 1 : OfLayer(L[j + 1], x) /\ L[j + 1].pos = m
    <3>1. i + 1 \in 1 .. Len(L)
      BY <1>1
    <3>2. /\ L[i + 1].pos \in 1 .. frames[x]
          /\ \A j \in i + 2 .. Len(L) : OfLayer(L[j], x) => L[j].pos > L[i + 1].pos
          /\ \A m \in L[i + 1].pos + 1 .. frames[x] :
               \E j \in i + 2 .. Len(L) : OfLayer(L[j], x) /\ L[j].pos = m
      <4>1. /\ L[i + 1].pos \in 1 .. frames[x]
            /\ \A j \in (i + 1) + 1 .. Len(L) : OfLayer(L[j], x) => L[j].pos > L[i + 1].pos
            /\ \A m \in L[i + 1].pos + 1 .. frames[x] :
                 \E j \in (i + 1) + 1 .. Len(L) : OfLayer(L[j], x) /\ L[j].pos = m
        BY <2>2, <3>1, Zenon DEF QueueInv
      <4>2. (i + 1) + 1 = i + 2
        OBVIOUS
      <4> QED
        BY <4>1, <4>2
    <3>3. ASSUME NEW m \in L[i + 1].pos + 1 .. frames[x]
          PROVE  \E j \in i + 1 .. Len(L) - 1 : OfLayer(L[j + 1], x) /\ L[j + 1].pos = m
      <4>1. PICK j \in i + 2 .. Len(L) : OfLayer(L[j], x) /\ L[j].pos = m
        BY <3>2
      <4>2. j - 1 \in i + 1 .. Len(L) - 1 /\ (j - 1) + 1 = j
        BY <1>1
      <4> QED
        BY <4>1, <4>2
    <3>4. ASSUME NEW j \in i + 1 .. Len(L) - 1, OfLayer(L[j + 1], x)
          PROVE  L[j + 1].pos > L[i + 1].pos
      BY <1>1, <3>2, <3>4
    <3> QED
      BY <3>2, <3>3, <3>4
  <2>3. \A i \in 1 .. Len(L) - 1 : list_recv_data'[i] = L[i + 1]
    BY <1>2
  <2>4. frames'[x] = frames[x]
    BY <1>1
  <2>n. Len(list_recv_data') = Len(L) - 1
    BY <1>2
  <2>5. ASSUME NEW i \in 1 .. Len(list_recv_data'), OfLayer(list_recv_data'[i], x)
        PROVE  /\ list_recv_data'[i].pos \in 1 .. frames'[x]
               /\ \A j \in i + 1 .. Len(list_recv_data') : OfLayer(list_recv_data'[j], x) =>
                    list_recv_data'[j].pos > list_recv_data'[i].pos
               /\ \A m \in list_recv_data'[i].pos + 1 .. frames'[x] :
                    \E j \in i + 1 .. Len(list_recv_data') :
                      OfLayer(list_recv_data'[j], x) /\ list_recv_data'[j].pos = m
    <3> i \in 1 .. Len(L) - 1
      BY <2>n
    <3>1. OfLayer(L[i + 1], x) /\ \A j \in i + 1 .. Len(L) - 1 : j \in 1 .. Len(L) - 1
      BY <2>3, <2>5, <1>1
    <3>2. \A j \in i + 1 .. Len(L) - 1 : list_recv_data'[j] = L[j + 1]
      BY <2>3, <3>1
    <3>3. list_recv_data'[i] = L[i + 1]
      BY <2>3
    <3>4. /\ L[i + 1].pos \in 1 .. frames[x]
          /\ \A j \in i + 1 .. Len(L) - 1 : OfLayer(L[j + 1], x) =>
               L[j + 1].pos > L[i + 1].pos
          /\ \A m \in L[i + 1].pos + 1 .. frames[x] :
               \E j \in i + 1 .. Len(L) - 1 : OfLayer(L[j + 1], x) /\ L[j + 1].pos = m
      BY <2>2, <3>1
    <3> QED
      BY <2>4, <2>n, <3>2, <3>3, <3>4
  <2> QED
    BY <2>1, <2>5
<1>4. ASSUME NEW x \in Scales, NEW n \in Nat, Upcoming(x, n), OfLayer(f, x)
      PROVE  f.pos = n
  <2>1. 1 \in 1 .. Len(L) /\ f.pos >= n /\ f.pos \in 1 .. frames[x] /\ frames[x] \in Nat
    BY <1>1, <1>4 DEF Upcoming, QueueInv
  <2>2. PICK i \in 1 .. Len(L) : OfLayer(L[i], x) /\ L[i].pos = n
    BY <1>2, <1>4, <2>1 DEF Upcoming
  <2>3. i # 1 => L[i].pos > f.pos
    BY <1>1, <1>4, <2>1, <2>2 DEF QueueInv
  <2> QED
    BY <1>1, <1>2, <2>1, <2>2, <2>3
<1>5. ASSUME NEW x \in Scales, NEW n \in Nat, n \in 1 .. frames[x] + 1,
             \A i \in 2 .. Len(L) : OfLayer(L[i], x) => L[i].pos >= n,
             \A m \in n .. frames[x] : \E i \in 2 .. Len(L) : OfLayer(L[i], x) /\ L[i].pos = m
      PROVE  Upcoming(x, n)'
  <2>1. \A i \in 1 .. Len(L) - 1 : OfLayer(list_recv_data'[i], x) => list_recv_data'[i].pos >= n
    BY <1>1, <1>2, <1>5
  <2>2. ASSUME NEW m \in n .. frames[x]
        PROVE  \E i \in 1 .. Len(L) - 1 : OfLayer(list_recv_data'[i], x) /\ list_recv_data'[i].pos = m
    <3>1. PICK i \in 2 .. Len(L) : OfLayer(L[i], x) /\ L[i].pos = m
      BY <1>5
    <3>2. i - 1 \in 1 .. Len(L) - 1 /\ list_recv_data'[i - 1] = L[i]
      BY <1>1, <1>2
    <3> QED
      BY <3>1, <3>2
  <2> QED
    BY <1>1, <1>2, <1>5, <2>1, <2>2 DEF Upcoming, OfLayer, IsVideo
<1>6. ASSUME NEW x \in Scales, NEW n \in Nat, Upcoming(x, n), ~OfLayer(f, x)
      PROVE  Upcoming(x, n)'
  <2>1. \A m \in n .. frames[x] : \E i \in 2 .. Len(L) : OfLayer(L[i], x) /\ L[i].pos = m
    BY <1>1, <1>6 DEF Upcoming
  <2>2. \A i \in 2 .. Len(L) : OfLayer(L[i], x) => L[i].pos >= n
    BY <1>1, <1>6 DEF Upcoming
  <2>3. n \in 1 .. frames[x] + 1
    BY <1>6 DEF Upcoming
  <2> QED
    BY <1>5, <2>1, <2>2, <2>3
<1>7. ASSUME NEW x \in Scales, NEW n \in Nat, OfLayer(f, x), n = f.pos + 1
      PROVE  Upcoming(x, n)'
  <2>1. 1 \in 1 .. Len(L) /\ OfLayer(L[1], x) /\ frames[x] \in Nat
    BY <1>1, <1>7
  <2>2. /\ f.pos \in 1 .. frames[x]
        /\ \A j \in 2 .. Len(L) : OfLayer(L[j], x) => L[j].pos > f.pos
        /\ \A m \in f.pos + 1 .. frames[x] : \E j \in 2 .. Len(L) : OfLayer(L[j], x) /\ L[j].pos = m
    <3>1. f = L[1] /\ 1 + 1 = 2
      BY <1>1
    <3>2. /\ L[1].pos \in 1 .. frames[x]
          /\ \A j \in 1 + 1 .. Len(L) : OfLayer(L[j], x) => L[j].pos > L[1].pos
          /\ \A m \in L[1].pos + 1 .. frames[x] :
               \E j \in 1 + 1 .. Len(L) : OfLayer(L[j], x) /\ L[j].pos = m
      BY <2>1 DEF QueueInv
    <3> QED
      BY <3>1, <3>2
  <2>3. /\ n \in 1 .. frames[x] + 1
        /\ \A j \in 2 .. Len(L) : OfLayer(L[j], x) => L[j].pos >= n
    <3>1. ASSUME NEW j \in 2 .. Len(L), OfLayer(L[j], x) PROVE L[j].pos >= n
      <4>1. L[j].pos > f.pos /\ L[j].pos \in Nat /\ f.pos \in Nat
        BY <1>1, <1>2, <2>2, <3>1
      <4> QED
        BY <1>7, <4>1
    <3>2. f.pos \in 1 .. frames[x] /\ frames[x] \in Nat
      BY <2>1, <2>2
    <3>3. n \in 1 .. frames[x] + 1
      BY <1>7, <3>2
    <3> QED
      BY <3>1, <3>3
  <2>4. \A m \in n .. frames[x] : \E j \in 2 .. Len(L) : OfLayer(L[j], x) /\ L[j].pos = m
    BY <1>7, <2>2
  <2> QED
    BY <1>5, <2>3, <2>4
<1> QED
  BY <1>1, <1>3, <1>4, <1>6, <1>7 DEF f

\* Every step keeps the types; the bounds hold because no layer has more frames
\* than were received, and because a player that is joined has subscribed.
LEMMA TypeStep == IInv /\ [Next]_vars => TypeOK'
<1> SUFFICES ASSUME IInv, [Next]_vars PROVE TypeOK'
  OBVIOUS
<1> USE DEF puberVars, tickVars, suberVars, peerVars
<1>0. TypeOK /\ QueueInv /\ JoinedInv
  BY DEF IInv
<1>1. ASSUME NEW kind \in {"audio", "key", "delta"}, NEW scale \in Scales,
             RecvCodecData(kind, scale)
      PROVE  TypeOK'
  <2> DEFINE f == [kind |-> kind, scale |-> scale,
                   pos |-> IF kind = "audio" THEN 0 ELSE frames[scale] + 1]
  <2>1. frames[scale] + 1 \in 0 .. MaxFrames /\ received + 1 \in 0 .. MaxFrames
    BY <1>0, <1>1 DEF RecvCodecData, TypeOK, QueueInv
  <2>2. f \in Frame
    BY <2>1 DEF Frame
  <2>3. /\ list_recv_data' = Append(list_recv_data, f)
        /\ video_keyframe_cache' = KeyframeKept(f)
        /\ frames' = IF kind = "audio" THEN frames ELSE [frames EXCEPT ![scale] = @ + 1]
        /\ received' = received + 1
        /\ UNCHANGED <<tickVars, suberVars, peerVars>>
    BY <1>1 DEF RecvCodecData
  <2> HIDE DEF f
  <2>4. list_recv_data' \in Seq(Frame) /\ video_keyframe_cache' \in Frame \cup {NULL}
    BY <1>0, <2>2, <2>3 DEF TypeOK, KeyframeKept
  <2>5. frames' \in [Scales -> 0 .. MaxFrames] /\ received' \in 0 .. MaxFrames
    BY <1>0, <2>1, <2>3 DEF TypeOK
  <2> QED
    BY <1>0, <2>3, <2>4, <2>5 DEF TypeOK
<1>2. ASSUME NEW p \in Players, Subscribe(p) PROVE TypeOK'
  BY <1>0, <1>2 DEF Subscribe, TypeOK
<1>3. ASSUME NEW p \in Players, UnSubscribe(p) PROVE TypeOK'
  BY <1>0, <1>3 DEF UnSubscribe, TypeOK
<1>4. ASSUME NEW p \in Players, SendData(p) PROVE TypeOK'
  <2> DEFINE q == Head(list_recv_sub_data[p])
             r == VideoCanSend(q.frame, vid_recv_status[p])
  <2>1. q \in Queued /\ Tail(list_recv_sub_data[p]) \in Seq(Queued)
    BY <1>0, <1>4 DEF SendData, TypeOK
  <2>2. q.frame \in Frame /\ q.frame.scale \in Scales
    BY <2>1 DEF Queued, Frame
  <2>3. r.st \in VideoRecvStatus
    <3>1. vid_recv_status[p] \in VideoRecvStatus
      BY <1>0 DEF TypeOK
    <3>2. \A st \in VideoRecvStatus, x \in Scales :
            /\ [st EXCEPT !.b_need_switch_stream = FALSE] \in VideoRecvStatus
            /\ [st EXCEPT !.b_cur_sub_stream = FALSE] \in VideoRecvStatus
            /\ [st EXCEPT !.b_cur_sub_stream = TRUE] \in VideoRecvStatus
            /\ [st EXCEPT !.b_tmp_need_main_keyframe = FALSE] \in VideoRecvStatus
            /\ [st EXCEPT !.b_tmp_need_sub_keyframe = FALSE,
                          !.b_tmp_need_main_keyframe = FALSE,
                          !.n_last_scale_rd_ok = x] \in VideoRecvStatus
      BY DEF VideoRecvStatus
    <3> HIDE DEF q
    <3> QED
      BY <2>2, <3>1, <3>2 DEF VideoCanSend
  <2>4. /\ vid_recv_status' \in [Players -> VideoRecvStatus]
        /\ sent' \in [Players -> Queued \cup {NULL}]
    BY <1>0, <1>4, <2>1, <2>3 DEF TypeOK, SendData
  <2>5. list_recv_sub_data' \in [Players -> Seq(Queued)]
    BY <1>0, <1>4, <2>1 DEF TypeOK, SendData
  <2>6. UNCHANGED <<subscribed, puberVars, tickVars, suberVars>>
    BY <1>4 DEF SendData
  <2> QED
    BY <1>0, <2>4, <2>5, <2>6 DEF TypeOK
<1>5. CASE TickBegin
  <2>1. list_cache_data' \in Seq(Frame)
    <3>1. \A i \in 1 .. Len(list_cache_data) + 1 :
            SubSeq(list_cache_data, i, Len(list_cache_data)) \in Seq(Frame)
      BY <1>0 DEF TypeOK
    <3>2. \/ list_cache_data' = list_cache_data \/ list_cache_data' = <<>>
          \/ \E i \in 1 .. Len(list_cache_data) + 1 :
               list_cache_data' = SubSeq(list_cache_data, i, Len(list_cache_data))
      BY <1>5 DEF TickBegin
    <3>3. <<>> \in Seq(Frame) /\ list_cache_data \in Seq(Frame)
      BY <1>0 DEF TypeOK
    <3> QED
      BY <3>1, <3>2, <3>3, Zenon
  <2> QED
    BY <1>0, <1>5, <2>1 DEF TickBegin, TypeOK
<1>6. CASE TickFrame
  <2> DEFINE f == Head(list_recv_data)
             c == CacheFor(f)
             d(p) == Dispatched(p, f, c)
  <2>1. f \in Frame /\ Tail(list_recv_data) \in Seq(Frame) /\ c \in Seq(Frame)
    BY <1>0, <1>6 DEF TickFrame, TypeOK, CacheFor
  <2>2. \A p \in Players : d(p) \in Seq(Frame)
    BY <1>0, <2>1 DEF Dispatched, TypeOK
  <2>3. ASSUME NEW p \in Players
        PROVE  list_recv_sub_data'[p] \in Seq(Queued)
    <3>1. CASE p \notin joined
      BY <1>0, <1>6, <3>1 DEF TickFrame, TypeOK
    <3>2. CASE p \in joined
      <4> DEFINE e == [i \in 1 .. Len(d(p)) |-> [frame |-> d(p)[i], sub |-> subscribed[p]]]
      <4>1. subscribed[p] \in 1 .. MaxSubs
        BY <1>0, <3>2 DEF TypeOK, JoinedInv
      <4>2. \A i \in 1 .. Len(d(p)) : d(p)[i] \in Frame
        BY <2>2
      <4>3. \A i \in 1 .. Len(d(p)) : [frame |-> d(p)[i], sub |-> subscribed[p]] \in Queued
        BY <4>1, <4>2 DEF Queued
      <4>4. Len(d(p)) \in Nat
        BY <2>2
      <4>5. e \in Seq(Queued)
        <5> HIDE DEF d
        <5> QED
          BY <4>3, <4>4
      <4>6. list_recv_sub_data'[p] = list_recv_sub_data[p] \o e
        BY <1>6, <3>2 DEF TickFrame
      <4> HIDE DEF e
      <4> QED
        BY <1>0, <4>5, <4>6 DEF TypeOK
    <3> QED
      BY <3>1, <3>2
  <2>4. list_recv_sub_data' \in [Players -> Seq(Queued)]
    <3>1. list_recv_sub_data' = [p \in Players |-> list_recv_sub_data'[p]]
      BY <1>6 DEF TickFrame
    <3> QED
      BY <2>3, <3>1
  <2>5. list_cache_data' \in Seq(Frame) /\ list_recv_data' \in Seq(Frame)
    <3>1. /\ list_cache_data' = Append(c, f) \/ list_cache_data' = c
          /\ list_recv_data' = Tail(list_recv_data)
      BY <1>6 DEF TickFrame
    <3>2. list_recv_data' \in Seq(Frame)
      BY <2>1, <3>1
    <3> HIDE DEF c, f
    <3>3. Append(c, f) \in Seq(Frame)
      BY <2>1
    <3> QED
      BY <2>1, <3>1, <3>2, <3>3
  <2>6. /\ keyframeTime' \in BOOLEAN /\ ticking' \in BOOLEAN
        /\ bVideoStreamSubOK' \subseteq Players /\ bCacheFrameSended' \subseteq Players
        /\ UNCHANGED <<frames, received, video_keyframe_cache, joined, bRealTimeStream,
                       subscribed, vid_recv_status, sent>>
    BY <1>0, <1>6 DEF TickFrame, TypeOK
  <2> QED
    BY <1>0, <2>4, <2>5, <2>6 DEF TypeOK
<1>7. CASE TickEnd
  BY <1>0, <1>7 DEF TickEnd, TypeOK
<1>8. CASE UNCHANGED vars
  BY <1>0, <1>8 DEF vars, TypeOK
<1> QED
  BY <1>1, <1>2, <1>3, <1>4, <1>5, <1>6, <1>7, <1>8 DEF Next, Tick

\* What VideoCanSend does in each of the four states of a player.
LEMMA StatusStep == IInv /\ [Next]_vars => StatusInv'
<1> SUFFICES ASSUME IInv, [Next]_vars PROVE StatusInv'
  OBVIOUS
<1> USE DEF puberVars, tickVars, suberVars, peerVars
<1>0. TypeOK /\ StatusInv
  BY DEF IInv
<1>1. ASSUME NEW p \in Players, SendData(p) PROVE StatusInv'
  <2> DEFINE q == Head(list_recv_sub_data[p])
             r == VideoCanSend(q.frame, vid_recv_status[p])
  <2>1. q \in Queued /\ q # NULL
    BY <1>0, <1>1 DEF SendData, TypeOK
  <2>2. /\ \A o \in Players \ {p} : sent'[o] = sent[o] /\ vid_recv_status'[o] = vid_recv_status[o]
        /\ ~IsVideo(q.frame) => sent'[p] = sent[p] /\ vid_recv_status'[p] = vid_recv_status[p]
        /\ IsVideo(q.frame) =>
             /\ vid_recv_status'[p] = r.st
             /\ sent'[p] = IF r.ok THEN q ELSE sent[p]
    BY <1>0, <1>1 DEF SendData, TypeOK
  <2>3. vid_recv_status[p] \in VideoRecvStatus
    BY <1>0 DEF TypeOK
  <2> HIDE DEF q
  <2>4. SUFFICES ASSUME IsVideo(q.frame)
                 PROVE  LET st == r.st
                            s == IF r.ok THEN q ELSE sent[p] IN
          /\ \/ /\ st.n_req_scale_rd = 1 /\ st.n_last_scale_rd_ok = 1
                /\ st.b_tmp_need_main_keyframe /\ s = NULL
             \/ /\ st.n_req_scale_rd = 1 /\ st.n_last_scale_rd_ok = 1
                /\ ~st.b_tmp_need_main_keyframe /\ ~st.b_need_switch_stream /\ s # NULL
             \/ /\ st.n_req_scale_rd # 1 /\ st.n_last_scale_rd_ok = 1
                /\ st.b_need_switch_stream /\ st.b_tmp_need_sub_keyframe
             \/ /\ st.n_req_scale_rd # 1 /\ st.n_last_scale_rd_ok = st.n_req_scale_rd
                /\ ~st.b_tmp_need_main_keyframe /\ ~st.b_need_switch_stream
          /\ s # NULL => IsVideo(s.frame) /\ s.frame.scale = st.n_last_scale_rd_ok
    <3> HIDE DEF r
    <3>1. \A o \in Players \ {p} : UNCHANGED <<sent[o], vid_recv_status[o]>>
      BY <2>2
    <3> QED
      BY <1>0, <2>2, <3>1 DEF StatusInv
  <2> QED
    BY <1>0, <2>1, <2>3, <2>4 DEF StatusInv, VideoCanSend, VideoRecvStatus
<1>2. ASSUME UNCHANGED <<sent, vid_recv_status>> PROVE StatusInv'
  BY <1>0, <1>2 DEF StatusInv
<1> QED
  BY <1>1, <1>2 DEF Next, vars, RecvCodecData, Subscribe, UnSubscribe, Tick, TickBegin,
     TickFrame, TickEnd

\* The queue, the cache of the pool thread and the keyframe of the main thread
\* stay what they are through every step of either thread.
LEMMA CacheStep == IInv /\ [Next]_vars => QueueInv' /\ CacheInv' /\ KeyInv'
<1> SUFFICES ASSUME IInv, [Next]_vars PROVE QueueInv' /\ CacheInv' /\ KeyInv'
  OBVIOUS
<1> USE DEF puberVars, tickVars, suberVars, peerVars
<1>0. TypeOK /\ QueueInv /\ CacheInv /\ KeyInv
  BY DEF IInv
<1> DEFINE L == list_recv_data
           C == list_cache_data
<1>t. /\ L \in Seq(Frame) /\ C \in Seq(Frame) /\ Len(C) \in Nat /\ Len(L) \in Nat
      /\ \A i \in 1 .. Len(C) : C[i] \in Frame /\ C[i].pos \in Nat
      /\ \A i \in 1 .. Len(L) : L[i] \in Frame /\ L[i].pos \in Nat
      /\ 1 \in Scales /\ frames[1] \in Nat
  <2>1. \A g \in Frame : g.pos \in Nat
    BY DEF Frame
  <2> QED
    BY <1>0, <2>1 DEF TypeOK
<1>1. ASSUME NEW kind \in {"audio", "key", "delta"}, NEW scale \in Scales,
             RecvCodecData(kind, scale)
      PROVE  QueueInv' /\ CacheInv' /\ KeyInv'
  <2> DEFINE f == [kind |-> kind, scale |-> scale,
                   pos |-> IF kind = "audio" THEN 0 ELSE frames[scale] + 1]
  <2>1. /\ QueueInv'
        /\ \A x \in Scales, n \in Nat : Upcoming(x, n) => Upcoming(x, n)'
    BY <1>0, <1>1, ReceiveKeepsUpcoming
  <2>2. /\ list_recv_data' = Append(L, f) /\ video_keyframe_cache' = KeyframeKept(f)
        /\ UNCHANGED <<list_cache_data, keyframeTime>>
    BY <1>1 DEF RecvCodecData
  <2>3. \A n \in Nat : CacheUpTo(n) => CacheUpTo(n)'
    BY <1>t, <2>1, <2>2 DEF CacheUpTo, IsVideo
  <2>4. CacheInv'
    BY <1>0, <2>2, <2>3 DEF CacheInv, IsMainKey, IsVideo
  <2>5. IsMainKey(f) => f.pos = frames[1] + 1
    BY DEF IsMainKey
  <2>6. /\ Len(list_recv_data') = Len(L) + 1
        /\ list_recv_data'[Len(L) + 1] = f
        /\ \A i \in 1 .. Len(L) : list_recv_data'[i] = L[i]
    <3> HIDE DEF f
    <3> QED
      BY <1>t, <2>2
  <2> HIDE DEF f
  <2>7. \A i \in 1 .. Len(L) : IsMainKey(L[i]) => L[i].pos <= frames[1]
    <3>1. \A i \in 1 .. Len(L) : IsMainKey(L[i]) => OfLayer(L[i], 1)
      BY DEF IsMainKey, OfLayer, IsVideo
    <3> QED
      BY <1>0, <1>t, <3>1 DEF QueueInv
  <2>8. keyframeTime => C[1].pos <= frames[1]
    <3>1. CASE keyframeTime
      <4>1. 1 \in 1 .. Len(C) /\ IsVideo(C[1])
        BY <1>0, <1>t, <3>1 DEF CacheInv, IsMainKey, IsVideo
      <4>2. PICK n \in Nat : CacheUpTo(n)
        BY <1>0, <3>1 DEF CacheInv
      <4>3. n \in 1 .. frames[1] + 1 /\ C[1].pos \in C[1].pos .. n - 1
        BY <4>1, <4>2 DEF CacheUpTo, Upcoming
      <4> QED
        BY <1>t, <4>1, <4>3
    <3> QED
      BY <3>1
  <2>9. KeyInv'
    <3>1. CASE IsMainKey(f)
      <4>1. video_keyframe_cache' = f
        BY <2>2, <3>1 DEF KeyframeKept
      <4>2. \A i \in 1 .. Len(L) + 1 :
              IsMainKey(list_recv_data'[i]) => list_recv_data'[i].pos <= f.pos
        <5> SUFFICES ASSUME NEW i \in 1 .. Len(L) + 1, IsMainKey(list_recv_data'[i])
                     PROVE  list_recv_data'[i].pos <= f.pos
          OBVIOUS
        <5>1. f.pos = frames[1] + 1 /\ frames[1] \in Nat
          BY <1>t, <2>5, <3>1
        <5>2. CASE i = Len(L) + 1
          BY <2>6, <5>1, <5>2
        <5>3. CASE i # Len(L) + 1
          <6>1. i \in 1 .. Len(L)
            BY <1>t, <5>3
          <6>2. list_recv_data'[i] = L[i] /\ L[i].pos \in Nat
            BY <1>t, <2>6, <6>1
          <6>3. L[i].pos <= frames[1]
            BY <2>7, <6>1, <6>2
          <6> QED
            BY <5>1, <6>2, <6>3
        <5> QED
          BY <5>2, <5>3
      <4>3. keyframeTime => C[1].pos <= f.pos
        <5>1. CASE keyframeTime
          <6>1. 1 \in 1 .. Len(C)
            BY <1>0, <1>t, <5>1 DEF CacheInv
          <6> QED
            BY <1>t, <2>5, <2>8, <3>1, <5>1, <6>1
        <5> QED
          BY <5>1
      <4> QED
        BY <2>2, <2>6, <3>1, <4>1, <4>2, <4>3 DEF KeyInv, IsMainKey
    <3>2. CASE ~IsMainKey(f)
      <4>1. video_keyframe_cache' = video_keyframe_cache
        BY <2>2, <3>2 DEF KeyframeKept
      <4>2. ASSUME video_keyframe_cache # NULL,
                   NEW i \in 1 .. Len(L) + 1, IsMainKey(list_recv_data'[i])
            PROVE  list_recv_data'[i].pos <= video_keyframe_cache.pos
        <5>1. i \in 1 .. Len(L)
          BY <1>t, <2>6, <3>2, <4>2
        <5> QED
          BY <1>0, <2>6, <4>2, <5>1 DEF KeyInv
      <4> QED
        BY <1>0, <2>2, <2>6, <4>1, <4>2 DEF KeyInv, IsMainKey
    <3> QED
      BY <3>1, <3>2
  <2> QED
    BY <2>1, <2>4, <2>9
<1>2. CASE TickBegin
  <2>1. QueueInv' /\ UNCHANGED <<frames, list_recv_data>>
    BY <1>0, <1>2 DEF TickBegin, QueueInv, OfLayer, IsVideo
  <2>2. CASE keyframeTime /\ UNCHANGED <<keyframeTime, list_cache_data, video_keyframe_cache>>
    BY <1>0, <2>1, <2>2 DEF CacheInv, CacheUpTo, Upcoming, KeyInv, OfLayer, IsMainKey, IsVideo
  <2>3. CASE keyframeTime' = FALSE /\ list_cache_data' = <<>> /\ video_keyframe_cache' = NULL
    BY <2>1, <2>3 DEF CacheInv, KeyInv
  <2>4. ASSUME ~keyframeTime, NEW i \in 1 .. Len(C) + 1, C' = SubSeq(C, i, Len(C)),
               UNCHANGED <<keyframeTime, video_keyframe_cache>>
        PROVE  CacheInv' /\ KeyInv'
    <3>1. ASSUME NEW j \in 1 .. Len(C') PROVE \E k \in 1 .. Len(C) : C'[j] = C[k]
      <4>1. /\ Len(SubSeq(C, i, Len(C))) = Len(C) - i + 1
            /\ \A k \in 1 .. Len(C) - i + 1 : SubSeq(C, i, Len(C))[k] = C[k + i - 1]
        BY <1>t
      <4>2. Len(C') = Len(C) - i + 1 /\ j \in 1 .. Len(C) - i + 1
        BY <2>4, <4>1
      <4>3. j + i - 1 \in 1 .. Len(C) /\ C'[j] = C[j + i - 1]
        BY <1>t, <2>4, <4>1, <4>2
      <4> QED
        BY <4>3
    <3>2. ~keyframeTime' /\ \A k \in 1 .. Len(C) : C[k].scale = 1 /\ ~IsVideo(C[k])
      BY <1>0, <2>4 DEF CacheInv
    <3>3. CacheInv'
      <4>1. \A j \in 1 .. Len(C') : C'[j].scale = 1 /\ ~IsVideo(C'[j])
        BY <3>1, <3>2
      <4> QED
        BY <3>2, <4>1 DEF CacheInv, IsVideo
    <3> QED
      BY <1>0, <2>1, <2>4, <3>3 DEF KeyInv, IsMainKey
  <2> QED
    BY <1>2, <2>1, <2>2, <2>3, <2>4 DEF TickBegin
<1>3. CASE TickFrame
  <2> DEFINE f == Head(L)
  <2>1. L # <<>> /\ list_recv_data' = Tail(L)
        /\ UNCHANGED <<frames, received, video_keyframe_cache>>
    BY <1>3 DEF TickFrame
  <2>2. /\ QueueInv'
        /\ f \in Frame
        /\ \A x \in Scales, n \in Nat : Upcoming(x, n) =>
             IF OfLayer(f, x) THEN f.pos = n ELSE Upcoming(x, n)'
        /\ \A x \in Scales, n \in Nat :
             OfLayer(f, x) /\ n = f.pos + 1 => Upcoming(x, n)'
    BY <1>0, <2>1, TakeUpcoming
  <2>3. /\ 1 \in 1 .. Len(L) /\ f = L[1] /\ f.pos \in Nat
        /\ \A i \in 1 .. Len(list_recv_data') : \E j \in 1 .. Len(L) : list_recv_data'[i] = L[j]
    BY <1>t, <2>1
  <2>4. /\ keyframeTime' = (keyframeTime \/ IsMainKey(f))
        /\ IsMainKey(f) => C' = Append(<<>>, f)
        /\ ~IsMainKey(f) =>
             C' = IF f.scale = 1 /\ (keyframeTime \/ ~IsVideo(f)) THEN Append(C, f) ELSE C
    BY <1>3 DEF TickFrame, CacheFor, IsMainKey, IsVideo
  <2>k. ASSUME video_keyframe_cache # NULL
        PROVE  /\ IsMainKey(video_keyframe_cache)
               /\ \A i \in 1 .. Len(list_recv_data') : IsMainKey(list_recv_data'[i]) =>
                    list_recv_data'[i].pos <= video_keyframe_cache.pos
    BY <1>0, <2>3, <2>k DEF KeyInv
  <2> HIDE DEF f
  <2>5. CASE IsMainKey(f)
    <3>1. Len(C') = 1 /\ C'[1] = f /\ keyframeTime'
      <4>1. C' = Append(<<>>, f) /\ <<>> \in Seq(Frame) /\ Len(<<>>) = 0
        BY <2>4, <2>5
      <4>2. Len(Append(<<>>, f)) = 1 /\ Append(<<>>, f)[1] = f
        BY <2>2
      <4>3. keyframeTime'
        BY <2>4, <2>5, Zenon
      <4> QED
        BY <4>1, <4>2, <4>3
    <3>2. f.scale = 1 /\ OfLayer(f, 1) /\ IsVideo(f)
      BY <2>5 DEF IsMainKey, OfLayer, IsVideo
    <3>3. PICK n \in Nat : n = f.pos + 1
      BY <2>3
    <3>4. Upcoming(1, n)'
      BY <1>t, <2>2, <3>2, <3>3
    <3>5. CacheUpTo(n)'
      BY <2>3, <3>1, <3>2, <3>3, <3>4 DEF CacheUpTo, IsVideo
    <3>6. C' # <<>>
      BY <2>4, <2>5
    <3>7. CacheInv'
      BY <2>5, <3>1, <3>2, <3>5, <3>6 DEF CacheInv, IsMainKey, IsVideo
    <3>8. KeyInv'
      <4>1. video_keyframe_cache # NULL => f.pos <= video_keyframe_cache.pos
        BY <1>0, <2>3, <2>5 DEF KeyInv
      <4> QED
        BY <2>1, <2>k, <3>1, <4>1 DEF KeyInv, IsMainKey
    <3> QED
      BY <2>2, <3>7, <3>8
  <2>6. CASE ~IsMainKey(f) /\ ~keyframeTime
    <3>1. ~keyframeTime'
      BY <2>4, <2>6
    <3>2. C' = C \/ (~IsVideo(f) /\ f.scale = 1 /\ C' = Append(C, f))
      BY <2>4, <2>6
    <3>3. \A i \in 1 .. Len(C) : C[i].scale = 1 /\ ~IsVideo(C[i])
      BY <1>0, <2>6 DEF CacheInv
    <3>4. \A i \in 1 .. Len(C') : \/ C'[i] = f /\ ~IsVideo(f) /\ f.scale = 1
                                 \/ \E j \in 1 .. Len(C) : C'[i] = C[j]
      BY <1>t, <3>2
    <3>5. CacheInv'
      BY <3>1, <3>3, <3>4 DEF CacheInv, IsVideo
    <3>6. KeyInv'
      BY <2>1, <2>k, <3>1 DEF KeyInv, IsMainKey
    <3> QED
      BY <2>2, <3>5, <3>6
  <2>7. CASE ~IsMainKey(f) /\ keyframeTime
    <3>0. /\ keyframeTime' /\ C # <<>> /\ 1 \in 1 .. Len(C) /\ IsMainKey(C[1])
          /\ \A i \in 1 .. Len(C) : C[i].scale = 1
          /\ \A i \in 2 .. Len(C) : C[i].kind # "key"
      <4>1. keyframeTime'
        BY <2>4, <2>7, Zenon
      <4>2. /\ C # <<>> /\ IsMainKey(C[1])
            /\ \A i \in 1 .. Len(C) : C[i].scale = 1
            /\ \A i \in 2 .. Len(C) : C[i].kind # "key"
        BY <1>0, <2>7 DEF CacheInv
      <4>3. 1 \in 1 .. Len(C)
        BY <1>t, <4>2
      <4> QED
        BY <4>1, <4>2, <4>3
    <3>n. PICK n \in Nat : CacheUpTo(n)
      BY <1>0, <2>7 DEF CacheInv
    <3>1. CASE f.scale # 1
      <4>1. C' = C /\ ~OfLayer(f, 1)
        BY <2>4, <2>7, <3>1 DEF OfLayer
      <4>2. CacheUpTo(n)'
        BY <1>t, <2>2, <3>n, <4>1 DEF CacheUpTo, IsVideo
      <4> QED
        BY <1>0, <2>1, <2>2, <2>7, <2>k, <3>0, <4>1, <4>2 DEF CacheInv, KeyInv, IsMainKey, IsVideo
    <3>2. CASE f.scale = 1
      <4>1. /\ C' = Append(C, f) /\ Len(C') = Len(C) + 1 /\ C'[Len(C) + 1] = f
            /\ \A i \in 1 .. Len(C) : C'[i] = C[i]
        BY <1>t, <2>4, <2>7, <3>2
      <4>2. f.kind # "key"
        BY <2>7, <3>2 DEF IsMainKey
      <4>3. \E m \in Nat : CacheUpTo(m)'
        <5>1. CASE ~IsVideo(f)
          <6>1. Upcoming(1, n)'
            BY <1>t, <2>2, <3>n, <5>1 DEF CacheUpTo, OfLayer
          <6>c. /\ \A i \in 1 .. Len(C) : IsVideo(C[i]) =>
                     /\ C[i].pos \in C[1].pos .. n - 1
                     /\ \A j \in i + 1 .. Len(C) : IsVideo(C[j]) => C[j].pos > C[i].pos
                /\ \A k \in C[1].pos .. n - 1 : \E i \in 1 .. Len(C) : IsVideo(C[i]) /\ C[i].pos = k
            BY <3>n DEF CacheUpTo
          <6>d. C'[1] = C[1] /\ \A i \in 1 .. Len(C') : IsVideo(C'[i]) => i \in 1 .. Len(C)
            BY <1>t, <3>0, <4>1, <5>1
          <6>3. ASSUME NEW i \in 1 .. Len(C'), IsVideo(C'[i])
                PROVE  /\ C'[i].pos \in C'[1].pos .. n - 1
                       /\ \A j \in i + 1 .. Len(C') : IsVideo(C'[j]) => C'[j].pos > C'[i].pos
            <7>1. i \in 1 .. Len(C) /\ C'[i] = C[i]
              BY <4>1, <6>3, <6>d
            <7>2. ASSUME NEW j \in i + 1 .. Len(C'), IsVideo(C'[j]) PROVE C'[j].pos > C[i].pos
              <8>1. j \in 1 .. Len(C')
                BY <1>t, <4>1, <7>1
              <8>2. j \in i + 1 .. Len(C) /\ C'[j] = C[j]
                BY <4>1, <6>d, <7>2, <8>1
              <8> QED
                BY <6>3, <6>c, <7>1, <7>2, <8>2
            <7> QED
              BY <6>3, <6>c, <6>d, <7>1, <7>2
          <6>4. ASSUME NEW k \in C'[1].pos .. n - 1
                PROVE  \E i \in 1 .. Len(C') : IsVideo(C'[i]) /\ C'[i].pos = k
            <7>1. PICK i \in 1 .. Len(C) : IsVideo(C[i]) /\ C[i].pos = k
              BY <6>c, <6>d
            <7>2. i \in 1 .. Len(C') /\ C'[i] = C[i]
              BY <1>t, <4>1
            <7> QED
              BY <7>1, <7>2
          <6>2. CacheUpTo(n)'
            BY <6>1, <6>3, <6>4 DEF CacheUpTo, IsVideo
          <6> QED
            BY <6>2
        <5>2. CASE IsVideo(f)
          <6>1. f.pos = n /\ n + 1 \in Nat
            BY <1>t, <2>2, <3>2, <3>n, <5>2 DEF CacheUpTo, OfLayer
          <6>m. PICK m \in Nat : m = n + 1
            BY <6>1
          <6>2. Upcoming(1, m)'
            BY <1>t, <2>2, <3>2, <5>2, <6>1, <6>m DEF OfLayer
          <6>c. /\ \A i \in 1 .. Len(C) : IsVideo(C[i]) =>
                     /\ C[i].pos \in C[1].pos .. n - 1
                     /\ \A j \in i + 1 .. Len(C) : IsVideo(C[j]) => C[j].pos > C[i].pos
                /\ \A k \in C[1].pos .. n - 1 : \E i \in 1 .. Len(C) : IsVideo(C[i]) /\ C[i].pos = k
            BY <3>n DEF CacheUpTo
          <6>3. C'[1] = C[1] /\ C[1].pos \in Nat /\ C[1].pos < n
            <7>1. IsVideo(C[1]) /\ C[1].pos \in Nat
              BY <1>t, <3>0 DEF IsMainKey, IsVideo
            <7> QED
              BY <3>0, <4>1, <6>c, <7>1
          <6>4. ASSUME NEW i \in 1 .. Len(C'), IsVideo(C'[i])
                PROVE  /\ C'[i].pos \in C'[1].pos .. m - 1
                       /\ \A j \in i + 1 .. Len(C') : IsVideo(C'[j]) => C'[j].pos > C'[i].pos
            <7>1. CASE i = Len(C) + 1
              BY <1>t, <4>1, <6>1, <6>3, <6>m, <7>1
            <7>2. CASE i \in 1 .. Len(C)
              <8>1. C'[i] = C[i] /\ C[i].pos \in C[1].pos .. n - 1 /\ C[i].pos \in Nat
                BY <1>t, <4>1, <6>4, <6>c, <7>2
              <8>2. ASSUME NEW j \in i + 1 .. Len(C'), IsVideo(C'[j]) PROVE C'[j].pos > C[i].pos
                <9>1. CASE j = Len(C) + 1
                  BY <4>1, <6>1, <8>1, <9>1
                <9>2. CASE j \in i + 1 .. Len(C)
                  <10>1. C'[j] = C[j]
                    BY <4>1, <7>2, <9>2
                  <10> QED
                    BY <6>4, <6>c, <7>2, <8>1, <8>2, <9>2, <10>1
                <9> QED
                  BY <1>t, <4>1, <9>1, <9>2
              <8> QED
                BY <6>3, <6>m, <8>1, <8>2
            <7>3. i = Len(C) + 1 \/ i \in 1 .. Len(C)
              BY <1>t, <4>1
            <7> QED
              BY <7>1, <7>2, <7>3
          <6>5. ASSUME NEW k \in C'[1].pos .. m - 1
                PROVE  \E i \in 1 .. Len(C') : IsVideo(C'[i]) /\ C'[i].pos = k
            <7>1. CASE k = n
              <8>1. Len(C) + 1 \in 1 .. Len(C') /\ IsVideo(C'[Len(C) + 1])
                BY <1>t, <4>1, <5>2
              <8> QED
                BY <4>1, <6>1, <7>1, <8>1
            <7>2. CASE k \in C[1].pos .. n - 1
              <8>1. PICK i \in 1 .. Len(C) : IsVideo(C[i]) /\ C[i].pos = k
                BY <6>c, <7>2
              <8>2. i \in 1 .. Len(C') /\ C'[i] = C[i]
                BY <1>t, <4>1
              <8> QED
                BY <8>1, <8>2
            <7> QED
              BY <6>3, <6>m, <7>1, <7>2
          <6>6. CacheUpTo(m)'
            BY <6>2, <6>4, <6>5 DEF CacheUpTo, IsVideo
          <6> QED
            BY <6>6
        <5> QED
          BY <5>1, <5>2
      <4>4. /\ C' # <<>> /\ C'[1] = C[1]
            /\ \A i \in 1 .. Len(C') : C'[i].scale = 1
            /\ \A i \in 2 .. Len(C') : C'[i].kind # "key"
        BY <1>t, <3>0, <3>2, <4>1, <4>2
      <4>5. CacheInv'
        BY <3>0, <4>3, <4>4 DEF CacheInv, IsMainKey, IsVideo
      <4>6. KeyInv'
        BY <1>0, <2>1, <2>7, <2>k, <4>4 DEF KeyInv, IsMainKey
      <4> QED
        BY <2>2, <4>5, <4>6
    <3> QED
      BY <3>1, <3>2
  <2> QED
    BY <2>5, <2>6, <2>7
<1>4. ASSUME UNCHANGED <<puberVars, keyframeTime, list_cache_data>>
      PROVE  QueueInv' /\ CacheInv' /\ KeyInv'
  BY <1>0, <1>4 DEF QueueInv, CacheInv, CacheUpTo, Upcoming, KeyInv, OfLayer, IsMainKey, IsVideo
<1> QED
  BY <1>1, <1>2, <1>3, <1>4 DEF Next, vars, Subscribe, UnSubscribe, SendData, Tick, TickEnd

\* What VideoCanSend lets through: everything in the layer the player is sent,
\* of another layer keyframes only, and to begin with a keyframe if the player
\* asks for the original layer.
LEMMA SendRule ==
  ASSUME TypeOK, StatusInv, NEW p \in Players, NEW f \in Frame, IsVideo(f)
  PROVE  LET r == VideoCanSend(f, vid_recv_status[p]) IN
         /\ sent[p] # NULL /\ f.scale = sent[p].frame.scale => r.ok
         /\ sent[p] # NULL /\ r.ok => f.kind = "key" \/ f.scale = sent[p].frame.scale
         /\ sent[p] = NULL /\ r.ok /\ vid_recv_status[p].n_req_scale_rd = 1 => f.kind = "key"
<1>1. vid_recv_status[p] \in VideoRecvStatus
  BY DEF TypeOK
<1> QED
  BY <1>1 DEF StatusInv, VideoCanSend, VideoRecvStatus

\* ChainInv and LiveInv after a step, in terms of EntryNext and UpcomingNext.
LEMMA NextLine ==
  /\ (\A p \in Players : \A i, j \in 0 .. Len(list_recv_sub_data'[p]) :
        i < j /\ Linked(EntryNext(p, i), EntryNext(p, j)) =>
          \/ Follows(EntryNext(p, j).frame, EntryNext(p, i).frame)
          \/ \E k \in i + 1 .. j - 1 : Linked(EntryNext(p, k), EntryNext(p, j)))
     => ChainInv'
  /\ (\A p \in joined' : \A i \in 0 .. Len(list_recv_sub_data'[p]) :
        LET e == EntryNext(p, i) IN
        e # NULL /\ IsVideo(e.frame) /\ e.sub = subscribed'[p] =>
          IF p \in bVideoStreamSubOK'
          THEN \/ UpcomingNext(e.frame.scale, e.frame.pos + 1)
               \/ \E k \in i + 1 .. Len(list_recv_sub_data'[p]) : Linked(e, EntryNext(p, k))
          ELSE p \in bRealTimeStream' /\ e.frame.scale = 1)
     => LiveInv'
<1>1. \A p, i : Entry(p, i)' = EntryNext(p, i)
  BY DEF Entry, EntryNext
<1> QED
  BY <1>1 DEF ChainInv, LiveInv, Upcoming, UpcomingNext, Entry, EntryNext, OfLayer, Linked,
     Follows, IsVideo

\* SendData takes the head of the line.  A frame that is not sent is not of the
\* layer of the frame sent last, so no gap appears before the next one.
LEMMA SendStep ==
  ASSUME IInv, NEW p \in Players, SendData(p)
  PROVE  EntryType' /\ ChainInv' /\ LiveInv'
<1> USE DEF puberVars, tickVars, suberVars, peerVars
<1>0. TypeOK /\ StatusInv /\ EntryType /\ ChainInv /\ LiveInv
  BY DEF IInv
<1> DEFINE Q == list_recv_sub_data[p]
           q == Head(Q)
           N(o) == Len(list_recv_sub_data'[o])
<1>1. /\ Q \in Seq(Queued) /\ Q # <<>> /\ Len(Q) \in Nat /\ Len(Q) >= 1
      /\ q = Q[1] /\ q \in Queued /\ q # NULL /\ q.frame \in Frame
      /\ list_recv_sub_data'[p] = Tail(Q)
      /\ N(p) = Len(Q) - 1 /\ \A i \in 1 .. Len(Q) - 1 : list_recv_sub_data'[p][i] = Q[i + 1]
  <2>1. Q \in Seq(Queued) /\ Q # <<>> /\ list_recv_sub_data'[p] = Tail(Q)
    BY <1>0 DEF SendData, TypeOK
  <2>2. q \in Queued /\ q = Q[1] /\ Len(Q) \in Nat /\ Len(Q) >= 1
    BY <2>1
  <2>3. q # NULL /\ q.frame \in Frame
    BY <2>2 DEF Queued
  <2>4. Len(Tail(Q)) = Len(Q) - 1 /\ \A i \in 1 .. Len(Q) - 1 : Tail(Q)[i] = Q[i + 1]
    BY <2>1, <2>2
  <2> QED
    BY <2>1, <2>2, <2>3, <2>4
<1>2. /\ UNCHANGED <<frames, list_recv_data, joined, bRealTimeStream, bVideoStreamSubOK, subscribed>>
      /\ \A o \in Players \ {p} : /\ list_recv_sub_data'[o] = list_recv_sub_data[o]
                                  /\ sent'[o] = sent[o]
  BY <1>0 DEF SendData, TypeOK
<1>3. sent'[p] = q \/ (sent'[p] = sent[p] /\ ~Linked(sent[p], q))
  <2>1. CASE ~IsVideo(q.frame)
    <3>1. sent'[p] = sent[p]
      BY <2>1 DEF SendData
    <3> QED
      BY <2>1, <3>1 DEF Linked
  <2>2. CASE IsVideo(q.frame)
    <3> DEFINE r == VideoCanSend(q.frame, vid_recv_status[p])
    <3>1. sent'[p] = IF r.ok THEN q ELSE sent[p]
      BY <1>0, <2>2 DEF SendData, TypeOK
    <3>2. sent[p] # NULL /\ q.frame.scale = sent[p].frame.scale => r.ok
      BY <1>0, <1>1, <2>2, SendRule
    <3> QED
      BY <3>1, <3>2 DEF Linked
  <2> QED
    BY <2>1, <2>2
<1>4. ASSUME NEW o \in Players \ {p}
      PROVE  N(o) = Len(list_recv_sub_data[o]) /\ \A i \in 0 .. N(o) : EntryNext(o, i) = Entry(o, i)
  BY <1>2 DEF Entry, EntryNext
<1>5. \A i \in 1 .. Len(Q) - 1 : EntryNext(p, i) = Entry(p, i + 1)
  BY <1>1 DEF Entry, EntryNext
<1>6. \/ EntryNext(p, 0) = Entry(p, 1)
      \/ EntryNext(p, 0) = Entry(p, 0) /\ ~Linked(Entry(p, 0), Entry(p, 1))
  BY <1>1, <1>3 DEF Entry, EntryNext
<1> HIDE DEF N, q
<1>7. \A i, j \in 0 .. Len(Q) : i < j /\ Linked(Entry(p, i), Entry(p, j)) =>
        \/ Follows(Entry(p, j).frame, Entry(p, i).frame)
        \/ \E k \in i + 1 .. j - 1 : Linked(Entry(p, k), Entry(p, j))
  BY <1>0 DEF ChainInv
<1>8. ASSUME NEW i \in 0 .. Len(Q) - 1, NEW j \in 0 .. Len(Q) - 1, i < j,
             Linked(EntryNext(p, i), EntryNext(p, j))
      PROVE  \/ Follows(EntryNext(p, j).frame, EntryNext(p, i).frame)
             \/ \E k \in i + 1 .. j - 1 : Linked(EntryNext(p, k), EntryNext(p, j))
  <2>1. j + 1 \in 0 .. Len(Q) /\ EntryNext(p, j) = Entry(p, j + 1)
    BY <1>1, <1>5, <1>8
  <2>2. ASSUME NEW h \in 0 .. Len(Q), EntryNext(p, i) = Entry(p, h), h = i + 1 \/ (h = 0 /\ i = 0),
               h = 0 => ~Linked(Entry(p, 0), Entry(p, 1))
        PROVE  \/ Follows(EntryNext(p, j).frame, EntryNext(p, i).frame)
               \/ \E k \in i + 1 .. j - 1 : Linked(EntryNext(p, k), EntryNext(p, j))
    <3>1. h < j + 1 /\ Linked(Entry(p, h), Entry(p, j + 1))
      BY <1>1, <1>8, <2>1, <2>2
    <3>2. CASE Follows(Entry(p, j + 1).frame, Entry(p, h).frame)
      BY <2>1, <2>2, <3>2
    <3>3. ASSUME NEW k \in h + 1 .. j, Linked(Entry(p, k), Entry(p, j + 1))
          PROVE  \E l \in i + 1 .. j - 1 : Linked(EntryNext(p, l), EntryNext(p, j))
      <4>1. k # 1
        <5>1. CASE h = 0
          BY <2>2, <3>1, <3>3, <5>1 DEF Linked
        <5>2. CASE h # 0
          BY <2>2, <3>3, <5>2
        <5> QED
          BY <5>1, <5>2
      <4>2. k - 1 \in 1 .. Len(Q) - 1 /\ k - 1 \in i + 1 .. j - 1
        BY <1>1, <1>8, <2>2, <3>3, <4>1
      <4>3. EntryNext(p, k - 1) = Entry(p, k)
        BY <1>5, <4>2
      <4> QED
        BY <2>1, <3>3, <4>2, <4>3
    <3>4. \/ Follows(Entry(p, j + 1).frame, Entry(p, h).frame)
          \/ \E k \in h + 1 .. j : Linked(Entry(p, k), Entry(p, j + 1))
      BY <1>1, <1>7, <2>1, <3>1
    <3> QED
      BY <3>2, <3>3, <3>4
  <2>3. CASE i = 0
    BY <1>1, <1>6, <2>2, <2>3
  <2>4. CASE i # 0
    <3>1. i + 1 \in 0 .. Len(Q) /\ EntryNext(p, i) = Entry(p, i + 1)
      BY <1>1, <1>5, <2>4
    <3> QED
      BY <1>1, <2>2, <3>1
  <2> QED
    BY <2>3, <2>4
<1>9. ChainInv'
  <2>1. SUFFICES ASSUME NEW o \in Players, NEW i \in 0 .. N(o), NEW j \in 0 .. N(o), i < j,
                        Linked(EntryNext(o, i), EntryNext(o, j))
                 PROVE  \/ Follows(EntryNext(o, j).frame, EntryNext(o, i).frame)
                        \/ \E k \in i + 1 .. j - 1 : Linked(EntryNext(o, k), EntryNext(o, j))
    BY NextLine DEF N
  <2>2. CASE o = p
    BY <1>1, <1>8, <2>1, <2>2
  <2>3. CASE o # p
    <3>0. N(o) \in Nat
      BY <1>0, <1>4, <2>3 DEF TypeOK
    <3>1. \A k \in 0 .. N(o) : EntryNext(o, k) = Entry(o, k)
      BY <1>4, <2>3
    <3>2. \/ Follows(Entry(o, j).frame, Entry(o, i).frame)
          \/ \E k \in i + 1 .. j - 1 : Linked(Entry(o, k), Entry(o, j))
      BY <1>0, <1>4, <2>1, <2>3, <3>1 DEF ChainInv
    <3>3. i + 1 .. j - 1 \subseteq 0 .. N(o)
      BY <3>0
    <3> QED
      BY <3>1, <3>2, <3>3
  <2> QED
    BY <2>2, <2>3
<1>10. \A i \in 0 .. Len(Q) - 1 : \E h \in 0 .. Len(Q) : EntryNext(p, i) = Entry(p, h)
  <2> SUFFICES ASSUME NEW i \in 0 .. Len(Q) - 1
               PROVE  \E h \in 0 .. Len(Q) : EntryNext(p, i) = Entry(p, h)
    OBVIOUS
  <2>1. CASE i = 0
    BY <1>1, <1>6, <2>1
  <2>2. CASE i # 0
    <3>1. i \in 1 .. Len(Q) - 1 /\ i + 1 \in 0 .. Len(Q)
      BY <1>1, <2>2
    <3> QED
      BY <1>5, <3>1
  <2> QED
    BY <2>1, <2>2
<1>11. EntryType'
  <2>1. SUFFICES ASSUME NEW o \in Players, NEW i \in 0 .. N(o), EntryNext(o, i) # NULL
                 PROVE  EntryNext(o, i).sub <= subscribed[o]
    BY <1>2 DEF EntryType, Entry, EntryNext, N
  <2>2. \E h \in 0 .. Len(list_recv_sub_data[o]) : EntryNext(o, i) = Entry(o, h)
    BY <1>1, <1>4, <1>10
  <2> QED
    BY <1>0, <2>1, <2>2 DEF EntryType
<1>12. LiveInv'
  <2>1. SUFFICES ASSUME NEW o \in joined, NEW i \in 0 .. N(o), NEW e, e = EntryNext(o, i),
                        e # NULL, IsVideo(e.frame), e.sub = subscribed[o]
                 PROVE  IF o \in bVideoStreamSubOK
                        THEN \/ Upcoming(e.frame.scale, e.frame.pos + 1)
                             \/ \E k \in i + 1 .. N(o) : Linked(e, EntryNext(o, k))
                        ELSE o \in bRealTimeStream /\ e.frame.scale = 1
    <3>1. \A x, m : Upcoming(x, m) => UpcomingNext(x, m)
      BY <1>2 DEF Upcoming, UpcomingNext
    <3> QED
      BY <1>2, <3>1, NextLine DEF N
  <2>l. o \in Players
    BY <1>0 DEF TypeOK
  <2>2. CASE o # p
    <3>1. N(o) = Len(list_recv_sub_data[o]) /\ N(o) \in Nat
          /\ \A k \in 0 .. N(o) : EntryNext(o, k) = Entry(o, k)
      BY <1>0, <1>4, <2>2, <2>l DEF TypeOK
    <3>2. i + 1 .. N(o) \subseteq 0 .. N(o)
      BY <3>1
    <3> QED
      BY <1>0, <2>1, <3>1, <3>2 DEF LiveInv
  <2>3. CASE o = p
    <3>1. ASSUME NEW h \in 0 .. Len(Q), e = Entry(p, h), h = i + 1 \/ (h = 0 /\ i = 0),
                 h = 0 => ~Linked(Entry(p, 0), Entry(p, 1))
          PROVE  IF p \in bVideoStreamSubOK
                 THEN \/ Upcoming(e.frame.scale, e.frame.pos + 1)
                      \/ \E k \in i + 1 .. Len(Q) - 1 : Linked(e, EntryNext(p, k))
                 ELSE p \in bRealTimeStream /\ e.frame.scale = 1
      <4>1. IF p \in bVideoStreamSubOK
            THEN \/ Upcoming(e.frame.scale, e.frame.pos + 1)
                 \/ \E k \in h + 1 .. Len(Q) : Linked(e, Entry(p, k))
            ELSE p \in bRealTimeStream /\ e.frame.scale = 1
        BY <1>0, <2>1, <2>3, <3>1 DEF LiveInv
      <4>2. ASSUME NEW k \in h + 1 .. Len(Q), Linked(e, Entry(p, k))
            PROVE  \E l \in i + 1 .. Len(Q) - 1 : Linked(e, EntryNext(p, l))
        <5>1. k # 1
          BY <3>1, <4>2
        <5>2. k - 1 \in 1 .. Len(Q) - 1 /\ k - 1 \in i + 1 .. Len(Q) - 1
          BY <1>1, <2>1, <3>1, <4>2, <5>1
        <5>3. EntryNext(p, k - 1) = Entry(p, k)
          BY <1>5, <5>2
        <5> QED
          BY <4>2, <5>2, <5>3
      <4> QED
        BY <4>1, <4>2
    <3>2. i \in 0 .. Len(Q) - 1 /\ N(p) = Len(Q) - 1
      BY <1>1, <2>1, <2>3
    <3>3. CASE i = 0
      BY <1>1, <1>6, <2>1, <2>3, <3>1, <3>2, <3>3
    <3>4. CASE i # 0
      <4>1. i + 1 \in 0 .. Len(Q) /\ i + 1 # 0 /\ EntryNext(p, i) = Entry(p, i + 1)
        BY <1>1, <1>5, <3>2, <3>4
      <4> QED
        BY <2>1, <2>3, <3>1, <3>2, <4>1
    <3> QED
      BY <3>3, <3>4
  <2> QED
    BY <2>2, <2>3
<1> QED
  BY <1>9, <1>11, <1>12

\* TickFrame appends what a player is dispatched to its line.  Someone who gets
\* everything gets the frame after the last one in the line, someone in real
\* time a keyframe at most, and someone who gets the cache has nothing in line,
\* the cache has no gap, and the frame is the one after the cache.
LEMMA DispatchStep ==
  ASSUME IInv, TickFrame
  PROVE  EntryType' /\ ChainInv' /\ LiveInv'
<1>0. /\ TypeOK /\ QueueInv /\ CacheInv /\ KeyInv
      /\ EntryType /\ ChainInv /\ LiveInv /\ JoinedInv
  BY DEF IInv
<1> DEFINE L == list_recv_data
           C == list_cache_data
           f == Head(L)
           d(p) == Dispatched(p, f, CacheFor(f))
           n(p) == Len(list_recv_sub_data[p])
           B(p, b) == [frame |-> d(p)[b], sub |-> subscribed[p]]
           N(p) == Len(list_recv_sub_data'[p])
<1>1. /\ L \in Seq(Frame) /\ L # <<>> /\ f \in Frame /\ C \in Seq(Frame) /\ Len(C) \in Nat
      /\ list_recv_data' = Tail(L)
      /\ UNCHANGED <<frames, received, joined, bRealTimeStream, subscribed, sent>>
      /\ joined \subseteq Players
  BY <1>0 DEF TickFrame, TypeOK
<1>f. \A g \in Frame : g.pos \in Nat /\ g.scale \in Scales
  BY DEF Frame
<1>u. /\ \A x \in Scales, m \in Nat : Upcoming(x, m) =>
           IF OfLayer(f, x) THEN f.pos = m ELSE UpcomingNext(x, m)
      /\ \A x \in Scales : OfLayer(f, x) => UpcomingNext(x, f.pos + 1)
  <2>1. /\ \A x \in Scales, m \in Nat : Upcoming(x, m) =>
             IF OfLayer(f, x) THEN f.pos = m ELSE Upcoming(x, m)'
        /\ \A x \in Scales, m \in Nat :
             OfLayer(f, x) /\ m = f.pos + 1 => Upcoming(x, m)'
    BY <1>0, <1>1, TakeUpcoming
  <2>2. \A x \in Scales, m \in Nat : Upcoming(x, m)' => UpcomingNext(x, m)
    BY DEF Upcoming, UpcomingNext, OfLayer, IsVideo
  <2>3. f.pos + 1 \in Nat
    BY <1>1, <1>f
  <2> HIDE DEF f
  <2> QED
    BY <2>1, <2>2, <2>3
<1>c. /\ \A a \in 1 .. Len(C) : C[a] \in Frame /\ C[a].scale = 1
      /\ \A a \in 1 .. Len(C) : IsVideo(C[a]) =>
           Upcoming(1, C[a].pos + 1) \/ \E k \in a + 1 .. Len(C) : IsVideo(C[k])
      /\ \A a, b \in 1 .. Len(C) : a < b /\ IsVideo(C[a]) /\ IsVideo(C[b]) =>
           Follows(C[b], C[a]) \/ \E k \in a + 1 .. b - 1 : IsVideo(C[k])
  <2>1. \A a \in 1 .. Len(C) : C[a] \in Frame /\ C[a].scale = 1 /\ C[a].pos \in Nat
    BY <1>0, <1>1, <1>f DEF CacheInv
  <2>2. CASE ~keyframeTime
    BY <1>0, <2>1, <2>2 DEF CacheInv
  <2>3. CASE keyframeTime
    <3>1. PICK m \in Nat : CacheUpTo(m)
      BY <1>0, <2>3 DEF CacheInv
    <3>2. /\ Upcoming(1, m)
          /\ \A a \in 1 .. Len(C) : IsVideo(C[a]) =>
               /\ C[a].pos \in C[1].pos .. m - 1
               /\ \A b \in a + 1 .. Len(C) : IsVideo(C[b]) => C[b].pos > C[a].pos
          /\ \A k \in C[1].pos .. m - 1 : \E a \in 1 .. Len(C) : IsVideo(C[a]) /\ C[a].pos = k
      BY <3>1 DEF CacheUpTo
    <3>3. ASSUME NEW a \in 1 .. Len(C), IsVideo(C[a]), C[a].pos + 1 # m
          PROVE  \E k \in a + 1 .. Len(C) : IsVideo(C[k]) /\ C[k].pos = C[a].pos + 1
      <4>1. 1 \in 1 .. Len(C)
        BY <1>1
      <4>2. C[a].pos \in C[1].pos .. m - 1 /\ C[a].pos \in Nat /\ C[1].pos \in Nat
        BY <2>1, <3>2, <3>3, <4>1
      <4>3. C[a].pos + 1 \in C[1].pos .. m - 1
        BY <3>3, <4>2
      <4>4. PICK k \in 1 .. Len(C) : IsVideo(C[k]) /\ C[k].pos = C[a].pos + 1
        BY <3>2, <4>3
      <4>5. k # a
        BY <4>2, <4>4
      <4>6. ~(a \in k + 1 .. Len(C))
        BY <3>2, <3>3, <4>2, <4>4
      <4> QED
        BY <1>1, <4>4, <4>5, <4>6
    <3>4. \A a \in 1 .. Len(C) : IsVideo(C[a]) =>
            Upcoming(1, C[a].pos + 1) \/ \E k \in a + 1 .. Len(C) : IsVideo(C[k])
      BY <3>2, <3>3
    <3>5. ASSUME NEW a \in 1 .. Len(C), NEW b \in 1 .. Len(C), a < b,
                 IsVideo(C[a]), IsVideo(C[b])
          PROVE  Follows(C[b], C[a]) \/ \E k \in a + 1 .. b - 1 : IsVideo(C[k])
      <4>1. b \in a + 1 .. Len(C)
        BY <1>1, <3>5
      <4>2. /\ C[b].pos > C[a].pos /\ C[b].pos \in Nat /\ C[a].pos \in Nat
            /\ C[b].pos \in C[1].pos .. m - 1
        BY <2>1, <3>2, <3>5, <4>1
      <4>3. CASE C[b].pos = C[a].pos + 1
        BY <2>1, <4>3 DEF Follows
      <4>4. CASE C[b].pos # C[a].pos + 1
        <5>1. C[a].pos + 1 # m
          BY <4>2, <4>4
        <5>2. PICK k \in a + 1 .. Len(C) : IsVideo(C[k]) /\ C[k].pos = C[a].pos + 1
          BY <3>3, <3>5, <5>1
        <5>3. k # b
          BY <4>4, <5>2
        <5>4. ~(k \in b + 1 .. Len(C))
          <6>1. SUFFICES ASSUME k \in b + 1 .. Len(C) PROVE FALSE
            OBVIOUS
          <6>2. C[k].pos > C[b].pos
            BY <3>2, <3>5, <5>2, <6>1
          <6> QED
            BY <4>2, <5>2, <6>2
        <5>5. k \in a + 1 .. b - 1
          BY <1>1, <5>2, <5>3, <5>4
        <5> QED
          BY <5>2, <5>5
      <4> QED
        BY <4>3, <4>4
    <3> QED
      BY <2>1, <3>4, <3>5
  <2> QED
    BY <2>2, <2>3
<1>2. ASSUME NEW p \in joined
      PROVE  /\ d(p) \in Seq(Frame) /\ Len(d(p)) \in Nat /\ n(p) \in Nat
             /\ N(p) = n(p) + Len(d(p))
             /\ \A i \in 0 .. n(p) : EntryNext(p, i) = Entry(p, i)
             /\ \A b \in 1 .. Len(d(p)) : EntryNext(p, n(p) + b) = B(p, b)
  <2> DEFINE Q == list_recv_sub_data[p]
             e == [i \in 1 .. Len(d(p)) |-> B(p, i)]
  <2>1. Q \in Seq(Queued) /\ list_recv_sub_data'[p] = Q \o e
    BY <1>0, <1>1 DEF TickFrame, TypeOK
  <2>2. d(p) \in Seq(Frame)
    <3>1. CacheFor(f) \in Seq(Frame)
      BY <1>1 DEF CacheFor
    <3>2. video_keyframe_cache \in Frame \cup {NULL}
      BY <1>0 DEF TypeOK
    <3> HIDE DEF f
    <3> QED
      BY <1>1, <3>1, <3>2 DEF Dispatched
  <2>3. Len(d(p)) \in Nat
    BY <2>2
  <2>4. \A b \in 1 .. Len(d(p)) : B(p, b) \in Queued
    <3>1. subscribed[p] \in 1 .. MaxSubs
      BY <1>0, <1>1 DEF TypeOK, JoinedInv
    <3>2. \A b \in 1 .. Len(d(p)) : d(p)[b] \in Frame
      BY <2>2
    <3> HIDE DEF d
    <3> QED
      BY <3>1, <3>2 DEF Queued
  <2> HIDE DEF d, B
  <2>5. e \in Seq(Queued) /\ Len(e) = Len(d(p)) /\ \A b \in 1 .. Len(d(p)) : e[b] = B(p, b)
    BY <2>3, <2>4
  <2> HIDE DEF e
  <2>6. /\ Len(Q) \in Nat /\ Len(Q \o e) = Len(Q) + Len(e)
        /\ \A i \in 1 .. Len(Q) : (Q \o e)[i] = Q[i]
        /\ \A b \in 1 .. Len(e) : (Q \o e)[Len(Q) + b] = e[b]
    <3> HIDE DEF Q
    <3>0. Q \in Seq(Queued) /\ e \in Seq(Queued)
      BY <2>1, <2>5
    <3>1. Len(Q) \in Nat /\ Len(e) \in Nat /\ Len(Q \o e) = Len(Q) + Len(e)
      BY <3>0
    <3>2. \A i \in 1 .. Len(Q) + Len(e) :
            (Q \o e)[i] = IF i <= Len(Q) THEN Q[i] ELSE e[i - Len(Q)]
      BY <3>0
    <3>3. \A b \in 1 .. Len(e) : /\ Len(Q) + b \in 1 .. Len(Q) + Len(e)
                                 /\ ~(Len(Q) + b <= Len(Q)) /\ Len(Q) + b - Len(Q) = b
      BY <3>1
    <3>4. \A i \in 1 .. Len(Q) : i \in 1 .. Len(Q) + Len(e) /\ i <= Len(Q)
      BY <3>1
    <3> QED
      BY <3>1, <3>2, <3>3, <3>4
  <2>7. \A i \in 0 .. Len(Q) : EntryNext(p, i) = Entry(p, i)
    BY <1>1, <2>1, <2>6 DEF Entry, EntryNext
  <2>8. \A b \in 1 .. Len(d(p)) : EntryNext(p, n(p) + b) = B(p, b)
    BY <2>1, <2>3, <2>5, <2>6 DEF EntryNext
  <2> QED
    BY <2>1, <2>2, <2>3, <2>5, <2>6, <2>7, <2>8
<1>3. ASSUME NEW p \in Players, p \notin joined
      PROVE  N(p) = n(p) /\ \A i \in 0 .. N(p) : EntryNext(p, i) = Entry(p, i)
  BY <1>1, <1>3 DEF TickFrame, Entry, EntryNext
<1> HIDE DEF N
<1>4. ASSUME NEW p \in joined
      PROVE  /\ \A a, b \in 1 .. Len(d(p)) : a < b /\ SameLayer(d(p)[a], d(p)[b]) =>
                  \/ Follows(d(p)[b], d(p)[a])
                  \/ \E k \in a + 1 .. b - 1 : SameLayer(d(p)[k], d(p)[b])
             /\ \A i \in 0 .. n(p), b \in 1 .. Len(d(p)) : Linked(Entry(p, i), B(p, b)) =>
                  \/ Follows(d(p)[b], Entry(p, i).frame)
                  \/ \E k \in i + 1 .. n(p) : Linked(Entry(p, k), B(p, b))
             /\ p \in bVideoStreamSubOK' =>
                  /\ \A b \in 1 .. Len(d(p)) : IsVideo(d(p)[b]) =>
                       \/ UpcomingNext(d(p)[b].scale, d(p)[b].pos + 1)
                       \/ \E k \in b + 1 .. Len(d(p)) : SameLayer(d(p)[b], d(p)[k])
                  /\ \A i \in 0 .. n(p) :
                       LET e == Entry(p, i) IN
                       e # NULL /\ IsVideo(e.frame) /\ e.sub = subscribed[p] =>
                         \/ UpcomingNext(e.frame.scale, e.frame.pos + 1)
                         \/ \E k \in i + 1 .. n(p) : Linked(e, Entry(p, k))
                         \/ \E b \in 1 .. Len(d(p)) : SameLayer(e.frame, d(p)[b])
             /\ p \notin bVideoStreamSubOK' =>
                  /\ p \in bRealTimeStream /\ p \notin bVideoStreamSubOK
                  /\ \A b \in 1 .. Len(d(p)) : IsVideo(d(p)[b]) => d(p)[b].scale = 1
  <2>l. ASSUME NEW i \in 0 .. n(p), NEW e, e = Entry(p, i),
               e # NULL, IsVideo(e.frame), e.sub = subscribed[p]
        PROVE  /\ e.frame.scale \in Scales /\ e.frame.pos + 1 \in Nat
               /\ IF p \in bVideoStreamSubOK
                  THEN \/ Upcoming(e.frame.scale, e.frame.pos + 1)
                       \/ \E k \in i + 1 .. n(p) : Linked(e, Entry(p, k))
                  ELSE p \in bRealTimeStream /\ e.frame.scale = 1
    <3>1. e \in Queued
      <4>1. sent[p] \in Queued \cup {NULL} /\ list_recv_sub_data[p] \in Seq(Queued)
        BY <1>0, <1>1 DEF TypeOK
      <4>2. CASE i = 0
        BY <2>l, <4>1, <4>2 DEF Entry
      <4>3. CASE i \in 1 .. n(p)
        BY <2>l, <4>1, <4>3 DEF Entry
      <4> QED
        BY <1>2, <4>2, <4>3
    <3>2. e.frame \in Frame
      BY <3>1 DEF Queued
    <3>3. e.frame.scale \in Scales /\ e.frame.pos + 1 \in Nat
      BY <1>f, <3>2
    <3> QED
      BY <1>0, <2>l, <3>3 DEF LiveInv
  <2>1. CASE p \in bVideoStreamSubOK \/ IsMainKey(f)
    <3>1. Len(d(p)) = 1 /\ d(p)[1] = f /\ p \in bVideoStreamSubOK'
      BY <2>1 DEF Dispatched, TickFrame
    <3>2. B(p, 1) = [frame |-> f, sub |-> subscribed[p]]
      BY <3>1
    <3> HIDE DEF d, B, f
    <3>3. ASSUME NEW i \in 0 .. n(p), Linked(Entry(p, i), B(p, 1))
          PROVE  \/ Follows(f, Entry(p, i).frame)
                 \/ \E k \in i + 1 .. n(p) : Linked(Entry(p, k), B(p, 1))
      <4>1. PICK e : e = Entry(p, i)
        OBVIOUS
      <4>2. e # NULL /\ IsVideo(e.frame) /\ e.sub = subscribed[p] /\ OfLayer(f, e.frame.scale)
        BY <3>2, <3>3, <4>1 DEF Linked, OfLayer
      <4>3. CASE f.kind = "key"
        BY <4>3 DEF Follows
      <4>4. CASE f.kind # "key"
        <5>1. p \in bVideoStreamSubOK
          BY <2>1, <4>4 DEF IsMainKey
        <5>2. CASE Upcoming(e.frame.scale, e.frame.pos + 1)
          <6>1. f.pos = e.frame.pos + 1
            BY <1>u, <2>l, <4>1, <4>2, <5>2
          <6> QED
            BY <4>1, <4>2, <6>1 DEF Follows, OfLayer
        <5>3. CASE \E k \in i + 1 .. n(p) : Linked(e, Entry(p, k))
          BY <3>2, <3>3, <4>1, <5>3 DEF Linked
        <5> QED
          BY <2>l, <4>1, <4>2, <5>1, <5>2, <5>3
      <4> QED
        BY <4>3, <4>4
    <3>4. IsVideo(f) => UpcomingNext(f.scale, f.pos + 1)
      BY <1>1, <1>f, <1>u DEF OfLayer
    <3>5. ASSUME NEW i \in 0 .. n(p), NEW e, e = Entry(p, i),
                 e # NULL, IsVideo(e.frame), e.sub = subscribed[p]
          PROVE  \/ UpcomingNext(e.frame.scale, e.frame.pos + 1)
                 \/ \E k \in i + 1 .. n(p) : Linked(e, Entry(p, k))
                 \/ SameLayer(e.frame, f)
      <4>1. CASE OfLayer(f, e.frame.scale)
        BY <3>5, <4>1 DEF OfLayer, SameLayer
      <4>2. CASE ~OfLayer(f, e.frame.scale)
        <5>1. p \in bVideoStreamSubOK
          <6>1. CASE IsMainKey(f) /\ p \notin bVideoStreamSubOK
            BY <2>l, <3>5, <4>2, <6>1 DEF IsMainKey, OfLayer, IsVideo
          <6> QED
            BY <2>1, <6>1
        <5>2. CASE Upcoming(e.frame.scale, e.frame.pos + 1)
          BY <1>u, <2>l, <3>5, <4>2, <5>2
        <5> QED
          BY <2>l, <3>5, <5>1, <5>2
      <4> QED
        BY <4>1, <4>2
    <3>6. \A b \in 1 .. Len(d(p)) : b = 1 /\ d(p)[b] = f
      BY <3>1
    <3>7. 1 \in 1 .. Len(d(p))
      BY <3>1
    <3> QED
      BY <3>1, <3>3, <3>4, <3>5, <3>6, <3>7
  <2>2. CASE p \notin bVideoStreamSubOK /\ ~IsMainKey(f) /\ p \in bRealTimeStream
    <3>1. p \notin bVideoStreamSubOK'
      BY <2>2 DEF TickFrame
    <3>2. \A b \in 1 .. Len(d(p)) : IsVideo(d(p)[b]) => IsMainKey(d(p)[b])
      <4> DEFINE u == IF p \notin bCacheFrameSended /\ video_keyframe_cache # NULL
                      THEN <<video_keyframe_cache>> ELSE <<>>
                 w == IF IsVideo(f) THEN <<>> ELSE <<f>>
      <4>1. d(p) = u \o w
        BY <2>2 DEF Dispatched
      <4>2. video_keyframe_cache \in Frame \cup {NULL}
        BY <1>0 DEF TypeOK
      <4>3. u \in Seq(Frame) /\ Len(u) \in Nat /\ \A a \in 1 .. Len(u) : IsMainKey(u[a])
        <5>1. video_keyframe_cache # NULL => IsMainKey(video_keyframe_cache)
          BY <1>0 DEF KeyInv
        <5> QED
          BY <4>2, <5>1
      <4>4. w \in Seq(Frame) /\ Len(w) \in Nat /\ \A a \in 1 .. Len(w) : ~IsVideo(w[a])
        <5> HIDE DEF f
        <5> QED
          BY <1>1
      <4> HIDE DEF u, w
      <4>5. \A b \in 1 .. Len(u \o w) : \/ b \in 1 .. Len(u) /\ (u \o w)[b] = u[b]
                                        \/ b - Len(u) \in 1 .. Len(w) /\ (u \o w)[b] = w[b - Len(u)]
        BY <4>3, <4>4
      <4> HIDE DEF d
      <4> QED
        BY <4>1, <4>3, <4>4, <4>5
    <3> HIDE DEF d
    <3>3. \A b \in 1 .. Len(d(p)) : IsVideo(d(p)[b]) => d(p)[b].scale = 1 /\ d(p)[b].kind = "key"
      BY <3>2 DEF IsMainKey
    <3>4. \A i \in 0 .. n(p), b \in 1 .. Len(d(p)) :
            Linked(Entry(p, i), B(p, b)) => d(p)[b].kind = "key"
      BY <3>3 DEF Linked
    <3>5. \A a, b \in 1 .. Len(d(p)) : SameLayer(d(p)[a], d(p)[b]) => d(p)[b].kind = "key"
      BY <3>3 DEF SameLayer
    <3> QED
      BY <2>2, <3>1, <3>3, <3>4, <3>5 DEF Follows
  <2>3. CASE p \notin bVideoStreamSubOK /\ ~IsMainKey(f) /\ p \notin bRealTimeStream
    <3> DEFINE u == IF p \in bCacheFrameSended THEN <<>> ELSE C
               D == d(p)
    <3>1. p \in bVideoStreamSubOK'
      BY <2>3 DEF TickFrame
    <3>2. D = u \o <<f>>
      BY <2>3 DEF Dispatched, CacheFor
    <3>3. \A i \in 0 .. n(p) :
            LET e == Entry(p, i) IN ~(e # NULL /\ IsVideo(e.frame) /\ e.sub = subscribed[p])
      BY <2>3, <2>l
    <3>4. /\ u \in Seq(Frame) /\ Len(u) \in Nat
          /\ \A a \in 1 .. Len(u) : u[a] \in Frame /\ u[a].scale = 1
          /\ \A a \in 1 .. Len(u) : IsVideo(u[a]) =>
               Upcoming(1, u[a].pos + 1) \/ \E k \in a + 1 .. Len(u) : IsVideo(u[k])
          /\ \A a, b \in 1 .. Len(u) : a < b /\ IsVideo(u[a]) /\ IsVideo(u[b]) =>
               Follows(u[b], u[a]) \/ \E k \in a + 1 .. b - 1 : IsVideo(u[k])
      <4>0. u = C \/ u = <<>>
        OBVIOUS
      <4> HIDE DEF u
      <4>1. CASE u = C
        BY <1>1, <1>c, <4>1, Zenon
      <4>2. CASE u = <<>>
        <5>1. u \in Seq(Frame) /\ Len(u) = 0 /\ \A a \in 1 .. Len(u) : FALSE
          BY <4>2
        <5> QED
          BY <5>1
      <4> QED
        BY <4>0, <4>1, <4>2
    <3> HIDE DEF u, f
    <3>5. /\ Len(D) = Len(u) + 1 /\ D[Len(u) + 1] = f
          /\ \A a \in 1 .. Len(u) : D[a] = u[a]
      <4>1. /\ Len(u \o <<f>>) = Len(u) + 1 /\ (u \o <<f>>)[Len(u) + 1] = f
            /\ \A a \in 1 .. Len(u) : (u \o <<f>>)[a] = u[a]
        BY <1>1, <3>4
      <4> HIDE DEF D
      <4> QED
        BY <3>2, <4>1
    <3> HIDE DEF D
    <3>6. ASSUME NEW a \in 1 .. Len(D), NEW b \in 1 .. Len(D), a < b, SameLayer(D[a], D[b])
          PROVE  \/ Follows(D[b], D[a])
                 \/ \E k \in a + 1 .. b - 1 : SameLayer(D[k], D[b])
      <4>1. a \in 1 .. Len(u) /\ D[a] = u[a] /\ IsVideo(u[a]) /\ u[a].scale = 1
        BY <3>4, <3>5, <3>6 DEF SameLayer
      <4>2. CASE b \in 1 .. Len(u)
        <5>1. D[b] = u[b] /\ IsVideo(u[b]) /\ u[b].scale = 1
          BY <3>4, <3>5, <3>6, <4>2 DEF SameLayer
        <5>2. \A k \in a + 1 .. b - 1 : k \in 1 .. Len(u) /\ D[k] = u[k] /\ u[k].scale = 1
          BY <3>4, <3>5, <4>1, <4>2
        <5> QED
          BY <3>4, <3>6, <4>1, <4>2, <5>1, <5>2 DEF SameLayer
      <4>3. CASE b = Len(u) + 1
        <5>1. D[b] = f /\ OfLayer(f, 1)
          BY <3>5, <3>6, <4>1, <4>3 DEF SameLayer, OfLayer
        <5>2. CASE Upcoming(1, u[a].pos + 1)
          <6>1. u[a].pos + 1 \in Nat
            BY <1>f, <3>4, <4>1
          <6>2. f.pos = u[a].pos + 1
            BY <1>u, <5>1, <5>2, <6>1
          <6> QED
            BY <4>1, <5>1, <6>2 DEF Follows, OfLayer
        <5>3. ASSUME NEW k \in a + 1 .. Len(u), IsVideo(u[k])
              PROVE  \E j \in a + 1 .. b - 1 : SameLayer(D[j], D[b])
          <6>1. k \in 1 .. Len(u) /\ k \in a + 1 .. b - 1
            BY <3>4, <4>1, <4>3
          <6>2. D[k] = u[k] /\ u[k].scale = 1
            BY <3>4, <3>5, <6>1
          <6> QED
            BY <5>1, <5>3, <6>1, <6>2 DEF SameLayer, OfLayer
        <5> QED
          BY <3>4, <4>1, <5>2, <5>3
      <4> QED
        BY <3>4, <3>5, <4>2, <4>3
    <3>7. ASSUME NEW b \in 1 .. Len(D), IsVideo(D[b])
          PROVE  \/ UpcomingNext(D[b].scale, D[b].pos + 1)
                 \/ \E k \in b + 1 .. Len(D) : SameLayer(D[b], D[k])
      <4>1. CASE b = Len(u) + 1
        BY <1>1, <1>f, <1>u, <3>5, <3>7, <4>1 DEF OfLayer
      <4>2. CASE b \in 1 .. Len(u)
        <5>1. D[b] = u[b] /\ u[b].scale = 1 /\ u[b].pos + 1 \in Nat
          BY <1>f, <3>4, <3>5, <4>2
        <5>2. CASE Upcoming(1, u[b].pos + 1)
          <6>1. CASE OfLayer(f, 1)
            <7>1. SameLayer(D[b], D[Len(u) + 1])
              BY <3>5, <3>7, <5>1, <6>1 DEF SameLayer, OfLayer
            <7>2. Len(u) + 1 \in b + 1 .. Len(D)
              BY <3>4, <3>5, <4>2
            <7> QED
              BY <7>1, <7>2
          <6>2. CASE ~OfLayer(f, 1)
            BY <1>u, <5>1, <5>2, <6>2
          <6> QED
            BY <6>1, <6>2
        <5>3. ASSUME NEW k \in b + 1 .. Len(u), IsVideo(u[k])
              PROVE  \E j \in b + 1 .. Len(D) : SameLayer(D[b], D[j])
          <6>1. k \in 1 .. Len(u) /\ k \in b + 1 .. Len(D)
            BY <3>4, <3>5, <4>2
          <6>2. D[k] = u[k] /\ u[k].scale = 1
            BY <3>4, <3>5, <6>1
          <6> QED
            BY <3>7, <5>1, <5>3, <6>1, <6>2 DEF SameLayer
        <5> QED
          BY <3>4, <3>7, <4>2, <5>1, <5>2, <5>3
      <4> QED
        BY <3>4, <3>5, <4>1, <4>2
    <3>8. \A i \in 0 .. n(p), b \in 1 .. Len(D) : ~Linked(Entry(p, i), B(p, b))
      <4>1. \A b : B(p, b).sub = subscribed[p]
        OBVIOUS
      <4> HIDE DEF B
      <4> QED
        BY <3>3, <4>1 DEF Linked
    <3>9. D = d(p)
      BY DEF D
    <3> HIDE DEF d, B
    <3> QED
      BY <3>1, <3>3, <3>6, <3>7, <3>8, <3>9
  <2> QED
    BY <2>1, <2>2, <2>3
<1> HIDE DEF d, n, B, f
<1>5. ASSUME NEW p \in joined, NEW i \in 0 .. N(p)
      PROVE  \/ i \in 0 .. n(p) /\ EntryNext(p, i) = Entry(p, i)
             \/ \E b \in 1 .. Len(d(p)) : i = n(p) + b /\ EntryNext(p, i) = B(p, b)
  <2>1. CASE i \in 0 .. n(p)
    BY <1>2, <2>1
  <2>2. CASE i \notin 0 .. n(p)
    <3>1. i - n(p) \in 1 .. Len(d(p)) /\ i = n(p) + (i - n(p))
      BY <1>2, <2>2
    <3> QED
      BY <1>2, <3>1
  <2> QED
    BY <2>1, <2>2
<1>b. \A p, b : /\ B(p, b).frame = d(p)[b] /\ B(p, b).sub = subscribed[p] 
  BY DEF B
<1>n. \A p \in joined : \A b \in 1 .. Len(d(p)) : B(p, b) # NULL
  <2>1. ASSUME NEW p \in joined, NEW b \in 1 .. Len(d(p)) PROVE B(p, b) \in Queued
    <3>1. subscribed[p] \in 1 .. MaxSubs
      BY <1>0, <1>1 DEF TypeOK, JoinedInv
    <3>2. d(p)[b] \in Frame
      BY <1>2
    <3> QED
      BY <3>1, <3>2 DEF Queued, B
  <2> QED
    BY <2>1
<1>6. EntryType'
  <2>1. SUFFICES ASSUME NEW p \in Players, NEW i \in 0 .. N(p), EntryNext(p, i) # NULL
                 PROVE  EntryNext(p, i).sub <= subscribed[p]
    BY <1>1 DEF EntryType, Entry, EntryNext, N
  <2>2. CASE p \notin joined
    BY <1>0, <1>3, <2>1, <2>2 DEF EntryType, n
  <2>3. CASE p \in joined
    <3>1. CASE i \in 0 .. n(p) /\ EntryNext(p, i) = Entry(p, i)
      BY <1>0, <2>1, <3>1 DEF EntryType, n
    <3>2. ASSUME NEW b \in 1 .. Len(d(p)), EntryNext(p, i) = B(p, b)
          PROVE  EntryNext(p, i).sub <= subscribed[p]
      <4>1. subscribed[p] \in Nat
        BY <1>0 DEF TypeOK
      <4> QED
        BY <1>b, <3>2, <4>1
    <3> QED
      BY <1>5, <2>3, <3>1, <3>2
  <2> QED
    BY <2>2, <2>3
<1>7. ChainInv'
  <2>1. SUFFICES ASSUME NEW p \in Players, NEW i \in 0 .. N(p), NEW j \in 0 .. N(p), i < j,
                        Linked(EntryNext(p, i), EntryNext(p, j))
                 PROVE  \/ Follows(EntryNext(p, j).frame, EntryNext(p, i).frame)
                        \/ \E k \in i + 1 .. j - 1 : Linked(EntryNext(p, k), EntryNext(p, j))
    BY NextLine DEF N
  <2>o. ASSUME i \in 0 .. n(p), j \in 0 .. n(p), n(p) \in Nat,
               \A k \in 0 .. n(p) : EntryNext(p, k) = Entry(p, k)
        PROVE  \/ Follows(EntryNext(p, j).frame, EntryNext(p, i).frame)
               \/ \E k \in i + 1 .. j - 1 : Linked(EntryNext(p, k), EntryNext(p, j))
    <3>1. \/ Follows(Entry(p, j).frame, Entry(p, i).frame)
          \/ \E k \in i + 1 .. j - 1 : Linked(Entry(p, k), Entry(p, j))
      BY <1>0, <2>1, <2>o DEF ChainInv, n
    <3>2. i + 1 .. j - 1 \subseteq 0 .. n(p)
      BY <2>o
    <3> QED
      BY <2>o, <3>1, <3>2
  <2>2. CASE p \notin joined
    <3>1. n(p) \in Nat
      BY <1>0 DEF TypeOK, n
    <3> QED
      BY <1>3, <2>1, <2>2, <2>o, <3>1
  <2>3. CASE p \in joined
    <3>1. CASE j \in 0 .. n(p)
      <4>1. i \in 0 .. n(p)
        BY <1>2, <2>1, <2>3, <3>1
      <4> QED
        BY <1>2, <2>3, <2>o, <3>1, <4>1
    <3>2. ASSUME NEW b \in 1 .. Len(d(p)), j = n(p) + b, EntryNext(p, j) = B(p, b)
          PROVE  \/ Follows(EntryNext(p, j).frame, EntryNext(p, i).frame)
                 \/ \E k \in i + 1 .. j - 1 : Linked(EntryNext(p, k), EntryNext(p, j))
      <4>1. CASE i \in 0 .. n(p) /\ EntryNext(p, i) = Entry(p, i)
        <5>1. \/ Follows(d(p)[b], Entry(p, i).frame)
              \/ \E k \in i + 1 .. n(p) : Linked(Entry(p, k), B(p, b))
          BY <1>4, <2>1, <2>3, <3>2, <4>1
        <5>2. i + 1 .. n(p) \subseteq 0 .. n(p) /\ i + 1 .. n(p) \subseteq i + 1 .. j - 1
          BY <1>2, <2>3, <3>2, <4>1
        <5>3. \A k \in i + 1 .. n(p) : EntryNext(p, k) = Entry(p, k)
          BY <1>2, <2>3, <5>2
        <5> QED
          BY <1>b, <3>2, <4>1, <5>1, <5>2, <5>3
      <4>2. ASSUME NEW a \in 1 .. Len(d(p)), i = n(p) + a, EntryNext(p, i) = B(p, a)
            PROVE  \/ Follows(EntryNext(p, j).frame, EntryNext(p, i).frame)
                   \/ \E k \in i + 1 .. j - 1 : Linked(EntryNext(p, k), EntryNext(p, j))
        <5>1. a < b /\ SameLayer(d(p)[a], d(p)[b])
          BY <1>2, <1>b, <2>1, <2>3, <3>2, <4>2 DEF Linked, SameLayer
        <5>2. CASE Follows(d(p)[b], d(p)[a])
          BY <1>b, <3>2, <4>2, <5>2
        <5>3. ASSUME NEW k \in a + 1 .. b - 1, SameLayer(d(p)[k], d(p)[b])
              PROVE  \E l \in i + 1 .. j - 1 : Linked(EntryNext(p, l), EntryNext(p, j))
          <6>1. k \in 1 .. Len(d(p)) /\ n(p) + k \in i + 1 .. j - 1
            BY <1>2, <2>3, <3>2, <4>2
          <6>2. EntryNext(p, n(p) + k) = B(p, k)
            BY <1>2, <2>3, <6>1
          <6>3. Linked(B(p, k), B(p, b))
            BY <1>b, <1>n, <2>3, <5>3, <6>1 DEF Linked, SameLayer
          <6> QED
            BY <3>2, <6>1, <6>2, <6>3
        <5> QED
          BY <1>4, <2>3, <5>1, <5>2, <5>3
      <4> QED
        BY <1>5, <2>3, <4>1, <4>2
    <3> QED
      BY <1>5, <2>3, <3>1, <3>2
  <2> QED
    BY <2>2, <2>3
<1>8. LiveInv'
  <2>1. SUFFICES ASSUME NEW p \in joined, NEW i \in 0 .. N(p), NEW e, e = EntryNext(p, i),
                        e # NULL, IsVideo(e.frame), e.sub = subscribed[p]
                 PROVE  IF p \in bVideoStreamSubOK'
                        THEN \/ UpcomingNext(e.frame.scale, e.frame.pos + 1)
                             \/ \E k \in i + 1 .. N(p) : Linked(e, EntryNext(p, k))
                        ELSE p \in bRealTimeStream /\ e.frame.scale = 1
    BY <1>1, NextLine DEF N
  <2>2. CASE i \in 0 .. n(p) /\ EntryNext(p, i) = Entry(p, i)
    <3>1. CASE p \in bVideoStreamSubOK'
      <4>1. \/ UpcomingNext(e.frame.scale, e.frame.pos + 1)
            \/ \E k \in i + 1 .. n(p) : Linked(e, Entry(p, k))
            \/ \E b \in 1 .. Len(d(p)) : SameLayer(e.frame, d(p)[b])
        BY <1>4, <2>1, <2>2, <3>1
      <4>2. ASSUME NEW k \in i + 1 .. n(p), Linked(e, Entry(p, k))
            PROVE  \E l \in i + 1 .. N(p) : Linked(e, EntryNext(p, l))
        <5>1. k \in 0 .. n(p) /\ k \in i + 1 .. N(p)
          BY <1>2, <2>2
        <5> QED
          BY <1>2, <4>2, <5>1
      <4>3. ASSUME NEW b \in 1 .. Len(d(p)), SameLayer(e.frame, d(p)[b])
            PROVE  \E l \in i + 1 .. N(p) : Linked(e, EntryNext(p, l))
        <5>1. n(p) + b \in i + 1 .. N(p) /\ EntryNext(p, n(p) + b) = B(p, b)
          BY <1>2, <2>2
        <5>2. Linked(e, B(p, b))
          BY <1>b, <1>n, <2>1, <4>3 DEF Linked, SameLayer
        <5> QED
          BY <5>1, <5>2
      <4> QED
        BY <3>1, <4>1, <4>2, <4>3
    <3>2. CASE p \notin bVideoStreamSubOK'
      <4>1. p \in bRealTimeStream /\ p \notin bVideoStreamSubOK
        BY <1>4, <3>2
      <4>2. e.frame.scale = 1
        BY <1>0, <2>1, <2>2, <4>1 DEF LiveInv, n
      <4> QED
        BY <3>2, <4>1, <4>2
    <3> QED
      BY <3>1, <3>2
  <2>3. ASSUME NEW b \in 1 .. Len(d(p)), i = n(p) + b, EntryNext(p, i) = B(p, b)
        PROVE  IF p \in bVideoStreamSubOK'
               THEN \/ UpcomingNext(e.frame.scale, e.frame.pos + 1)
                    \/ \E k \in i + 1 .. N(p) : Linked(e, EntryNext(p, k))
               ELSE p \in bRealTimeStream /\ e.frame.scale = 1
    <3>0. e.frame = d(p)[b]
      BY <1>b, <2>1, <2>3
    <3>1. CASE p \in bVideoStreamSubOK'
      <4>1. \/ UpcomingNext(e.frame.scale, e.frame.pos + 1)
            \/ \E k \in b + 1 .. Len(d(p)) : SameLayer(e.frame, d(p)[k])
        BY <1>4, <2>1, <3>0, <3>1
      <4>2. ASSUME NEW k \in b + 1 .. Len(d(p)), SameLayer(e.frame, d(p)[k])
            PROVE  \E l \in i + 1 .. N(p) : Linked(e, EntryNext(p, l))
        <5>1. k \in 1 .. Len(d(p)) /\ n(p) + k \in i + 1 .. N(p)
          BY <1>2, <2>3
        <5>2. EntryNext(p, n(p) + k) = B(p, k)
          BY <1>2, <5>1
        <5>3. Linked(e, B(p, k))
          BY <1>b, <1>n, <2>1, <4>2, <5>1 DEF Linked, SameLayer
        <5> QED
          BY <5>1, <5>2, <5>3
      <4> QED
        BY <3>1, <4>1, <4>2
    <3>2. CASE p \notin bVideoStreamSubOK'
      BY <1>4, <2>1, <3>0, <3>2
    <3> QED
      BY <3>1, <3>2
  <2> QED
    BY <1>5, <2>2, <2>3
<1> QED
  BY <1>6, <1>7, <1>8

\* The lines of the players through every step.  The new frame of the publisher
\* leaves what is upcoming alone, and a player that subscribes anew has nothing
\* in line under its new subscription.
LEMMA LineStep ==
  IInv /\ [Next]_vars => EntryType' /\ ChainInv' /\ LiveInv' /\ JoinedInv'
<1> SUFFICES ASSUME IInv, [Next]_vars
             PROVE  EntryType' /\ ChainInv' /\ LiveInv' /\ JoinedInv'
  OBVIOUS
<1> USE DEF puberVars, tickVars, suberVars, peerVars
<1>0. TypeOK /\ QueueInv /\ EntryType /\ ChainInv /\ LiveInv /\ JoinedInv
  BY DEF IInv
<1>1. ASSUME UNCHANGED <<sent, list_recv_sub_data>> PROVE ChainInv'
  <2>1. \A p, i : EntryNext(p, i) = Entry(p, i)
    BY <1>1 DEF Entry, EntryNext
  <2> QED
    BY <1>0, <1>1, <2>1, NextLine DEF ChainInv
<1>2. ASSUME UNCHANGED <<sent, list_recv_sub_data, subscribed>> PROVE EntryType'
  BY <1>0, <1>2 DEF EntryType, Entry
<1>e. \A p \in joined : \A i \in 0 .. Len(list_recv_sub_data[p]) :
        Entry(p, i) # NULL => Entry(p, i).frame.scale \in Scales /\ Entry(p, i).frame.pos + 1 \in Nat
  <2> SUFFICES ASSUME NEW p \in joined, NEW i \in 0 .. Len(list_recv_sub_data[p]), Entry(p, i) # NULL
               PROVE  Entry(p, i).frame.scale \in Scales /\ Entry(p, i).frame.pos + 1 \in Nat
    OBVIOUS
  <2>1. sent[p] \in Queued \cup {NULL} /\ list_recv_sub_data[p] \in Seq(Queued)
    BY <1>0 DEF TypeOK
  <2>2. CASE i = 0
    BY <2>1, <2>2 DEF Entry, Queued, Frame
  <2>3. CASE i \in 1 .. Len(list_recv_sub_data[p])
    <3>1. Entry(p, i) \in Queued
      BY <2>1, <2>3 DEF Entry
    <3> QED
      BY <3>1 DEF Queued, Frame
  <2> QED
    BY <2>1, <2>2, <2>3
<1>3. ASSUME joined' \subseteq joined,
             UNCHANGED <<sent, list_recv_sub_data, subscribed, bRealTimeStream, bVideoStreamSubOK>>,
             \A x \in Scales, n \in Nat : Upcoming(x, n) => Upcoming(x, n)'
      PROVE  LiveInv'
  <2>1. SUFFICES ASSUME NEW p \in joined, NEW i \in 0 .. Len(list_recv_sub_data[p]),
                        NEW e, e = Entry(p, i),
                        e # NULL, IsVideo(e.frame), e.sub = subscribed[p]
                 PROVE  IF p \in bVideoStreamSubOK
                        THEN \/ Upcoming(e.frame.scale, e.frame.pos + 1)'
                             \/ \E k \in i + 1 .. Len(list_recv_sub_data[p]) :
                                  Linked(e, Entry(p, k))
                        ELSE p \in bRealTimeStream /\ e.frame.scale = 1
    <3>1. \A x, m : Upcoming(x, m)' => UpcomingNext(x, m)
      BY DEF Upcoming, UpcomingNext, OfLayer, IsVideo
    <3>2. \A p, i : EntryNext(p, i) = Entry(p, i)
      BY <1>3 DEF Entry, EntryNext
    <3> QED
      BY <1>3, <3>1, <3>2, NextLine
  <2> QED
    BY <1>0, <1>3, <1>e, <2>1 DEF LiveInv
<1>4. ASSUME NEW kind \in {"audio", "key", "delta"}, NEW scale \in Scales,
             RecvCodecData(kind, scale)
      PROVE  EntryType' /\ ChainInv' /\ LiveInv' /\ JoinedInv'
  <2>1. UNCHANGED <<sent, list_recv_sub_data, subscribed, joined, bRealTimeStream, bVideoStreamSubOK>>
    BY <1>4 DEF RecvCodecData
  <2>2. \A x \in Scales, n \in Nat : Upcoming(x, n) => Upcoming(x, n)'
    BY <1>0, <1>4, ReceiveKeepsUpcoming
  <2> QED
    BY <1>0, <1>1, <1>2, <1>3, <2>1, <2>2 DEF JoinedInv
<1>5. ASSUME NEW p \in Players, Subscribe(p)
      PROVE  EntryType' /\ ChainInv' /\ LiveInv' /\ JoinedInv'
  <2>1. /\ UNCHANGED <<sent, list_recv_sub_data, bRealTimeStream, frames, list_recv_data>>
        /\ subscribed' = [subscribed EXCEPT ![p] = @ + 1] /\ joined' = joined \cup {p}
        /\ bVideoStreamSubOK' = bVideoStreamSubOK \ {p} /\ p \notin joined
    BY <1>5 DEF Subscribe
  <2>2. \A o \in Players : subscribed[o] \in Nat /\ subscribed'[o] \in Nat
          /\ subscribed'[o] = IF o = p THEN subscribed[o] + 1 ELSE subscribed[o]
    BY <1>0, <2>1 DEF TypeOK
  <2>s. \A o \in Players : \A i \in 0 .. Len(list_recv_sub_data[o]) :
          Entry(o, i) # NULL =>
            Entry(o, i).sub \in Nat /\ Entry(o, i).sub <= subscribed[o]
    <3> SUFFICES ASSUME NEW o \in Players, NEW i \in 0 .. Len(list_recv_sub_data[o]),
                        Entry(o, i) # NULL
                 PROVE  Entry(o, i).sub \in Nat
      BY <1>0 DEF EntryType
    <3>1. sent[o] \in Queued \cup {NULL} /\ list_recv_sub_data[o] \in Seq(Queued)
      BY <1>0 DEF TypeOK
    <3>2. CASE i = 0
      BY <3>1, <3>2 DEF Entry, Queued
    <3>3. CASE i \in 1 .. Len(list_recv_sub_data[o])
      <4>1. Entry(o, i) \in Queued
        BY <3>1, <3>3 DEF Entry
      <4> QED
        BY <4>1 DEF Queued
    <3> QED
      BY <3>1, <3>2, <3>3
  <2>3. EntryType'
    <3>1. SUFFICES ASSUME NEW o \in Players, NEW i \in 0 .. Len(list_recv_sub_data[o]),
                          Entry(o, i) # NULL
                   PROVE  Entry(o, i).sub <= subscribed'[o]
      BY <2>1 DEF EntryType, Entry
    <3> QED
      BY <2>2, <2>s, <3>1
  <2>4. LiveInv'
    <3>1. SUFFICES ASSUME NEW o \in joined \cup {p}, NEW i \in 0 .. Len(list_recv_sub_data[o]),
                          NEW e, e = Entry(o, i),
                          e # NULL, IsVideo(e.frame), e.sub = subscribed'[o]
                   PROVE  IF o \in bVideoStreamSubOK'
                          THEN \/ Upcoming(e.frame.scale, e.frame.pos + 1)
                               \/ \E k \in i + 1 .. Len(list_recv_sub_data[o]) :
                                    Linked(e, Entry(o, k))
                          ELSE o \in bRealTimeStream /\ e.frame.scale = 1
      <4>1. \A x, m : Upcoming(x, m) => UpcomingNext(x, m)
        BY <2>1 DEF Upcoming, UpcomingNext
      <4>2. \A q, i : EntryNext(q, i) = Entry(q, i)
        BY <2>1 DEF Entry, EntryNext
      <4> QED
        BY <2>1, <4>1, <4>2, NextLine
    <3>2. o # p
      BY <2>2, <2>s, <3>1
    <3>3. o \in joined /\ o \in Players /\ subscribed'[o] = subscribed[o]
          /\ (o \in bVideoStreamSubOK' <=> o \in bVideoStreamSubOK)
      BY <1>0, <2>1, <2>2, <3>2 DEF TypeOK
    <3> QED
      BY <1>0, <3>1, <3>3 DEF LiveInv
  <2>5. JoinedInv'
    BY <1>0, <2>1, <2>2 DEF JoinedInv, TypeOK
  <2> QED
    BY <1>1, <2>1, <2>3, <2>4, <2>5
<1>6. ASSUME joined' \subseteq joined,
             UNCHANGED <<sent, list_recv_sub_data, subscribed, bRealTimeStream, bVideoStreamSubOK,
                         frames, list_recv_data>>
      PROVE  EntryType' /\ ChainInv' /\ LiveInv' /\ JoinedInv'
  <2>1. \A x, n : Upcoming(x, n) => Upcoming(x, n)'
    BY <1>6 DEF Upcoming, OfLayer, IsVideo
  <2> QED
    BY <1>0, <1>1, <1>2, <1>3, <1>6, <2>1 DEF JoinedInv
<1>7. ASSUME NEW p \in Players, UnSubscribe(p)
      PROVE  EntryType' /\ ChainInv' /\ LiveInv' /\ JoinedInv'
  BY <1>6, <1>7 DEF UnSubscribe
<1>8. ASSUME NEW p \in Players, SendData(p)
      PROVE  EntryType' /\ ChainInv' /\ LiveInv' /\ JoinedInv'
  <2>1. JoinedInv'
    BY <1>0, <1>8 DEF SendData, JoinedInv
  <2> QED
    BY <1>8, <2>1, SendStep
<1>9. CASE TickFrame
  <2>1. JoinedInv'
    BY <1>0, <1>9 DEF TickFrame, JoinedInv
  <2> QED
    BY <1>9, <2>1, DispatchStep
<1>10. CASE TickBegin \/ TickEnd \/ UNCHANGED vars
  BY <1>6, <1>10 DEF TickBegin, TickEnd, vars
<1> QED
  BY <1>4, <1>5, <1>7, <1>8, <1>9, <1>10 DEF Next, Tick

-----------------------------------------------------------------------------
\* IInv is inductive: it holds of the state X2MediaPuber and the peers start in,
\* and every step of the main thread and of the pool thread preserves it.
THEOREM PuberInvariance == Spec => []IInv
<1>1. Init => IInv
  <2> SUFFICES ASSUME Init PROVE IInv
    OBVIOUS
  <2>1. \A s \in Scales \cup {0} :
          /\ RecvStatus(s) \in VideoRecvStatus
          /\ RecvStatus(s).n_last_scale_rd_ok = 1 /\ RecvStatus(s).b_tmp_need_main_keyframe
          /\ RecvStatus(s).n_req_scale_rd # 1 =>
               RecvStatus(s).b_need_switch_stream /\ RecvStatus(s).b_tmp_need_sub_keyframe
    BY DEF RecvStatus, VideoRecvStatus
  <2>2. PICK g \in [Players -> Scales \cup {0}] :
          vid_recv_status = [p \in Players |-> RecvStatus(g[p])]
    BY DEF Init
  <2>3. \A p \in Players :
          LET st == vid_recv_status[p] IN
          /\ st \in VideoRecvStatus
          /\ st.n_last_scale_rd_ok = 1 /\ st.b_tmp_need_main_keyframe
          /\ st.n_req_scale_rd # 1 => st.b_need_switch_stream /\ st.b_tmp_need_sub_keyframe
    BY <2>1, <2>2
  <2>4. vid_recv_status \in [Players -> VideoRecvStatus]
    BY <2>2, <2>3
  <2>5. TypeOK
    <3>1. /\ frames \in [Scales -> 0 .. MaxFrames] /\ received \in 0 .. MaxFrames
          /\ subscribed \in [Players -> 0 .. MaxSubs]
      BY DEF Init
    <3>2. list_recv_sub_data \in [Players -> Seq(Queued)] /\ sent \in [Players -> Queued \cup {NULL}]
      BY DEF Init
    <3>3. /\ list_recv_data \in Seq(Frame) /\ list_cache_data \in Seq(Frame)
          /\ video_keyframe_cache \in Frame \cup {NULL}
      BY DEF Init
    <3>4. ticking \in BOOLEAN /\ keyframeTime \in BOOLEAN
      BY Zenon DEF Init
    <3>5. /\ joined \subseteq Players /\ bRealTimeStream \subseteq Players
          /\ bCacheFrameSended \subseteq Players /\ bVideoStreamSubOK \subseteq Players
      BY DEF Init
    <3> QED
      BY <2>4, <3>1, <3>2, <3>3, <3>4, <3>5 DEF TypeOK
  <2>6. StatusInv
    BY <2>3 DEF Init, StatusInv
  <2>7. Len(list_recv_data) = 0 /\ Len(list_cache_data) = 0
        /\ \A p \in Players : Len(list_recv_sub_data[p]) = 0
    BY DEF Init
  <2>8. QueueInv /\ CacheInv /\ KeyInv
    BY <2>7 DEF Init, QueueInv, CacheInv, KeyInv
  <2>9. EntryType /\ ChainInv /\ LiveInv /\ JoinedInv
    BY <2>7 DEF Init, EntryType, ChainInv, LiveInv, JoinedInv, Entry
  <2> QED
    BY <2>5, <2>6, <2>8, <2>9 DEF IInv
<1>2. IInv /\ [Next]_vars => IInv'
  BY TypeStep, StatusStep, CacheStep, LineStep DEF IInv
<1> QED
  BY <1>1, <1>2, PTL DEF Spec

\* Of the types, the cache and the kept keyframe: at every moment the cache and
\* the queue of X2MediaPuber together are the current group of pictures, whole,
\* and the keyframe for players in real time is not older than the cache.
THEOREM PuberSafety == Spec => [](TypeOK /\ GopCache /\ KeyframeCacheFresh)
<1>1. IInv => GopCache
  <2> SUFFICES ASSUME IInv PROVE GopCache
    OBVIOUS
  <2>0. TypeOK /\ QueueInv /\ CacheInv
    BY DEF IInv
  <2>1. CASE ~keyframeTime
    BY <2>0, <2>1 DEF CacheInv, GopCache
  <2>2. CASE keyframeTime
    <3> DEFINE L == list_recv_data
               C == list_cache_data
               s == C \o L
               video == {i \in 1 .. Len(s) : IsMainVideo(s[i])}
    <3>1. PICK n \in Nat : CacheUpTo(n)
      BY <2>0, <2>2 DEF CacheInv
    <3>2. /\ C # <<>> /\ IsMainKey(C[1]) /\ \A i \in 2 .. Len(C) : C[i].kind # "key"
          /\ \A i \in 1 .. Len(C) : C[i].scale = 1
      BY <2>0, <2>2 DEF CacheInv
    <3>3. /\ C \in Seq(Frame) /\ L \in Seq(Frame) /\ Len(C) \in Nat /\ Len(L) \in Nat
          /\ Len(C) >= 1 /\ frames[1] \in Nat
          /\ \A i \in 1 .. Len(C) : C[i].pos \in Nat
          /\ \A i \in 1 .. Len(L) : L[i].pos \in Nat
      <4>1. \A g \in Frame : g.pos \in Nat
        BY DEF Frame
      <4> QED
        BY <2>0, <3>2, <4>1 DEF TypeOK
    <3>4. /\ Len(s) = Len(C) + Len(L)
          /\ \A i \in 1 .. Len(s) : \/ i \in 1 .. Len(C) /\ s[i] = C[i]
                                    \/ i - Len(C) \in 1 .. Len(L) /\ s[i] = L[i - Len(C)]
          /\ \A i \in 1 .. Len(C) : i \in 1 .. Len(s) /\ s[i] = C[i]
          /\ \A i \in 1 .. Len(L) : Len(C) + i \in 1 .. Len(s) /\ s[Len(C) + i] = L[i]
      <4>1. Len(s) = Len(C) + Len(L)
        BY <3>3
      <4>2. \A i \in 1 .. Len(C) + Len(L) : s[i] = IF i <= Len(C) THEN C[i] ELSE L[i - Len(C)]
        BY <3>3
      <4> HIDE DEF s
      <4>3. \A i \in 1 .. Len(L) : /\ Len(C) + i \in 1 .. Len(C) + Len(L)
                                   /\ ~(Len(C) + i <= Len(C)) /\ Len(C) + i - Len(C) = i
        BY <3>3
      <4> QED
        BY <3>3, <4>1, <4>2, <4>3
    <3>5. \A i \in 1 .. Len(C) : IsMainVideo(C[i]) <=> IsVideo(C[i])
      BY <3>2 DEF IsMainVideo
    <3>6. \A i \in 1 .. Len(L) : IsMainVideo(L[i]) <=> OfLayer(L[i], 1)
      BY DEF IsMainVideo, OfLayer
    <3>7. /\ n \in 1 .. frames[1] + 1
          /\ \A i \in 1 .. Len(L) : OfLayer(L[i], 1) => L[i].pos >= n /\ L[i].pos <= frames[1]
          /\ \A m \in n .. frames[1] : \E i \in 1 .. Len(L) : OfLayer(L[i], 1) /\ L[i].pos = m
          /\ \A i \in 1 .. Len(C) : IsVideo(C[i]) =>
               /\ C[i].pos \in C[1].pos .. n - 1
               /\ \A j \in i + 1 .. Len(C) : IsVideo(C[j]) => C[j].pos > C[i].pos
          /\ \A m \in C[1].pos .. n - 1 : \E i \in 1 .. Len(C) : IsVideo(C[i]) /\ C[i].pos = m
          /\ \A i \in 1 .. Len(L) : OfLayer(L[i], 1) =>
               \A j \in i + 1 .. Len(L) : OfLayer(L[j], 1) => L[j].pos > L[i].pos
      <4>1. \A i \in 1 .. Len(L) : OfLayer(L[i], 1) =>
              /\ L[i].pos \in 1 .. frames[1]
              /\ \A j \in i + 1 .. Len(L) : OfLayer(L[j], 1) => L[j].pos > L[i].pos
        BY <2>0 DEF QueueInv
      <4>2. /\ n \in 1 .. frames[1] + 1
            /\ \A i \in 1 .. Len(L) : OfLayer(L[i], 1) => L[i].pos >= n
            /\ \A m \in n .. frames[1] : \E i \in 1 .. Len(L) : OfLayer(L[i], 1) /\ L[i].pos = m
            /\ \A i \in 1 .. Len(C) : IsVideo(C[i]) =>
                 /\ C[i].pos \in C[1].pos .. n - 1
                 /\ \A j \in i + 1 .. Len(C) : IsVideo(C[j]) => C[j].pos > C[i].pos
            /\ \A m \in C[1].pos .. n - 1 : \E i \in 1 .. Len(C) : IsVideo(C[i]) /\ C[i].pos = m
        BY <3>1, Zenon DEF CacheUpTo, Upcoming
      <4>3. \A i \in 1 .. Len(L) : OfLayer(L[i], 1) => L[i].pos <= frames[1]
        BY <3>3, <4>1
      <4> QED
        BY <4>1, <4>2, <4>3, Zenon
    <3> HIDE DEF s
    <3>8. ASSUME NEW i \in 1 .. Len(s), NEW j \in 1 .. Len(s),
                 IsMainVideo(s[i]), IsMainVideo(s[j]), i < j
          PROVE  s[i].pos < s[j].pos
      <4>1. CASE i \in 1 .. Len(C) /\ s[i] = C[i] /\ j \in 1 .. Len(C) /\ s[j] = C[j]
        <5>1. j \in i + 1 .. Len(C) /\ IsVideo(C[i]) /\ IsVideo(C[j])
          BY <3>3, <3>5, <3>8, <4>1
        <5> QED
          BY <3>3, <3>7, <4>1, <5>1
      <4>2. CASE i \in 1 .. Len(C) /\ s[i] = C[i]
                 /\ j - Len(C) \in 1 .. Len(L) /\ s[j] = L[j - Len(C)]
        <5>1. IsVideo(C[i]) /\ OfLayer(L[j - Len(C)], 1)
          BY <3>5, <3>6, <3>8, <4>2
        <5>2. /\ C[i].pos \in Nat /\ C[1].pos \in Nat /\ L[j - Len(C)].pos \in Nat
              /\ C[i].pos \in C[1].pos .. n - 1 /\ L[j - Len(C)].pos >= n
          BY <3>3, <3>7, <4>2, <5>1
        <5> QED
          BY <4>2, <5>2
      <4>3. CASE i - Len(C) \in 1 .. Len(L) /\ s[i] = L[i - Len(C)]
                 /\ j - Len(C) \in 1 .. Len(L) /\ s[j] = L[j - Len(C)]
        <5>1. j - Len(C) \in (i - Len(C)) + 1 .. Len(L)
              /\ OfLayer(L[i - Len(C)], 1) /\ OfLayer(L[j - Len(C)], 1)
          BY <3>3, <3>6, <3>8, <4>3
        <5> QED
          BY <3>3, <3>7, <4>3, <5>1
      <4>4. CASE i - Len(C) \in 1 .. Len(L) /\ j \in 1 .. Len(C)
        BY <3>3, <3>8, <4>4
      <4> QED
        BY <3>4, <4>1, <4>2, <4>3, <4>4
    <3>9. s[1] = C[1] /\ C[1].pos \in Nat /\ C[1].pos <= n - 1
      <4>1. 1 \in 1 .. Len(C) /\ IsVideo(C[1])
        BY <3>2, <3>3 DEF IsMainKey, IsVideo
      <4> QED
        BY <3>3, <3>4, <3>7, <4>1
    <3>10. {s[i].pos : i \in video} = s[1].pos .. frames[1]
      <4>1. ASSUME NEW i \in 1 .. Len(s), IsMainVideo(s[i])
            PROVE  s[i].pos \in C[1].pos .. frames[1]
        <5>1. CASE i \in 1 .. Len(C) /\ s[i] = C[i]
          <6>1. C[i].pos \in C[1].pos .. n - 1 /\ C[i].pos \in Nat
            BY <3>3, <3>5, <3>7, <4>1, <5>1
          <6> QED
            BY <3>3, <3>7, <3>9, <5>1, <6>1
        <5>2. CASE i - Len(C) \in 1 .. Len(L) /\ s[i] = L[i - Len(C)]
          <6>1. OfLayer(L[i - Len(C)], 1)
            BY <3>6, <4>1, <5>2
          <6>2. L[i - Len(C)].pos \in Nat /\ L[i - Len(C)].pos >= n /\ L[i - Len(C)].pos <= frames[1]
            BY <3>3, <3>7, <5>2, <6>1
          <6> QED
            BY <3>3, <3>9, <5>2, <6>2
        <5> QED
          BY <3>4, <5>1, <5>2
      <4>2. ASSUME NEW m \in C[1].pos .. frames[1]
            PROVE  \E i \in 1 .. Len(s) : IsMainVideo(s[i]) /\ s[i].pos = m
        <5>1. CASE m \in C[1].pos .. n - 1
          <6>1. PICK i \in 1 .. Len(C) : IsVideo(C[i]) /\ C[i].pos = m
            BY <3>7, <5>1
          <6>2. i \in 1 .. Len(s) /\ s[i] = C[i] /\ IsMainVideo(s[i])
            BY <3>4, <3>5, <6>1
          <6> QED
            BY <6>1, <6>2
        <5>2. CASE m \in n .. frames[1]
          <6>1. PICK i \in 1 .. Len(L) : OfLayer(L[i], 1) /\ L[i].pos = m
            BY <3>7, <5>2
          <6>2. Len(C) + i \in 1 .. Len(s) /\ s[Len(C) + i] = L[i] /\ IsMainVideo(L[i])
            BY <3>4, <3>6, <6>1
          <6> QED
            BY <6>1, <6>2
        <5> QED
          BY <3>3, <3>9, <5>1, <5>2
      <4> QED
        BY <3>9, <4>1, <4>2
    <3> QED
      BY <2>2, <3>2, <3>8, <3>10 DEF GopCache, s
  <2> QED
    BY <2>1, <2>2
<1>2. IInv => KeyframeCacheFresh
  <2> SUFFICES ASSUME IInv, keyframeTime, video_keyframe_cache # NULL
               PROVE  video_keyframe_cache.pos >= list_cache_data[1].pos
    BY DEF KeyframeCacheFresh
  <2>1. list_cache_data[1].pos <= video_keyframe_cache.pos
    BY DEF IInv, KeyInv
  <2>2. list_cache_data[1] \in Frame /\ video_keyframe_cache \in Frame
    BY DEF IInv, TypeOK, CacheInv
  <2>3. \A g \in Frame : g.pos \in Nat
    BY DEF Frame
  <2> QED
    BY <2>1, <2>2, <2>3
<1> QED
  BY <1>1, <1>2, PuberInvariance, PTL DEF IInv

\* SendData never sends a frame its player cannot decode: in a subscription
\* every frame is a keyframe or the successor of the one before it, and in the
\* original layer nothing comes before a keyframe.
THEOREM Decodable == Spec => ChainUnbroken /\ FirstIsKeyframe
<1> USE DEF puberVars, tickVars, suberVars, peerVars
<1> DEFINE A(p) == LET q == sent'[p] IN
                   (q # sent[p] /\ sent[p] # NULL /\ sent[p].sub = q.sub) =>
                     Follows(q.frame, sent[p].frame)
           K(p) == (sent[p] = NULL /\ sent'[p] # NULL /\ vid_recv_status[p].n_req_scale_rd = 1)
                     => sent'[p].frame.kind = "key"
<1>1. ASSUME IInv, [Next]_vars PROVE \A p \in Players : A(p) /\ K(p)
  <2>1. ASSUME NEW o \in Players, SendData(o), NEW p \in Players PROVE A(p) /\ K(p)
    <3> DEFINE Q == list_recv_sub_data[p]
               q == Head(Q)
               r == VideoCanSend(q.frame, vid_recv_status[p])
    <3>0. TypeOK /\ StatusInv /\ ChainInv
      BY <1>1 DEF IInv
    <3>1. SUFFICES ASSUME sent'[p] # sent[p] PROVE A(p) /\ K(p)
      OBVIOUS
    <3>2. o = p
      BY <2>1, <3>0, <3>1 DEF SendData, TypeOK
    <3>3. IsVideo(q.frame) /\ sent'[p] = q /\ r.ok /\ Q # <<>>
      BY <2>1, <3>0, <3>1, <3>2 DEF SendData, TypeOK
    <3>4. /\ Q \in Seq(Queued) /\ q \in Queued /\ q = Q[1] /\ Len(Q) \in Nat /\ Len(Q) >= 1
          /\ q # NULL
      BY <3>0, <3>3 DEF TypeOK
    <3>5. q.frame \in Frame
      BY <3>4 DEF Queued
    <3>6. /\ sent[p] # NULL => q.frame.kind = "key" \/ q.frame.scale = sent[p].frame.scale
          /\ sent[p] = NULL /\ vid_recv_status[p].n_req_scale_rd = 1 => q.frame.kind = "key"
      BY <3>0, <3>3, <3>5, SendRule
    <3>7. Entry(p, 0) = sent[p] /\ Entry(p, 1) = q /\ 0 \in 0 .. Len(Q) /\ 1 \in 0 .. Len(Q)
      BY <3>4 DEF Entry
    <3> HIDE DEF q, r
    <3>8. ASSUME sent[p] # NULL, sent[p].sub = q.sub PROVE Follows(q.frame, sent[p].frame)
      <4>1. CASE q.frame.kind = "key"
        BY <4>1 DEF Follows
      <4>2. CASE q.frame.kind # "key"
        <5>1. IsVideo(sent[p].frame)
          BY <3>0, <3>8 DEF StatusInv
        <5>2. Linked(Entry(p, 0), Entry(p, 1))
          BY <3>3, <3>4, <3>6, <3>7, <3>8, <4>2, <5>1 DEF Linked
        <5>3. \A k : k \notin 0 + 1 .. 1 - 1
          OBVIOUS
        <5>4. Follows(Entry(p, 1).frame, Entry(p, 0).frame)
          BY <3>0, <3>7, <5>2, <5>3 DEF ChainInv
        <5> QED
          BY <3>7, <5>4
      <4> QED
        BY <4>1, <4>2
    <3> QED
      BY <3>3, <3>6, <3>8
  <2>2. ASSUME UNCHANGED sent PROVE \A p \in Players : A(p) /\ K(p)
    BY <2>2
  <2> QED
    BY <1>1, <2>1, <2>2 DEF Next, vars, RecvCodecData, Subscribe, UnSubscribe, Tick, TickBegin,
       TickFrame, TickEnd
<1>2. IInv /\ [Next]_vars => [\A p \in Players : A(p)]_vars /\ [\A p \in Players : K(p)]_vars
  BY <1>1
<1> QED
  BY <1>2, PuberInvariance, PTL DEF Spec, ChainUnbroken, FirstIsKeyframe
=============================================================================
