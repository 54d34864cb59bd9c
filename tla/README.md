# A TLA+ model of X2Rtc-Stream

X2Rtc-Stream is a media server: a client publishes a stream over RTMP, SRT,
RTP/GB28181 or WebRTC, and other clients play it over RTMP, HTTP-FLV, SRT, RTP
or WebRTC. This directory holds TLA+ modules translated from its C++ code, the
TLC configurations that check them, and proofs that TLAPS checks.

    tlc -config MediaDispatch.cfg MCMediaDispatch     # a run
    tlapm MediaDispatchProofs.tla                     # the proofs

`PROJECT.json` lists the components, the runs, the source lines behind every
definition, the hazards and the theorems. Paths below are relative to
`src/X2Rtc-Stream/` unless they start with `XUtils/`.

## 1. Inventory

### Threads

* The **main thread** (`main.cpp:78-86`) loops over `X2ProxyImpl::RunOnce`
  (network processes, deletion of closed peers, messages of the registration
  server), `X2MediaDispatch::RunOnce` (deletion of queued `StreamMediaSuber`s) and
  `X2RtcThreadPool::RunOnce` (tick of every peer, in the order of the addresses).
* Two **pool threads** (`XUtils/X2RtcThreadPool.h`, `Init(2)` in `main.cpp:47`)
  tick the publishers, which are dealt out round robin.
* The **network threads** (libuv loops, SRT, the WebRTC task queue) create
  connections, queue received data and set close flags; the RTN library calls
  back when its publication ends.

### Components

| Component | State | Operations | Interacts with |
|---|---|---|---|
| `X2MediaDispatch` | publisher per stream, `StreamMediaSuber` per stream (members, codec counts, codec version), list of objects to delete | `TryPublish`, `UnPublish`, `Subscribe`, `UnSubscribe`, `ResetSubCodecType`, `RunOnce` | peers call it; it calls the publisher, and the proxy (announcements) |
| `X2MediaPuber` | frame queue, GOP cache, last keyframe, encoders, codec version seen, the `StreamMediaSuber` it feeds | `RecvCodecData`, `OnX2RtcTick`, `SetStreamMediaSuber`, `ForceClose` | pool thread; subers of its stream |
| `X2NetPeer` | connection, protocol handler, stream name, publisher, suber, close flags, retry time, video receive status, queues | `OnX2RtcTick`, publish, play, play state, close, `VideoCanSend` | everything above and below |
| `X2RtcThreadPool` | tick maps and their locks, round-robin index | register, unregister, `RunOnce`, `Thread` | publishers, peers |
| `X2ProxyImpl` | processes, peers to delete, registration client, statistics | `RunOnce`, announcements, reports, timer | registration server |
| `X2MediaRtn` | publication with the RTN | publish, unpublish, close event | publisher |
| `X2NetTcpClient`, `X2RpcConnection` | connection to the registration server, send queue, keep-alive time, receive buffer | connect, reconnect, send, reassembly | proxy |
| `X2NetTcpConnection`, `X2NetSrtConnection`, UDP, RTP, WebRTC connections | socket, send queue, close flags, listener | send, receive, force close, delete when closed on both sides | peers, network threads |
| Protocol handlers (RTMP, FLV, MPEG-TS, RTP, WebRTC) | session state | commands, mux, demux | peers |
| SDP, audio codecs, utilities, vendored `webrtc_media` and `third_party` | none, or numerical | parsing, coding | - |

### What is hard

* **Deletion against dispatch.** A pool thread walks publisher,
  `StreamMediaSuber`, suber and peer of every player while the main thread
  deletes objects of all four kinds. The safety rests on the order of calls on
  the close path and on three locks.
* **Takeover.** A second publisher of a stream forces the first to close and
  tries again every 100 ms; several may be trying, and any may disconnect.
* **Attach in either order.** Publisher and subscribers come in any order; the
  link is made outside the critical section that registered the second one.
* **Versions.** Publishers learn of codec changes from a bare counter that starts
  again with every `StreamMediaSuber`.
* **Caches.** A new player starts from a GOP cache kept by the pool thread or,
  in real time, from a keyframe kept by the main thread; timeouts clear both.
* **Flags.** `VideoCanSend` and the `MediaSuber` flags decide over layers and
  keyframes.
* **The control connection** is lost, times out and is made again; messages queued
  meanwhile are dropped, and a callback does not say which attempt it belongs to.
* **Connections on two threads.** A loop thread takes a connection down in steps, the
  main thread forces it to close and deletes it; whoever comes second must still
  find what it uses.
* **Pipes.** Requests to the WebRTC library are answered later, when the connection
  they belong to may be gone; ICE and DTLS report independently of each other.
* **Boundaries.** Messages are cut out of a buffer of fixed size that reads fill to
  any byte.

The list `hazards` in `PROJECT.json` names the lines.

## 2. Modules

| Module | Part of the system | Proofs |
|---|---|---|
| `MediaDispatch`, `MCMediaDispatch` | registry, peer life cycle, pool threads, main loop | `MediaDispatchProofs` |
| `PubSub` | what the registry promises | `MediaDispatchRefinement` |
| `MediaPuber` | the way of a frame through caches and flags | `MediaPuberProofs` |
| `TcpClient` | registration client, timer and announcements of the proxy | `TcpClientProofs` |
| `NetTcp` | an accepted TCP connection between loop thread and peer | `NetTcpProofs` |
| `RpcFraming` | reassembly of the registration server's messages | `RpcFramingProofs` |
| `WebRtc`, `MCWebRtc` | WebRTC connections, their pipes and timers | `WebRtcProofs` |

The modules meet at the peer. `MediaDispatch` has the peer with everything above it
and lets connections come and go at will; `NetTcp` and `WebRtc` have the connection
with everything below it and a peer reduced to its close path. `TcpClient` has the
announcements that `MediaDispatch` counts as delivered at once (`RegistrarAgrees`),
with the network that loses them.

Worth adding, in this order: the RTP connections by SSRC with the codes answered to
the registration server (`X2NetRtpProcess`), the SRT connection, several commands on
one RTMP session, and every lock of the main and the pool threads.

## 3. Module MediaDispatch

The variables keep the names of the fields (without the final underscore). An
`X2MediaPuber` and an `X2MediaSuber` are identified with the peer that owns them;
`StreamMediaSuber` objects have addresses of their own (`Sms`), which can be
allocated again after deletion. The main thread is a program counter `pc`:

| `pc` | code |
|---|---|
| `proxy`, `dispatch`, `round` | the three calls of the loop in `main.cpp` |
| `params`, `retry`, `check`, `data` | the parts of `X2NetPeer::OnX2RtcTick` |
| `trypub`, `attach` | the two halves of `TryPublish` |
| `sub`, `subattach`, `codec` | `Subscribe`, its second half, `ResetSubCodecType` |
| `unpublish`, `delpuber`, `unsub`, `detach`, `finish` | the close path |

A pool thread is `idle`, `locked` (holds `cs_rtc_tick_`) or in `dispatch` (also holds
`cs_stream_media_suber_` of `tickCur`). An action of the main thread that takes
one of these locks has the lock's freedom as a guard. All other locks are held
within one action.

Abstractions: a peer's session names one stream (RTMP would let a client send a
second command, see the hazards); the audio codec of a session is fixed
(`AudCodec`); frames have no contents here; the three close flags are one
(`notified`), as the code treats them alike; the RTN library, which is not in the
repository, may report the end of a publication at any time while it stands.

| Run | Instance | Result |
|---|---|---|
| `dispatch` | 3 peers, 1 stream, 3 addresses, 1 thread, 1 event, all may play | passes, 771,858 states |
| `dispatch_threads` | 3 peers, 2 streams, 1 address, 2 threads, 1 player; `IInv` only | passes, 1,042,788 states |
| `dispatch_live` | 3 peers, 1 stream, 1 address, 1 thread, 1 player | passes, 120,990 states |
| `dispatch_unseated` | as `dispatch` | violated |
| `dispatch_count` | as `dispatch` | violated |

Three peers are enough for a publisher, one that it stands in the way of and a
third that interferes, and for two players with different codecs and one
publisher; peers are ordered by address, so that both orders of a tick occur.
Three addresses let a `StreamMediaSuber` be allocated while an old one is queued
for deletion. Peers are not symmetric (the tick order), addresses are. The
only bound on behaviour is `MaxEvents`, the number of `StatueChanged` events of a
WebRTC session; a peer connects once.

Properties:

* `RegistryLive`, `TickTouchesLive`: no dangling pointer in the registry, none
  followed by a pool thread.
* `StreamConnected`, `OnlyRegisteredFeeds`: the registered publisher feeds exactly
  the stream's subscribers, any other nobody.
* `RegistrarAgrees`: the registration server's view is the registry's.
* `EncodersInSync`, `CodecCounted`: the encoders follow the subscribers, and no
  codec is dropped while somebody needs it.
* `ClosedPeerReleased`, `RefusedTakesOver`: closing ends, and takeover succeeds.

Findings:

* `UnseatedIsNotified` is **violated**: the close path calls `UnPublish` with the
  stream's name although the peer was never registered, and unseats the publisher
  that is (A publishes, B is refused, A closes, C publishes, B disconnects).
  C stays connected and silent.
* `CodecCountExact` is **violated**: a WebRTC player is counted by `SetStreamId`
  and again by each connected event, and uncounted once.

### PubSub

`PubSub` is what the registry is for: a stream has at most one `owner`, a peer is in
the `audience` of at most one stream, and the frames of a peer `reach` only the
audience of the stream it owns. A player that joins may be served later; one that
leaves is not reached from that moment on, and neither is anybody by a publisher that
lost its stream. `MediaDispatch` implements it (`ImplementsPubSub`, run `dispatch`)
under the mapping: `owner` is `mapX2MediaPuber`; the audience of a stream are the
members of its `StreamMediaSuber`; a publisher reaches the members of the
`StreamMediaSuber` it points to. Eight actions change one of these and map to a step
of `PubSub`, all others stutter. `PubSub` allows a stream to lose its owner by the act
of another publisher, as the first finding shows it can.

Fairness (`FairSpec`): the main thread is strongly fair, since it blocks only on
mutexes that a pool thread releases again and again (it sleeps between two rounds);
a round of ticks ends, because its frames come from the main thread alone and the
tick drains the queue; a frame being dispatched is dispatched; time passes. Nothing
is assumed of clients and networks.

## 4. Module MediaPuber

One publisher and its players. A frame is its kind (audio, key, delta), its layer
(`nVidScaleRD`) and its position in the layer, so that a gap can be seen. Actions:
`RecvCodecData` (main thread), `TickBegin`, `TickFrame`, `TickEnd` (pool thread),
`Subscribe`, `UnSubscribe`, `SendData` (main thread, with `VideoCanSend`). The 15 s
timeouts may strike at any tick. What happens to a frame under
`cs_stream_media_suber_` and `csMapMediaSuber` is one action. `SetRecvVideoScaleRD`
and `SetRecvStatus` have no callers in the repository and are left out. A queued
frame carries the number of the subscription it was queued under, because the code
leaves queued frames in place when a player unsubscribes. Audio goes the same way:
it is cached between the video frames, queued for the players and passes
`VideoCanSend` by.

`GopCache`: the cache is one group of pictures, which the queue continues without a
gap: together they hold every frame of the original layer since the keyframe at the
head of the cache, once and in order. `KeyframeCacheFresh`:
the keyframe for players in real time is never behind it. `ChainUnbroken`: within a
subscription every frame sent follows the one before or is a keyframe.
`FirstIsKeyframe`: a player of the original layer starts with a keyframe in its
first subscription (not in a later one: `vid_recv_status_` is kept). `KeyframeReaches`:
a queued keyframe leads to video for a player that stays.

All of these speak of **one publisher** and its players. They say nothing of a takeover:
`TryPublish` (`X2MediaDispatch.cpp:413-432`) hands the `StreamMediaSuber` to the next
publisher with the flags its players got under the last one (`bCacheFrameSended`,
`bVideoStreamSubOK`, and `vid_recv_status_` of the peer), so that the new publisher's
delta frames reach them from the middle of its group of pictures, until its next
keyframe. The hazards list it.

Run `puber`: one player (players do not influence each other), two layers, 4 frames,
2 subscriptions: 1,452,550 states. Four frames allow a keyframe, a gap, a second
keyframe and a follower in one layer, or two frames in each. Liveness is under weak
fairness of the tick and of sending; both threads loop without end.
`CHECK_DEADLOCK FALSE`: the publisher may stop sending.

## 5. Module TcpClient

The uv loop is a cycle of phases: timer of the proxy (`Reconnect`, `NoReconnect`),
the client's `RunOnce` (`SendQueue`, then the keep-alive time) and poll (results of
attempts, what is read, failed writes, objects to free). `on_uv_connect_cb` carries the
client and not the attempt; the model gives it whatever connection the client then has.
The main thread announces and reports through the send queue. The other end may end a
connection or send a frame that does not fit the buffer at any time, whether the server
is reachable or not, and what was written to a broken connection is lost.

What `uv_tcp_connect` leaves behind is the state of the socket, since nobody looks at its
result: `connecting`; `unconnected` (`connect` failed at once: no callback, but a write
fails and says so); `nosocket` (no descriptor: no callback, and writes are refused
silently). Closing a socket that is `connecting` is no plain close:
`X2TcpConnectionHandler::Close` calls `uv_shutdown`, which libuv (the vendored 1.48,
`src/unix/stream.c`) accepts and answers by asking for the socket's error at once. There is
none yet, so `on_uv_connect_cb` gets status 0 and `SetConnectRlt` sets `b_connected_` on a
connection that is closed (`LateConnect`). An error that came just then, and a platform
where the shutdown is refused and the attempt cancelled, give the other outcome.

So `b_connected_` does not say what the socket is, and the model reaches what follows: the
keep-alive goes to a closed handler, which ignores it; the next attempt starts with
`b_connected_` set, has no deadline and ends by its own callback or by the failure of a
write that the flag lets through; messages sent meanwhile are kept by libuv.
There are two ways from which the client does not come back (`Stranded`):

* `Setup` fails (`X2NetTcpClient.cpp:129-139`): `x2tcp_connection_` is NULL, no time is
  armed, and the next poll frees the object, whose destructor calls `Close` with the
  handle that `Setup` deleted (`FreeUnmade`; the process ends). The code handles a
  failure of `uv_tcp_init`; in the vendored libuv it does not fail for this call.
* An attempt gets no descriptor while `b_connected_` is left over.

Properties:

* `OneConnection`: a callback that may still come finds the connection it belongs to, and a
  connection that stands is known to.
* `ComesBack`: unless stranded, some time is armed that leads to a connection.
* `StandingKept`: no late callback and no timer ends a connection that stands.
* `StaysConnected`: once the server can be reached for good and ends no connection, the
  client gets connected and stays so, or is stranded.
* `AnnouncedInTheEnd`: then also, what stays published or subscribed becomes known to
  the server, by the periodic reports, although the announcement itself was dropped.

The reverse is not asked: a lost `PublishClose`, or the last `SubscribeClose`, is
never repeated, and a `PubReport` may name a stream that was closed a moment ago.

Run `tcp_client`: two connection objects (the client has one, `Reconnect` makes the next
while it gives up the last), one stream, `KeepAliveTime` 2, `ReconnectTime` 2
(the deadline leaves two polls for an answer, and a keep-alive falls between a late
callback and the reconnect), 2 queued messages: 78,364 states. Fairness: the loop turns
(weak); an attempt that is possible again and again succeeds, the end of a broken
connection and a frame that is too big are noticed and reports find room in the queue
(strong, since the loop empties it in every cycle). Left out: the subscribers' statistics
(`SubReport`), which no property reads; `StopTask`, which ends the process; the handle and
descriptor that the unfinished shutdown of a late attempt leaves behind each time, which
no state counts (a shortage of descriptors is part of `~up`, and may come at any time).

## 6. Module NetTcp

The connection of RTMP, HTTP-FLV and RTP over TCP. The loop thread accepts, runs the
connection's 1 ms timer (send, or close when forced to) and, when the other end
closes, tells the peer, marks and queues the connection (`RemoteClosed`, `SockClosed`,
`TakenDown`), with the main thread running in between. The main thread ticks the peer,
which may force the connection to close, and deletes connections and peers from two
lists.

Accepting may fail. When `Start` throws (the client has reset the connection, and its
address cannot be had), `AcceptTcpConnection` deletes the handler and returns, and
`UserOnTcpConnectionAlloc` goes on with the freed pointer (`X2TcpServer.cpp:71-77`):
`AcceptFailed` makes connection and peer with a handler that is `freed`, or ends the
process, as the failures of `Setup` and `uv_accept` do. What the timer does with such a
handler is undefined (`UseFreed`): nothing, if the memory is what it was; the end of the
process; or, when the memory is another connection's handler by then, the close of that
one (the model lets it be any open one). A connection made this way is never reclaimed:
no callback will tell its end.

* `DeletedUnused`: neither thread uses a deleted connection, nor does its timer.
* `ClosedIsKnown`: the end of a connection reaches its peer, or the peer has given it up.
* `ClosedReclaimed`: a connection the other end closed is deleted in the end, unless the
  process ends.
* `ForcedEndsClosed`: a connection forced to close has its socket closed in the end, unless
  the process ends.

Finding, `RefusedOnlyWhenFull` **violated** (run `net_tcp_limit`): a connection that
was forced to close is never deleted and stays counted, so that new ones are refused
although no socket is open.

Run `net_tcp`: three connections with a limit of two, so that one is refused; one of
them is RTP (`bSendOnce`: one packet per turn of the timer); one unsent packet, enough
for a forced close to find data in the queue: 109,402 states. What was read and not
handed on, and on a forced close what was not sent, is dropped, as in the code.
Abstraction: the test of
`cb_listener_` and the call through it are one step; the code has no lock there, and
that the pointer may change between the two is not examined. Fairness: the loop
finishes what it began and runs its timers (strong, since they wait while another
connection is taken down), the main thread goes round.
`CHECK_DEADLOCK FALSE`: when all connections have ended nothing is left to do.

## 7. Module RpcFraming

`UserOnTcpConnectionRead` with the reads that fill its buffer. A byte is its position in
the stream; a frame is a length of `HeaderLen` bytes and a packet. One turn of the
parsing loop is one action. The code writes a length of 4 bytes; the comments in
`X2UV-Base/X2RpcConnection.cpp:40-54` speak of the 2 bytes of RFC 4571, and the
model follows the code.

* `PacketsIntact`: the packets that come out are those of the stream, whole, in order.
* `FrameAligned`: buffered data begins where a frame begins (or `frameStart` points there).
* `RoomToRead`: between two calls the buffer is never full, so that a read of 0 bytes,
  which libuv would take as an error, cannot happen.
* `ErrorOnlyTooBig`: only a frame that cannot fit ends the connection.
* `AllParsed`: with no such frame, everything that was sent is parsed.

Run `rpc_framing`: every stream of 3 frames with packets of 0 to 6 bytes, a buffer of 9
bytes and every way to cut the stream into reads: 13.8 thousand states. 4 + 6 exceeds
the buffer, 4 + 5 fills it exactly, and a length field can be cut by its end. Fairness:
data that was sent arrives and is parsed.

## 8. Module WebRtc

A connection from the offer to its deletion: `Offer` and its two failures in `Init`,
requests and responses through the pipes, ICE and DTLS events, the timer that notices a
silent client, the peer's close path, and deletion. The media library is external: it
accepts or rejects a request and changes its ICE and DTLS states at will.

* `MapAlive`: what the process finds in its maps exists and has a transport, whichever
  response or event arrives late.
* `ConnectedIsKnown`: the peer's view (`Connected`) is that ICE and DTLS both are, in
  whichever order they came and went.
* `DeletedUnreferenced`: nothing refers to a deleted connection, the single port table
  included.
* `GoneInTheEnd`: a connection whose client went silent is deleted.

Finding, `ClosingExists` **violated** (run `webrtc_closing`): `SetConnectionLost` puts
the connection on the list for deletion before `DeInit`, and the main thread can
delete it in between.

What the model shows besides: ICE `completed` that was not preceded by `connected` does
not count as connected; a forced close alone does not end a connection whose
client goes on sending; when `Init` fails the HTTP request is not answered, and the
failure leaves a deleted connection on the list for deletion (`OfferNoTransport`), or
a transport with its single port entry behind (`OfferBadSdp`). `DeletedUnreferenced` speaks
of connections that had a peer, which these had not.

Run `webrtc`: one connection (connections share only the pipes, which the proof covers
for any number), offers with no media, audio, video or both, `LostTime` 3, 3 messages in
the pipe: 261,354 states. `webrtc_closing` has two connections. Fairness: the loop
finishes `DeInit` and runs the timer, the main thread ticks and deletes; nothing is
assumed of library or client. `CHECK_DEADLOCK FALSE`: all connections may have ended.

## 9. Proofs

`MediaDispatchProofs` proves for every number of peers, streams, threads and
addresses, from `ConstantsAssumption` alone (peers are positive numbers, `NULL` is
none of the other values, at least one thread):

* `Invariance`: `Spec => []IInv`, and from it
* `RegistryNeverDangles` (with the types), `TicksAreSafe`, `StreamsAreConnected`
  (with `OnlyRegisteredFeeds`), `RegistrarIsCurrent`, `EncodersFollowSubers` and
  `CodecsAreCounted`.

None of these properties is inductive. `IInv` adds:

* `ControlInv`: what the ticked peer has at each `pc`. On the close path the
  publisher is gone before `UnSubscribe`, and at `finish` the peer is in no
  `mapMediaSuber`.
* `PeerInv`: publishers and subers belong to open peers that named a stream; a retry
  is armed only with a publisher.
* `PuberInv`: a registered publisher is not about to be deleted. `UnPublish` by name
  guarantees this whoever is registered.
* `SmsInv`: a `StreamMediaSuber` serves one stream, its members have it as theirs, and
  the one being detached is out of the registry and not yet queued for deletion.
* `FeedInv`, `ConnectInv`: what a publisher feeds is what its stream has, except in the
  middle of a call.
* `TickInv`: a dispatching thread has a live publisher that feeds somebody; it
  survives because `SetStreamMediaSuber` waits for the publisher's lock and the
  destructor for the tick lock.
* `RegistrarInv`, `EncoderInv`: announcements and encoder versions. A publisher without
  a `StreamMediaSuber` has seen version 0, so that it cannot mistake the version of
  the next one for the one it knows.

Each conjunct has a lemma of the form `IInv /\ [Next]_vars => Inv'` with one case per
action; frame lemmas say what whole groups of actions leave alone. TLC checks
`IInv` itself in the run `dispatch_threads`.

`CodecsAreCounted` (`CodecCounted`) needs a second invariant over `IInv`, `CountInv`:
every `mapMediaSuber` is finite, since a cardinality means nothing otherwise (nothing is
assumed of `Peers`), and a codec is noted only for a peer that is a member, so that the
members of a new `StreamMediaSuber` start uncounted. `SmsInv` says that a peer is a
member of one of them only: what is counted for it there is not taken back elsewhere.

`MediaDispatchRefinement` proves `Refinement`, that `Spec` implies `PubSub`'s, from `IInv`:
`RefinementStep` has a step for each of the eight actions that change a mapped variable
(`FeedInv` says that a publisher without registration reaches nobody, `SmsInv` that a
peer is a member of one `StreamMediaSuber` only), and the others stutter.
`FramesReachAudience` is `PubSub`'s own invariant, of `MediaDispatch`.

`MediaPuberProofs` proves, for any layers and any number of players, frames and
subscriptions, from `PuberAssumption` (layer 1 is one of the layers, the bounds are
numbers) and `NullAssumption` (`NULL` is no frame in a player's queue):

* `PuberSafety`: the types, `GopCache` and `KeyframeCacheFresh`;
* `Decodable`: `ChainUnbroken` and `FirstIsKeyframe`.

Both follow from `PuberInvariance`, whose `IInv` has to tie together what two threads and
three queues know of one stream:

* `QueueInv`: the publisher's queue holds the latest frames of every layer in order.
  `Upcoming(x, n)` says that it holds exactly those from position `n` on, so that `n` is
  where whoever has everything before must go on. Receiving a frame keeps what is
  upcoming (`ReceiveKeepsUpcoming`); taking one from the queue moves it by one in its
  layer (`TakeUpcoming`).
* `CacheInv`, `KeyInv`: the cache ends where the queue begins; the kept keyframe is as new
  as any keyframe in the queue, which makes it stay ahead of the cache when the pool
  thread comes to the next one.
* `StatusInv`: of all values of `VideoRecvStatus` a player has only four kinds, and what
  it was sent last is of the layer the status says.
* `ChainInv`: the property itself, of the frame sent last and all that are queued behind
  it (the player's *line*): each video frame follows the one before it in its layer and
  subscription. The cache, which a player gets at once, is the hard case.
* `LiveInv`: the last frame of a layer in the line of a player that gets everything is
  the one before the upcoming one, and a player that does not yet get everything has the
  kept keyframe at most, which a live keyframe follows.

The chain is proved for what enters the line (`DispatchStep`) and for what leaves it
(`SendRule`, `SendStep`) separately: `VideoCanSend` skips whole layers, so that sending
never leaves a gap in a layer that is being sent.

The other proofs have the same shape, an invariant `IInv` with one case per action, and
cover any number of connections, frames and times and queues of any length, from the
`ASSUME` of their module:

* `TcpClientProofs`: `ClientSafety` (types, `OneConnection`, `ComesBack`) and
  `StandingStays` (`StandingKept`). `Present` is the strengthening: every other object is
  gone, a late callback comes before the timer runs again, and once a connection is given
  up there is no deadline left, unless `b_connected_` is set and nobody looks at it.
* `NetTcpProofs`: `DeletedIsUnused` and `CloseIsKnown`, from what handler, timer, lists and
  peer know of each other in every stage, failed accepts included (`HandlerInv`, `PeerInv`,
  `KnownInv`).
* `RpcFramingProofs`: `FramingSafety`, all safety properties of the module. They
  are inductive together; only `StreamInv` is added.
* `WebRtcProofs`: `WebRtcSafety`, all safety properties of the module. `LifeInv` says
  where a connection is in each stage: mapped, then listed, then deleted.

Every invariant and every action property that a passing run checks is thus also
proved. Only model-checked are the liveness properties, since fairness is beyond the
prover (`ClosedPeerReleased`, `RefusedTakesOver`, `KeyframeReaches`, `StaysConnected`,
`AnnouncedInTheEnd`, `ClosedReclaimed`, `ForcedEndsClosed`, `AllParsed`,
`GoneInTheEnd`), and the four violations.

## 10. Not modelled

* UDP connections, RTP/GB28181 and SRT modules: their control is close to that of
  `NetTcp` and `WebRtc`; they are the next to be modelled. Two of their hazards are
  listed without a property.
* RTMP and HTTP-FLV sessions: the commands they give are actions of `MediaDispatch`;
  parsing, muxing and demuxing are conversions of data.
* Of `WebRtc`: packets, offers that are refused before a connection is made, the HTTP
  parser, shutdown. Of the proxy: statistics, and the server's commands for RTP.
* Start and stop of process, servers and threads; configuration and logging.
* Decoding and transcoding, SDP, TLS, the demo pages: numerical or textual code
  without protocol.
* Vendored code (`webrtc_media`, `third_party`, the audio codecs), by far the greatest
  part of the repository's 126 thousand lines, used as a library.

`PROJECT.json` gives the reason for each component.
