SPECIFICATION FairSpec
CONSTANTS
  NULL = NULL
  aac = aac
  opus = opus
  Peers = {1, 2, 3}
  Streams = {live}
  Sms = {s1}
  Codecs = {aac, opus}
  NumThreads = 1
  RtcPeers = {}
  AudCodec <- MCAudCodec
  Players = {3}
  MaxEvents = 0
PROPERTIES
  ClosedPeerReleased
  RefusedTakesOver
