SPECIFICATION Spec
CONSTANTS
  NULL = NULL
  aac = aac
  opus = opus
  Peers = {1, 2, 3}
  Streams = {live}
  Sms = {s1, s2, s3}
  Codecs = {aac, opus}
  NumThreads = 1
  RtcPeers = {3}
  AudCodec <- MCAudCodec
  Players = {1, 2, 3}
  MaxEvents = 1
SYMMETRY Symmetry
INVARIANT CodecCountExact
