SPECIFICATION Spec
CONSTANTS
  NULL = NULL
  aac = aac
  opus = opus
  Peers = {1, 2, 3}
  Streams = {live, cam}
  Sms = {s1}
  Codecs = {aac, opus}
  NumThreads = 2
  RtcPeers = {}
  AudCodec <- MCAudCodec
  Players = {3}
  MaxEvents = 0
SYMMETRY Symmetry
INVARIANTS
  IInv
