SPECIFICATION FairSpec
CONSTANTS
  NULL = NULL
  Slots = {c1, c2}
  Streams = {s}
  KeepAliveTime = 2
  ReconnectTime = 2
  MaxQueue = 2
INVARIANTS
  TypeOK
  OneConnection
  ComesBack
PROPERTIES
  StandingKept
  StaysConnected
  AnnouncedInTheEnd
