SPECIFICATION FairSpec
CONSTANTS
  NULL = NULL
  Players = {a}
  Scales = {1, 2}
  MaxFrames = 4
  MaxSubs = 2
INVARIANTS
  TypeOK
  GopCache
  KeyframeCacheFresh
PROPERTIES
  ChainUnbroken
  FirstIsKeyframe
  KeyframeReaches
CHECK_DEADLOCK FALSE
