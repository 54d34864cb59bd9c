SPECIFICATION FairSpec
CONSTANTS
  NULL = NULL
  audio = audio
  video = video
  Conns = {a}
  Kinds = {audio, video}
  MediaLists <- MCMediaLists
  LostTime = 3
  MaxEvents = 3
INVARIANTS
  TypeOK
  MapAlive
  ConnectedIsKnown
  DeletedUnreferenced
PROPERTY GoneInTheEnd
CHECK_DEADLOCK FALSE
