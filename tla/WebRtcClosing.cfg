SPECIFICATION Spec
CONSTANTS
  NULL = NULL
  audio = audio
  video = video
  Conns = {a, b}
  Kinds = {audio, video}
  MediaLists <- MCMediaLists
  LostTime = 2
  MaxEvents = 1
INVARIANT ClosingExists
CHECK_DEADLOCK FALSE
