SPECIFICATION StreamSpec
CONSTANTS
  MaxEvents = 5
  Bodies <- ShortBodies
INVARIANTS
  StreamTypeOK
  OnlyCutLinesLost
  LinesInOrder
  NormalEndIsServersEnd
  NothingReadAfterAbort
  NoGapNoRepeat
PROPERTIES
  AbortEnds
  LiveLoopDelivers
