\* Two connections that may ask for the same name.
CONSTANTS
  Connections = {w1, w2}
  Names = {n1}
  Generated = {g1}
  Template = t
  Channels = {ch}
  PINGS = 1
  MaxClients = 2
  MaxFrames = 2
SPECIFICATION FairSpec
CHECK_DEADLOCK FALSE
INVARIANTS
  TypeOK
  NothingLeftBehind
PROPERTIES
  ImplementsNameLease
  NoEviction
  FirstFrameAnswered
  ClosedIsForgotten
