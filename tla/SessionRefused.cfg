\* Two connections that may ask for the same name.
CONSTANTS
  Connections = {w1, w2}
  Names = {n1}
  Generated = {g1}
  Template = t
  Channels = {ch}
  PINGS = 1
  MaxClients = 2
  MaxFrames = 3
SPECIFICATION Spec
SYMMETRY Symmetry
CHECK_DEADLOCK FALSE
INVARIANT RefusedIsSilent
