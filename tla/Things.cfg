SPECIFICATION Spec
CONSTANTS
  touchee = touchee
  lampo = lampo
  k0bolt = k0bolt
  y = y
  toggle = toggle
  toggle2 = toggle2
  Pages <- MCPages
  Names <- MCNames
  Data <- MCData
  Links <- MCLinks
  Values = {on, off}
  None = None
  MaxUnderWay = 2
INVARIANTS
  ChangeInPeaceArrives
  ChangeInPeaceDiesOut
PROPERTIES
  SourceRules
CHECK_DEADLOCK FALSE
