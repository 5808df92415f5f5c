\* Two threads, and three devices of two names.
CONSTANTS
  d1 = d1  d2 = d2  d3 = d3
  lamp = lamp  fan = fan
  lampId = lampId  fanId = fanId
  home = home  work = work
  None = None
  Threads = {t1, t2}
  Keys = {lamp, fan}
  Ids = {lampId, fanId}
  Labels = {home, work}
  Devices = {d1, d2, d3}
  KeyOf <- MCKeyOf
  IdOf <- MCIdOf
  PlacesOf <- MCPlacesOf
  DISTANCE = 3
  Limits <- MCLimits
SPECIFICATION Spec
SYMMETRY Symmetry
INVARIANTS
  TypeOK
  ConnectedStays
  PageShowsNoStale
  SearchMissesNobody
PROPERTIES
  PurgedIsExpired
