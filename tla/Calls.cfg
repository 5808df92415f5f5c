SPECIFICATION FairSpec
CONSTANTS
  Ids = {c1, c2}
  Responders = {r1, r2}
  MaxTimeout = 2
  MaxHandlers = 1
INVARIANTS
  AnsweredOnce
  StraysAreSurplus
PROPERTIES
  ImplementsPromise
  EntriesGo
CHECK_DEADLOCK FALSE
