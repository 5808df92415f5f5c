\* Two calls, a pool of one: the second call overflows, or reuses the client.
CONSTANTS
  None = None
  Calls = {c1, c2}
  Responders = {r1}
  POOL_SIZE = 1
SPECIFICATION Spec
SYMMETRY Symmetry
INVARIANT AnswerIsOwn
