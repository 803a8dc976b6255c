CONSTANTS
  w = w  q = q  g = g  f = f  e = e  p = p  d = d  k = k
  Cmd <- EventCmds
  Kind <- EventKind
  QueueCap = 3
  BatchMax = 3
  MaxCrashes = 0
SPECIFICATION Spec
INVARIANTS AppendedEventIsDurable
CHECK_DEADLOCK FALSE
