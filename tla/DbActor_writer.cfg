CONSTANTS
  w = w  q = q  g = g  f = f  e = e  p = p  d = d  k = k
  Cmd <- AllCmds
  Kind <- AllKind
  QueueCap = 2
  BatchMax = 2
  MaxCrashes = 1
SPECIFICATION FairSpec
CONSTRAINT OneCast
INVARIANTS AnswersAreTrue GraphIsHonest
PROPERTIES CommitsFollowTheQueue NoLostGraphUpdate ImplementsStore EveryoneAnswered
CHECK_DEADLOCK FALSE
