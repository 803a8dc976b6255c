CONSTANTS
  l1 = l1  l2 = l2  n1 = n1  n2 = n2  h1 = h1  h2 = h2  s1 = s1  s2 = s2
  Nothing = Nothing
  Cmd = {n1, n2, h1, s1}
  Shutdowns = {s1}
  Prio <- PrioOf
  Token <- OwnToken
  ChanCap = 2
SPECIFICATION FairConsumerSpec
INVARIANTS PreemptedForAReason
PROPERTIES FifoWithinPriority EveryoneAnswered
CHECK_DEADLOCK FALSE
