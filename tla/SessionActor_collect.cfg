CONSTANTS
  f1 = f1  f2 = f2  f3 = f3  i1 = i1  i2 = i2  s1 = s1  c1 = c1  c2 = c2  c3 = c3
  g1 = g1  g2 = g2  p1 = p1  x1 = x1
  NoTurn = NoTurn
  Msg = {f1, c1}
  Mode <- ModeOf
  MailCap = 2
  MaxBacklog = 1
  SteerCap = 1
  Faults = {}
  MaxLives = 1
SPECIFICATION Spec
INVARIANTS OneTurnAtATime
CHECK_DEADLOCK FALSE
