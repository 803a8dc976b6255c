CONSTANTS
  d1 = d1  d2 = d2  d3 = d3
  new1 = new1  new2 = new2  new3 = new3
  yes1 = yes1  other1 = other1  other2 = other2
  telegram = telegram  ann = ann  bob = bob  elsewhere = elsewhere
  Chat = {ann, bob}
  Telegram = telegram  Elsewhere = elsewhere
  Routes <- SomeRoutes
  k1 = k1  k2 = k2
  Draft = {d1, d2, d3}
  Req = {new1, new2, new3, yes1, other1, other2}
  Op <- OpOf
  On <- OnOf
  MaxPending = 2
  TTL = 1
  Times = {0, 1}
  Keys = {k1, k2}
  MaxCrashes = 1
SPECIFICATION Spec
SYMMETRY AnyKey
INVARIANTS AnswersMatchTheWire NeverOverfull
PROPERTIES ImplementsLife
\* A request is made once.
CHECK_DEADLOCK FALSE
