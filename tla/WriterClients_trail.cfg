CONSTANTS
  name = name  city = city  chat = chat
  e1 = e1  e2 = e2  e3 = e3
  Fact = {name, city}
  Session = {chat}
  Turns = 3
  MaxChanges = 2
  None = None
  Event = {e1, e2, e3}
  Day <- DayOf
  QueueCap = 2
  BatchMax = 2
  RingSize = 2
  BridgeCap = 1
  MaxCrashes = 1
  Unknown = Unknown
  other = other
  Chat = {chat, other}
  OutOfScope = OutOfScope
  Entries = 2
  MaxRetries = 3
  BatchSize = 1
  MaxOverwrites = 1
  Nowhere = Nowhere
SPECIFICATION FairSpec
CONSTRAINT OneCast
INVARIANTS FreshMeansFresh ChallengesAreHonest TrailIsFaithful LineageHolds RetentionSparesTheActive
PROPERTY WorkDrains
\* Turns, changes, events and remembered turns are bounded.
CHECK_DEADLOCK FALSE
