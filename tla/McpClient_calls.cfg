CONSTANTS
  spoken = spoken  listed = listed  tool = tool
  Call = {spoken, listed, tool}
  Listing = {listed}
  Voice = {spoken}
  Lives = 2
  MaxPages = 2
  OutCap = 2
  None = None
SPECIFICATION FairSpec
CONSTRAINT OneCast
INVARIANTS PendingIsOwned AnswersAreTheirOwn OneServer
PROPERTY EveryCallReturns
\* Every call ends.
CHECK_DEADLOCK FALSE
