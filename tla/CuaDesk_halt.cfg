CONSTANTS
  user = user  poller = poller
  Caller = {user}
  Poller = poller
  MaxCalls = 2
  Plans <- SomePlans
  Configs <- SomeConfigs
  MacroPlans <- SomeMacros
  MacroConfigs <- Budgets
  MaxRetries = 2
  Pieces = 2
SPECIFICATION FairSpec
INVARIANTS SwitchAgrees HaltBites NothingOffTheRecord ReportsAreEarned
PROPERTIES StopsAreFinal PlanEnds
\* The plan ends, and the calls are bounded.
CHECK_DEADLOCK FALSE
