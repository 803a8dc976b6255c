SPECIFICATION FairSpec

CONSTANTS
  EventCap = 1
  ControlCap = 1
  SpeakerCap = 1
  Kinds = {"Interrupted", "SpeakText"}
  MaxInputs = 3
  MaxClauses = 1
  Nobody = nobody

PROPERTY InterruptReachesIdle

\* The bound on inputs ends every behaviour.
CHECK_DEADLOCK FALSE
