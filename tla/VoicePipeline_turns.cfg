SPECIFICATION FairSpec

CONSTANTS
  EventCap = 2
  ControlCap = 1
  SpeakerCap = 2
  Kinds = {"VadStart", "VadEnd", "Interrupted", "SpeakText", "ResetDsp"}
  MaxInputs = 2
  MaxClauses = 2
  Nobody = nobody

INVARIANTS NoStaleAudio TurnsInOrder StateFitsTheTurn
PROPERTY EveryTurnEnds

\* The bound on inputs ends every behaviour.
CHECK_DEADLOCK FALSE
