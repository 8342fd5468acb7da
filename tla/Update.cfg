\* Two stages, two releases.
CONSTANTS
  MaxVersion = 2
  Stage <- MCStage
  None = None
  MaxFaults = 1
SPECIFICATION Spec
INVARIANTS
  StageKept
  ReplyTrue
  PairKeepsStep
PROPERTIES
  RequestAnswered
CHECK_DEADLOCK FALSE
