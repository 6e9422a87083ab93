SPECIFICATION Spec
CONSTANTS
  Content = {"text"}
  MaxSteps = 2
  MaxTurns = 3
  MaxCalls = 3
  MaxBatch = 2
INVARIANTS
  TypeOK
  EveryCallAnswered
  OpensWithUser
  NoTwoAlike
  CheckpointsSplitTurns
CHECK_DEADLOCK FALSE
