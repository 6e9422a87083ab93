SPECIFICATION Spec
CONSTANTS
  Content = {"text"}
  MaxSteps = 2
  MaxTurns = 2
  MaxCalls = 3
  MaxBatch = 2
INVARIANT CompletedToolsRemembered
CHECK_DEADLOCK FALSE
