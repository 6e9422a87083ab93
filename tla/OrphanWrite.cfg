SPECIFICATION OSpec
CONSTANTS
  Prompt = {"p", "q"}
  MaxTurns = 2
  MaxWork = 2
  MaxLate = 1
  NoJob = NoJob
INVARIANT PromptsOnDisk
CHECK_DEADLOCK FALSE
