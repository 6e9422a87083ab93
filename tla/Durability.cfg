SPECIFICATION Spec
CONSTANTS
  Prompt = {"p", "q"}
  MaxTurns = 3
  MaxWork = 2
  NoJob = NoJob
INVARIANTS
  TypeOK
  PromptsOnDisk
  LatestPromptSurvives
  CrashSeesEveryPrompt
  CompletedIsExact
  Alternates
PROPERTIES
  HistoryKept
CHECK_DEADLOCK FALSE
