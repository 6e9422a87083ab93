SPECIFICATION FairSpec
CONSTANTS
  Thread = {a, b}
  NoThread = NoThread
  MaxTurns = 2
  MaxAsks = 2
  MaxSaid = 2
INVARIANTS
  TypeOK
  OneTerminalEvent
  OneOpenTurn
  PendingIsAwaited
  EngineUncontended
  NothingLeftBehind
PROPERTIES
  SilentAfterTerminal
  ContractSpec
  LoopReturns
CHECK_DEADLOCK FALSE
