SPECIFICATION Spec
CONSTANTS
  t1 = t1
  t2 = t2
  f1 = f1
  Turn = {t1, t2}
  Float = {f1}
  MaxLogins = 2
  Limits <- MCLimits
  Capacity = 1
  RequestTimeout = 3000
  RetryDelay = 200
  CancelPoll = 100
  FlushTimeout = 5000
  ShutdownTimeout = 12000
CHECK_DEADLOCK FALSE
INVARIANTS
  TypeOK
  SignedOutMeansStopped
  NoLateKill
  StopLeavesNothing
PROPERTIES
  ClosedIsFinal
