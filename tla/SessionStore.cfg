SPECIFICATION Spec
CONSTANTS
  s1 = s1
  s2 = s2
  s3 = s3
  Session = {s1, s2, s3}
  NoSession = NoSession
  Server = {p}
  Client = {c}
  KeyOf <- MCScopeOf
  ScopeOf <- MCScopeOf
  ScopeCap = 1
  TotalCap = 1
INVARIANTS
  TypeOK
  RowHasFile
  SavedIsListed
PROPERTIES
  LoadedIsKept
  EvictsOnlyOldest
  UnreadableRemovesNothing
CHECK_DEADLOCK FALSE
SYMMETRY Alike
