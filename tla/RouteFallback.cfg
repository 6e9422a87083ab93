SPECIFICATION Spec
CONSTANTS
  r1 = r1
  r2 = r2
  Request = {r1, r2}
  Tools = {"gemini", "claude", "serve"}
  FallbackOrder <- MCTwo
  Default <- MCDefault
  Upstreams <- MCMoved
  ResetAfter = 2
  ProbeLimit = 2
  MaxLaunches = 2
INVARIANTS
  TypeOK
  NoFanOut
  ExhaustedTriedAll
PROPERTIES
  FailuresTeachNothing
SYMMETRY Alike
