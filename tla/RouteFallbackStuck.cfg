SPECIFICATION FairSpec
CONSTANTS
  r1 = r1
  Request = {r1}
  Tools = {"gemini"}
  FallbackOrder <- MCTwo
  Default <- MCDefault
  Upstreams <- MCMoved
  ResetAfter = 5
  ProbeLimit = 3
  MaxLaunches = 1
PROPERTIES
  Recovers
