SPECIFICATION Spec
CONSTANTS
  c1 = c1
  c2 = c2
  Caller = {c1, c2}
  MaxRunning = 2
  MaxFinished = 1
  MaxJobs = 3
INVARIANTS
  TypeOK
  LabelsAreTrue
  TornDown
PROPERTIES
  AnnouncedOnce
SYMMETRY Alike
CHECK_DEADLOCK FALSE
