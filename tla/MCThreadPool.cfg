CONSTANTS
  NThreads = 3
  Job = {j1, j2, j3, j4}
  NoJob = NoJob

SPECIFICATION ProfiledSpec

INVARIANTS
  ExactlyOnce
  WorkCovered
  DestroyedQuiet
  ProfiledInv

PROPERTIES
  JobsRun
  ShutdownCompletes
