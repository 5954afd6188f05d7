CONSTANTS
  NThreads = 3
  Job = {w1, w2, w3, w4}
  NoJob = NoJob

SPECIFICATION SelectedSpec

INVARIANTS
  CountIsOutstanding
  WaitMeansDone
  AsyncInv
  SyncWaitMeansDone

PROPERTY
  PromiseKept
