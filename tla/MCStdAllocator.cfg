CONSTANTS
  t1 = t1
  t2 = t2
  Threads <- MCThreads
  Address <- MCAddress
  DEFAULT_CAPACITY = 4
  MaxCapacity = 16
SPECIFICATION Spec
\* std_allocator_fini is the end, and after a calloc that failed a search may never end.
CHECK_DEADLOCK FALSE
SYMMETRY Symmetry
INVARIANTS
  OneUser
  FiniIsExact
  EveryBlockFound
  TableInv
