\* Three processes, so that a forked child forks; the machine stops in a panic.
CONSTANTS
  Procs = {p1, p2, p3}
  First = p1
  Values = {0, 1}
  NFrames = 7
  MAX_SHM_REGIONS = 1
SPECIFICATION Spec
INVARIANTS
  ForkUnshares
PROPERTY ImplementsMemory
CHECK_DEADLOCK FALSE
