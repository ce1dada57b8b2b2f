\* init, the kworker and one forked task.
CONSTANTS
  MaxTasks = 3
  Policies = {"NORMAL"}
  MaxInput = 1
SPECIFICATION KernelFairSpec
INVARIANTS
  InterruptsLostOnlyInSyscall
PROPERTIES
  ImplementsSched
  ReaderServed
  SchedulesForever
CHECK_DEADLOCK FALSE
