\* init, the kworker and one forked task.
CONSTANTS
  MaxTasks = 3
  Policies = {"NORMAL"}
  MaxInput = 1
SPECIFICATION KernelSpec
INVARIANTS
  SigkillBeforeUser
CHECK_DEADLOCK FALSE
