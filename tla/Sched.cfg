\* Up to three tasks beside the swapper, of any policy.
CONSTANTS
  MaxTasks = 3
  Policies = {"NORMAL", "FIFO", "RR"}
SPECIFICATION SchedSpec
INVARIANTS
  QueuesExact
  ContextLoaded
  NoSecondTurn
PROPERTY CooperativeTurns
