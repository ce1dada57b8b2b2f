\* Ten page frames of which two hold the kernel; RAM is larger than the
\* bitmap, so the clamp to MAX_PHYS_PAGES applies.
CONSTANTS
  TotalKb = 44
  MaxPhysPages = 10
  KernelPages = 2
SPECIFICATION Spec
INVARIANTS
  NoFreePageBelowHint
  FreeCountExact
PROPERTY ImplementsPageSet
CHECK_DEADLOCK FALSE
