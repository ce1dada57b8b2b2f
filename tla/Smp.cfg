\* The three APs that smp_boot_apus starts, with and without an E1000.
CONSTANTS
  Present = {1, 2, 3}
SPECIFICATION Spec
INVARIANTS
  SharedOnlyIfOvertaken
PROPERTIES
  AllOnline
  TicksUnlessNic
\* With an E1000 the boot processor ends up with no interrupt to come.
CHECK_DEADLOCK FALSE
