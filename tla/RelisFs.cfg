\* Two open files, a block of two bytes and two values to write.
CONSTANTS
  Opened = {f1, f2}
  BlockSize = 2
  Bytes = {0, 1, 2}
SPECIFICATION Spec
INVARIANTS
  NothingAckedLost
  UsableUnlessTorn
