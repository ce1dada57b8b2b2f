\* Two processes, four descriptors of which one is free at first, and a heap for
\* a pipe of two bytes and a second process, or for files instead of
\* the pipe.
CONSTANTS
  Procs = {p1, p2}
  First = p1
  MAX_FDS = 4
  PipeSize = 2
  InfoSize = 2
  HeapSize = 3
  Frames = 1
  MaxCount = 2
SPECIFICATION Spec
INVARIANTS
  StreamIntact
  SharedByForkOnly
  PanicCause
PROPERTIES
  PipeWhole
  WaitsForever
CHECK_DEADLOCK FALSE
