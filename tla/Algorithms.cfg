\* Memories of six bytes, texts of five characters on a screen of two lines of
\* three, paths of eight, two segments of up to two pages, and three buses.
SPECIFICATION Spec
CONSTANTS
  MemoryLength = 6
  Bytes = {0, 1, 2}
  MaxCount = 3
  TextLength = 5
  Letters = {"a", "b"}
  PathLength = 8
  PathLetters = {"/", "p", "c"}
  VGA_WIDTH = 3
  VGA_HEIGHT = 2
  TabStop = 2
  Slots = 1
  Functions = 1
  MAX_PCI_DEVICES = 4
  Positions <- MCPositions
  SecondaryBuses = {0, 1, 2}
  PAGE_SIZE = 2
  ProgramFile <- MCProgramFile
  LastPage = 3
  SegmentSize = 4
INVARIANTS
  CopiesRight
  SearchesRight
  ScreenShowsPage
  LookupIsWalk
  SegmentsLoaded
  ScanComplete
  BarsDecoded
  FramesMatch
