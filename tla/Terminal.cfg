\* The boot processor with its interrupt handler and a writing process, and one AP.
CONSTANTS
  Cpus = {bsp, ap}
  Boot = bsp
  Handler = irq
  User = user
  MaxLines = 1
  VGA_WIDTH = 2
  VGA_HEIGHT = 2
  TabStop = 2
  Kinds = {"a", "NL", "CR", "TAB", "BS"}
  MaxChars = 3
  PageCells = 5
SPECIFICATION TerminalSpec
INVARIANTS
  LinesWhole
  CursorExact
PROPERTIES
  PrintkReturns
  BelowForever
CHECK_DEADLOCK FALSE
