\* A ring of three slots: it fills up, wraps, and has room for one of two.
CONSTANTS
  KB_BUF_SIZE = 3
  Keys = {"c", "2", "esc", "shift", "ctrl", "caps"}
SPECIFICATION FairSpec
INVARIANTS
  CodeAfterMarker
PROPERTIES
  ImplementsFifo
  Returned
