-------------------------------- MODULE Pci --------------------------------
(***************************************************************************)
(* The bus scan of src/drivers/pci/pci.c: slots and functions of bus 0,    *)
(* and of the buses behind bridges, recursively, into a table of           *)
(* MAX_PCI_DEVICES entries; and the decoding of base address registers.    *)
(* Configuration space is given as data: cfg maps the functions that       *)
(* answer to their header.  Nothing else runs while pci_init does.         *)
(* Operators named ..._bug are seeded faults for the mutation runs.        *)
(***************************************************************************)
EXTENDS Loops

CONSTANTS
  Slots, Functions,     \* the highest slot (31) and function (7) of a bus
  MAX_PCI_DEVICES

ASSUME PciAssumption ==
  Slots \in Nat /\ Functions \in Nat /\ MAX_PCI_DEVICES \in Nat

\* The header of a function: PCI_HEADER_TYPE_MULTIFUNC, and the secondary bus
\* of a PCI-to-PCI bridge (0 before firmware has numbered it), or no bridge.
NoBridge == -1
Header(multi, sec) == [multifunc |-> multi, sec_bus |-> sec]

Answers(cfg, at) == at \in DOMAIN cfg

\* The slots of a bus and the functions of a slot, each from 0 on.
SlotsOf(bus)     == [i \in 1 .. Slots + 1 |-> <<bus, i - 1, 0>>]
FunctionsOf(at)  == [i \in 1 .. Functions + 1 |-> <<at[1], at[2], i - 1>>]

pci_scan_function_bug(cfg, scan, table, at) ==
  IF ~Answers(cfg, at) THEN table
  ELSE IF Len(table) > MAX_PCI_DEVICES THEN table
  ELSE IF cfg[at].sec_bus \in {NoBridge, 0} THEN Append(table, at)
  ELSE scan[<<cfg[at].sec_bus, Append(table, at)>>]

\* A function that answers is entered in the table while there is room, and the
\* bus behind a bridge is scanned at once.
pci_scan_function(cfg, scan, table, at) ==
  IF Len(table) >= MAX_PCI_DEVICES \/ ~Answers(cfg, at) THEN table
  ELSE IF cfg[at].sec_bus \in {NoBridge, 0} THEN Append(table, at)
  ELSE scan[<<cfg[at].sec_bus, Append(table, at)>>]

\* Function 0 tells whether there are others.
ScanSlot(cfg, scan, table, at) ==
  IF ~Answers(cfg, at) THEN table
  ELSE IF cfg[at].multifunc
  THEN FoldLeft(LAMBDA found, f : pci_scan_function(cfg, scan, found, f),
                table, FunctionsOf(at))
  ELSE pci_scan_function(cfg, scan, table, at)

\* scan[<<bus, table>>] is the table after the bus is scanned: a recursion over
\* bridges.
Tables == Seq(Nat \X Nat \X Nat)

pci_scan_bus(cfg, bus, table) ==
  LET scan[call \in Nat \X Tables] ==
        FoldLeft(LAMBDA found, at : ScanSlot(cfg, scan, found, at), call[2], SlotsOf(call[1]))
  IN  scan[<<bus, table>>]

pci_init(cfg) == pci_scan_bus(cfg, 0, << >>)
-----------------------------------------------------------------------------
\* A base address register by what its low bits say.
BarKinds == {"zero", "io", "mmio32", "mmio64", "reserved"}

\* One turn of the loop of pci_decode_bars: a 64-bit register is decoded with
\* the next one, which the loop then skips.
DecodeBar_bug(s, lo) ==
  [types |-> Append(s.types, IF lo = "reserved" THEN "zero" ELSE lo), skip |-> FALSE]

DecodeBar(s, lo) ==
  IF s.skip THEN [types |-> Append(s.types, "zero"), skip |-> FALSE]
  ELSE [types |-> Append(s.types, IF lo = "reserved" THEN "zero" ELSE lo),
        skip |-> lo = "mmio64"]

\* What ends up in bar and bar_type together, for the six words a function has at
\* PCI_BAR0 (bar_type alone is 0 for "mmio32" and for "zero", where bar is 0 too);
\* those of a bridge hold other things from the third on.
pci_decode_bars(regs, bridge) ==
  FoldLeft(DecodeBar, [types |-> << >>, skip |-> FALSE],
           SubSeq(regs, 1, IF bridge THEN 2 ELSE 6)).types
=============================================================================
