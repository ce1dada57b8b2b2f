-------------------------------- MODULE Nic --------------------------------
(***************************************************************************)
(* The receive ring of the E1000 driver (src/drivers/net/ethernet/intel/   *)
(* relis_nic) and the card it programs.  The card fills descriptors from   *)
(* RDH up to RDT and sets causes in ICR; the I/O APIC takes the edge when  *)
(* the first cause is set that the mask enables.  The driver enables bit 0 *)
(* of the mask, which is TXDW (a sent packet was written back), and sends  *)
(* nothing: its handler runs when another device of the line interrupts.   *)
(* Whether a requested interrupt is ever delivered is left open: Smp shows *)
(* when it is not.                                                         *)
(* Operators named ..._bug are seeded faults for the mutation runs.        *)
(***************************************************************************)
EXTENDS Integers, Sequences

CONSTANTS
  E1000_NUM_RX_DESC,
  Packets,
  NoPacket,
  MaxSpare        \* bounds the interrupts of other devices

ASSUME NicAssumption ==
  /\ E1000_NUM_RX_DESC \in Nat \ {0, 1}
  /\ NoPacket \notin Packets
  /\ MaxSpare \in Nat

VARIABLES
  boot,           \* where relis_nic_init is
  handler,        \* where nic_irq_handler is
  rdh, rdt,       \* the head and tail registers of the card
  rx_descs,       \* the packet of each descriptor whose status has DD set
  icr,            \* the causes set in ICR
  ims,            \* the causes the interrupt mask enables
  requested,      \* an edge the local APIC holds
  received,       \* the packet of the last line nic_rx_poll printed
  spare           \* interrupts other devices requested, less packets reported

bootVars == <<boot, ims>>
nicVars == <<bootVars, handler, rdh, rdt, rx_descs, icr, requested, received, spare>>

Descs == 0 .. E1000_NUM_RX_DESC - 1
Succ(d) == (d + 1) % E1000_NUM_RX_DESC

\* The card after its reset.
nic_hw_init ==
  /\ boot = "rx_init"
  /\ handler = "idle"
  /\ rdh = 0 /\ rdt = 0
  /\ rx_descs = [d \in Descs |-> NoPacket]
  /\ icr = {} /\ ims = {}
  /\ requested = FALSE
  /\ received = NoPacket /\ spare = 0

\* RDT is written before the receiver is enabled.
nic_rx_init ==
  /\ boot = "rx_init" /\ boot' = "enable"
  /\ rdh' = 0 /\ rdt' = E1000_NUM_RX_DESC - 1
  /\ UNCHANGED <<handler, rx_descs, icr, ims, requested, received, spare>>

\* A cause the mask enables is newly set or enabled: an edge.
Edge(causes, mask) == icr \cap ims = {} /\ causes \cap mask # {}

EnableInterrupt_RXT0_bug ==
  /\ boot = "enable" /\ boot' = "sti"
  /\ ims' = {"RXT0"} /\ requested' = (requested \/ Edge(icr, {"RXT0"}))
  /\ UNCHANGED <<handler, rdh, rdt, rx_descs, icr, received, spare>>

\* The handler is registered and bit 0 unmasked; a packet may have come already.
EnableInterrupt ==
  /\ boot = "enable" /\ boot' = "sti"
  /\ ims' = {"TXDW"} /\ requested' = (requested \/ Edge(icr, {"TXDW"}))
  /\ UNCHANGED <<handler, rdh, rdt, rx_descs, icr, received, spare>>

\* start_kernel enables interrupts later.
Sti ==
  /\ boot = "sti" /\ boot' = "up"
  /\ UNCHANGED <<ims, handler, rdh, rdt, rx_descs, icr, requested, received, spare>>
-----------------------------------------------------------------------------
\* The card: a packet goes to the descriptor at RDH, unless the ring is full.
CardReceives(p) ==
  /\ boot # "rx_init"
  /\ rdh # rdt
  /\ rx_descs' = [rx_descs EXCEPT ![rdh] = p]
  /\ rdh' = Succ(rdh)
  /\ icr' = icr \cup {"RXT0"}
  /\ requested' = (requested \/ Edge(icr', ims))
  /\ UNCHANGED <<bootVars, handler, rdt, received, spare>>

\* A packet that finds the ring full is lost (RXO); the link comes or goes (LSC).
CardSignals(c) ==
  /\ boot # "rx_init"
  /\ c = "RXO" => rdh = rdt
  /\ icr' = icr \cup {c}
  /\ requested' = (requested \/ Edge(icr', ims))
  /\ UNCHANGED <<bootVars, handler, rdh, rdt, rx_descs, received, spare>>

\* Another device of the line requests an interrupt.
OtherDevice ==
  /\ spare < MaxSpare /\ spare' = spare + 1
  /\ requested' = TRUE
  /\ UNCHANGED <<bootVars, handler, rdh, rdt, rx_descs, icr, received>>

Interrupt ==
  /\ boot = "up" /\ handler = "idle"
  /\ requested /\ requested' = FALSE
  /\ handler' = "read_icr"
  /\ UNCHANGED <<bootVars, rdh, rdt, rx_descs, icr, received, spare>>

\* Reading ICR clears it.
nic_irq_handler ==
  /\ handler = "read_icr"
  /\ handler' = IF icr = {} THEN "idle" ELSE "poll"
  /\ icr' = {}
  /\ UNCHANGED <<bootVars, rdh, rdt, rx_descs, requested, received, spare>>

\* nic_rx_poll reports one packet and clears its descriptor, if one has come ...
nic_rx_poll ==
  LET next_tail == Succ(rdt) IN
  /\ handler = "poll"
  /\ IF rx_descs[next_tail] = NoPacket
     THEN handler' = "idle" /\ UNCHANGED <<rx_descs, received, spare>>
     ELSE /\ handler' = "write_rdt"
          /\ received' = rx_descs[next_tail] /\ spare' = spare - 1
          /\ rx_descs' = [rx_descs EXCEPT ![next_tail] = NoPacket]
  /\ UNCHANGED <<bootVars, rdh, rdt, icr, requested>>

WriteTail_skip_bug ==
  /\ handler = "write_rdt" /\ handler' = "idle"
  /\ rdt' = Succ(Succ(rdt))
  /\ UNCHANGED <<bootVars, rdh, rx_descs, icr, requested, received, spare>>

\* ... and gives the descriptor back to the card.
WriteTail ==
  /\ handler = "write_rdt" /\ handler' = "idle"
  /\ rdt' = Succ(rdt)
  /\ UNCHANGED <<bootVars, rdh, rx_descs, icr, requested, received, spare>>

NicNext ==
  \/ nic_rx_init \/ EnableInterrupt \/ Sti
  \/ \E p \in Packets : CardReceives(p)
  \/ \E c \in {"RXO", "LSC"} : CardSignals(c)
  \/ OtherDevice \/ Interrupt \/ nic_irq_handler \/ nic_rx_poll \/ WriteTail

NicSpec == nic_hw_init /\ [][NicNext]_nicVars
-----------------------------------------------------------------------------
\* The packets the card has put in memory and the driver has not reported, oldest
\* first; the first is no longer there while the tail is about to be written.
Unread ==
  LET first == IF handler = "write_rdt" THEN Succ(Succ(rdt)) ELSE Succ(rdt)
      n == IF boot = "rx_init" THEN 0 ELSE (rdh - first) % E1000_NUM_RX_DESC
  IN  [k \in 1 .. n |-> rx_descs[(first + k - 1) % E1000_NUM_RX_DESC]]

RxFifo == INSTANCE BoundedFifo
  WITH Chars <- Packets, Capacity <- E1000_NUM_RX_DESC - 1, Nothing <- NoPacket,
       MaxBurst <- 1, queue <- Unread, taken <- received

\* Packets are reported in the order of their arrival, each once, and none is
\* overwritten before it is reported, however the card and nic_rx_poll interleave
\* and wherever the ring wraps.
DeliversInOrder == RxFifo!Spec

\* The card's own causes never lead to a report: relis_nic_init enables bit 0 of
\* the mask, not bit 7 (RXT0), so however packets, lost packets and changes of the
\* link interleave with the handler, never more packets are reported than
\* interrupts were requested by other devices of the line.  It also needs the
\* handler to report no more than one packet when it runs: a backlog is left.
ReportsRequested == spare >= 0
=============================================================================
