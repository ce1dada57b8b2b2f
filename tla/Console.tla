------------------------------ MODULE Console ------------------------------
(***************************************************************************)
(* The console lock: spin_lock and spin_unlock of                          *)
(* src/include/relis/spinlock.h as printk uses them (src/kernel/printk).   *)
(* Every processor prints, and the handler of the NIC interrupt prints on  *)
(* the boot processor, whose own code then waits: spin_lock does not       *)
(* disable interrupts.  The APs run with interrupts off.                   *)
(* Operators named ..._bug are seeded faults for the mutation runs.        *)
(***************************************************************************)
EXTENDS Integers

CONSTANTS
  Cpus,
  Boot,           \* the boot processor
  Handler,        \* the interrupt handler, which runs on Boot
  MaxLines        \* bound on the lines each of them prints

ASSUME ConsoleAssumption ==
  /\ Boot \in Cpus
  /\ Handler \notin Cpus
  /\ MaxLines \in Nat

VARIABLES
  lock,           \* console_lock.lock
  pc,             \* where each of them is in printk
  in_irq,         \* Boot executes the handler
  line,           \* who wrote characters of the unfinished line on the screen
  printed         \* lines each of them has printed

vars == <<lock, pc, in_irq, line, printed>>

Contexts == Cpus \cup {Handler}

Init ==
  /\ lock = 0
  /\ pc = [x \in Contexts |-> "idle"]
  /\ in_irq = FALSE
  /\ line = {}
  /\ printed = [x \in Contexts |-> 0]

Running(x) == IF in_irq THEN x # Boot ELSE x # Handler

Goto(x, from, to) == pc[x] = from /\ pc' = [pc EXCEPT ![x] = to]
-----------------------------------------------------------------------------
Call(x) ==
  /\ printed[x] < MaxLines
  /\ Goto(x, "idle", "exchange")
  /\ UNCHANGED <<lock, in_irq, line, printed>>

Exchange_bug(x) ==
  /\ Goto(x, "exchange", "print")
  /\ lock' = 1
  /\ UNCHANGED <<in_irq, line, printed>>

\* The atomic exchange that takes the lock, or finds it taken ...
Exchange(x) ==
  /\ Goto(x, "exchange", IF lock = 0 THEN "print" ELSE "spin")
  /\ lock' = 1
  /\ UNCHANGED <<in_irq, line, printed>>

\* ... and the inner loop that waits for it to look free.
Spin(x) ==
  /\ lock = 0
  /\ Goto(x, "spin", "exchange")
  /\ UNCHANGED <<lock, in_irq, line, printed>>

\* The prefix and the formatted text.
PrintText(x) ==
  /\ Goto(x, "print", "newline")
  /\ line' = line \cup {x}
  /\ UNCHANGED <<lock, in_irq, printed>>

PrintNewline(x) ==
  /\ Goto(x, "newline", "unlock")
  /\ line' = {}
  /\ UNCHANGED <<lock, in_irq, printed>>

Unlock_bug(x) ==
  /\ Goto(x, "unlock", "idle")
  /\ printed' = [printed EXCEPT ![x] = @ + 1]
  /\ UNCHANGED <<lock, in_irq, line>>

Unlock(x) ==
  /\ Goto(x, "unlock", "idle")
  /\ lock' = 0
  /\ printed' = [printed EXCEPT ![x] = @ + 1]
  /\ UNCHANGED <<in_irq, line>>

\* The code between spin_lock and the return of printk, wherever it runs.
printk(x) ==
  /\ Running(x)
  /\ Exchange(x) \/ Spin(x) \/ PrintText(x) \/ PrintNewline(x) \/ Unlock(x)

\* nic_irq_handler, run for another device of its line, finds a packet and prints.
NicIrq ==
  /\ ~in_irq /\ in_irq' = TRUE
  /\ printed[Handler] < MaxLines
  /\ Goto(Handler, "idle", "exchange")
  /\ UNCHANGED <<lock, line, printed>>

IrqReturn ==
  /\ in_irq /\ in_irq' = FALSE
  /\ pc[Handler] = "idle"
  /\ UNCHANGED <<lock, pc, line, printed>>

Next ==
  \/ \E x \in Contexts : printk(x)
  \/ \E x \in Cpus : Running(x) /\ Call(x)
  \/ NicIrq
  \/ IrqReturn

Spec == Init /\ [][Next]_vars

-----------------------------------------------------------------------------
\* Type invariant.
TypeOK ==
  /\ lock \in {0, 1}
  /\ pc \in [Contexts -> {"idle", "exchange", "spin", "print", "newline", "unlock"}]
  /\ in_irq \in BOOLEAN
  /\ line \subseteq Contexts
  /\ printed \in [Contexts -> 0 .. MaxLines]

Holding(x) == pc[x] \in {"print", "newline", "unlock"}

\* A line on the screen has the text of one printk only, whichever processors
\* print and wherever the handler interrupts.
LinesWhole == \A x, y \in line : x = y

\* The handler prints while the code it interrupted holds the lock.
Nested == in_irq /\ Holding(Boot) /\ pc[Handler] # "idle"

\* Once that has happened nobody prints again: the lock is never released.
NestedForever == [][Nested => Nested']_vars
=============================================================================
