-------------------------------- MODULE Smp --------------------------------
(***************************************************************************)
(* Bringing up the interrupt controller and the other processors:          *)
(* src/arch/smp/{apic,smp_boot,ap_boot}.c and trampoline.asm, in the order *)
(* start_kernel calls them, with the one page of the vmalloc area through  *)
(* which the local APIC (LAPIC) is reached.  The boot processor passes     *)
(* each application processor (AP) its stack in a mailbox at 0x8000 that   *)
(* all of them share; its delay loops do not wait for the AP.  A startup   *)
(* IPI starts a processor that waits for one and is ignored otherwise.     *)
(* Operators named ..._bug are seeded faults for the mutation runs.        *)
(***************************************************************************)
EXTENDS Integers, FiniteSets

CONSTANTS
  Present         \* the APIC ids of the APs the machine has

LastAp == 3       \* the loop of smp_boot_apus is for (i = 1; i < 4; i++)
ApicIds == 1 .. LastAp

ASSUME SmpAssumption == Present \subseteq ApicIds

VARIABLES
  bsp,            \* where the boot processor is in start_kernel
  i,              \* the loop variable of smp_boot_apus
  iflag,          \* RFLAGS.IF of the boot processor
  nic,            \* whether the PCI bus has an E1000
  lapic_page,     \* what LAPIC_VADDR is mapped to
  in_service,     \* an interrupt was delivered and its EOI has not come
  odd_jiffies,    \* parity of jiffies
  mailbox,        \* cr3_ptr and stack_ptr of the trampoline page
  ap,             \* what each AP executes; what a lost one does is left out
  ap_stack,       \* the stack each AP took from the mailbox, 0 none
  num_cpus,
  overtaken       \* history: stack_ptr was replaced before a started AP read it

bspVars  == <<bsp, i, iflag>>
timeVars == <<in_service, odd_jiffies>>
apVars   == <<ap, ap_stack, num_cpus>>
vars     == <<bspVars, timeVars, apVars, nic, lapic_page, mailbox, overtaken>>

Init ==
  /\ bsp = "paging_init"
  /\ i = 1
  /\ iflag = FALSE
  /\ nic \in BOOLEAN
  /\ lapic_page = "none"
  /\ in_service = FALSE
  /\ odd_jiffies = FALSE
  /\ mailbox = [cr3 |-> FALSE, stack |-> 0]
  /\ ap = [a \in Present |-> "off"]
  /\ ap_stack = [a \in Present |-> 0]
  /\ num_cpus = 1
  /\ overtaken = FALSE

Goto(from, to) == bsp = from /\ bsp' = to
-----------------------------------------------------------------------------
arch_paging_init ==
  /\ Goto("paging_init", "apic_init")
  /\ lapic_page' = "lapic"
  /\ UNCHANGED <<i, iflag, timeVars, apVars, mailbox, overtaken>>

\* The LAPIC and the I/O APIC are programmed, then the timer is started.
apic_init ==
  /\ Goto("apic_init", "nic_init")
  /\ UNCHANGED <<i, iflag, timeVars, apVars, lapic_page, mailbox, overtaken>>

\* The registers of the NIC are mapped at MMIO_VIRT_BASE, which is LAPIC_VADDR.
nic_hw_init == lapic_page' = "nic"

relis_nic_init ==
  /\ Goto("nic_init", "sti")
  /\ IF nic THEN nic_hw_init ELSE UNCHANGED lapic_page
  /\ UNCHANGED <<i, iflag, timeVars, apVars, mailbox, overtaken>>

Sti ==
  /\ Goto("sti", "trampoline")
  /\ iflag' = TRUE
  /\ UNCHANGED <<i, timeVars, apVars, lapic_page, mailbox, overtaken>>

CopyTrampoline_bug ==
  /\ Goto("trampoline", "stack")
  /\ iflag' = FALSE
  /\ UNCHANGED <<i, timeVars, apVars, lapic_page, mailbox, overtaken>>

\* The trampoline is copied and filled in, and interrupts are disabled.
CopyTrampoline ==
  /\ Goto("trampoline", "stack")
  /\ mailbox' = [cr3 |-> TRUE, stack |-> 0]
  /\ iflag' = FALSE
  /\ UNCHANGED <<i, timeVars, apVars, lapic_page, overtaken>>

NotReadYet(a) == ap[a] \in {"start", "long_mode"}

SetStack_bug ==
  /\ Goto("stack", "init")
  /\ mailbox' = [mailbox EXCEPT !.stack = 1]
  /\ overtaken' = (overtaken \/ \E a \in Present : NotReadYet(a))
  /\ UNCHANGED <<i, iflag, timeVars, apVars, lapic_page>>

SetStack ==
  /\ Goto("stack", "init")
  /\ mailbox' = [mailbox EXCEPT !.stack = i]
  /\ overtaken' = (overtaken \/ \E a \in Present : NotReadYet(a))
  /\ UNCHANGED <<i, iflag, timeVars, apVars, lapic_page>>

\* An interprocessor interrupt to AP i takes it from one state to another, if
\* the write reaches the LAPIC.  The wait for its delivery is a fixed delay, and
\* tells the boot processor nothing.
Ipi(from, to) ==
  ap' = [a \in Present |->
           IF a = i /\ lapic_page = "lapic" /\ ap[a] \in from THEN to ELSE ap[a]]

send_apic_init ==
  /\ Goto("init", "sipi")
  /\ Ipi({"off"}, "wait_sipi")
  /\ UNCHANGED <<i, iflag, timeVars, ap_stack, num_cpus, lapic_page, mailbox, overtaken>>

\* The startup IPI is sent twice; then the loop goes on to the next AP.
send_apic_startup ==
  /\ \/ Goto("sipi", "sipi_again") /\ UNCHANGED <<i, iflag>>
     \/ i < LastAp /\ Goto("sipi_again", "stack") /\ i' = i + 1 /\ UNCHANGED iflag
     \/ i = LastAp /\ Goto("sipi_again", "done") /\ iflag' = TRUE /\ UNCHANGED i
  /\ Ipi({"wait_sipi"}, "start")
  /\ UNCHANGED <<timeVars, ap_stack, num_cpus, lapic_page, mailbox, overtaken>>
-----------------------------------------------------------------------------
lapic_eoi_bug == in_service' = TRUE

\* The end of interrupt is a write through LAPIC_VADDR.
lapic_eoi == in_service' = (lapic_page # "lapic")

\* dispatch_irq for the timer: EOI, then timer_callback.  The LAPIC delivers no
\* further interrupt while one is in service.
TimerIrq ==
  /\ iflag /\ ~in_service
  /\ lapic_eoi
  /\ odd_jiffies' = ~odd_jiffies
  /\ UNCHANGED <<bspVars, apVars, nic, lapic_page, mailbox, overtaken>>
-----------------------------------------------------------------------------
\* The trampoline: wait for cr3_ptr, enter long mode, ...
ApWaitCr3(a) ==
  /\ ap[a] = "start"
  /\ mailbox.cr3
  /\ ap' = [ap EXCEPT ![a] = "long_mode"]
  /\ UNCHANGED <<bspVars, timeVars, ap_stack, num_cpus, lapic_page, mailbox, overtaken>>

\* ... take the stack, or halt without one, and jump to ap_main.
ApTakeStack(a) ==
  /\ ap[a] = "long_mode"
  /\ ap_stack' = [ap_stack EXCEPT ![a] = mailbox.stack]
  /\ ap' = [ap EXCEPT ![a] = IF mailbox.stack = 0 THEN "halted" ELSE "ap_main"]
  /\ UNCHANGED <<bspVars, timeVars, num_cpus, lapic_page, mailbox, overtaken>>

\* ap_main adds itself to num_cpus atomically, prints, and idles in hlt with
\* interrupts off, where it uses its stack no more.
ap_main(a) ==
  /\ \/ /\ ap[a] = "ap_main" /\ ap' = [ap EXCEPT ![a] = "counted"]
        /\ num_cpus' = num_cpus + 1
     \/ /\ ap[a] = "counted" /\ ap' = [ap EXCEPT ![a] = "online"]
        /\ UNCHANGED num_cpus
  /\ UNCHANGED <<bspVars, timeVars, ap_stack, lapic_page, mailbox, overtaken>>

InApMain(a) == ap[a] \in {"ap_main", "counted"}

\* Two APs use one stack at the same time.
Clash(a) ==
  InApMain(a) /\ \E b \in Present \ {a} : InApMain(b) /\ ap_stack[b] = ap_stack[a]

\* The other one overwrites a return address: where this AP goes is undefined.
Overwritten(a) ==
  /\ Clash(a)
  /\ ap' = [ap EXCEPT ![a] = "lost"]
  /\ UNCHANGED <<bspVars, timeVars, ap_stack, num_cpus, lapic_page, mailbox, overtaken>>

BootStep ==
  /\ \/ arch_paging_init \/ apic_init \/ relis_nic_init \/ Sti \/ CopyTrampoline
     \/ SetStack \/ send_apic_init \/ send_apic_startup
  /\ UNCHANGED nic

ApStep(a) ==
  /\ ApWaitCr3(a) \/ ApTakeStack(a) \/ ap_main(a) \/ Overwritten(a)
  /\ UNCHANGED nic

Next == BootStep \/ TimerIrq \/ \E a \in Present : ApStep(a)

\* Every processor executes its instructions, and the timer keeps running.
Spec ==
  /\ Init /\ [][Next]_vars
  /\ WF_vars(BootStep) /\ WF_vars(TimerIrq)
  /\ \A a \in Present : WF_vars(ApStep(a))
-----------------------------------------------------------------------------
DistinctStacks ==
  \A a, b \in Present : a # b /\ ap_stack[a] # 0 => ap_stack[a] # ap_stack[b]

\* Two APs share a stack only when the boot processor went on to the next AP
\* before one it had started had read its mailbox.
SharedOnlyIfOvertaken == overtaken \/ DistinctStacks

\* Without an E1000 every AP of the machine comes online and is counted, however
\* late it is and though the loop of smp_boot_apus never waits for it: none finds
\* the mailbox without page tables or without a stack.  The one exception is that
\* two APs are in ap_main at the same time on one stack, when nothing more is
\* claimed.  With an E1000 no IPI gets through and smp_boot_apus starts none.
AllOnline ==
  /\ ~nic => \/ <>[](/\ \A a \in Present : ap[a] = "online"
                    /\ num_cpus = 1 + Cardinality(Present))
             \/ <>(\E a \in Present : Clash(a))
  /\ nic  => \A a \in Present : [](ap[a] = "off")

\* Without an E1000 interrupts are acknowledged and the timer never stops ticking.
\* With one, whose registers nic_hw_init maps over the LAPIC's, the first
\* interrupt stays in service and no other is ever delivered.
TicksUnlessNic ==
  /\ ~nic => []<>odd_jiffies /\ []<>~odd_jiffies
  /\ nic  => <>[]in_service
=============================================================================
