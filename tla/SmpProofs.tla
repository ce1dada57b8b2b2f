----------------------------- MODULE SmpProofs -----------------------------
(***************************************************************************)
(* Proofs about Smp for every set of application processors (APs) the loop *)
(* of smp_boot_apus can start.  They use no fairness: delays are arbitrary.*)
(***************************************************************************)
EXTENDS Smp, TLAPS

BeforeIpis == {"paging_init", "apic_init", "nic_init", "sti", "trampoline"}
IpiPlaces  == {"init", "sipi", "sipi_again"}
ApPlaces   == {"off", "wait_sipi", "start", "long_mode", "halted", "ap_main", "counted",
               "online", "lost"}

\* The mailbox holds the stack of the AP whose turn it is while interprocessor
\* interrupts are sent, so an AP that has been started finds its own stack
\* there until the next SetStack, which is when it is overtaken.
MailboxInv ==
  /\ bsp \in BeforeIpis \cup IpiPlaces \cup {"stack", "done"}
  /\ i \in ApicIds
  /\ overtaken \in BOOLEAN
  /\ ap \in [Present -> ApPlaces]
  /\ ap_stack \in [Present -> 0 .. LastAp]
  /\ mailbox \in [cr3 : BOOLEAN, stack : 0 .. LastAp]
  /\ bsp \in BeforeIpis => \A a \in Present : ap[a] = "off"
  /\ bsp \in IpiPlaces => mailbox.stack = i
  /\ \A a \in Present : NotReadYet(a) => mailbox.stack # 0
  /\ \A a \in Present : ap[a] # "halted"
  /\ \A a \in Present : InApMain(a) => ap_stack[a] # 0
  /\ ~overtaken => \A a \in Present :
                     /\ ap[a] # "lost"
                     /\ NotReadYet(a) => mailbox.stack = a
                     /\ ap_stack[a] \in {0, a}

\* With an E1000 the page at LAPIC_VADDR is not the LAPIC when IPIs are sent.
RemappedInv ==
  nic => /\ bsp \notin {"paging_init", "apic_init", "nic_init"} => lapic_page = "nic"
         /\ \A a \in Present : ap[a] = "off"

LEMMA SmpInit == Init => MailboxInv /\ RemappedInv
<1> SUFFICES ASSUME Init PROVE MailboxInv /\ RemappedInv
  OBVIOUS
<1>1. /\ bsp = "paging_init" /\ i = 1 /\ i \in ApicIds /\ overtaken = FALSE
      /\ ap = [a \in Present |-> "off"] /\ ap_stack = [a \in Present |-> 0]
      /\ mailbox = [cr3 |-> FALSE, stack |-> 0] /\ 0 \in 0 .. LastAp
  BY DEF Init, ApicIds, LastAp
<1>2. MailboxInv
  BY <1>1, Zenon DEF MailboxInv, BeforeIpis, IpiPlaces, ApPlaces, NotReadYet, InApMain
<1>3. RemappedInv
  BY <1>1 DEF RemappedInv
<1> QED
  BY <1>2, <1>3

\* An interprocessor interrupt to AP i.
LEMMA IpiStep ==
  ASSUME MailboxInv, bsp \in IpiPlaces,
         NEW from, NEW to, <<from, to>> \in {<<{"off"}, "wait_sipi">>, <<{"wait_sipi"}, "start">>},
         Ipi(from, to),
         bsp' \in IpiPlaces \cup {"stack", "done"}, i' \in ApicIds,
         bsp' \in IpiPlaces => i' = i,
         UNCHANGED <<ap_stack, mailbox, overtaken>>
  PROVE  MailboxInv'
<1>1. /\ from \in {{"off"}, {"wait_sipi"}} /\ to \in {"wait_sipi", "start"}
      /\ i \in ApicIds /\ mailbox.stack = i /\ i # 0
      /\ ap \in [Present -> ApPlaces]
  BY DEF MailboxInv, ApicIds, LastAp
<1>2. ap' \in [Present -> ApPlaces]
  BY <1>1 DEF Ipi, ApPlaces
<1>3. \A a \in Present : ap'[a] = ap[a] \/ (a = i /\ ap'[a] = to)
  BY <1>1 DEF Ipi
<1>4. bsp' \notin BeforeIpis
  BY DEF BeforeIpis, IpiPlaces
<1>5. ASSUME NEW a \in Present
      PROVE  /\ ap'[a] # "halted"
             /\ NotReadYet(a)' => mailbox.stack # 0
             /\ InApMain(a)' => ap_stack[a] # 0
             /\ ~overtaken => /\ ap'[a] # "lost"
                              /\ NotReadYet(a)' => mailbox.stack = a
                              /\ ap_stack[a] \in {0, a}
  BY <1>1, <1>3 DEF MailboxInv, NotReadYet, InApMain
<1> QED
  BY <1>1, <1>2, <1>4, <1>5 DEF MailboxInv

\* One step per action.
LEMMA SmpNext == MailboxInv /\ [Next]_vars => MailboxInv'
<1> SUFFICES ASSUME MailboxInv, [Next]_vars PROVE MailboxInv'
  OBVIOUS
<1> USE SmpAssumption DEF BeforeIpis, ApPlaces, InApMain
<1>1. CASE arch_paging_init \/ apic_init \/ relis_nic_init \/ Sti
  BY <1>1 DEF arch_paging_init, apic_init, relis_nic_init, Sti, Goto, apVars, MailboxInv,
              IpiPlaces, NotReadYet
<1>2. CASE CopyTrampoline
  BY <1>2 DEF CopyTrampoline, Goto, apVars, MailboxInv, IpiPlaces, NotReadYet, LastAp
<1>3. CASE SetStack
  <2>1. /\ bsp = "stack" /\ bsp' = "init" /\ i' = i /\ i \in ApicIds
        /\ mailbox' \in [cr3 : BOOLEAN, stack : 0 .. LastAp] /\ mailbox'.stack = i
        /\ overtaken' = (overtaken \/ \E a \in Present : NotReadYet(a))
        /\ UNCHANGED <<ap, ap_stack>>
    BY <1>3 DEF SetStack, Goto, apVars, MailboxInv, ApicIds, LastAp
  <2>2. i # 0
    BY <2>1 DEF ApicIds
  <2> QED
    BY <2>1, <2>2, Zenon DEF MailboxInv, IpiPlaces, NotReadYet
<1>4. CASE send_apic_init
  BY <1>4, IpiStep DEF send_apic_init, Goto, IpiPlaces, MailboxInv
<1>5. CASE send_apic_startup
  <2>1. /\ bsp \in IpiPlaces /\ bsp' \in IpiPlaces \cup {"stack", "done"} /\ i' \in ApicIds
        /\ bsp' \in IpiPlaces => i' = i
        /\ Ipi({"wait_sipi"}, "start") /\ UNCHANGED <<ap_stack, mailbox, overtaken>>
    BY <1>5 DEF send_apic_startup, Goto, IpiPlaces, MailboxInv, ApicIds, LastAp
  <2> QED
    BY <2>1, IpiStep
<1>6. CASE TimerIrq
  BY <1>6 DEF TimerIrq, bspVars, apVars, MailboxInv, NotReadYet
<1>7. ASSUME NEW a \in Present, ApWaitCr3(a) PROVE MailboxInv'
  BY <1>7 DEF ApWaitCr3, bspVars, MailboxInv, NotReadYet
<1>8. ASSUME NEW a \in Present, ApTakeStack(a) PROVE MailboxInv'
  <2>1. mailbox.stack \in 0 .. LastAp /\ mailbox.stack # 0
    BY <1>8 DEF ApTakeStack, MailboxInv, NotReadYet
  <2> QED
    BY <1>8, <2>1 DEF ApTakeStack, bspVars, MailboxInv, NotReadYet
<1>9. ASSUME NEW a \in Present, ap_main(a) \/ Overwritten(a) PROVE MailboxInv'
  BY <1>9 DEF ap_main, Overwritten, Clash, bspVars, MailboxInv, NotReadYet
<1>10. CASE UNCHANGED vars
  BY <1>10 DEF vars, bspVars, apVars, MailboxInv, NotReadYet
<1> QED
  BY <1>1, <1>2, <1>3, <1>4, <1>5, <1>6, <1>7, <1>8, <1>9, <1>10 DEF Next, BootStep, ApStep

LEMMA RemappedNext == RemappedInv /\ [Next]_vars => RemappedInv'
<1> SUFFICES ASSUME RemappedInv, [Next]_vars PROVE RemappedInv'
  OBVIOUS
<1>1. CASE BootStep
  <2>1. nic' = nic
    BY <1>1 DEF BootStep
  <2>2. CASE arch_paging_init \/ apic_init \/ relis_nic_init \/ Sti \/ CopyTrampoline \/ SetStack
    BY <2>1, <2>2 DEF arch_paging_init, apic_init, relis_nic_init, nic_hw_init, Sti,
                      CopyTrampoline, SetStack, Goto, apVars, RemappedInv
  <2>3. CASE send_apic_init \/ send_apic_startup
    BY <2>1, <2>3 DEF send_apic_init, send_apic_startup, Goto, Ipi, RemappedInv
  <2> QED
    BY <1>1, <2>2, <2>3 DEF BootStep
<1>2. CASE TimerIrq
  BY <1>2 DEF TimerIrq, bspVars, apVars, RemappedInv
<1>3. ASSUME NEW a \in Present, ApStep(a) PROVE RemappedInv'
  BY <1>3 DEF ApStep, ApWaitCr3, ApTakeStack, ap_main, Overwritten, Clash, InApMain, bspVars, RemappedInv
<1>4. CASE UNCHANGED vars
  BY <1>4 DEF vars, bspVars, apVars, RemappedInv
<1> QED
  BY <1>1, <1>2, <1>3, <1>4 DEF Next
-----------------------------------------------------------------------------
LEMMA MailboxInvariance == Spec => []MailboxInv
  BY SmpInit, SmpNext, PTL DEF Spec

\* APs share a stack only when one of them was overtaken, whatever the delays
\* and whichever of the APs the machine has.
THEOREM StacksCorrect == Spec => []SharedOnlyIfOvertaken
<1>1. MailboxInv => SharedOnlyIfOvertaken
  BY DEF MailboxInv, SharedOnlyIfOvertaken, DistinctStacks
<1> QED
  BY <1>1, MailboxInvariance, PTL

\* An AP loses its way in ap_main only when one of them was overtaken.
THEOREM LostOnlyIfOvertaken == Spec => []((\E a \in Present : ap[a] = "lost") => overtaken)
<1>1. MailboxInv => ((\E a \in Present : ap[a] = "lost") => overtaken)
  BY DEF MailboxInv
<1> QED
  BY <1>1, MailboxInvariance, PTL

\* No AP that was started ever halts in the trampoline for want of a stack: the
\* boot processor fills in the mailbox before it sends the startup IPI.
THEOREM NoneWithoutStack == Spec => [](\A a \in Present : ap[a] # "halted")
<1>1. MailboxInv => \A a \in Present : ap[a] # "halted"
  BY DEF MailboxInv
<1> QED
  BY <1>1, MailboxInvariance, PTL

\* With an E1000, whose registers are mapped over the LAPIC's, no AP is started.
THEOREM NoneStartedWithNic == Spec => [](nic => \A a \in Present : ap[a] = "off")
<1>1. RemappedInv => (nic => \A a \in Present : ap[a] = "off")
  BY DEF RemappedInv
<1> QED
  BY <1>1, SmpInit, RemappedNext, PTL DEF Spec
=============================================================================
