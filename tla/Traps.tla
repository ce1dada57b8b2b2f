------------------------------- MODULE Traps -------------------------------
(***************************************************************************)
(* Interrupt entry: the gates of src/arch/idt.c, the stubs of              *)
(* src/arch/isr_stubs.asm, struct registers of src/include/relis/irq.h and *)
(* dispatch of src/kernel/irq/manage.c.  A stack is the sequence of the    *)
(* values pushed, the last one on top.                                     *)
(* Operators named ..._bug are seeded faults for the mutation runs.        *)
(***************************************************************************)
EXTENDS Loops

Vectors    == 0 .. 255
Exceptions == 0 .. 31
Irqs       == 0 .. 15

\* A zero pushed; the other values are named after where they come from.
Zero == "zero"

\* What the processor pushes on an interrupt from user or kernel mode, and the
\* exceptions for which it pushes an error code after it.  Vectors 21, 29 and 30
\* also have one on processors with features this kernel does not enable.
CpuFrame       == <<"ss", "rsp", "rflags", "cs", "rip">>
CpuPushesError == {8, 10, 11, 12, 13, 14, 17}
CpuPush(v)     == IF v \in CpuPushesError THEN Append(CpuFrame, "error") ELSE CpuFrame

\* The stub of each gate that idt_init sets; the other entries stay empty.
Gate(v) ==
  CASE v \in Exceptions       -> <<"isr", v>>
    [] v \in {32 + i : i \in Irqs} -> <<"irq", v - 32>>
    [] v = 128                -> <<"isr", 128>>
    [] OTHER                  -> <<"empty", v>>

Present(v) == Gate(v)[1] # "empty"

\* The vectors that use the macro ISR_ERR; the others push a zero instead.
IsrErr_bug == {8, 10, 11, 12, 13, 14}

IsrErr == {8, 10, 11, 12, 13, 14, 17}

IRQ(i) == <<Zero, 32 + i>>

StubPush(stub) ==
  CASE stub[1] = "irq"                     -> IRQ(stub[2])
    [] stub[1] = "isr" /\ stub[2] \in IsrErr -> <<stub[2]>>
    [] OTHER                               -> <<Zero, stub[2]>>

isr_common ==
  <<"rax", "rbx", "rcx", "rdx", "rsi", "rdi", "rbp", "r8", "r9", "r10", "r11",
    "r12", "r13", "r14", "r15">>

irq_common ==
  <<"rax", "rbx", "rcx", "rdx", "rsi", "rdi", "rbp", "r8", "r9", "r10", "r11",
    "r12", "r13", "r14", "r15">>

Saved(stub) == IF stub[1] = "irq" THEN irq_common ELSE isr_common

\* The stack dispatch_isr or dispatch_irq is called with.
Entered(v) == CpuPush(v) \o StubPush(Gate(v)) \o Saved(Gate(v))

\* The fields of struct registers, from the lowest address up.
registers ==
  <<"r15", "r14", "r13", "r12", "r11", "r10", "r9", "r8", "rbp", "rdi", "rsi",
    "rdx", "rcx", "rbx", "rax", "int_no", "err_code", "rip", "cs", "rflags", "rsp", "ss">>

\* What the handler finds in a field: the stack is read from its top.
Place(stack, f) == Len(stack) + 1 - SelectInSeq(registers, LAMBDA g : g = f)
Field(stack, f) == stack[Place(stack, f)]

\* The registers that both common parts pop, in that order.
isr_common_return ==
  <<"r15", "r14", "r13", "r12", "r11", "r10", "r9", "r8", "rbp", "rdi", "rsi",
    "rdx", "rcx", "rbx", "rax">>

\* The i-th pop, and what add rsp, 16 then leaves for iretq.
Popped(stack, i) == stack[Len(stack) + 1 - i]

LeftForIret(stack) == SubSeq(stack, 1, Len(stack) - Len(isr_common_return) - 2)
-----------------------------------------------------------------------------
\* switch_to saves six registers on the old stack and takes six from the new one.
switch_to_push == <<"rbp", "rbx", "r12", "r13", "r14", "r15">>
switch_to_pop  == <<"r15", "r14", "r13", "r12", "rbx", "rbp">>

\* Where switch_to returns to on a stack, and the stack it leaves.
ReturnsTo(stack) == stack[Len(stack) - Len(switch_to_pop)]
Switched(stack)  == SubSeq(stack, 1, Len(stack) - Len(switch_to_pop) - 1)

\* The stack kernel_thread makes for a new thread.
ThreadStack == <<"thread_trampoline", Zero, Zero, Zero, Zero, Zero, Zero>>

\* The parent's frame with 0 in rax, then a frame for switch_to.
sys_fork(frame) ==
  [frame EXCEPT ![Place(frame, "rax")] = Zero]
    \o <<"isr_common_return", Zero, Zero, Zero, Zero, Zero, Zero>>

\* What drop_to_user pushes for its iretq.
drop_to_user == <<"ss", "rsp", "rflags", "cs", "rip">>
-----------------------------------------------------------------------------
\* ioapic_init sends pin i to vector 32 + i.
IoapicVector(pin) == 32 + pin
=============================================================================
