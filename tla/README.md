# RELIS in TLA+

RELIS is a small x86_64 kernel in C and assembly. This directory holds TLA+
models of its parts, the TLC configurations that check them on small instances,
and proofs, checked by TLAPS, of most of the safety properties for every
instance.

Notation: *BSP* is the boot processor, *AP* another processor, *LAPIC* the local
interrupt controller, *EOI* the end-of-interrupt write to it, *IF* the interrupt
flag of the processor.

## The system: inventory

| Part (under `src/`) | State | Operations | Interacts with | Hard behaviour |
|---|---|---|---|---|
| Page allocator `mm/page_alloc.c` | bitmap, free count, hint | `pmm_init`, `alloc_page`, `free_page` | page tables, fork, exec, NIC | stale hint, double free, exhaustion |
| Scheduler `kernel/sched/` | run queues, current task, flags | `kernel_thread`, `schedule`, `scheduler_tick` | everything | rotation, zombies kept in queues, context loaded only on a switch |
| Entry and switch `arch/isr_stubs.asm`, `idt.c`, `switch.asm` | IF, stacks | interrupt, `int 0x80`, `iretq`, `switch_to` | scheduler | IF is inherited by the next task; one stack layout in six places |
| Boot `init/main.c` | order of initialisation | `start_kernel`, `heartbeat_task`, `init_task` | everything | the idle loop is left for good |
| System calls `kernel/entry/syscall.c` | descriptor tables | 12 calls | pipes, VFS, scheduler | blocking calls with IF off |
| fork, exec, signals | tasks, pending signals | `sys_fork`, `sys_execve`, `sys_kill` | scheduler, page tables | byte copy of a task, delivery never reached |
| Pipes, procfs, heap `kernel/ipc.c`, `fs/proc/`, `mm/slab.c` | buffers, positions, heap pointer | `sys_pipe`, read, write, close, `kmalloc` | descriptors, fork | half failure, no end of file, buffer never rewound, NULL and the caller's pointers used unchecked |
| Keyboard `kernel/drivers/keyboard.c` | ring, modifiers | `kb_irq`, `keyboard_poll`, `keyboard_getchar` | interrupts, `stdin_read` | handler against reader, full ring, lost wake-up |
| Processor start `arch/smp/` | mailbox page, `num_cpus` | INIT-SIPI, trampoline, `ap_main` | LAPIC | mailbox reused after a fixed delay, two APs on one stack |
| LAPIC, dispatch `kernel/irq/manage.c` | page at `LAPIC_VADDR` | `lapic_eoi`, `dispatch_irq` | NIC, timer | two owners of one address |
| Console `kernel/printk/`, `spinlock.h`, `vga.c` | `console_lock`, cursor, cells | `printk`, `terminal_putchar`, `stdout_write` | APs, NIC handler | lock taken with IF on; a writer that takes no lock |
| Page tables, faults, shared pages `arch/mm/init.c`, `mm/memory.c` | tables, `shm_pages` | map, clone, fault, `sys_shmget`, `sys_shmat` | allocator, fork, exec | fork copies what should stay shared |
| relisfs, ATA `fs/relisfs/`, `drivers/block/` | inode, blocks | mount, format, read, write | system calls | power failure between two writes, dropped errors, time-outs |
| NIC receive ring `relis_nic/` | descriptors, head and tail, causes and mask | init, interrupt handler, poll | card, LAPIC page | two owners of the ring, the wrong cause enabled |
| PCI, VFS lookup, ELF segments, strings | tables, trees, memory | scan, open, load, the library | drivers, exec | boundaries |

`PROJECT.json` lists every part with its status, and the hazards, each at the
line where it bites with the properties that would catch it.

## Modules

| Module | Models | State and actions |
|---|---|---|
| `PageSet` | abstract allocator | the set of free pages; take the lowest, release, panic when empty |
| `PageAlloc` | `mm/page_alloc.c` | bitmap as a set, count, hint; one action per call, one for the panic |
| `Sched` | `kernel/sched/*`, task creation of fork, exec's change of CR3 | queues as sequences of pids; one action per operation; `ran` is a history of turns |
| `Kernel` (extends `Sched`) | BSP: boot, threads, user tasks, system calls, timer and keyboard interrupts | adds IF, the place of each task in its code, pending signals, waiting input |
| `BoundedFifo` | abstract queue | arrivals in bursts, dropped when full; take the oldest |
| `Keyboard` | `keyboard.c` | the handler is one step; `keyboard_poll` one step per access to the ring |
| `Nic` | receive side of the E1000 driver, and the card | head and tail registers, descriptors, the causes and their mask, the edge the LAPIC holds; the card may fill a descriptor or set a cause, and another device of the line interrupt, between any two steps of the handler |
| `Files` | descriptor calls, pipes, `/proc`, `kmalloc`, fork's copy of the table | descriptor tables, pipes, positions, heap pointer, free pages; a system call is one step up to its return or its `schedule()`, since IF is off and nothing preempts; its pointer is good or faults |
| `ProcessMemory` | abstract user memory | text and stack of each process; store, grow, load, fork |
| `AddressSpace` | user half of `arch/mm/init.c`, `handle_page_fault`, loading, shared pages | page to frame for each process, contents of frames; one action per system call or fault, user stores |
| `RelisFs` | `relisfs.c`, `ata.c` | three blocks as the drive returns them and as they survive; one step per transfer that writes, power failure anywhere |
| `Smp` | `arch/smp/*`, the LAPIC page, EOI, NIC mapping | the BSP's boot steps, four steps per AP, an AP whose stack another overwrites, the timer interrupt; the machine has an E1000 or not |
| `Console` | `spin_lock`, `spin_unlock`, `printk` | one step per access to the lock or the screen, for each processor and for a handler on the BSP |
| `Terminal` (extends `Console`, `Screen`) | `printk` down to `terminal_putchar`, and `stdout_write`, which takes no lock | the loads and stores of row and column, one step each; a store outside the video page may fault |
| `Screen` | `vga.c` for one caller | the terminal as a record, one operator per function; the page of unbounded length that it is compared with |
| `Loops` | | the folds and searches the next modules write loops with |
| `Strings`, `Vfs`, `Elf`, `Pci`, `Traps` | `lib/string.c`, path lookup, the segment loop, the bus scan, gates and stubs | operators on memories, paths, headers, buses and stacks |
| `Algorithms`, `MCAlgorithms` | | an input of one of these kinds is picked, and the result compared with a reference definition; the inputs TLC picks from |
| `...Proofs` | | the theorems about the module of that name; `KernelProofs` also has those about `Sched`, `TerminalProofs` about `Console` and `Screen`, `RingProofs` about `Keyboard` and `Nic` |

Operators named `..._bug` are seeded faults: replacing a definition by its
`_bug` form must make a property fail (the mutants of `PROJECT.json`).

Composition:

- `Kernel` is built from the operations of `Sched`, and `ImplementsSched` says
  that its steps are steps of `Sched`. It follows a machine without an E1000, so
  interrupts are acknowledged (that is `Smp`'s `TicksUnlessNic`). The AP start,
  which runs with interrupts off between thread creation and the first
  `schedule()`, touches no variable of `Kernel` and is left to `Smp`.
- `Terminal` refines `Console`: the character that is one step there is the
  sequence of loads and stores here, and each of them is a stutter of the lock.
- `Keyboard` and `Nic` both implement `BoundedFifo` (`ImplementsFifo`,
  `DeliversInOrder`), `PageAlloc` implements
  `PageSet`, and `AddressSpace` implements `ProcessMemory`.
- `Console` and `Nic` let the NIC interrupt more often than the LAPIC overlap
  described below allows; one interrupt is enough for a nested `printk`.

## Runs

| Run | Instance | Shows |
|---|---|---|
| `page_alloc` | 10 frames, 2 of the kernel, RAM larger than the bitmap | count, hint and bitmap agree; refines `PageSet`, whose allocator takes the lowest page and panics only when there is none |
| `sched` | 3 tasks, all policies | queues exact; context loaded; no second turn while others wait; every fair task runs again if tasks keep yielding |
| `kernel` | init, kworker, one fork, one character per source | drives `Sched` legally; user code always has IF on; when the kworker can find IF off; readers are served while tasks yield; what alone ends scheduling |
| `keyboard` | ring of 3, six keys | refines `BoundedFifo` though the handler takes no lock; a stored code has its marker; no character waits for ever |
| `files` | 2 processes, 4 descriptors, pipe and `cpuinfo` of 2 bytes, heap of 3, one page | bytes of a shared file are delivered once, in order; what a half-failed `sys_pipe` leaves; processes share a file by fork only; which reads never return; what makes the kernel panic |
| `address_space` | 3 processes, 7 frames, 1 shared page each | refines `ProcessMemory`; screen and shared pages are shared exactly by those who mapped them, and private copies after a fork |
| `relisfs` | 2 open files, a block of 2 bytes | what a write returned for survives power failures, and the root stays usable, unless the code dropped an error of the drive or a format was cut short |
| `smp` | 3 APs, with and without an E1000 | without, all come online and are counted, unless two are in `ap_main` on one stack, and the timer never stops; with, no AP starts and the timer stops; stacks are shared only if the BSP overtook an AP |
| `console` | BSP with handler and a system call, one AP; screen of 2 x 2 | lines never mix; `printk` returns unless one is nested or faults; the cursor is exact unless a system call raced with a `printk`; once below the screen it stays there |
| `nic` | 4 descriptors, 2 packets, 3 interrupts of others beyond the packets reported | refines `BoundedFifo`; never more packets are reported than other devices of the line requested interrupts |
| `algorithms` | memories of 6 bytes, texts of 5 characters, paths of 8, two segments, three buses | string library, terminal, lookup, segment loop, scan, base addresses and stack frames agree with their references |
| `kernel_signal` | as `kernel` | expected to fail: `syscall.c:169` says "Deliver pending signals before returning to user space", but every case of the switch returns before that call |

Deadlock checking is off where the system really may stop: after a panic
(`PageAlloc`, `AddressSpace`, `Files`, where also every process may wait on a
pipe), in `Kernel` once `hlt` runs with IF off, in `Smp` once the timer has
stopped, and in `Terminal`, whose printing is bounded and whose nested `printk`
never ends.

What the properties say about the code, where it is less than one would hope:

- `ipc.c:31` says "Yield until data is available". `pipe_read` yields with IF
  off; if the scheduler picks the kworker, its `hlt` never ends. This is the
  third way out in `SchedulesForever`.
- `nic_hw.c:9` calls `MMIO_VIRT_BASE` "a safe virtual address", but it is
  `LAPIC_VADDR`: on a machine with an E1000 interprocessor interrupts and EOIs
  go to the card (`AllOnline`, `TicksUnlessNic`, each with a part for either
  machine).
- `nic_main.c:50` says "Enable Receive Timer Interrupt" and calls the bit RXT0,
  but line 51 sets bit 0 of the mask, which is TXDW; RXT0 is bit 7. The driver
  sends nothing, so the card never interrupts. The handler runs only when
  another device on the line does, and then reports one packet although it has
  cleared the causes of all (`ReportsRequested`).
- No pointer a process passes is checked: `read`, `write`, `open` and `pipe`
  follow it in the kernel, and `handle_page_fault` stops the machine. So does
  `alloc_page` when a fork, the stack or `sys_shmget` needs a page and there is
  none (`PanicCause` lists all causes in these calls).
- An AP that is overtaken while it starts shares its stack with the next one. If
  both are in `ap_main` at once, where they go is undefined (`AllOnline` claims
  nothing more then, `LostOnlyIfOvertaken` says that it needs the overtaking).
- `stdout_write` bypasses `console_lock`. `vga.c` compares the row with
  `VGA_HEIGHT` for equality, so a lost race can leave it below the screen, and
  no later character brings it back (`BelowForever`). A process has one page at
  `VGA_MEM`: far enough below, or at column -1 of row 0, a store faults, and in a
  `printk` the fault handler then waits for the lock for ever (`PrintkReturns`
  excludes it, `CursorExact` says that it needs a race).
- A read of an empty pipe whose writers are gone, or of count 0, waits for ever
  (`WaitsForever`).
- `signal.c:58` says "Never returns" of a zombie's `schedule()`, but an exited
  task stays queued and is picked again (`QueuesExact` counts zombies).
- `keyboard.c:91` wants a marker before the code of an arrow key; with one free
  slot the marker is stored and the code dropped (`CodeAfterMarker` is the other
  direction).
- `fork.c:49` prints "(CoW)", but `clone_address_space` copies every page, the
  screen included (`ForkUnshares`).

### Why the bounds are enough

- A ring of 3 (keyboard) or 4 descriptors (NIC, one always unused) is the
  smallest that can be empty, full, wrapped and have room for exactly one of two.
- Four descriptors leave one free, so `sys_pipe` succeeds (after a close), half
  fails and fails. The heap of 3 places holds a pipe and a second process, or
  three files, and runs out in every call that allocates. One page is taken by a
  fork or by a fault, and the next one panics. The theorems of
  `FilesProofs` remove these bounds.
- Three tasks give a queue whose rotation has a middle.
- `Smp` has all the APs that the loop of `smp_boot_apus` addresses.
- Ten frames are exhausted and refilled, with the clamp to `MAX_PHYS_PAGES` in
  force; addresses beyond RAM are freed too. Seven frames let a forked child
  fork, and run out in the middle of every call that allocates.
- A block of two bytes lets a file grow twice and be overwritten by a second
  descriptor; the number of power failures is not bounded.
- A screen of 2 x 2 wraps, scrolls and has a tab stop at its edge within the
  three characters of a system call, and its page of five cells (2048 in the code)
  is left by a race on either side; `Algorithms` uses 3 x 2 and five characters,
  so that a line wraps in the middle of a tab.
- Three interrupts of other devices beyond the packets reported are as many as
  the ring holds packets: enough to empty it, refill it and find it empty.
- Six bytes hold two overlapping areas of three in either order. Paths of eight
  reach `/proc/cpuinfo` (names shortened to one and two letters) with two
  slashes to spare. Two segments of up to two pages may share a page. The PCI
  table of 4 entries is smaller than the number of functions, three buses nest.

### Fairness

- `KernelFairSpec`: the processor goes on executing kernel code, and the timer
  keeps firing while IF is on. No user task is assumed to make a system call;
  where a property needs yielding, it says so as a hypothesis.
- `Keyboard`: the reader's code runs, and the timer interrupts again and again
  (100 Hz), which is what ends a `hlt` entered just after a key arrived.
- `Smp`: every started processor executes, and the timer fires when it may.
- `Terminal`: each context that runs goes on running. No fairness between
  processors competing for the lock is assumed; `PrintkReturns` holds because
  the number of lines is bounded.
- `Sched` has no fairness; `CooperativeTurns` has "schedule() is called again
  and again" as its hypothesis.

## Proofs

| Module | Inductive invariant | Theorems |
|---|---|---|
| `PageAllocProofs` | types, exact count, no free page below the hint, bitmap = kernel and owned pages, panic only when exhausted | the invariants of the run for every memory size; refinement of `PageSet` |
| `KernelProofs`, of `Sched` | `TypeOK`, `QueuesExact`, `ContextLoaded`, `NoSecondTurn` and `RanBehind` | the invariants for any number of tasks and any policies |
| `KernelProofs`, of `Kernel` | that of `Sched` and `FlagInv` | `KernelSpec` implements `SchedSpec`, so queues and context are right in the kernel; `InterruptsLostOnlyInSyscall` |
| `TerminalProofs`, of `Console` | `TypeOK` and `LockInv` | lines never mix, a nested `printk` never ends, for any processors and number of lines |
| `TerminalProofs`, of `Terminal` | that of `Console` and `TInv` | steps of the terminal are steps of the lock or stutters; `LinesWhole`, `CursorExact`, `BelowForever` for any screen |
| `TerminalProofs`, of `Screen` | `PageInv` | `terminal_init` shows the blank page, and `terminal_putchar` keeps the screen a window on the page, for any screen and tab stop |
| `SmpProofs` | `MailboxInv`, `RemappedInv` | `SharedOnlyIfOvertaken`; an AP is lost only if one was overtaken; no AP finds an empty mailbox; with an E1000 no AP starts |
| `FilesProofs` | `StreamInv`: `TableInv`, `ContentInv`, `UseInv`, `WaitInv` | all five properties of the run, for any processes, descriptors, pages, buffer and heap sizes |
| `RelisFsProofs` | `RelisFsInv`: `TypeInv`, `CallInv`, `DiskInv` | `NothingAckedLost`, `UsableUnlessTorn` for any files, block size and number of power failures |
| `AddressSpaceProofs` | `SpaceInv`: `MemoryType`, `UnusedInv`, `SharingInv` | `ForkUnshares`; refinement of `ProcessMemory`, for any processes, frames and shared pages |
| `RingProofs`, of `Keyboard` | `KeyboardInv`: `RingType`, `ReaderInv`, `CodeAfterMarker` | `CodeAfterMarker`; refinement of `BoundedFifo`, for a ring of any size and any keys |
| `RingProofs`, of `Nic` | `NicInv`: `RxType`, `RxInv`; `RequestInv` | refinement of `BoundedFifo`, `ReportsRequested`, for any number of descriptors and any packets |

- *Page allocator.* The scan finds the lowest free page only because no free
  page is below the hint; that fact makes both the panic and the refinement
  correct, and it is inductive only together with the types and the count.
- *Scheduler.* `NoSecondTurn` speaks of a history and is not inductive:
  `RanBehind` adds that every task picked while `t` waits is queued behind `t`.
  Three lemmas say what appending, prepending and rotating do to membership and
  duplicates of a sequence.
- *Kernel.* Each action of `Kernel` is an action of `Sched` or leaves its
  variables alone; the invariant of `Sched` then comes for free. The flag
  needs where each task can be (`FlagInv`): the code a task is in belongs to that
  kind of task, the swapper never runs again once it has scheduled, and with IF
  off the current task is in a system call or not yet started, or another task
  has called `schedule()` from a system call.
- *Console and terminal.* `LockInv` says that the lock is 1 exactly when one
  context holds it, and that an unfinished line belongs to the holder. `TInv`
  adds that only the holder or the system call is inside `terminal_putchar`, that
  two are inside only if `raced`, and where the cursor is for each place in the
  function relative to `expected`. For `BelowForever` a row past the screen can
  only grow, because the value in a register is past it too.
- *Screen.* The page has the text on paper of any length, and `Window` is what
  its last lines look like on a screen. `PageInv` says that nothing is written
  below the line of the cursor: a scroll blanks the last line, which is right only
  because the page is blank there. One lemma for a new line and one for a cell,
  then one case per kind of character.
- *Processor start.* `MailboxInv` says that an AP that has been started and has
  not yet read the mailbox finds a stack there, which is its own unless
  `overtaken`; `RemappedInv` that with an E1000 the LAPIC page is the card's
  before the first interprocessor interrupt.
- *Files.* `TableInv`: every file in a table is below the heap pointer, so a new
  one is in no table; files on the heap in two tables have the same descriptor.
  `ContentInv`: the buffer is the bytes sent, what was received is its part up
  to the read position. `UseInv`: a place of the heap is a pipe or a file of
  `/proc`, never both in turn, and unused above the heap pointer. `WaitInv`: the
  pipe a process waits for has been made, so no later `sys_pipe` makes it anew.
  `PanicCause` follows step by step, since what a panic needs (no room, no page,
  `/proc` in a table, a bad pointer of this call) is still so after it.
  That the lowest free descriptor exists uses the well-foundedness of
  the naturals.
- *relisfs.* Nothing can be said after an error the code drops, so `DiskInv` is
  under `~ignored`. Then all of the disk is durable between two steps, a power
  failure changes nothing on it, and what is acknowledged is within the size in
  the table. The history `possible` makes it inductive: in the step between the
  data and the inode the bytes have their new values already, and their old ones
  are still allowed. The root is usable since the magic number without a root is
  found only during a format.
- *Address spaces.* The frames an allocation returns are numbered upwards from
  `used`, and `clone_address_space` gives the n-th mapped page the n-th of them;
  `RankFacts` and `CloneFacts` say that this is one frame for each page, all of
  them new. `UnusedInv` says that frames not handed out are clear and in no table,
  so a new page has no second owner and no old contents. `SharingInv` says that
  text, stack and whatever came from a fork is in no other table and among no
  one's shared pages, and that everything else is the screen or a page of
  `sys_shmget`. A store through one table is then seen through no other, which
  is the refinement; each action of `AddressSpace` is shown to be the store,
  growth, load or fork of `ProcessMemory`, or a stutter.
- *Rings.* Both rings are arrays with two indices, and the queue they stand for
  is read off from the first index to the second. Lemmas about modular distances
  say what a store at the second index and a step of the first do to that
  sequence (`Append`, `Tail`), for every size. `ReaderInv` is what
  `keyboard_poll` relies on between its accesses: the ring it found non-empty
  stays so, and the character it read is still the oldest, because the handler
  only moves `wp`, and never on to `rp`. `RxInv` says that exactly the descriptors
  between tail and head hold packets, counted from one further while
  the handler has taken a packet and not yet written the tail. For
  `ReportsRequested`, `RequestInv` says that the interrupts of other devices are
  at least the packets reported, plus the edge the LAPIC holds, plus a handler
  that has not reported yet, and that no cause the card sets is enabled.

Assumptions are the named `ASSUME`s on the constants: sizes are naturals, a ring
has at least two places, the kernel image fits in RAM, `Boot` is one of `Cpus` and `Handler` is not, the first
three descriptors exist, the heap has room for the two threads of `start_kernel`,
0 is a value of a byte and -1, which stands for a page that is not there, is not.
TLC evaluates each in a run.

Only model-checked:

- everything under fairness (`CooperativeTurns`, `ReaderServed`,
  `SchedulesForever`, `Returned`, `AllOnline`, `TicksUnlessNic`,
  `PrintkReturns`), which is out of the prover's reach;
- `Algorithms`: what a fold or a recursive function computes needs induction
  over data. For the terminal
  the two halves of the induction are proved (`InitShowsPage`,
  `PutcharShowsPage`), and only the step from one character to a text of any
  length is left to TLC; `FramesMatch` ranges over a finite set of vectors, all of
  which TLC checks.

## Assumptions about the machine

- The timer is on pin 0 of the I/O APIC, as `apic.c` programs it; whether and
  when the interrupt of the NIC is delivered is left open in `Nic`.
- Every C access to a shared variable is a load or a store of its own, in program
  order (the `Makefile` asks for no optimisation), and memory ordering is
  that of x86.
- `arch/gdt.c` contains the markers of an unresolved merge, so the tree as it
  stands does not compile; both sides set up the same segments and the same TSS.
- Each instruction of the AP trampoline is taken to have its effect. (The bug
  list in the repository's `README.md` describes an older trampoline; the source
  now sets `CR0.PE`, the segment registers and the address 0x8000 and disables
  interrupts.)
- APs run on the boot page tables, where all of the low 2 MB is mapped; a process
  has one page of video memory.
- The drive writes a sector whole or not at all.

## Not modelled

- The network stack (`net/`): nothing calls it. The driver passes no packet on
  and no system call sends one. Likewise `vmalloc` (but for `mmap.c`, which has no caller itself), `vfs_write`,
  `load_elf`, `wake_up_process`, the `dequeue_task` callbacks,
  `deliver_signals`, and the copy-on-write branch of `handle_page_fault`.
- `keyboard_getchar` is modelled although nothing in the kernel calls it: it is
  the one reader that halts, and `stdin_read` uses `keyboard_poll` in the same way.
- Straight-line initialisation before anything is concurrent (`arch/entry.asm`,
  GDT, programming of PIT, PIC and UART), message texts and number formatting,
  the colours and the hardware cursor of the screen.
- The stubs in `mm/` and `kernel/sched/` that return a constant.
- Frames of page tables, and the kernel half of an address space: its top-level
  entries all exist before the first user space is built. `Kernel` has no page
  faults, and page contents appear in `AddressSpace` only, one value to a page.
- The sizes of heap blocks: `Files` counts places, one for a file or a task and
  two for a pipe. Likewise it counts pages: a copied address space is one, and
  loading a program is none (both are exact in `AddressSpace`). A pointer into the
  kernel's own memory, through which a call would overwrite it. Path names of 64 characters and more, which do not fit into
  the buffer of `vfs_open`.
- That `sys_execve` reads 4096 bytes of the file at most, through `vfs_read`: `Elf`
  has the whole file.
- What an AP does after its stack was overwritten, and what a store to video memory
  outside the screen overwrites.
- In `RelisFs`, offsets beyond the data block (`relisfs_write` does not check
  them).
- Fairness between the scheduling classes: a real-time task keeps the processor,
  and `CooperativeTurns` excludes it.
