------------------------------- MODULE Kernel ------------------------------
(***************************************************************************)
(* The boot processor running the tasks of Sched: the boot sequence of     *)
(* start_kernel, the kworker's heartbeat loop, user tasks and their system *)
(* calls (int 0x80), the timer and keyboard interrupts, and the interrupt  *)
(* flag, which switch_to neither saves nor restores.  A system call is     *)
(* entered through an interrupt gate and runs with interrupts off until    *)
(* iretq, unless it calls schedule().  The machine has no NIC, so nothing  *)
(* remaps the local APIC (see Smp).                                       *)
(***************************************************************************)
EXTENDS Sched

CONSTANTS MaxInput      \* bound on the characters a buffer holds

ASSUME KernelAssumption ==
  /\ MaxInput \in Nat
  /\ MaxTasks >= 2      \* the heap has room for the threads of start_kernel
  /\ "NORMAL" \in Policies

VARIABLES
  iflag,        \* RFLAGS.IF of the boot processor
  pc,           \* where each task is, or continues when it is switched to
  pending,      \* task_struct.pending_signals
  input         \* characters waiting in the keyboard ring and in a pipe

kernelVars == <<schedVars, iflag, pc, pending, input>>

Sources == {"keyboard", "pipe"}
Signals == {"SIGKILL", "SIGCHLD"}
cur     == pc[current_task]

\* init and kworker are the first two threads start_kernel creates.
InitPid    == 1
KworkerPid == 2

KernelInit ==
  /\ sched_init
  /\ iflag = TRUE
  /\ pc = [t \in Pids |-> IF t = 0 THEN "boot" ELSE "trampoline"]
  /\ pending = [t \in Pids |-> {}]
  /\ input = [s \in Sources |-> 0]

\* The current task moves from one place in its code to another.
Goto(from, to) ==
  /\ cur = from
  /\ pc' = [pc EXCEPT ![current_task] = to]
-----------------------------------------------------------------------------
\* start_kernel creates the two threads with interrupts on, then schedules.
BootThread ==
  /\ cur = "boot"
  /\ next_pid <= KworkerPid
  /\ kernel_thread("NORMAL")
  /\ UNCHANGED <<iflag, pc, pending, input>>

BootSchedule ==
  /\ next_pid > KworkerPid
  /\ Goto("boot", "idle_loop")
  /\ schedule
  /\ UNCHANGED <<iflag, pending, input>>

\* thread_trampoline enables interrupts and calls the thread's function.
KworkerStarts_bug ==
  /\ current_task = KworkerPid
  /\ Goto("trampoline", "heartbeat")
  /\ iflag' = FALSE
  /\ UNCHANGED <<schedVars, pending, input>>

KworkerStarts ==
  /\ current_task = KworkerPid
  /\ Goto("trampoline", "heartbeat")
  /\ iflag' = TRUE
  /\ UNCHANGED <<schedVars, pending, input>>

\* init_task loads the user program and drops to user mode ...
InitStarts ==
  /\ current_task = InitPid
  /\ Goto("trampoline", "user")
  /\ exec
  /\ iflag' = TRUE
  /\ UNCHANGED <<pending, input>>

\* ... or finds no ELF image and returns: a zombie that yields forever.
InitFails ==
  /\ current_task = InitPid
  /\ Goto("trampoline", "dead_loop")
  /\ exit
  /\ iflag' = TRUE
  /\ UNCHANGED <<pending, input>>

DeadLoop ==
  /\ cur = "dead_loop"
  /\ schedule
  /\ UNCHANGED <<iflag, pc, pending, input>>

\* heartbeat_task: hlt, then schedule(), forever.
Halt ==
  /\ Goto("heartbeat", "halted")
  /\ UNCHANGED <<schedVars, iflag, pending, input>>

HeartbeatYield ==
  /\ Goto("yield", "heartbeat")
  /\ schedule
  /\ UNCHANGED <<iflag, pending, input>>
-----------------------------------------------------------------------------
EndHalt_bug == UNCHANGED pc

\* An interrupt is taken only while interrupts are enabled, and ends a hlt.
EndHalt == pc' = [pc EXCEPT ![current_task] = IF @ = "halted" THEN "yield" ELSE @]

TimerIrq ==
  /\ iflag
  /\ scheduler_tick
  /\ EndHalt
  /\ UNCHANGED <<iflag, pending, input>>

KeyboardIrq ==
  /\ iflag
  /\ input.keyboard < MaxInput
  /\ input' = [input EXCEPT !.keyboard = @ + 1]
  /\ EndHalt
  /\ UNCHANGED <<schedVars, iflag, pending>>
-----------------------------------------------------------------------------
\* System calls that run to their end with interrupts off.  Each leaves the
\* task about to execute iretq ("ret").
Syscall == Goto("user", "ret") /\ iflag' = FALSE

\* open, close, writes to the terminal, sigaction, shmget, shmat, unknown
\* numbers, and every call that fails: nothing modelled here changes.
SysOther ==
  /\ Syscall
  /\ UNCHANGED <<schedVars, pending, input>>

SysFork ==
  /\ cur = "user"
  /\ sys_fork
  /\ iflag' = FALSE
  /\ pc' = [pc EXCEPT ![current_task] = "ret", ![next_pid] = "ret"]
  /\ pending' = [pending EXCEPT ![current_task] = @ \cup {"SIGCHLD"}]
  /\ UNCHANGED input

SysExecve ==
  /\ Syscall
  /\ exec
  /\ UNCHANGED <<pending, input>>

SysKill(t) ==
  /\ Syscall
  /\ t \in Tasks
  /\ pending' = [pending EXCEPT ![t] = @ \cup {"SIGKILL"}]
  /\ UNCHANGED <<schedVars, input>>

SysWritePipe ==
  /\ Syscall
  /\ input.pipe < MaxInput
  /\ input' = [input EXCEPT !.pipe = @ + 1]
  /\ UNCHANGED <<schedVars, pending>>

SysExit_bug ==
  /\ Syscall
  /\ state' = [state EXCEPT ![current_task] = "ZOMBIE"]
  /\ UNCHANGED <<queues, context, next_pid, policy, need_resched, cr3, ran, pending, input>>

SysExit ==
  /\ Syscall
  /\ exit
  /\ UNCHANGED <<pending, input>>

\* SYS_READ of standard input or of a pipe: poll, and yield while it is empty.
Reading(s) == IF s = "pipe" THEN "pipe_read" ELSE "stdin_read"

SysRead(s) ==
  /\ Goto("user", Reading(s))
  /\ iflag' = FALSE
  /\ UNCHANGED <<schedVars, pending, input>>

\* A pipe returns what it has; stdin_read goes on until it has its count.
ReadGetsData(s) ==
  /\ input[s] > 0
  /\ \/ Goto(Reading(s), "ret")
     \/ s = "keyboard" /\ Goto(Reading(s), Reading(s))
  /\ input' = [input EXCEPT ![s] = @ - 1]
  /\ UNCHANGED <<schedVars, iflag, pending>>

ReadYields(s) ==
  /\ input[s] = 0
  /\ cur = Reading(s)
  /\ schedule
  /\ UNCHANGED <<iflag, pc, pending, input>>

\* isr_common_return: iretq reloads the user's RFLAGS.  syscall_dispatch has
\* returned from inside its switch, so deliver_signals was not called, and the
\* TIF_NEED_RESCHED flag is not looked at.
IretToUser ==
  /\ Goto("ret", "user")
  /\ iflag' = TRUE
  /\ UNCHANGED <<schedVars, pending, input>>
-----------------------------------------------------------------------------
KernelStep ==
  \/ BootThread \/ BootSchedule
  \/ KworkerStarts \/ InitStarts \/ InitFails
  \/ DeadLoop \/ Halt \/ HeartbeatYield
  \/ \E s \in Sources : ReadGetsData(s) \/ ReadYields(s)
  \/ IretToUser

SyscallStep ==
  \/ SysOther \/ SysFork \/ SysExecve \/ SysWritePipe \/ SysExit
  \/ \E t \in Pids : SysKill(t)
  \/ \E s \in Sources : SysRead(s)

KernelNext == KernelStep \/ SyscallStep \/ TimerIrq \/ KeyboardIrq

KernelSpec == KernelInit /\ [][KernelNext]_kernelVars

\* The CPU executes kernel code without end, and the timer keeps firing.  No
\* user task is assumed to make any system call.
KernelFairSpec ==
  KernelSpec /\ WF_kernelVars(KernelStep) /\ WF_kernelVars(TimerIrq)
-----------------------------------------------------------------------------
\* Boot code, thread loops and system calls drive the scheduler only through
\* the operations of Sched: what is shown for Sched holds in the kernel.
ImplementsSched == SchedSpec

\* User code always runs with interrupts enabled, although switch_to hands on the
\* flag of the task it leaves; and the kworker finds them off only when a task has
\* called schedule() from a system call and not come back: a blocked read, an exit.
InterruptsLostOnlyInSyscall ==
  ~iflag =>
    /\ cur # "user"
    /\ current_task = KworkerPid /\ cur # "trampoline" =>
         \E t \in Tasks \ {0, KworkerPid} :
           pc[t] \in {"stdin_read", "pipe_read"} \/ (state[t] = "ZOMBIE" /\ pc[t] = "ret")

Waiting(t) == pc[t] = "pipe_read" /\ input.pipe > 0

\* As long as tasks keep calling schedule(), a task waiting in pipe_read gets
\* the data that is in the pipe, or another reader takes it first.
ReaderServed ==
  ([]<><<schedule>>_schedVars) => \A t \in Pids : Waiting(t) ~> ~Waiting(t)

\* Two things alone end this: user tasks keep the processor, which nothing can
\* take from them, in user mode or in a read of keys that come as fast as it
\* takes them; or the kworker, switched to from a system call, executes hlt with
\* interrupts off and the processor stops.  No other loop of the kernel (a read
\* of a pipe, a dead thread, the heartbeat) stops scheduling.
SchedulesForever ==
  \/ []<><<schedule>>_schedVars
  \/ []<>(cur \in {"user", "ret", "stdin_read"})
  \/ <>[](cur = "halted" /\ ~iflag)
-----------------------------------------------------------------------------
\* What a comment in the code says, and the code does not do.

\* syscall.c: "Deliver pending signals before returning to user space", so no
\* task is in user mode with a SIGKILL pending.
SigkillBeforeUser == ~(cur = "user" /\ "SIGKILL" \in pending[current_task])
=============================================================================
