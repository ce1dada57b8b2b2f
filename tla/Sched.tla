------------------------------- MODULE Sched -------------------------------
(***************************************************************************)
(* The scheduler core: src/kernel/sched/{core,fair,rt,idle}.c, and the     *)
(* task creation of src/kernel/fork.c.  A task is named by its pid; pid 0  *)
(* is the swapper, which sched_init creates and puts in no run queue.      *)
(* Every operation runs under sched_lock or with interrupts off, on the    *)
(* boot processor, and is one step.  Nothing in the kernel calls           *)
(* dequeue_task or sets TASK_INTERRUPTIBLE, so a task never leaves its     *)
(* queue and wake_up_process never enqueues one.                           *)
(* Operators named ..._bug are seeded faults for the mutation runs.        *)
(***************************************************************************)
EXTENDS Integers, Sequences

CONSTANTS
  MaxTasks,       \* task_structs that fit in the kernel heap, bar the swapper
  Policies        \* the policies kernel_thread is called with

ASSUME SchedAssumption ==
  /\ MaxTasks \in Nat
  /\ Policies \subseteq {"NORMAL", "FIFO", "RR"}

VARIABLES
  cfs_queue,      \* runqueues.cfs_queue, head first
  rt_queue,       \* runqueues.rt_queue, head first
  nr_running,
  current_task,
  next_pid,       \* the tasks of global_tasks are 0 .. next_pid - 1
  state,          \* task_struct.state
  policy,         \* task_struct.policy
  need_resched,   \* TIF_NEED_RESCHED in task_struct.flags
  cr3,            \* task_struct.cr3: 0 the boot tables, t the own tables of t
  cr3_reg,        \* the CPU's CR3
  tss_rsp0,       \* the task whose kernel stack the TSS names
  ran             \* history: the fair tasks picked while this one waits

queues    == <<cfs_queue, rt_queue, nr_running>>
context   == <<current_task, cr3_reg, tss_rsp0>>
schedVars == <<queues, context, next_pid, state, policy, need_resched, cr3, ran>>

Pids  == 0 .. MaxTasks
IntrStack == -1   \* the stack gdt_init put in the TSS
Tasks == 0 .. next_pid - 1

InQueue(q, t) == \E i \in DOMAIN q : q[i] = t

sched_init ==
  /\ cfs_queue = << >>
  /\ rt_queue = << >>
  /\ nr_running = 0
  /\ current_task = 0
  /\ next_pid = 1
  /\ state = [t \in Pids |-> "RUNNING"]
  /\ policy = [t \in Pids |-> "NORMAL"]
  /\ need_resched = [t \in Pids |-> FALSE]
  /\ cr3 = [t \in Pids |-> 0]
  /\ cr3_reg = 0
  /\ tss_rsp0 = IntrStack
  /\ ran = [t \in Pids |-> << >>]
-----------------------------------------------------------------------------
\* At the tail: fair tasks run in the order they were created.
enqueue_task_fair(p) ==
  /\ cfs_queue' = Append(cfs_queue, p)
  /\ UNCHANGED rt_queue

\* At the head.
enqueue_task_rt(p) ==
  /\ rt_queue' = <<p>> \o rt_queue
  /\ UNCHANGED cfs_queue

enqueue_task(p, pol) ==
  IF pol = "NORMAL" THEN enqueue_task_fair(p) ELSE enqueue_task_rt(p)

\* The new task is linked into the queue of its class and into global_tasks.
\* When the heap has no room for a task_struct the call fails, changing nothing.
NewTask(pol) ==
  /\ next_pid <= MaxTasks
  /\ enqueue_task(next_pid, pol)
  /\ nr_running' = nr_running + 1
  /\ next_pid' = next_pid + 1
  /\ policy' = [policy EXCEPT ![next_pid] = pol]
  /\ UNCHANGED <<context, state, ran>>

kernel_thread(pol) ==
  /\ NewTask(pol)
  /\ cr3' = [cr3 EXCEPT ![next_pid] = cr3_reg]
  /\ UNCHANGED need_resched

\* fork copies the parent's task_struct, flags included, then clones its
\* address space.
sys_fork ==
  /\ cr3[current_task] # 0
  /\ NewTask(policy[current_task])
  /\ cr3' = [cr3 EXCEPT ![next_pid] = next_pid]
  /\ need_resched' = [need_resched EXCEPT ![next_pid] = need_resched[current_task]]

\* execve and exec_user_program replace the address space of the caller.
exec ==
  /\ current_task # 0
  /\ cr3' = [cr3 EXCEPT ![current_task] = current_task]
  /\ cr3_reg' = current_task
  /\ UNCHANGED <<queues, current_task, tss_rsp0, next_pid, state, policy,
                 need_resched, ran>>

task_tick(t) == t = 0 \/ policy[t] # "FIFO"

\* The tick never preempts: it only sets the flag, and not for SCHED_FIFO.
scheduler_tick ==
  /\ need_resched' = [need_resched EXCEPT ![current_task] = @ \/ task_tick(current_task)]
  /\ UNCHANGED <<queues, context, next_pid, state, policy, cr3, ran>>
-----------------------------------------------------------------------------
PickNext ==
  IF rt_queue # << >> THEN Head(rt_queue)
  ELSE IF cfs_queue # << >> THEN Head(cfs_queue)
  ELSE current_task

Rotated_bug == cfs_queue

Rotated_lost_bug == Tail(cfs_queue)

Rotated == Append(Tail(cfs_queue), Head(cfs_queue))

RotateFair_bug == UNCHANGED <<cfs_queue, ran>>

\* pick_next_task_fair moves the task it picks to the back of the queue.
RotateFair ==
  IF rt_queue = << >> /\ cfs_queue # << >>
  THEN /\ cfs_queue' = Rotated
       /\ ran' = [t \in Pids |-> IF InQueue(Tail(cfs_queue), t)
                                 THEN Append(ran[t], Head(cfs_queue)) ELSE << >>]
  ELSE UNCHANGED <<cfs_queue, ran>>

SwitchTo_bug(next) ==
  /\ current_task' = next
  /\ cr3_reg' = IF cr3[next] # 0 THEN cr3[next] ELSE cr3_reg
  /\ tss_rsp0' = next
  /\ UNCHANGED need_resched

SwitchTo(next) ==
  /\ current_task' = next
  /\ cr3_reg' = cr3[next]
  /\ tss_rsp0' = next
  /\ UNCHANGED need_resched

StayOn(t) ==
  /\ need_resched' = [need_resched EXCEPT ![t] = FALSE]
  /\ UNCHANGED context

\* __schedule: only the branch that keeps the current task clears the flag.
PickAndSwitch ==
  /\ RotateFair
  /\ IF PickNext = current_task THEN StayOn(current_task) ELSE SwitchTo(PickNext)
  /\ UNCHANGED <<rt_queue, nr_running, next_pid, policy, cr3>>

schedule == PickAndSwitch /\ UNCHANGED state

\* SYS_EXIT, and a kernel thread whose function returned: the task becomes a
\* zombie, stays in its run queue, and calls schedule().
exit ==
  /\ current_task # 0
  /\ state' = [state EXCEPT ![current_task] = "ZOMBIE"]
  /\ PickAndSwitch

SchedNext ==
  \/ \E pol \in Policies : kernel_thread(pol)
  \/ sys_fork
  \/ exec
  \/ scheduler_tick
  \/ schedule
  \/ exit

SchedSpec == sched_init /\ [][SchedNext]_schedVars
-----------------------------------------------------------------------------
\* Type invariant of the scheduler's variables.
TypeOK ==
  /\ cfs_queue \in Seq(Pids)
  /\ rt_queue \in Seq(Pids)
  /\ nr_running \in Nat
  /\ next_pid \in 1 .. MaxTasks + 1
  /\ current_task \in Tasks
  /\ state \in [Pids -> {"RUNNING", "ZOMBIE"}]
  /\ policy \in [Pids -> {"NORMAL", "FIFO", "RR"}]
  /\ need_resched \in [Pids -> BOOLEAN]
  /\ cr3 \in [Pids -> Pids]
  /\ cr3_reg \in Pids
  /\ tss_rsp0 \in Pids \cup {IntrStack}
  /\ ran \in [Pids -> Seq(Pids)]

NoDuplicate(q) == \A i, j \in DOMAIN q : q[i] = q[j] => i = j

\* Every task but the swapper is linked exactly once into the queue of its
\* class and into no other, from its creation on, and nr_running counts them:
\* no rotation, head insertion or fork loses a task or links it twice.
QueuesExact ==
  /\ NoDuplicate(cfs_queue) /\ NoDuplicate(rt_queue)
  /\ \A t \in Pids :
       /\ InQueue(cfs_queue, t) <=> t \in Tasks \ {0} /\ policy[t] = "NORMAL"
       /\ InQueue(rt_queue, t) <=> t \in Tasks \ {0} /\ policy[t] # "NORMAL"
  /\ nr_running = Len(cfs_queue) + Len(rt_queue)

\* The CPU runs on the page tables of the current task, and an interrupt from
\* user mode lands on the current task's own kernel stack, after any sequence
\* of forks, execs and switches.
ContextLoaded ==
  /\ cr3_reg = cr3[current_task]
  /\ current_task # 0 => tss_rsp0 = current_task

\* "Rotate the queue: move the picked task to the back so others get a turn":
\* the fair class never picks a task twice while another one is waiting.
NoSecondTurn == \A t \in Pids : NoDuplicate(ran[t])

\* If tasks keep calling schedule() and no real-time task exists, every fair
\* task keeps getting the CPU, however many are forked meanwhile.
CooperativeTurns ==
  \A t \in Pids \ {0} :
    ([]<><<schedule>>_schedVars) =>
      [](InQueue(cfs_queue, t) => <>(current_task = t \/ rt_queue # << >>))
=============================================================================
