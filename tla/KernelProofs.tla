---------------------------- MODULE KernelProofs ---------------------------
(***************************************************************************)
(* Proofs about the scheduler and the kernel for every number of tasks.    *)
(* First Sched, with every set of policies: queues, context and turns.     *)
(* Then Kernel: it drives the scheduler only through its operations, and   *)
(* where interrupts are off.                                               *)
(***************************************************************************)
EXTENDS Kernel, TLAPS

\* The tasks picked while t waits are behind t in the queue, and a task that
\* is not in the fair queue has no history.
RanBehind ==
  /\ \A t \in Pids : ~InQueue(cfs_queue, t) => ran[t] = << >>
  /\ \A i \in DOMAIN cfs_queue : \A k \in DOMAIN ran[cfs_queue[i]] :
       \E j \in DOMAIN cfs_queue : j > i /\ cfs_queue[j] = ran[cfs_queue[i]][k]

\* The inductive invariant.  That the picked task is an existing one needs the
\* queues to be exact, and that it is picked only once needs RanBehind.
IInv ==
  /\ TypeOK
  /\ QueuesExact
  /\ ContextLoaded
  /\ RanBehind
  /\ NoSecondTurn
-----------------------------------------------------------------------------
\* list_add_tail of a task that is not in the queue.
LEMMA AppendQueue ==
  ASSUME NEW S, NEW q \in Seq(S), NEW x \in S
  PROVE  /\ Append(q, x) \in Seq(S)
         /\ Len(Append(q, x)) = Len(q) + 1
         /\ \A t : InQueue(Append(q, x), t) <=> InQueue(q, t) \/ t = x
         /\ NoDuplicate(q) /\ ~InQueue(q, x) => NoDuplicate(Append(q, x))
<1> DEFINE r == Append(q, x)
<1>1. /\ r \in Seq(S)
      /\ Len(r) = Len(q) + 1
      /\ DOMAIN r = 1 .. Len(q) + 1
      /\ DOMAIN q = 1 .. Len(q)
      /\ Len(q) \in Nat
      /\ \A i \in 1 .. Len(q) : r[i] = q[i]
      /\ r[Len(q) + 1] = x
  OBVIOUS
<1> HIDE DEF r
<1>2. \A t : InQueue(r, t) <=> InQueue(q, t) \/ t = x
  BY <1>1 DEF InQueue
<1>3. NoDuplicate(q) /\ ~InQueue(q, x) => NoDuplicate(r)
  BY <1>1 DEF InQueue, NoDuplicate
<1> QED
  BY <1>1, <1>2, <1>3 DEF r

\* list_add (at the head) of a task that is not in the queue.
LEMMA PrependQueue ==
  ASSUME NEW S, NEW q \in Seq(S), NEW x \in S
  PROVE  /\ <<x>> \o q \in Seq(S)
         /\ Len(<<x>> \o q) = Len(q) + 1
         /\ \A t : InQueue(<<x>> \o q, t) <=> InQueue(q, t) \/ t = x
         /\ NoDuplicate(q) /\ ~InQueue(q, x) => NoDuplicate(<<x>> \o q)
<1> DEFINE r == <<x>> \o q
<1>1. /\ r \in Seq(S)
      /\ Len(r) = Len(q) + 1
      /\ DOMAIN r = 1 .. Len(q) + 1
      /\ DOMAIN q = 1 .. Len(q)
      /\ Len(q) \in Nat
      /\ \A i \in 1 .. Len(q) : r[i + 1] = q[i]
      /\ r[1] = x
  OBVIOUS
<1> HIDE DEF r
<1>2. \A i \in 2 .. Len(q) + 1 : i - 1 \in 1 .. Len(q) /\ r[i] = q[i - 1]
  BY <1>1
<1>3. \A t : InQueue(r, t) <=> InQueue(q, t) \/ t = x
  <2> SUFFICES ASSUME NEW t PROVE InQueue(r, t) <=> InQueue(q, t) \/ t = x
    OBVIOUS
  <2>1. ASSUME InQueue(r, t), t # x PROVE InQueue(q, t)
    <3>1. PICK i \in 1 .. Len(q) + 1 : r[i] = t
      BY <1>1, <2>1 DEF InQueue
    <3>2. i \in 2 .. Len(q) + 1
      BY <1>1, <2>1, <3>1
    <3>3. i - 1 \in DOMAIN q /\ q[i - 1] = t
      BY <1>1, <1>2, <3>1, <3>2
    <3> QED
      BY <3>3 DEF InQueue
  <2>2. ASSUME InQueue(q, t) PROVE InQueue(r, t)
    <3>1. PICK i \in 1 .. Len(q) : q[i] = t
      BY <1>1, <2>2 DEF InQueue
    <3>2. i + 1 \in DOMAIN r /\ r[i + 1] = t
      BY <1>1, <3>1
    <3> QED
      BY <3>2 DEF InQueue
  <2>3. InQueue(r, x)
    BY <1>1 DEF InQueue
  <2> QED
    BY <2>1, <2>2, <2>3
<1>4. NoDuplicate(q) /\ ~InQueue(q, x) => NoDuplicate(r)
  <2> SUFFICES ASSUME NoDuplicate(q), ~InQueue(q, x),
                      NEW i \in DOMAIN r, NEW j \in DOMAIN r, r[i] = r[j]
               PROVE  i = j
    BY DEF NoDuplicate
  <2>1. ASSUME NEW k \in 2 .. Len(q) + 1 PROVE r[k] # x
    <3>1. k - 1 \in DOMAIN q /\ r[k] = q[k - 1]
      BY <1>1, <1>2
    <3> QED
      BY <3>1 DEF InQueue
  <2>2. i \in 1 .. Len(q) + 1 /\ j \in 1 .. Len(q) + 1
    BY <1>1
  <2>3. CASE i = 1 \/ j = 1
    BY <1>1, <2>1, <2>2, <2>3
  <2>4. CASE i # 1 /\ j # 1
    <3>1. i \in 2 .. Len(q) + 1 /\ j \in 2 .. Len(q) + 1
      BY <1>1, <2>2, <2>4
    <3>2. q[i - 1] = q[j - 1] /\ i - 1 \in DOMAIN q /\ j - 1 \in DOMAIN q
      BY <1>1, <1>2, <3>1
    <3>3. i - 1 = j - 1
      BY <3>2 DEF NoDuplicate
    <3> QED
      BY <3>1, <3>3
  <2> QED
    BY <2>3, <2>4
<1> QED
  BY <1>1, <1>3, <1>4 DEF r

\* The rotation of pick_next_task_fair: list_del of the head, list_add_tail.
LEMMA RotateQueue ==
  ASSUME NEW S, NEW q \in Seq(S), q # << >>
  PROVE  LET r == Append(Tail(q), Head(q)) IN
         /\ r \in Seq(S)
         /\ Len(r) = Len(q)
         /\ DOMAIN r = DOMAIN q
         /\ \A i \in 1 .. Len(q) - 1 : r[i] = q[i + 1]
         /\ r[Len(q)] = q[1]
         /\ \A t : InQueue(r, t) <=> InQueue(q, t)
         /\ NoDuplicate(q) => NoDuplicate(r)
<1> DEFINE r == Append(Tail(q), Head(q))
<1>1. /\ r \in Seq(S)
      /\ Len(q) \in Nat \ {0}
      /\ Len(r) = Len(q)
      /\ DOMAIN r = 1 .. Len(q)
      /\ DOMAIN q = 1 .. Len(q)
      /\ \A i \in 1 .. Len(q) - 1 : r[i] = q[i + 1]
      /\ r[Len(q)] = q[1]
  OBVIOUS
<1> HIDE DEF r
<1>2. \A t : InQueue(r, t) <=> InQueue(q, t)
  <2> SUFFICES ASSUME NEW t PROVE InQueue(r, t) <=> InQueue(q, t)
    OBVIOUS
  <2>1. ASSUME NEW i \in DOMAIN r, r[i] = t PROVE InQueue(q, t)
    <3>1. CASE i = Len(q)
      BY <1>1, <2>1, <3>1 DEF InQueue
    <3>2. CASE i # Len(q)
      <4>1. i + 1 \in DOMAIN q /\ q[i + 1] = t
        BY <1>1, <2>1, <3>2
      <4> QED
        BY <4>1 DEF InQueue
    <3> QED
      BY <3>1, <3>2
  <2>2. ASSUME NEW i \in DOMAIN q, q[i] = t PROVE InQueue(r, t)
    <3>1. CASE i = 1
      BY <1>1, <2>2, <3>1 DEF InQueue
    <3>2. CASE i # 1
      <4>1. i - 1 \in DOMAIN r /\ r[i - 1] = t
        BY <1>1, <2>2, <3>2
      <4> QED
        BY <4>1 DEF InQueue
    <3> QED
      BY <3>1, <3>2
  <2> QED
    BY <2>1, <2>2 DEF InQueue
<1>3. NoDuplicate(q) => NoDuplicate(r)
  <2> SUFFICES ASSUME NoDuplicate(q),
                      NEW i \in DOMAIN r, NEW j \in DOMAIN r, r[i] = r[j]
               PROVE  i = j
    BY DEF NoDuplicate
  <2> DEFINE at(k) == IF k = Len(q) THEN 1 ELSE k + 1
  <2>1. \A k \in DOMAIN r : at(k) \in DOMAIN q /\ r[k] = q[at(k)]
    BY <1>1
  <2>2. at(i) = at(j)
    <3> HIDE DEF at
    <3> QED
      BY <2>1 DEF NoDuplicate
  <2> QED
    BY <1>1, <2>2
<1> QED
  BY <1>1, <1>2, <1>3 DEF r
-----------------------------------------------------------------------------
LEMMA InitInv == sched_init => IInv
<1> SUFFICES ASSUME sched_init PROVE IInv
  OBVIOUS
<1> USE SchedAssumption DEF sched_init, Pids, Tasks, IntrStack
<1>1. TypeOK
  BY DEF TypeOK
<1>2. QueuesExact
  BY DEF QueuesExact, InQueue, NoDuplicate
<1>3. ContextLoaded
  BY DEF ContextLoaded
<1>4. RanBehind /\ NoSecondTurn
  BY DEF RanBehind, NoSecondTurn, NoDuplicate
<1> QED
  BY <1>1, <1>2, <1>3, <1>4 DEF IInv

\* Facts about the task that NewTask creates and the queue it goes to.
LEMMA NewTaskInv ==
  ASSUME IInv, NEW pol \in {"NORMAL", "FIFO", "RR"}, NewTask(pol)
  PROVE  /\ cfs_queue' \in Seq(Pids) /\ rt_queue' \in Seq(Pids)
         /\ nr_running' \in Nat
         /\ next_pid' \in 1 .. MaxTasks + 1
         /\ current_task' \in Tasks'
         /\ policy' \in [Pids -> {"NORMAL", "FIFO", "RR"}]
         /\ QueuesExact'
         /\ RanBehind'
         /\ NoSecondTurn'
<1> DEFINE p == next_pid
<1>0. TypeOK /\ QueuesExact /\ RanBehind /\ NoSecondTurn
  BY DEF IInv
<1>1. /\ p \in Pids /\ p # 0 /\ p \in Nat
      /\ next_pid' \in 1 .. MaxTasks + 1
      /\ Tasks' = Tasks \cup {p} /\ p \notin Tasks
      /\ policy' = [policy EXCEPT ![p] = pol]
      /\ policy' \in [Pids -> {"NORMAL", "FIFO", "RR"}]
      /\ current_task' \in Tasks'
      /\ ran' = ran
  <2>1. /\ p \in 1 .. MaxTasks + 1 /\ p <= MaxTasks /\ next_pid' = p + 1
        /\ current_task \in Tasks /\ current_task' = current_task
        /\ policy \in [Pids -> {"NORMAL", "FIFO", "RR"}]
        /\ policy' = [policy EXCEPT ![p] = pol]
        /\ ran' = ran
    BY <1>0 DEF TypeOK, NewTask, context
  <2>2. /\ p \in Pids /\ p # 0 /\ p \in Nat
        /\ next_pid' \in 1 .. MaxTasks + 1
        /\ Tasks' = Tasks \cup {p} /\ p \notin Tasks
    BY <2>1, SchedAssumption DEF Pids, Tasks
  <2> QED
    BY <2>1, <2>2
<1>2. ~InQueue(cfs_queue, p) /\ ~InQueue(rt_queue, p)
  BY <1>0, <1>1 DEF QueuesExact
<1>3. /\ cfs_queue \in Seq(Pids) /\ rt_queue \in Seq(Pids)
      /\ NoDuplicate(cfs_queue) /\ NoDuplicate(rt_queue)
      /\ Len(cfs_queue) \in Nat /\ Len(rt_queue) \in Nat
      /\ nr_running = Len(cfs_queue) + Len(rt_queue)
      /\ nr_running' = nr_running + 1
      /\ nr_running' \in Nat
  <2>1. cfs_queue \in Seq(Pids) /\ rt_queue \in Seq(Pids) /\ nr_running \in Nat
    BY <1>0 DEF TypeOK
  <2>2. NoDuplicate(cfs_queue) /\ NoDuplicate(rt_queue)
        /\ nr_running = Len(cfs_queue) + Len(rt_queue)
    BY <1>0 DEF QueuesExact
  <2>3. nr_running' = nr_running + 1
    BY DEF NewTask
  <2> QED
    BY <2>1, <2>2, <2>3
<1>4. CASE pol = "NORMAL"
  <2>1. cfs_queue' = Append(cfs_queue, p) /\ rt_queue' = rt_queue
    BY <1>4 DEF NewTask, enqueue_task, enqueue_task_fair
  <2>2. /\ cfs_queue' \in Seq(Pids)
        /\ Len(cfs_queue') = Len(cfs_queue) + 1
        /\ \A t : InQueue(cfs_queue', t) <=> InQueue(cfs_queue, t) \/ t = p
        /\ NoDuplicate(cfs_queue')
    BY <1>1, <1>2, <1>3, <2>1, AppendQueue
  <2>3. QueuesExact'
    <3>1. ASSUME NEW t \in Pids
          PROVE  /\ InQueue(cfs_queue', t) <=> t \in Tasks' \ {0} /\ policy'[t] = "NORMAL"
                 /\ InQueue(rt_queue', t) <=> t \in Tasks' \ {0} /\ policy'[t] # "NORMAL"
      BY <1>1, <1>2, <1>0, <1>4, <2>1, <2>2 DEF TypeOK, QueuesExact
    <3> QED
      BY <1>3, <2>1, <2>2, <3>1 DEF QueuesExact
  <2>4. RanBehind'
    <3>1. ASSUME NEW t \in Pids, ~InQueue(cfs_queue', t) PROVE ran'[t] = << >>
      BY <1>0, <1>1, <2>2, <3>1 DEF RanBehind
    <3>2. ASSUME NEW i \in DOMAIN cfs_queue', NEW k \in DOMAIN ran'[cfs_queue'[i]]
          PROVE  \E j \in DOMAIN cfs_queue' : j > i /\ cfs_queue'[j] = ran'[cfs_queue'[i]][k]
      <4>1. /\ DOMAIN cfs_queue' = 1 .. Len(cfs_queue) + 1
            /\ DOMAIN cfs_queue = 1 .. Len(cfs_queue)
            /\ \A j \in 1 .. Len(cfs_queue) : cfs_queue'[j] = cfs_queue[j]
            /\ cfs_queue'[Len(cfs_queue) + 1] = p
        BY <1>1, <1>3, <2>1
      <4>2. ran[p] = << >>
        BY <1>0, <1>1, <1>2 DEF RanBehind
      <4>3. i \in 1 .. Len(cfs_queue)
        BY <1>1, <1>3, <3>2, <4>1, <4>2
      <4>4. k \in DOMAIN ran[cfs_queue[i]]
        BY <1>1, <3>2, <4>1, <4>3
      <4>5. PICK j \in DOMAIN cfs_queue : j > i /\ cfs_queue[j] = ran[cfs_queue[i]][k]
        BY <1>0, <4>1, <4>3, <4>4 DEF RanBehind
      <4> QED
        BY <1>1, <1>3, <4>1, <4>3, <4>5
    <3> QED
      BY <3>1, <3>2 DEF RanBehind
  <2> QED
    BY <1>0, <1>1, <1>3, <2>1, <2>2, <2>3, <2>4 DEF NoSecondTurn
<1>5. CASE pol # "NORMAL"
  <2>1. rt_queue' = <<p>> \o rt_queue /\ cfs_queue' = cfs_queue
    BY <1>5 DEF NewTask, enqueue_task, enqueue_task_rt
  <2>2. /\ rt_queue' \in Seq(Pids)
        /\ Len(rt_queue') = Len(rt_queue) + 1
        /\ \A t : InQueue(rt_queue', t) <=> InQueue(rt_queue, t) \/ t = p
        /\ NoDuplicate(rt_queue')
    BY <1>1, <1>2, <1>3, <2>1, PrependQueue
  <2>3. QueuesExact'
    <3>1. ASSUME NEW t \in Pids
          PROVE  /\ InQueue(cfs_queue', t) <=> t \in Tasks' \ {0} /\ policy'[t] = "NORMAL"
                 /\ InQueue(rt_queue', t) <=> t \in Tasks' \ {0} /\ policy'[t] # "NORMAL"
      BY <1>1, <1>2, <1>0, <1>5, <2>1, <2>2 DEF TypeOK, QueuesExact
    <3> QED
      BY <1>3, <2>1, <2>2, <3>1 DEF QueuesExact
  <2>4. RanBehind'
    BY <1>0, <1>1, <2>1 DEF RanBehind
  <2> QED
    BY <1>0, <1>1, <1>3, <2>1, <2>2, <2>3, <2>4 DEF NoSecondTurn
<1> QED
  BY <1>4, <1>5

\* The rotation moves every waiting task one place forward, and the picked
\* task, which no history holds, behind all of them.
LEMMA RotateInv ==
  ASSUME IInv, RotateFair, UNCHANGED <<rt_queue, nr_running, next_pid, policy>>
  PROVE  /\ cfs_queue' \in Seq(Pids)
         /\ ran' \in [Pids -> Seq(Pids)]
         /\ QueuesExact'
         /\ RanBehind'
         /\ NoSecondTurn'
<1>0. TypeOK /\ QueuesExact /\ RanBehind /\ NoSecondTurn
  BY DEF IInv
<1>1. /\ cfs_queue \in Seq(Pids) /\ rt_queue \in Seq(Pids)
      /\ ran \in [Pids -> Seq(Pids)]
  BY <1>0 DEF TypeOK
<1>2. CASE UNCHANGED <<cfs_queue, ran>>
  <2>1. Tasks' = Tasks
    BY DEF Tasks
  <2> QED
    BY <1>0, <1>1, <1>2, <2>1 DEF QueuesExact, RanBehind, NoSecondTurn
<1>3. CASE rt_queue = << >> /\ cfs_queue # << >>
  <2> DEFINE q == cfs_queue
             n == Len(q)
             first == Head(q)
             waits(t) == InQueue(Tail(q), t)
  <2>1. /\ q' = Append(Tail(q), Head(q))
        /\ ran' = [t \in Pids |-> IF waits(t) THEN Append(ran[t], first) ELSE << >>]
    BY <1>3 DEF RotateFair, Rotated
  <2>2. /\ q' \in Seq(Pids) /\ Len(q') = n /\ DOMAIN q' = DOMAIN q
        /\ \A i \in 1 .. n - 1 : q'[i] = q[i + 1]
        /\ q'[n] = q[1]
        /\ \A t : InQueue(q', t) <=> InQueue(q, t)
        /\ NoDuplicate(q')
    BY <1>0, <1>1, <1>3, <2>1, RotateQueue DEF QueuesExact
  <2>3. /\ n \in Nat \ {0} /\ DOMAIN q = 1 .. n
        /\ first = q[1] /\ first \in Pids
        /\ DOMAIN Tail(q) = 1 .. n - 1
        /\ \A i \in 1 .. n - 1 : Tail(q)[i] = q[i + 1]
        /\ \A i \in 1 .. n : q[i] \in Pids
    BY <1>1, <1>3
  <2>4. QueuesExact'
    <3>1. Tasks' = Tasks
      BY DEF Tasks
    <3> QED
      BY <1>0, <2>2, <3>1 DEF QueuesExact
  <2>5. ran' \in [Pids -> Seq(Pids)]
    BY <1>1, <2>1, <2>3
  <2>6. \A i \in 1 .. n : waits(q[i]) <=> i # 1
    <3> SUFFICES ASSUME NEW i \in 1 .. n PROVE waits(q[i]) <=> i # 1
      OBVIOUS
    <3>1. ASSUME i # 1 PROVE waits(q[i])
      <4>1. i - 1 \in 1 .. n - 1 /\ Tail(q)[i - 1] = q[i]
        BY <2>3, <3>1
      <4> QED
        BY <2>3, <4>1 DEF InQueue
    <3>2. ASSUME i = 1, waits(q[i]) PROVE FALSE
      <4>1. PICK j \in 1 .. n - 1 : Tail(q)[j] = q[1]
        BY <2>3, <3>2 DEF InQueue
      <4>2. j + 1 \in 1 .. n /\ q[j + 1] = q[1] /\ 1 \in 1 .. n
        BY <2>3, <4>1
      <4>3. j + 1 = 1
        BY <1>0, <2>3, <4>2 DEF QueuesExact, NoDuplicate
      <4> QED
        BY <2>3, <4>1, <4>3
    <3> QED
      BY <3>1, <3>2
  <2>7. ASSUME NEW t \in Pids, ~InQueue(q', t) PROVE ran'[t] = << >>
    <3>1. ~waits(t)
      <4> SUFFICES ASSUME waits(t) PROVE FALSE
        OBVIOUS
      <4>1. PICK j \in 1 .. n - 1 : Tail(q)[j] = t
        BY <2>3 DEF InQueue
      <4>2. j + 1 \in DOMAIN q /\ q[j + 1] = t
        BY <2>3, <4>1
      <4> QED
        BY <2>2, <2>7, <4>2 DEF InQueue
    <3> QED
      BY <2>1, <3>1
  \* The history of a waiting task, and where its entries are.
  <2>8. ASSUME NEW i \in 1 .. n - 1
        PROVE  LET h == ran[q[i + 1]] IN
               /\ ran'[q'[i]] = Append(h, first)
               /\ h \in Seq(Pids)
               /\ \A k \in 1 .. Len(h) :
                    \E j \in 1 .. n : j > i + 1 /\ q[j] = h[k]
               /\ \A k \in 1 .. Len(h) : h[k] # first
    <3> DEFINE h == ran[q[i + 1]]
    <3>1. i + 1 \in 1 .. n /\ i + 1 # 1 /\ q'[i] = q[i + 1] /\ q[i + 1] \in Pids
      BY <2>2, <2>3
    <3>2. ran'[q'[i]] = Append(h, first) /\ h \in Seq(Pids)
      BY <1>1, <2>1, <2>6, <3>1
    <3>3. DOMAIN h = 1 .. Len(h)
      BY <3>2
    <3>4. \A k \in 1 .. Len(h) : \E j \in 1 .. n : j > i + 1 /\ q[j] = h[k]
      <4>1. \A k \in DOMAIN h : \E j \in DOMAIN q : j > i + 1 /\ q[j] = h[k]
        BY <1>0, <2>3, <3>1 DEF RanBehind
      <4> QED
        BY <2>3, <3>3, <4>1
    <3>5. ASSUME NEW k \in 1 .. Len(h), h[k] = first PROVE FALSE
      <4>1. PICK j \in 1 .. n : j > i + 1 /\ q[j] = h[k]
        BY <3>4
      <4>2. q[j] = q[1] /\ 1 \in 1 .. n
        BY <2>3, <3>5, <4>1
      <4>3. j = 1
        BY <1>0, <2>3, <4>2 DEF QueuesExact, NoDuplicate
      <4> QED
        BY <2>3, <4>1, <4>3
    <3> QED
      BY <3>2, <3>4, <3>5
  <2>9. ran'[q'[n]] = << >>
    BY <2>1, <2>2, <2>3, <2>6
  <2>10. ASSUME NEW i \in DOMAIN q', NEW k \in DOMAIN ran'[q'[i]]
         PROVE  \E j \in DOMAIN q' : j > i /\ q'[j] = ran'[q'[i]][k]
    <3>1. i \in 1 .. n - 1
      BY <2>2, <2>3, <2>9, <2>10
    <3> DEFINE h == ran[q[i + 1]]
    <3>2. /\ ran'[q'[i]] = Append(h, first) /\ h \in Seq(Pids)
          /\ \A m \in 1 .. Len(h) : \E j \in 1 .. n : j > i + 1 /\ q[j] = h[m]
      BY <2>8, <3>1
    <3>3. CASE k \in 1 .. Len(h)
      <4>1. ran'[q'[i]][k] = h[k]
        BY <2>3, <3>2, <3>3
      <4>2. PICK j \in 1 .. n : j > i + 1 /\ q[j] = h[k]
        BY <3>2, <3>3
      <4>3. j - 1 \in 1 .. n - 1 /\ j - 1 > i /\ q'[j - 1] = q[j]
        BY <2>2, <2>3, <3>1, <4>2
      <4>4. j - 1 \in DOMAIN q'
        BY <2>2, <2>3, <4>3
      <4> QED
        BY <4>1, <4>2, <4>3, <4>4
    <3>4. CASE k \notin 1 .. Len(h)
      <4>1. ran'[q'[i]][k] = first
        BY <2>3, <2>10, <3>2, <3>4
      <4>2. n \in DOMAIN q' /\ n > i /\ q'[n] = first
        BY <2>2, <2>3, <3>1
      <4> QED
        BY <4>1, <4>2
    <3> QED
      BY <3>3, <3>4
  <2>11. RanBehind'
    BY <2>7, <2>10 DEF RanBehind
  <2>12. ASSUME NEW t \in Pids PROVE NoDuplicate(ran'[t])
    <3>1. CASE ~waits(t)
      <4>1. ran'[t] = << >>
        BY <2>1, <3>1
      <4> QED
        BY <4>1 DEF NoDuplicate
    <3>2. CASE waits(t)
      <4>1. PICK i \in 1 .. n - 1 : Tail(q)[i] = t
        BY <2>3, <3>2 DEF InQueue
      <4>2. q[i + 1] = t /\ q'[i] = t
        BY <2>2, <2>3, <4>1
      <4>3. /\ ran'[t] = Append(ran[t], first)
            /\ ran[t] \in Seq(Pids)
            /\ \A k \in 1 .. Len(ran[t]) : ran[t][k] # first
        BY <2>8, <4>1, <4>2
      <4>4. NoDuplicate(ran[t]) /\ ~InQueue(ran[t], first)
        BY <1>0, <4>3 DEF NoSecondTurn, InQueue
      <4> QED
        BY <2>3, <4>3, <4>4, AppendQueue
    <3> QED
      BY <3>1, <3>2
  <2>13. NoSecondTurn'
    BY <2>12 DEF NoSecondTurn
  <2> QED
    BY <2>2, <2>4, <2>5, <2>11, <2>13
<1> QED
  BY <1>2, <1>3 DEF RotateFair

\* __schedule picks an existing task and loads its context.
LEMMA PickInv ==
  ASSUME IInv, PickAndSwitch, state' \in [Pids -> {"RUNNING", "ZOMBIE"}]
  PROVE  IInv'
<1>0. TypeOK /\ QueuesExact /\ ContextLoaded
  BY DEF IInv
<1>1. /\ cfs_queue' \in Seq(Pids)
      /\ ran' \in [Pids -> Seq(Pids)]
      /\ QueuesExact' /\ RanBehind' /\ NoSecondTurn'
  BY RotateInv DEF PickAndSwitch
<1>2. Tasks' = Tasks /\ Tasks \subseteq Pids /\ current_task \in Tasks
  BY <1>0, SchedAssumption DEF TypeOK, PickAndSwitch, Tasks, Pids
<1>3. ASSUME NEW q, q \in {rt_queue, cfs_queue}, q # << >> PROVE Head(q) \in Tasks
  <2>1. q \in Seq(Pids)
    BY <1>0, <1>3 DEF TypeOK
  <2>2. 1 \in DOMAIN q /\ Head(q) = q[1] /\ Head(q) \in Pids
    BY <1>3, <2>1
  <2>3. InQueue(q, Head(q))
    BY <2>2 DEF InQueue
  <2> QED
    BY <1>0, <1>3, <2>2, <2>3 DEF QueuesExact
<1>4. PickNext \in Tasks
  BY <1>2, <1>3 DEF PickNext
<1>5. /\ current_task' \in Tasks'
      /\ cr3_reg' \in Pids
      /\ tss_rsp0' \in Pids \cup {IntrStack}
      /\ need_resched' \in [Pids -> BOOLEAN]
      /\ ContextLoaded'
  <2>1. /\ cr3' = cr3 /\ cr3 \in [Pids -> Pids] /\ need_resched \in [Pids -> BOOLEAN]
        /\ cr3_reg \in Pids /\ tss_rsp0 \in Pids \cup {IntrStack}
    BY <1>0 DEF TypeOK, PickAndSwitch
  <2>2. CASE PickNext = current_task
    <3>1. StayOn(current_task)
      BY <2>2 DEF PickAndSwitch
    <3>2. need_resched' \in [Pids -> BOOLEAN]
      BY <1>2, <2>1, <3>1, Zenon DEF StayOn
    <3> QED
      BY <1>0, <1>2, <2>1, <3>1, <3>2 DEF StayOn, context, ContextLoaded
  <2>3. CASE PickNext # current_task
    <3>1. SwitchTo(PickNext)
      BY <2>3 DEF PickAndSwitch
    <3> QED
      BY <1>2, <1>4, <2>1, <3>1 DEF SwitchTo, ContextLoaded
  <2> QED
    BY <2>2, <2>3
<1>6. TypeOK'
  <2>1. /\ rt_queue' \in Seq(Pids) /\ nr_running' \in Nat
        /\ next_pid' \in 1 .. MaxTasks + 1
        /\ policy' \in [Pids -> {"NORMAL", "FIFO", "RR"}]
        /\ cr3' \in [Pids -> Pids]
    BY <1>0 DEF TypeOK, PickAndSwitch
  <2> QED
    BY <1>1, <1>5, <2>1 DEF TypeOK
<1> QED
  BY <1>1, <1>5, <1>6 DEF IInv

LEMMA NextInv == IInv /\ [SchedNext]_schedVars => IInv'
<1> SUFFICES ASSUME IInv, [SchedNext]_schedVars PROVE IInv'
  OBVIOUS
<1>0. /\ TypeOK /\ QueuesExact /\ ContextLoaded /\ RanBehind /\ NoSecondTurn
      /\ Tasks \subseteq Pids /\ current_task \in Pids
      /\ \A t \in Pids : policy[t] \in {"NORMAL", "FIFO", "RR"}
  <2>1. TypeOK /\ QueuesExact /\ ContextLoaded /\ RanBehind /\ NoSecondTurn
    BY DEF IInv
  <2>2. Tasks \subseteq Pids
    BY <2>1, SchedAssumption DEF TypeOK, Tasks, Pids
  <2> QED
    BY <2>1, <2>2 DEF TypeOK
<1>1. ASSUME NEW pol \in Policies, kernel_thread(pol) PROVE IInv'
  <2>1. pol \in {"NORMAL", "FIFO", "RR"} /\ NewTask(pol)
    BY <1>1, SchedAssumption DEF kernel_thread
  <2>2. /\ cr3' \in [Pids -> Pids] /\ need_resched' \in [Pids -> BOOLEAN]
        /\ UNCHANGED <<context, state>> /\ cr3'[current_task] = cr3[current_task]
    <3>1. next_pid # current_task
      BY <1>0 DEF TypeOK, Tasks
    <3>2. cr3' = [cr3 EXCEPT ![next_pid] = cr3_reg] /\ UNCHANGED <<need_resched, context, state>>
      BY <1>1 DEF kernel_thread, NewTask
    <3> QED
      BY <1>0, <3>1, <3>2 DEF TypeOK
  <2>3. /\ cfs_queue' \in Seq(Pids) /\ rt_queue' \in Seq(Pids)
        /\ nr_running' \in Nat
        /\ next_pid' \in 1 .. MaxTasks + 1
        /\ current_task' \in Tasks'
        /\ policy' \in [Pids -> {"NORMAL", "FIFO", "RR"}]
        /\ QueuesExact' /\ RanBehind' /\ NoSecondTurn'
    BY <2>1, NewTaskInv
  <2>4. /\ state' \in [Pids -> {"RUNNING", "ZOMBIE"}] /\ ran' \in [Pids -> Seq(Pids)]
        /\ cr3_reg' \in Pids /\ tss_rsp0' \in Pids \cup {IntrStack}
    BY <1>0, <2>1 DEF TypeOK, NewTask, context
  <2>5. TypeOK'
    BY <2>2, <2>3, <2>4 DEF TypeOK
  <2>6. ContextLoaded'
    BY <1>0, <2>2 DEF ContextLoaded, context
  <2> QED
    BY <2>3, <2>5, <2>6 DEF IInv
<1>2. ASSUME sys_fork PROVE IInv'
  <2> DEFINE pol == policy[current_task]
  <2>1. pol \in {"NORMAL", "FIFO", "RR"} /\ NewTask(pol)
    BY <1>0, <1>2 DEF sys_fork
  <2>2. next_pid \in Pids /\ next_pid # current_task
    BY <1>0, <2>1 DEF TypeOK, Tasks, NewTask, Pids
  <2>3. cr3' \in [Pids -> Pids] /\ cr3'[current_task] = cr3[current_task]
    BY <1>0, <1>2, <2>2 DEF TypeOK, sys_fork
  <2>4. need_resched' \in [Pids -> BOOLEAN]
    BY <1>0, <1>2, Zenon DEF TypeOK, sys_fork
  <2>5. UNCHANGED <<context, state>>
    BY <2>1 DEF NewTask
  <2>6. /\ cfs_queue' \in Seq(Pids) /\ rt_queue' \in Seq(Pids)
        /\ nr_running' \in Nat
        /\ next_pid' \in 1 .. MaxTasks + 1
        /\ current_task' \in Tasks'
        /\ policy' \in [Pids -> {"NORMAL", "FIFO", "RR"}]
        /\ QueuesExact' /\ RanBehind' /\ NoSecondTurn'
    BY <2>1, NewTaskInv
  <2>7. /\ state' \in [Pids -> {"RUNNING", "ZOMBIE"}] /\ ran' \in [Pids -> Seq(Pids)]
        /\ cr3_reg' \in Pids /\ tss_rsp0' \in Pids \cup {IntrStack}
    BY <1>0, <2>1 DEF TypeOK, NewTask, context
  <2>8. TypeOK'
    BY <2>3, <2>4, <2>6, <2>7 DEF TypeOK
  <2>9. ContextLoaded'
    BY <1>0, <2>3, <2>5 DEF ContextLoaded, context
  <2> QED
    BY <2>6, <2>8, <2>9 DEF IInv
<1>3. ASSUME exec PROVE IInv'
  <2>1. /\ cr3' \in [Pids -> Pids] /\ cr3_reg' \in Pids
        /\ cr3_reg' = cr3'[current_task] /\ current_task # 0
        /\ UNCHANGED <<queues, current_task, tss_rsp0, next_pid, state, policy,
                       need_resched, ran>>
    BY <1>0, <1>3 DEF TypeOK, exec
  <2>2. Tasks' = Tasks
    BY <2>1 DEF Tasks
  <2>3. TypeOK'
    BY <1>0, <2>1, <2>2 DEF TypeOK, queues
  <2>4. QueuesExact'
    BY <1>0, <2>1, <2>2 DEF QueuesExact, queues
  <2>5. ContextLoaded'
    BY <1>0, <2>1 DEF ContextLoaded
  <2>6. RanBehind' /\ NoSecondTurn'
    BY <1>0, <2>1 DEF RanBehind, NoSecondTurn, queues
  <2> QED
    BY <2>3, <2>4, <2>5, <2>6 DEF IInv
<1>4. ASSUME scheduler_tick PROVE IInv'
  <2>1. UNCHANGED <<queues, context, next_pid, state, policy, cr3, ran>>
    BY <1>4 DEF scheduler_tick
  <2>2. need_resched' \in [Pids -> BOOLEAN]
    <3>1. need_resched \in [Pids -> BOOLEAN]
      BY <1>0 DEF TypeOK
    <3> QED
      BY <1>0, <1>4, <3>1, Zenon DEF scheduler_tick, task_tick
  <2>3. Tasks' = Tasks
    BY <2>1 DEF Tasks
  <2>4. TypeOK'
    BY <1>0, <2>1, <2>2, <2>3 DEF TypeOK, queues, context
  <2>5. QueuesExact' /\ ContextLoaded' /\ RanBehind' /\ NoSecondTurn'
    BY <1>0, <2>1, <2>3 DEF QueuesExact, ContextLoaded, RanBehind, NoSecondTurn,
                            queues, context
  <2> QED
    BY <2>4, <2>5 DEF IInv
<1>5. ASSUME schedule PROVE IInv'
  BY <1>0, <1>5, PickInv DEF schedule, TypeOK
<1>6. ASSUME exit PROVE IInv'
  <2>1. state' \in [Pids -> {"RUNNING", "ZOMBIE"}]
    BY <1>0, <1>6 DEF exit, TypeOK
  <2> QED
    BY <1>6, <2>1, PickInv DEF exit
<1>7. ASSUME UNCHANGED schedVars PROVE IInv'
  <2>1. UNCHANGED <<cfs_queue, rt_queue, nr_running, current_task, cr3_reg, tss_rsp0,
                    next_pid, state, policy, need_resched, cr3, ran>>
    BY <1>7 DEF schedVars, queues, context
  <2>2. Tasks' = Tasks
    BY <2>1 DEF Tasks
  <2>3. TypeOK'
    BY <1>0, <2>1, <2>2 DEF TypeOK
  <2>4. QueuesExact' /\ ContextLoaded' /\ RanBehind' /\ NoSecondTurn'
    BY <1>0, <2>1, <2>2 DEF QueuesExact, ContextLoaded, RanBehind, NoSecondTurn
  <2> QED
    BY <2>3, <2>4 DEF IInv
<1> QED
  BY <1>1, <1>2, <1>3, <1>4, <1>5, <1>6, <1>7 DEF SchedNext
-----------------------------------------------------------------------------
\* The inductive invariant holds in every state the scheduler can reach.
THEOREM Invariance == SchedSpec => []IInv
  BY InitInv, NextInv, PTL DEF SchedSpec

\* The variables keep their types; in particular current_task always names a
\* task that was created.
THEOREM TypeCorrect == SchedSpec => []TypeOK
<1>1. IInv => TypeOK
  BY DEF IInv
<1> QED
  BY <1>1, Invariance, PTL

\* Rotation, head insertion and fork keep every task linked exactly once.
THEOREM QueuesCorrect == SchedSpec => []QueuesExact
<1>1. IInv => QueuesExact
  BY DEF IInv
<1> QED
  BY <1>1, Invariance, PTL

\* The CPU always has the page tables and the kernel stack of the current task.
THEOREM ContextCorrect == SchedSpec => []ContextLoaded
<1>1. IInv => ContextLoaded
  BY DEF IInv
<1> QED
  BY <1>1, Invariance, PTL

\* pick_next_task_fair never picks a task twice while another one waits,
\* however many tasks there are and whatever is created meanwhile.
THEOREM FairRotation == SchedSpec => []NoSecondTurn
<1>1. IInv => NoSecondTurn
  BY DEF IInv
<1> QED
  BY <1>1, Invariance, PTL
-----------------------------------------------------------------------------
LEMMA KernelInitStep == KernelInit => sched_init
  BY DEF KernelInit

\* One step per handler: every one of them leaves the scheduler alone or is
\* one of its operations.
LEMMA KernelNextStep == [KernelNext]_kernelVars => [SchedNext]_schedVars
<1> SUFFICES ASSUME [KernelNext]_kernelVars PROVE [SchedNext]_schedVars
  OBVIOUS
<1>1. CASE BootThread
  BY <1>1, KernelAssumption DEF BootThread, SchedNext
<1>2. CASE BootSchedule \/ DeadLoop \/ HeartbeatYield
  BY <1>2 DEF BootSchedule, DeadLoop, HeartbeatYield, SchedNext
<1>3. CASE InitStarts \/ SysExecve
  BY <1>3 DEF InitStarts, SysExecve, SchedNext
<1>4. CASE InitFails \/ SysExit
  BY <1>4 DEF InitFails, SysExit, SchedNext
<1>5. CASE SysFork
  BY <1>5 DEF SysFork, SchedNext
<1>6. CASE TimerIrq
  BY <1>6 DEF TimerIrq, SchedNext
<1>7. CASE KworkerStarts \/ Halt \/ IretToUser \/ SysOther \/ SysWritePipe \/ KeyboardIrq
  BY <1>7 DEF KworkerStarts, Halt, IretToUser, SysOther, SysWritePipe, KeyboardIrq
<1>8. ASSUME NEW s \in Sources, ReadGetsData(s) \/ SysRead(s) PROVE UNCHANGED schedVars
  BY <1>8 DEF ReadGetsData, SysRead
<1>9. ASSUME NEW s \in Sources, ReadYields(s) PROVE SchedNext
  BY <1>9 DEF ReadYields, SchedNext
<1>10. ASSUME NEW t \in Pids, SysKill(t) PROVE UNCHANGED schedVars
  BY <1>10 DEF SysKill
<1>11. CASE UNCHANGED kernelVars
  BY <1>11 DEF kernelVars
<1> QED
  BY <1>1, <1>2, <1>3, <1>4, <1>5, <1>6, <1>7, <1>8, <1>9, <1>10, <1>11
     DEF KernelNext, KernelStep, SyscallStep

\* The boot code, the thread loops and the system calls implement Sched.
THEOREM UsesScheduler == KernelSpec => ImplementsSched
  BY KernelInitStep, KernelNextStep, PTL DEF KernelSpec, SchedSpec, ImplementsSched

\* So the run queues stay exact in the running kernel, where zombies go on
\* running and blocked readers yield in system calls.
THEOREM KernelQueuesCorrect == KernelSpec => []QueuesExact
  BY UsesScheduler, QueuesCorrect, PTL DEF ImplementsSched

\* And the CPU has the page tables and the kernel stack of the current task.
THEOREM KernelContextCorrect == KernelSpec => []ContextLoaded
  BY UsesScheduler, ContextCorrect, PTL DEF ImplementsSched
-----------------------------------------------------------------------------
Places == {"boot", "idle_loop", "trampoline", "heartbeat", "halted", "yield",
           "dead_loop", "user", "ret", "stdin_read", "pipe_read"}

\* A task that called schedule() from a system call and has not come back.
Left(t) == pc[t] \in {"stdin_read", "pipe_read"} \/ (state[t] = "ZOMBIE" /\ pc[t] = "ret")

LeftInSyscall == \E t \in Tasks \ {0, KworkerPid} : Left(t)

\* Which code a task can be in: the swapper only boots, the kworker only beats,
\* and a task that is switched out is never in user mode.
CodeOfTask ==
  /\ pc \in [Pids -> Places]
  /\ pc[0] \in {"boot", "idle_loop"}
  /\ pc[KworkerPid] \in {"trampoline", "heartbeat", "halted", "yield"}
  /\ \A t \in Pids \ {0} : pc[t] \notin {"boot", "idle_loop"}
  /\ \A t \in Pids \ {KworkerPid} : pc[t] \notin {"heartbeat", "halted", "yield"}
  /\ \A t \in Pids : t # current_task => pc[t] # "user"

\* Once the boot code has scheduled, the two threads exist and the swapper
\* never runs again.
BootOrThreads ==
  IF current_task = 0 THEN iflag /\ pc[0] = "boot" ELSE next_pid > KworkerPid

\* The inductive invariant: with interrupts off, the current task is in a
\* system call, or not yet started, or was switched to by one that is.
FlagInv ==
  /\ iflag \in BOOLEAN
  /\ CodeOfTask
  /\ BootOrThreads
  /\ ~iflag => /\ cur # "user"
               /\ \/ cur \in {"trampoline", "ret", "stdin_read", "pipe_read"}
                  \/ LeftInSyscall

LEMMA FlagImplies == FlagInv => InterruptsLostOnlyInSyscall
<1> SUFFICES ASSUME FlagInv, ~iflag
             PROVE  /\ cur # "user"
                    /\ current_task = KworkerPid /\ cur # "trampoline" => LeftInSyscall
  BY DEF InterruptsLostOnlyInSyscall, LeftInSyscall, Left
<1> QED
  BY DEF FlagInv, CodeOfTask, cur

LEMMA FlagInit == KernelInit => FlagInv
<1> SUFFICES ASSUME KernelInit PROVE FlagInv
  OBVIOUS
<1>1. 0 \in Pids /\ KworkerPid \in Pids /\ KworkerPid # 0
  BY SchedAssumption, KernelAssumption DEF Pids, KworkerPid
<1>2. CodeOfTask
  BY <1>1 DEF KernelInit, sched_init, CodeOfTask, Places
<1> QED
  BY <1>1, <1>2 DEF KernelInit, sched_init, FlagInv, BootOrThreads

LEMMA PidsOfTasks ==
  ASSUME IInv
  PROVE  /\ Tasks \subseteq Pids /\ current_task \in Tasks
         /\ 0 \in Pids /\ KworkerPid \in Pids
         /\ next_pid \in Nat /\ next_pid \notin Tasks
<1>1. next_pid \in 1 .. MaxTasks + 1 /\ current_task \in Tasks
  BY DEF IInv, TypeOK
<1> QED
  BY <1>1, SchedAssumption, KernelAssumption DEF Tasks, Pids, KworkerPid

\* schedule() in a kernel whose threads exist never picks the swapper, and
\* leaves the state of the tasks alone.
LEMMA SwitchStep ==
  ASSUME IInv, next_pid > KworkerPid, PickAndSwitch
  PROVE  /\ current_task' \in Tasks \ {0}
         /\ next_pid' = next_pid /\ Tasks' = Tasks
<1>0. TypeOK /\ QueuesExact
  BY DEF IInv
<1>1. next_pid' = next_pid /\ Tasks' = Tasks
  BY DEF PickAndSwitch, Tasks
<1>2. KworkerPid \in Tasks \ {0} /\ KworkerPid \in Pids
  BY <1>0, SchedAssumption DEF TypeOK, Tasks, Pids, KworkerPid
<1>3. rt_queue # << >> \/ cfs_queue # << >>
  <2> SUFFICES ASSUME rt_queue = << >>, cfs_queue = << >> PROVE FALSE
    OBVIOUS
  <2>1. ~InQueue(rt_queue, KworkerPid) /\ ~InQueue(cfs_queue, KworkerPid)
    BY DEF InQueue
  <2> QED
    BY <1>0, <1>2, <2>1 DEF QueuesExact
<1>4. ASSUME NEW q, q \in {rt_queue, cfs_queue}, q # << >> PROVE Head(q) \in Tasks \ {0}
  <2>1. q \in Seq(Pids)
    BY <1>0, <1>4 DEF TypeOK
  <2>2. 1 \in DOMAIN q /\ Head(q) = q[1] /\ Head(q) \in Pids
    BY <1>4, <2>1
  <2>3. InQueue(q, Head(q))
    BY <2>2 DEF InQueue
  <2> QED
    BY <1>0, <1>4, <2>2, <2>3 DEF QueuesExact
<1>5. PickNext \in Tasks \ {0}
  BY <1>3, <1>4 DEF PickNext
<1>6. current_task' = PickNext
  BY DEF PickAndSwitch, StayOn, SwitchTo, context
<1> QED
  BY <1>1, <1>5, <1>6

\* A task t that is neither the swapper nor the kworker moves to the place p of
\* a user task's code, and the processor may switch; if it does, p is not user
\* mode, and interrupts are on or t has left the processor in a system call.
LEMMA UserTaskStep ==
  ASSUME IInv, FlagInv, next_pid > KworkerPid,
         NEW p \in {"dead_loop", "user", "ret", "stdin_read", "pipe_read"},
         NEW t \in Tasks \ {0, KworkerPid}, current_task = t,
         pc' = [pc EXCEPT ![t] = p],
         iflag' \in BOOLEAN,
         next_pid' = next_pid, Tasks' = Tasks, current_task' \in Tasks \ {0},
         current_task' # t => p # "user",
         p = "user" => iflag',
         ~iflag' => \/ current_task' = t /\ p # "dead_loop"
                    \/ Left(t)'
                    \/ LeftInSyscall'
  PROVE  FlagInv'
<1>1. Tasks \subseteq Pids /\ t \in Pids /\ 0 \in Pids /\ KworkerPid \in Pids
  BY PidsOfTasks
<1>2. /\ pc' \in [Pids -> Places] /\ pc'[t] = p
      /\ \A u \in Pids : u # t => pc'[u] = pc[u]
  BY <1>1 DEF FlagInv, CodeOfTask, Places
<1>3. CodeOfTask'
  BY <1>1, <1>2 DEF FlagInv, CodeOfTask
<1>4. BootOrThreads'
  BY DEF BootOrThreads
<1>5. Left(t)' => LeftInSyscall'
  BY <1>1 DEF LeftInSyscall
<1>6. ASSUME ~iflag'
      PROVE  /\ cur' # "user"
             /\ cur' \in {"trampoline", "ret", "stdin_read", "pipe_read"} \/ LeftInSyscall'
  BY <1>1, <1>2, <1>5, <1>6 DEF cur, FlagInv, CodeOfTask
<1> QED
  BY <1>3, <1>4, <1>6 DEF FlagInv

\* The kworker goes on in its loop; a switch to it does not turn interrupts off.
LEMMA KworkerStep ==
  ASSUME IInv, FlagInv, current_task = KworkerPid,
         NEW p \in {"heartbeat", "halted", "yield"},
         pc' = [pc EXCEPT ![KworkerPid] = p],
         iflag' \in BOOLEAN, ~iflag' => ~iflag /\ cur # "trampoline",
         next_pid' = next_pid, state' = state, current_task' \in Tasks \ {0}
  PROVE  FlagInv'
<1>0. Tasks \subseteq Pids /\ 0 \in Pids /\ KworkerPid \in Pids /\ KworkerPid # 0 /\ Tasks' = Tasks
  BY PidsOfTasks DEF KworkerPid, Tasks
<1>1. /\ pc' \in [Pids -> Places] /\ pc'[KworkerPid] = p
      /\ \A u \in Pids : u # KworkerPid => pc'[u] = pc[u]
  BY <1>0 DEF FlagInv, CodeOfTask, Places
<1>2. CodeOfTask'
  BY <1>0, <1>1 DEF FlagInv, CodeOfTask
<1>3. BootOrThreads'
  BY <1>0 DEF FlagInv, BootOrThreads
<1>4. ASSUME ~iflag' PROVE LeftInSyscall'
  <2>1. LeftInSyscall
    BY <1>4 DEF FlagInv, CodeOfTask, cur
  <2>2. PICK t \in Tasks \ {0, KworkerPid} : Left(t)
    BY <2>1 DEF LeftInSyscall
  <2>3. Left(t)'
    BY <1>0, <1>1, <2>2 DEF Left
  <2> QED
    BY <1>0, <2>3 DEF LeftInSyscall
<1>5. cur' # "user"
  BY <1>0, <1>1 DEF cur, FlagInv, CodeOfTask
<1> QED
  BY <1>2, <1>3, <1>4, <1>5 DEF FlagInv

\* One step per handler.
LEMMA FlagNext == IInv /\ FlagInv /\ [KernelNext]_kernelVars => FlagInv'
<1> SUFFICES ASSUME IInv, FlagInv, [KernelNext]_kernelVars PROVE FlagInv'
  OBVIOUS
<1>0. /\ Tasks \subseteq Pids /\ current_task \in Tasks /\ 0 \in Pids /\ KworkerPid \in Pids
      /\ KworkerPid # 0 /\ next_pid \in Nat /\ next_pid \notin Tasks
      /\ iflag \in BOOLEAN /\ CodeOfTask /\ BootOrThreads
  BY PidsOfTasks DEF KworkerPid, FlagInv
\* The place of a task tells which task it is.
<1>a. cur = "boot" => current_task = 0 /\ iflag
  BY <1>0 DEF cur, CodeOfTask, BootOrThreads
<1>b. cur \in {"heartbeat", "halted", "yield"} => current_task = KworkerPid /\ next_pid > KworkerPid
  BY <1>0 DEF cur, CodeOfTask, BootOrThreads
<1>c. cur \in {"user", "ret", "dead_loop", "stdin_read", "pipe_read"}
        => current_task \in Tasks \ {0, KworkerPid} /\ next_pid > KworkerPid
  BY <1>0 DEF cur, CodeOfTask, BootOrThreads
<1>d. UNCHANGED schedVars => UNCHANGED <<current_task, next_pid, state, Tasks>>
  BY DEF schedVars, context, Tasks
<1>1. CASE BootThread
  <2>1. current_task = 0 /\ iflag /\ iflag' = iflag /\ pc' = pc /\ current_task' = current_task
    BY <1>1, <1>a DEF BootThread, kernel_thread, NewTask, context
  <2> QED
    BY <1>0, <2>1 DEF FlagInv, CodeOfTask, BootOrThreads
<1>2. CASE BootSchedule
  <2>1. current_task = 0 /\ iflag /\ iflag' = iflag /\ pc' = [pc EXCEPT ![0] = "idle_loop"]
    BY <1>2, <1>a DEF BootSchedule, Goto
  <2>2. current_task' \in Tasks \ {0} /\ next_pid' > KworkerPid
    BY <1>2, SwitchStep DEF BootSchedule, schedule
  <2>3. CodeOfTask'
    BY <1>0, <2>1, <2>2 DEF CodeOfTask, Places
  <2> QED
    BY <1>0, <2>1, <2>2, <2>3 DEF FlagInv, BootOrThreads
<1>3. CASE KworkerStarts
  <2>1. /\ current_task = KworkerPid /\ pc' = [pc EXCEPT ![KworkerPid] = "heartbeat"] /\ iflag'
        /\ UNCHANGED <<current_task, next_pid, state>>
    BY <1>3, <1>d DEF KworkerStarts, Goto
  <2> QED
    BY <1>0, <2>1, KworkerStep
<1>4. CASE Halt
  <2>1. /\ current_task = KworkerPid /\ pc' = [pc EXCEPT ![KworkerPid] = "halted"] /\ iflag' = iflag
        /\ cur # "trampoline" /\ UNCHANGED <<current_task, next_pid, state>>
    BY <1>4, <1>b, <1>d DEF Halt, Goto
  <2> QED
    BY <1>0, <2>1, KworkerStep
<1>5. CASE HeartbeatYield
  <2>1. /\ current_task = KworkerPid /\ pc' = [pc EXCEPT ![KworkerPid] = "heartbeat"] /\ iflag' = iflag
        /\ cur # "trampoline" /\ next_pid > KworkerPid
        /\ state' = state /\ PickAndSwitch
    BY <1>5, <1>b DEF HeartbeatYield, Goto, schedule
  <2>2. current_task' \in Tasks \ {0} /\ next_pid' = next_pid
    BY <2>1, SwitchStep
  <2> QED
    BY <1>0, <2>1, <2>2, KworkerStep
<1>6. CASE TimerIrq \/ KeyboardIrq
  <2>1. /\ iflag /\ iflag' = iflag
        /\ EndHalt
        /\ UNCHANGED <<current_task, next_pid, state>>
    BY <1>6, <1>d DEF TimerIrq, KeyboardIrq, scheduler_tick, context
  <2>2. CASE cur = "halted"
    <3>1. current_task = KworkerPid /\ pc' = [pc EXCEPT ![KworkerPid] = "yield"]
      BY <1>b, <2>1, <2>2 DEF EndHalt, cur
    <3> QED
      BY <1>0, <2>1, <3>1, KworkerStep
  <2>3. CASE cur # "halted"
    <3>1. pc' = pc
      BY <1>0, <2>1, <2>3 DEF EndHalt, cur, CodeOfTask
    <3> QED
      BY <1>0, <2>1, <3>1 DEF FlagInv, CodeOfTask, BootOrThreads
  <2> QED
    BY <2>2, <2>3
\* The steps of a user task that keep the processor.
<1>7. ASSUME NEW p \in {"user", "ret", "stdin_read", "pipe_read"},
             current_task \in Tasks \ {0, KworkerPid}, next_pid > KworkerPid,
             pc' = [pc EXCEPT ![current_task] = p],
             iflag' \in BOOLEAN, p = "user" => iflag',
             UNCHANGED <<current_task, next_pid, Tasks>>
      PROVE  FlagInv'
  BY <1>7, UserTaskStep, Zenon
<1>8. CASE SysOther \/ SysExecve \/ SysWritePipe \/ \E k \in Pids : SysKill(k)
  <2>1. /\ cur = "user" /\ pc' = [pc EXCEPT ![current_task] = "ret"] /\ iflag' = FALSE
        /\ UNCHANGED <<current_task, next_pid, Tasks>>
    BY <1>8, <1>d DEF SysOther, SysExecve, SysWritePipe, SysKill, Syscall, Goto, exec, Tasks
  <2> QED
    BY <1>7, <1>c, <2>1, Zenon
<1>9. CASE \E s \in Sources : SysRead(s)
  <2>1. PICK s \in Sources : SysRead(s)
    BY <1>9
  <2>2. /\ cur = "user" /\ pc' = [pc EXCEPT ![current_task] = Reading(s)] /\ iflag' = FALSE
        /\ Reading(s) \in {"stdin_read", "pipe_read"}
        /\ UNCHANGED <<current_task, next_pid, Tasks>>
    BY <1>d, <2>1 DEF SysRead, Goto, Reading
  <2> QED
    BY <1>7, <1>c, <2>2, Zenon
<1>10. CASE \E s \in Sources : ReadGetsData(s)
  <2>1. PICK s \in Sources : ReadGetsData(s)
    BY <1>10
  <2>2. PICK p \in {"ret", Reading(s)} : Goto(Reading(s), p)
    BY <2>1 DEF ReadGetsData
  <2>3. /\ cur = Reading(s) /\ pc' = [pc EXCEPT ![current_task] = p] /\ iflag' = iflag
        /\ Reading(s) \in {"stdin_read", "pipe_read"}
        /\ UNCHANGED <<current_task, next_pid, Tasks>>
    BY <1>d, <2>1, <2>2 DEF ReadGetsData, Goto, Reading
  <2> QED
    BY <1>0, <1>7, <1>c, <2>2, <2>3, Zenon
<1>11. CASE IretToUser
  <2>1. /\ cur = "ret" /\ pc' = [pc EXCEPT ![current_task] = "user"] /\ iflag' = TRUE
        /\ UNCHANGED <<current_task, next_pid, Tasks>>
    BY <1>11, <1>d DEF IretToUser, Goto
  <2> QED
    BY <1>7, <1>c, <2>1
<1>12. CASE InitStarts
  <2>1. /\ pc' = [pc EXCEPT ![current_task] = "user"] /\ iflag' = TRUE
        /\ current_task = InitPid
        /\ UNCHANGED <<current_task, next_pid, Tasks>>
    BY <1>12 DEF InitStarts, Goto, exec, Tasks
  <2>2. current_task \in Tasks \ {0, KworkerPid} /\ next_pid > KworkerPid
    BY <1>0, <2>1 DEF InitPid, KworkerPid, BootOrThreads
  <2> QED
    BY <1>7, <2>1, <2>2
\* fork: the child is another task, and is not in user mode either.
<1>13. CASE SysFork
  <2>1. /\ cur = "user" /\ iflag' = FALSE /\ current_task' = current_task
        /\ pc' = [pc EXCEPT ![current_task] = "ret", ![next_pid] = "ret"]
        /\ next_pid' = next_pid + 1 /\ next_pid <= MaxTasks
    BY <1>13 DEF SysFork, sys_fork, NewTask, context
  <2>2. current_task \in Tasks \ {0, KworkerPid} /\ next_pid > KworkerPid /\ next_pid \in Pids
        /\ next_pid # 0 /\ next_pid # KworkerPid /\ next_pid' > KworkerPid
    BY <1>0, <1>c, <2>1, SchedAssumption DEF Pids, KworkerPid
  <2>3. CodeOfTask'
    BY <1>0, <2>1, <2>2 DEF CodeOfTask, Places
  <2>4. cur' = "ret"
    BY <1>0, <2>1, <2>2 DEF CodeOfTask, cur
  <2> QED
    BY <2>1, <2>2, <2>3, <2>4, Zenon DEF FlagInv, BootOrThreads
\* The steps that leave the processor.
<1>14. ASSUME NEW p \in {"dead_loop", "ret", "stdin_read", "pipe_read"},
              NEW t \in Tasks \ {0, KworkerPid}, current_task = t,
              next_pid > KworkerPid, PickAndSwitch,
              pc' = [pc EXCEPT ![t] = p], iflag' \in BOOLEAN,
              ~iflag' => Left(t)' \/ LeftInSyscall'
       PROVE  FlagInv'
  <2>1. current_task' \in Tasks \ {0} /\ next_pid' = next_pid /\ Tasks' = Tasks
    BY <1>14, SwitchStep
  <2> QED
    BY <1>14, <2>1, UserTaskStep, Zenon
<1>15. CASE DeadLoop
  <2>1. /\ cur = "dead_loop" /\ pc' = pc /\ iflag' = iflag /\ state' = state
        /\ PickAndSwitch /\ Tasks' = Tasks
    BY <1>15 DEF DeadLoop, schedule, PickAndSwitch, Tasks
  <2>2. pc' = [pc EXCEPT ![current_task] = "dead_loop"]
    BY <1>0, <2>1 DEF cur, CodeOfTask
  <2>3. ASSUME ~iflag' PROVE LeftInSyscall'
    <3>1. LeftInSyscall
      BY <2>1, <2>3 DEF FlagInv
    <3> QED
      BY <2>1, <3>1 DEF LeftInSyscall, Left
  <2> QED
    BY <1>0, <1>14, <1>c, <2>1, <2>2, <2>3, Zenon
<1>16. CASE InitFails
  <2>1. /\ current_task = InitPid /\ pc' = [pc EXCEPT ![current_task] = "dead_loop"]
        /\ iflag' = TRUE /\ PickAndSwitch
    BY <1>16 DEF InitFails, Goto, exit
  <2>2. current_task \in Tasks \ {0, KworkerPid} /\ next_pid > KworkerPid
    BY <1>0, <2>1 DEF InitPid, KworkerPid, BootOrThreads
  <2> QED
    BY <1>14, <2>1, <2>2, Zenon
<1>17. CASE SysExit
  <2>1. /\ cur = "user" /\ pc' = [pc EXCEPT ![current_task] = "ret"] /\ iflag' = FALSE
        /\ state' = [state EXCEPT ![current_task] = "ZOMBIE"] /\ PickAndSwitch
    BY <1>17 DEF SysExit, Syscall, Goto, exit
  <2>2. PICK t \in Tasks \ {0, KworkerPid} : t = current_task
    BY <1>c, <2>1
  <2>3. state \in [Pids -> {"RUNNING", "ZOMBIE"}]
    BY DEF IInv, TypeOK
  <2>4. Left(t)'
    BY <1>0, <2>1, <2>2, <2>3 DEF Left, CodeOfTask
  <2> QED
    BY <1>14, <1>c, <2>1, <2>2, <2>4, Zenon
<1>18. CASE \E s \in Sources : ReadYields(s)
  <2>1. PICK s \in Sources : ReadYields(s)
    BY <1>18
  <2>2. /\ cur = Reading(s) /\ Reading(s) \in {"stdin_read", "pipe_read"}
        /\ pc' = pc /\ iflag' = iflag /\ PickAndSwitch
    BY <2>1 DEF ReadYields, Reading, schedule
  <2>3. PICK t \in Tasks \ {0, KworkerPid} : t = current_task
    BY <1>c, <2>2
  <2>4. pc' = [pc EXCEPT ![t] = Reading(s)] /\ Left(t)'
    BY <1>0, <2>2, <2>3 DEF cur, CodeOfTask, Left
  <2> QED
    BY <1>0, <1>14, <1>c, <2>2, <2>3, <2>4, Zenon
<1>19. CASE UNCHANGED kernelVars
  <2>1. UNCHANGED <<current_task, next_pid, state, Tasks, iflag, pc>>
    BY <1>19, <1>d DEF kernelVars
  <2> QED
    BY <2>1 DEF FlagInv, CodeOfTask, BootOrThreads, cur, LeftInSyscall, Left
<1> QED
  BY <1>1, <1>2, <1>3, <1>4, <1>5, <1>6, <1>8, <1>9, <1>10, <1>11, <1>12, <1>13,
     <1>15, <1>16, <1>17, <1>18, <1>19 DEF KernelNext, KernelStep, SyscallStep

\* Interrupts are off in user mode in no reachable state, and off in the
\* kworker's loop only after a task has left the processor in a system call.
THEOREM FlagCorrect == KernelSpec => []InterruptsLostOnlyInSyscall
<1>1. KernelSpec => []IInv
  BY UsesScheduler, Invariance, PTL DEF ImplementsSched
<1>2. KernelSpec => []FlagInv
  BY <1>1, FlagInit, FlagNext, PTL DEF KernelSpec
<1> QED
  BY <1>2, FlagImplies, PTL
=============================================================================
