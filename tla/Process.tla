------------------------------- MODULE Process -------------------------------
(****************************************************************************)
(* Task life cycle and scheduling: the scheduler loop of the one running   *)
(* hart (run_task), the ready queue, clone, exit, wait4, sched_yield, the   *)
(* pid allocator, and the reference counts that decide when a process       *)
(* control block (PCB) is freed.                                            *)
(*                                                                          *)
(* The kernel is cooperative: no timer interrupt is ever enabled, and a     *)
(* task leaves the hart only inside suspend_current_task or                 *)
(* exit_current_task.  What a system call does between two such points is   *)
(* therefore one step.  A member of Task is a slot of memory that can hold  *)
(* a PCB, so that a pid and a slot are both reused, independently.          *)
(****************************************************************************)
EXTENDS Integers, Sequences, FiniteSets

CONSTANTS
    Task,        \* the places a PCB can be allocated at
    Origin,      \* the PCB that ORIGIN_TASK holds
    NoTask,      \* no PCB
    MaxPid,      \* MAX_PID: pids are below it
    Testcases,   \* the number of entries of TESTCASE after init_testcase
    WaitArgs,    \* the values of wait4's pid argument that programs use
    NoWait,      \* "not inside wait4"
    HeapLimit    \* length at which a child list exhausts the kernel heap

ASSUME TaskAssumption == Origin \in Task /\ NoTask \notin Task
ASSUME PidAssumption == MaxPid \in Nat /\ MaxPid > 2
ASSUME WaitAssumption == WaitArgs \subseteq Int /\ NoWait \notin WaitArgs
ASSUME BoundAssumption == Testcases \in Nat /\ HeapLimit \in Nat

VARIABLES
    status,      \* TaskStatus of a PCB, or "Free" when the slot holds none
    strong,      \* strong count of the Arc<PCB>
    pid,         \* PCB.pid.value
    tgid,        \* PCB.tgid
    ppid,        \* PCBInner.ppid
    parent,      \* PCBInner.parent, a Weak<PCB>
    child,       \* PCBInner.child
    waiting,     \* the pid argument of the wait4 a task is suspended in
    queue,       \* SCHEDULE.task_queue
    current,     \* the task on whose kernel stack the hart executes
    cpu,         \* where the hart is: in run_task, in a task, or stopped
    freePids,    \* the set bits of PID_ALLOCATOR
    testcases    \* TESTCASE.len()

relatives == <<tgid, ppid, parent>>
vars == <<status, strong, pid, tgid, ppid, parent, child, waiting, queue,
          current, cpu, freePids, testcases>>

Statuses == {"Free", "Ready", "Running", "Dead"}

\* "pop" and "check" are the two halves of run_task's loop body; "exit" is
\* the loop over the children inside exit_current_task; "off" is after
\* sbi_qemu_shutdown.
CpuModes == {"pop", "user", "check", "exit", "off", "panic"}

CloneFlags == {"CLONE_PARENT", "CLONE_THREAD"}

Pids == 2..(MaxPid - 1)

\* The bitmap allocator hands out its lowest set bit.
Lowest(S) == CHOOSE p \in S : \A q \in S : p <= q

\* Vec::remove: the elements after position i move up by one.
RemoveIndex(s, i) ==
    [j \in 1..(Len(s) - 1) |-> IF j < i THEN s[j] ELSE s[j + 1]]

\* A task that executes user code, or the start of a system call.
InUser(t) == cpu = "user" /\ current = t /\ waiting[t] = NoWait

------------------------------------------------------------------------------
\* After init_origin_task: the origin task is held by ORIGIN_TASK and by the
\* ready queue, and run_task is entered.
Init ==
    /\ status = [t \in Task |-> IF t = Origin THEN "Ready" ELSE "Free"]
    /\ strong = [t \in Task |-> IF t = Origin THEN 2 ELSE 0]
    /\ pid = [t \in Task |-> IF t = Origin THEN 2 ELSE 0]
    /\ tgid = [t \in Task |-> IF t = Origin THEN 2 ELSE 0]
    /\ ppid = [t \in Task |-> IF t = Origin THEN 1 ELSE 0]
    /\ parent = [t \in Task |-> NoTask]
    /\ child = [t \in Task |-> <<>>]
    /\ waiting = [t \in Task |-> NoWait]
    /\ queue = <<Origin>>
    /\ current = NoTask
    /\ cpu = "pop"
    /\ freePids = Pids \ {2}
    /\ testcases = Testcases

\* Dropping one Arc<PCB>.  The last one frees the PCB: its Pid goes back to
\* the allocator and weak references to it no longer upgrade.  st is the
\* status function after the rest of the step.
DropArc(t, st) ==
    IF strong[t] = 1
    THEN /\ status' = [st EXCEPT ![t] = "Free"]
         /\ strong' = [strong EXCEPT ![t] = 0]
         /\ freePids' = freePids \cup {pid[t]}
         /\ pid' = [pid EXCEPT ![t] = 0]
         /\ tgid' = [tgid EXCEPT ![t] = 0]
         /\ ppid' = [ppid EXCEPT ![t] = 0]
         /\ parent' = [u \in Task |-> IF u = t \/ parent[u] = t
                                      THEN NoTask ELSE parent[u]]
    ELSE /\ status' = st
         /\ strong' = [strong EXCEPT ![t] = @ - 1]
         /\ UNCHANGED <<freePids, pid, relatives>>

\* panic!, or unwrap of an Err or None: the kernel stops.
Panic ==
    /\ cpu' = "panic"
    /\ UNCHANGED <<status, strong, pid, relatives, child, waiting, queue,
                   current, freePids, testcases>>

------------------------------------------------------------------------------
\* run_task, first half: the head of the queue runs.  The Arc moves from the
\* queue to CpuLocal.current.
PopTask ==
    /\ cpu = "pop"
    /\ \/ /\ queue = <<>>
          /\ cpu' = "check"
          /\ UNCHANGED <<status, queue, current>>
       \/ /\ queue # <<>>
          /\ status' = [status EXCEPT ![Head(queue)] = "Running"]
          /\ current' = Head(queue)
          /\ queue' = Tail(queue)
          /\ cpu' = "user"
    /\ UNCHANGED <<strong, pid, relatives, child, waiting, freePids, testcases>>

\* A new PCB n, in a free slot, with the lowest free pid p.
NewPcb(n, p, newTgid, newPpid, newParent) ==
    /\ status[n] = "Free"
    /\ status' = [status EXCEPT ![n] = "Ready"]
    /\ pid' = [pid EXCEPT ![n] = p]
    /\ tgid' = [tgid EXCEPT ![n] = newTgid]
    /\ ppid' = [ppid EXCEPT ![n] = newPpid]
    /\ parent' = [parent EXCEPT ![n] = newParent]
    /\ freePids' = freePids \ {p}

\* init_task_and_push: load a test case.  The local Arc is cloned into the
\* queue and dropped.
InitTaskAndPush ==
    IF freePids = {}
    THEN Panic
    ELSE LET p == Lowest(freePids) IN \E n \in Task :
         /\ NewPcb(n, p, p, 1, NoTask)
         /\ strong' = [strong EXCEPT ![n] = 1]
         /\ queue' = Append(queue, n)
         /\ testcases' = testcases - 1
         /\ cpu' = "pop"
         /\ UNCHANGED <<child, waiting, current>>

\* run_task, second half: an empty queue starts the next test case, or powers
\* the machine off when none is left.
CheckTestcases ==
    /\ cpu = "check"
    /\ \/ /\ queue # <<>>
          /\ cpu' = "pop"
          /\ UNCHANGED <<status, strong, pid, relatives, child, waiting, queue,
                         current, freePids, testcases>>
       \/ /\ queue = <<>> /\ testcases = 0
          /\ cpu' = "off"
          /\ UNCHANGED <<status, strong, pid, relatives, child, waiting, queue,
                         current, freePids, testcases>>
       \/ queue = <<>> /\ testcases > 0 /\ InitTaskAndPush

\* Mutant: push_front instead of push_back.
SuspendInFront(t) ==
    /\ status' = [status EXCEPT ![t] = "Ready"]
    /\ queue' = <<t>> \o queue
    /\ current' = NoTask
    /\ cpu' = "check"
    /\ UNCHANGED <<strong, pid, relatives, child, freePids, testcases>>

\* suspend_current_task: back to the end of the queue, Arc and all, and
\* switch to run_task.
SuspendCurrentTask(t) ==
    /\ status' = [status EXCEPT ![t] = "Ready"]
    /\ queue' = Append(queue, t)
    /\ current' = NoTask
    /\ cpu' = "check"
    /\ UNCHANGED <<strong, pid, relatives, child, freePids, testcases>>

SysYield(t) ==
    /\ InUser(t)
    /\ SuspendCurrentTask(t)
    /\ UNCHANGED waiting

------------------------------------------------------------------------------
\* sys_clone.  The new Arc is cloned into the caller's child list, unless
\* CLONE_PARENT is given, and into the queue; the local one is dropped.
SysClone(t, flags) ==
    /\ InUser(t)
    /\ IF freePids = {}
       THEN Panic
       ELSE LET p == Lowest(freePids)
                listed == "CLONE_PARENT" \notin flags
            IN \E n \in Task :
               /\ NewPcb(n, p,
                         IF "CLONE_THREAD" \in flags THEN tgid[t] ELSE p,
                         IF listed THEN pid[t] ELSE ppid[t],
                         IF listed THEN t ELSE parent[t])
               /\ strong' = [strong EXCEPT ![n] = IF listed THEN 2 ELSE 1]
               /\ child' = IF listed
                           THEN [child EXCEPT ![t] = Append(@, n)]
                           ELSE child
               /\ queue' = Append(queue, n)
               /\ UNCHANGED <<waiting, current, cpu, testcases>>

\* sys_exit on a task with an empty child list: mark it dead, drop the Arc
\* taken from CpuLocal.current, switch to run_task.
ExitChildless(t) ==
    /\ child[t] = <<>>
    /\ DropArc(t, [status EXCEPT ![t] = "Dead"])
    /\ current' = NoTask
    /\ cpu' = "check"
    /\ UNCHANGED <<child, waiting, queue, testcases>>

\* sys_exit on a task with children: the task is dead and enters the loop
\* over its child list.
ExitWithChildren(t) ==
    /\ child[t] # <<>>
    /\ status' = [status EXCEPT ![t] = "Dead"]
    /\ cpu' = "exit"
    /\ UNCHANGED <<strong, pid, relatives, child, waiting, queue, current,
                   freePids, testcases>>

SysExit(t) == InUser(t) /\ (ExitChildless(t) \/ ExitWithChildren(t))

\* One round of the inner loop of exit_current_task.  It hands the first
\* child to the origin task and, having no break, goes round again with the
\* same child.  The exiting origin task holds its own lock, so try_lock fails
\* and a round changes nothing.  A push beyond the heap's capacity panics.
ReparentRound ==
    /\ cpu = "exit"
    /\ IF current = Origin
       THEN UNCHANGED vars
       ELSE IF Len(child[Origin]) >= HeapLimit
       THEN Panic
       ELSE LET c == child[current][1] IN
            /\ parent' = [parent EXCEPT ![c] = Origin]
            /\ ppid' = [ppid EXCEPT ![c] = 0]
            /\ child' = [child EXCEPT ![Origin] = Append(@, c)]
            /\ strong' = [strong EXCEPT ![c] = @ + 1]
            /\ UNCHANGED <<status, pid, tgid, waiting, queue, current, cpu,
                           freePids, testcases>>

------------------------------------------------------------------------------
\* waitpid: which children the pid argument selects.
Selects(arg, t, c) ==
    CASE arg < -1 -> tgid[c] = -arg
      [] arg = -1 -> TRUE
      [] arg = 0 -> tgid[c] = tgid[t]
      [] OTHER -> pid[c] = arg

Selected(t, arg) == {i \in DOMAIN child[t] : Selects(arg, t, child[t][i])}

Zombies(t, arg) == {i \in Selected(t, arg) : status[child[t][i]] = "Dead"}

\* ChildStatus::NotFound; the argument -1 never yields it.
NotFound(t, arg) == arg # -1 /\ Selected(t, arg) = {}

\* Mutant: the reaped child's Arc is never dropped.
ReapLeaks(t, arg) ==
    /\ Zombies(t, arg) # {}
    /\ LET i == Lowest(Zombies(t, arg)) IN
       child' = [child EXCEPT ![t] = RemoveIndex(@, i)]
    /\ waiting' = [waiting EXCEPT ![t] = NoWait]
    /\ UNCHANGED <<status, strong, pid, relatives, freePids, queue, current, cpu,
                   testcases>>

\* Mutant: the whole child list is dropped with the reaped child.
ReapClearsList(t, arg) ==
    /\ Zombies(t, arg) # {}
    /\ DropArc(child[t][Lowest(Zombies(t, arg))], status)
    /\ child' = [child EXCEPT ![t] = <<>>]
    /\ waiting' = [waiting EXCEPT ![t] = NoWait]
    /\ UNCHANGED <<queue, current, cpu, testcases>>

\* ChildStatus::Success: the first selected zombie leaves the child list and
\* its Arc is dropped.
Reap(t, arg) ==
    /\ Zombies(t, arg) # {}
    /\ LET i == Lowest(Zombies(t, arg)) IN
       /\ DropArc(child[t][i], status)
       /\ child' = [child EXCEPT ![t] = RemoveIndex(@, i)]
    /\ waiting' = [waiting EXCEPT ![t] = NoWait]
    /\ UNCHANGED <<queue, current, cpu, testcases>>

\* Mutant: NotFound is handled like NotZombie.
Wait4NeverFails(t, arg, wnohang) ==
    \/ Reap(t, arg)
    \/ /\ Zombies(t, arg) = {} /\ wnohang
       /\ waiting' = [waiting EXCEPT ![t] = NoWait]
       /\ UNCHANGED <<status, strong, pid, relatives, child, queue, current,
                      cpu, freePids, testcases>>
    \/ /\ Zombies(t, arg) = {} /\ ~wnohang
       /\ waiting' = [waiting EXCEPT ![t] = arg]
       /\ SuspendCurrentTask(t)

\* The loop body of sys_wait4, for a call that starts or one that resumes
\* after a suspension.
Wait4Round(t, arg, wnohang) ==
    \/ Reap(t, arg)
    \/ /\ Zombies(t, arg) = {}
       /\ NotFound(t, arg) \/ wnohang      \* returns EINVAL, or 0
       /\ waiting' = [waiting EXCEPT ![t] = NoWait]
       /\ UNCHANGED <<status, strong, pid, relatives, child, queue, current,
                      cpu, freePids, testcases>>
    \/ /\ Zombies(t, arg) = {}
       /\ ~NotFound(t, arg) /\ ~wnohang
       /\ waiting' = [waiting EXCEPT ![t] = arg]
       /\ SuspendCurrentTask(t)

SysWait4(t, arg, wnohang) == InUser(t) /\ Wait4Round(t, arg, wnohang)

\* Mutant: the resumed call does not look at the child list again.
Wait4SleepsOn(t) ==
    /\ cpu = "user" /\ current = t /\ waiting[t] # NoWait
    /\ SuspendCurrentTask(t)
    /\ UNCHANGED waiting

Wait4Resume(t) ==
    /\ cpu = "user" /\ current = t /\ waiting[t] # NoWait
    /\ Wait4Round(t, waiting[t], FALSE)

\* An unsupported clone flag or wait4 option panics.
UnsupportedFlags(t) == InUser(t) /\ Panic

\* The machine is off, or the kernel has panicked.
Stopped == cpu \in {"off", "panic"} /\ UNCHANGED vars

Next ==
    \/ PopTask
    \/ CheckTestcases
    \/ ReparentRound
    \/ Stopped
    \/ \E t \in Task :
        \/ SysYield(t)
        \/ SysExit(t)
        \/ Wait4Resume(t)
        \/ UnsupportedFlags(t)
        \/ \E flags \in SUBSET CloneFlags : SysClone(t, flags)
        \/ \E arg \in WaitArgs, wnohang \in BOOLEAN : SysWait4(t, arg, wnohang)

Spec == Init /\ [][Next]_vars

------------------------------------------------------------------------------
Has(s, t) == \E i \in DOMAIN s : s[i] = t

Distinct(s) == \A i, j \in DOMAIN s : s[i] = s[j] => i = j

Listed(t) == \E p \in Task : Has(child[p], t)

TypeOK ==
    /\ status \in [Task -> Statuses]
    /\ strong \in [Task -> Nat]
    /\ pid \in [Task -> Nat]
    /\ tgid \in [Task -> Nat]
    /\ ppid \in [Task -> Nat]
    /\ parent \in [Task -> Task \cup {NoTask}]
    /\ child \in [Task -> Seq(Task)]
    /\ waiting \in [Task -> WaitArgs \cup {NoWait}]
    /\ queue \in Seq(Task)
    /\ current \in Task \cup {NoTask}
    /\ cpu \in CpuModes
    /\ freePids \subseteq Pids
    /\ testcases \in Nat

\* The ready queue and the task states agree across clone, yield, blocking in
\* wait4 and exit: a task is queued exactly when it is Ready and at most once,
\* so no task is run twice at a time or forgotten, and the one Running task is
\* the one the hart executes.
SchedulerInv ==
    /\ \A t \in Task : status[t] = "Ready" <=> Has(queue, t)
    /\ Distinct(queue)
    /\ \A t \in Task : status[t] = "Running" => current = t
    /\ cpu = "user" => current \in Task /\ status[current] = "Running"
    /\ cpu = "exit" => current \in Task /\ status[current] = "Dead"
    /\ cpu \in {"pop", "check", "off"} => current = NoTask

\* The strong references to t that exist: entries of the queue and of child
\* lists, CpuLocal.current (or exit_current_task's local), ORIGIN_TASK.
At(s, t) == {i \in DOMAIN s : s[i] = t}
QueueRefs(t) == {<<"queue", NoTask, i>> : i \in At(queue, t)}
ChildRefs(t) == UNION {{<<"child", p, i>> : i \in At(child[p], t)} : p \in Task}
CurrentRefs(t) == {<<"current", NoTask, 0>> : x \in {current} \cap {t}}
OriginRefs(t) == {<<"origin", NoTask, 0>> : x \in {Origin} \cap {t}}

References(t) ==
    ((QueueRefs(t) \cup ChildRefs(t)) \cup CurrentRefs(t)) \cup OriginRefs(t)

\* The clones and drops of Arc<PCB> that clone, exit, wait4 and the scheduler
\* make balance: the strong count of a PCB is the number of places that hold
\* it, so a PCB is freed neither early nor never.
ArcInv == \A t \in Task : strong[t] = Cardinality(References(t))

\* No freed PCB is reachable from the queue, the hart, a child list or
\* ORIGIN_TASK, and no PCB that is still allocated has become unreachable: a
\* zombie nobody can reap does not exist.
ReachableInv ==
    \A t \in Task : status[t] # "Free"
                    <=> Has(queue, t) \/ Listed(t) \/ current = t \/ t = Origin

\* Pids of allocated PCBs are distinct and not free, although clone reuses
\* the pids that wait4 and exit give back; and no pid leaks: each one is free
\* or carried by an allocated PCB.
PidInv ==
    /\ \A t \in Task : status[t] # "Free" => pid[t] \in Pids \ freePids
    /\ \A t, u \in Task :
          status[t] # "Free" /\ status[u] # "Free" /\ pid[t] = pid[u] => t = u
    /\ \A p \in Pids \ freePids :
          \E t \in Task : status[t] # "Free" /\ pid[t] = p

\* A task suspended in wait4 for a pid or a group still has a child its
\* argument selects, whatever exited or was cloned with a reused pid in the
\* meantime: the resumed call does not turn into EINVAL.
BlockedWaitInv ==
    \A t \in Task : waiting[t] # NoWait => ~NotFound(t, waiting[t])

\* When the queue runs empty and the next test case is loaded, or the machine
\* is powered off, no task of the finished test case is left: each one but the
\* origin task has been freed, and all pids but the origin's are free again.
TestcaseIsolation ==
    (cpu = "check" /\ queue = <<>>) \/ cpu = "off"
    => /\ \A t \in Task \ {Origin} : status[t] = "Free"
       /\ freePids = Pids \ {pid[Origin]}

\* First in, first out: while a task stays queued, nothing gets in front of it
\* that was not there before, and nothing behind it leaves first.
FifoOrder ==
    [][\A i \in DOMAIN queue, m \in DOMAIN queue' : queue'[m] = queue[i] =>
          /\ \A k \in 1..(m - 1) : \E j \in 1..(i - 1) : queue[j] = queue'[k]
          /\ \A j \in (i + 1)..Len(queue) :
                \E k \in (m + 1)..Len(queue') : queue'[k] = queue[j]]_vars

------------------------------------------------------------------------------
\* The hart keeps executing kernel code.  Of user programs it is assumed, as
\* a cooperative kernel must, that each running one in time yields or exits.
Fairness ==
    /\ WF_vars(PopTask)
    /\ WF_vars(CheckTestcases)
    /\ WF_vars(ReparentRound)
    /\ WF_vars(\E t \in Task : Wait4Resume(t))
    /\ WF_vars(\E t \in Task : SysYield(t) \/ SysExit(t))

FairSpec == Spec /\ Fairness

\* The kernel schedules no more: it is off, has panicked or is inside the
\* reparenting loop.
Halted == cpu \in {"off", "panic", "exit"}

\* A Ready task is run in the end: the queue starves nobody.
EventuallyScheduled ==
    \A t \in Task : status[t] = "Ready" ~> status[t] = "Running" \/ Halted

\* A task suspended in wait4 returns once a child it waits for is dead,
\* although nothing wakes it up: the polling loop comes round again.
WaitReturns ==
    \A t \in Task : (waiting[t] # NoWait /\ Zombies(t, waiting[t]) # {})
                    ~> waiting[t] = NoWait \/ Halted

\* What sys_exit's comment promises, that the process terminates at once and
\* its children are moved to init: the exiting task leaves the hart.
ExitCompletes == cpu = "exit" ~> cpu = "check"

=============================================================================
