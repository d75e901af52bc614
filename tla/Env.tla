--------------------------------- MODULE Env ---------------------------------
(****************************************************************************)
(* Access to user memory from the kernel: the SUM bit of sstatus, the       *)
(* counter of process/hart/env.rs that SumGuard keeps for it, the trap      *)
(* entry and exit that save and restore sstatus, and the system calls that  *)
(* suspend, copy or build a trap context while guards are alive.            *)
(*                                                                          *)
(* The counter and the bit belong to the hart; the guards live on the       *)
(* kernel stacks of the tasks, and __switch saves neither.                  *)
(****************************************************************************)
EXTENDS Integers, Sequences

CONSTANTS
    Task,        \* tasks
    Root,        \* the first one
    NoTask,      \* the hart is in run_task
    Syscalls,    \* the names of the calls that programs make
    Width        \* usize has Width values

ASSUME TaskAssumption == Root \in Task /\ NoTask \notin Task
ASSUME SyscallsAssumption ==
    Syscalls \subseteq {"copy", "pipe", "stdin", "stdout", "wait4", "yield", "clone",
                        "exec", "exit"}
ASSUME WidthAssumption == Width \in Nat /\ Width > 1

VARIABLES
    sum,         \* sstatus.SUM
    sum_status,  \* Env.sum_status
    saved,       \* SUM in the sstatus of a task's trap context
    alive,       \* the tasks
    current,     \* the task that runs
    user,        \* the tasks that are in user mode
    todo,        \* what is left of a system call
    fault        \* the kernel touched user memory while SUM was clear

hart == <<sum, sum_status>>
vars == <<hart, saved, alive, current, user, todo, fault>>

\* What the calls do with guards and user memory, in order, one sequence for
\* each way through the code.  "new" and "drop" are those of a SumGuard;
\* "access" touches user memory; "suspend" stands for any number of
\* suspend_current_task, also none.

\* Pipe::read and Pipe::write: each round waits for the ring, then copies
\* under a guard of its own; the call may end while it waits.
Round == <<"suspend", "new", "access", "drop">>
PipeCopies == {Round, Round \o Round, <<"suspend">>, Round \o <<"suspend">>}

\* Stdin::read: the character is stored under the caller's guard.
StdinRead == <<"suspend", "access">>

\* Stdout::write.
StdoutWrite == <<"new", "access", "drop">>

\* waitpid: the status is stored when the caller wants it.
WaitPid == {Round, <<"suspend">>}

\* Mutant: the trap context is built before build_stack returns.
FromExecEarly == <<"new", "access", "context", "drop">>

\* from_exec: build_stack, then exec_trap_cx.
FromExec == <<"new", "access", "drop", "context">>

Guarded(body) == <<"new">> \o body \o <<"drop">>

Paths(c) ==
    CASE c = "copy"   -> {Guarded(<<"access">>)}  \* most calls
      [] c = "pipe"   -> {Guarded(body) : body \in PipeCopies}
      [] c = "stdin"  -> {Guarded(StdinRead)}
      [] c = "stdout" -> {Guarded(StdoutWrite)}
      [] c = "wait4"  -> WaitPid
      [] c = "yield"  -> {<<"suspend">>}
      [] c = "clone"  -> {Guarded(<<"clone">>)}
      [] c = "exec"   -> {Guarded(<<"access">> \o FromExec)}
      [] c = "exit"   -> {<<"exit">>}

Init ==
    /\ sum = FALSE /\ sum_status = 0
    /\ saved = [k \in Task |-> FALSE]
    /\ alive = {Root}
    /\ current = NoTask
    /\ user = {}
    /\ todo = [k \in Task |-> <<>>]
    /\ fault = FALSE

------------------------------------------------------------------------------
\* Env::read_sum: (sstatus & (1 << 18)) == 1 is never true.
ReadSum == FALSE

\* Mutant: the counter is restarted, but the bit is only set for the first
\* guard.
SumOnFirst ==
    /\ sum' = (sum \/ sum_status = 0)
    /\ sum_status' = 1

\* Env::sum_on, the body of SumGuard::new.
SumOn ==
    IF sum_status = 0 \/ ~ReadSum
    THEN sum' = TRUE /\ sum_status' = 1
    ELSE sum' = sum /\ sum_status' = (sum_status + 1) % Width

\* Env::sum_off, the body of SumGuard's drop; the counter wraps below 0.
SumOff ==
    /\ sum' = (sum /\ sum_status # 1)
    /\ sum_status' = (sum_status - 1) % Width

InKernel(k) == current = k /\ k \notin user

At(k, step) == InKernel(k) /\ todo[k] # <<>> /\ Head(todo[k]) = step
Advance(k) == todo' = [todo EXCEPT ![k] = Tail(@)]

New(k) ==
    /\ At(k, "new")
    /\ SumOn
    /\ Advance(k)
    /\ UNCHANGED <<saved, alive, current, user, fault>>

Drop(k) ==
    /\ At(k, "drop")
    /\ SumOff
    /\ Advance(k)
    /\ UNCHANGED <<saved, alive, current, user, fault>>

Access(k) ==
    /\ At(k, "access")
    /\ fault' = (fault \/ ~sum)
    /\ Advance(k)
    /\ UNCHANGED <<hart, saved, alive, current, user>>

\* suspend_current_task; the task comes back to the same place.
Suspend(k) ==
    /\ At(k, "suspend")
    /\ current' = NoTask
    /\ UNCHANGED <<hart, saved, alive, user, todo, fault>>

\* What the task waited for is there.
GoOn(k) ==
    /\ At(k, "suspend")
    /\ Advance(k)
    /\ UNCHANGED <<hart, saved, alive, current, user, fault>>

\* from_clone: the child starts from a copy of the caller's trap context.
Clone(k, new) ==
    /\ At(k, "clone")
    /\ new \notin alive
    /\ alive' = alive \cup {new}
    /\ saved' = [saved EXCEPT ![new] = saved[k]]
    /\ Advance(k)
    /\ UNCHANGED <<hart, current, user, fault>>

\* exec_trap_cx: the new trap context takes the sstatus of the moment.
Context(k) ==
    /\ At(k, "context")
    /\ saved' = [saved EXCEPT ![k] = sum]
    /\ Advance(k)
    /\ UNCHANGED <<hart, alive, current, user, fault>>

\* exit_current_task.
Exit(k) ==
    /\ At(k, "exit")
    /\ alive' = alive \ {k}
    /\ current' = NoTask
    /\ Advance(k)
    /\ UNCHANGED <<hart, saved, user, fault>>

------------------------------------------------------------------------------
\* __alltraps: sstatus goes to the trap context.  Bound: no clone while every
\* task of the model is alive.
Trap(k, c) ==
    /\ current = k /\ k \in user
    /\ c = "clone" => alive # Task
    /\ user' = user \ {k}
    /\ saved' = [saved EXCEPT ![k] = sum]
    /\ \E path \in Paths(c) : todo' = [todo EXCEPT ![k] = path]
    /\ UNCHANGED <<hart, alive, current, fault>>

\* __restore: sstatus comes from the trap context.
Restore(k) ==
    /\ InKernel(k) /\ todo[k] = <<>>
    /\ sum' = saved[k]
    /\ user' = user \cup {k}
    /\ UNCHANGED <<sum_status, saved, alive, current, todo, fault>>

\* run_task gives the hart to a task, new or suspended.
Switch(k) ==
    /\ current = NoTask /\ k \in alive
    /\ current' = k
    /\ UNCHANGED <<hart, saved, alive, user, todo, fault>>

\* run_task finds nothing to run and starts the next program; init_trap_cx
\* takes the sstatus of the moment.
InitTask(k) ==
    /\ current = NoTask /\ alive = {}
    /\ alive' = {k}
    /\ saved' = [saved EXCEPT ![k] = sum]
    /\ UNCHANGED <<hart, current, user, todo, fault>>

Next ==
    \E k \in Task :
        \/ New(k) \/ Drop(k) \/ Access(k)
        \/ Suspend(k) \/ GoOn(k)
        \/ \E new \in Task : Clone(k, new)
        \/ Context(k)
        \/ Exit(k)
        \/ \E c \in Syscalls : Trap(k, c)
        \/ Restore(k)
        \/ Switch(k)
        \/ InitTask(k)

Spec == Init /\ [][Next]_vars

------------------------------------------------------------------------------
TypeOK ==
    /\ sum \in BOOLEAN /\ fault \in BOOLEAN
    /\ sum_status \in 0..(Width - 1)
    /\ saved \in [Task -> BOOLEAN]
    /\ alive \subseteq Task /\ user \subseteq alive
    /\ current \in alive \cup {NoTask}
    /\ \A k \in Task : k \in user => todo[k] = <<>>

\* The kernel never touches user memory while SUM is clear, although the
\* counter is left over from other tasks and runs below 0 when guards nest.
\* It holds for the calls that make a guard after they were last suspended.
\* Stdin::read does not: it stores the character under the guard that
\* sys_read made before the task was suspended.
NoKernelFault == ~fault

\* No program runs with SUM set: every trap context is made or saved while
\* the bit is clear, also the one that execve builds under its own guard.  It
\* rests on the inner guard of build_stack clearing the bit although the outer
\* one is alive.
UserSumClear == \A k \in alive : ~saved[k] /\ (current = k /\ k \in user => ~sum)
==============================================================================
