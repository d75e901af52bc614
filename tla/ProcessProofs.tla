---------------------------- MODULE ProcessProofs ----------------------------
(****************************************************************************)
(* Proofs about Process, for every set of PCB slots, number of pids and     *)
(* number of test cases.                                                    *)
(****************************************************************************)
EXTENDS Process, TLAPS, FiniteSetTheorems, WellFoundedInduction

\* Outside the reparenting loop and a panic.
Calm == cpu \notin {"exit", "panic"}

\* A task that the scheduler still has to do with.
Runnable(t) == status[t] \in {"Ready", "Running"}

\* A truth value as a number of references.
One(b) == IF b THEN 1 ELSE 0

\* The strong count, holder by holder: scheduler, ORIGIN_TASK, a child list.
CountInv ==
    /\ Calm => \A t \in Task :
          strong[t] = One(Runnable(t)) + One(t = Origin) + One(Listed(t))
    /\ \A t \in Task : status[t] = "Free" <=> strong[t] = 0

\* Child lists: a PCB is in at most one, once; a task that is gone has none.
FamilyInv ==
    /\ \A p \in Task : ~Has(child[p], Origin)
    /\ \A t \in Task : status[t] = "Free" => child[t] = <<>> /\ ~Listed(t)
    /\ cpu = "exit" => child[current] # <<>>
    /\ Calm => /\ \A t \in Task : status[t] = "Dead" => child[t] = <<>>
               /\ \A p \in Task : Distinct(child[p])
               /\ \A p, q, t \in Task :
                     Has(child[p], t) /\ Has(child[q], t) => p = q

\* A suspended wait4 belongs to a runnable task, and has a child to wait for.
WaitInv ==
    \A t \in Task : waiting[t] # NoWait =>
        /\ Runnable(t)
        /\ \/ waiting[t] = -1
           \/ \E c \in Task : Has(child[t], c) /\ Selects(waiting[t], t, c)

\* The machine is powered off with an empty queue.
OffInv == cpu = "off" => queue = <<>>

\* The inductive invariant.
IInv == TypeOK /\ SchedulerInv /\ PidInv /\ CountInv /\ FamilyInv
        /\ ReachableInv /\ WaitInv /\ OffInv

------------------------------------------------------------------------------
\* An empty list has no element.
LEMMA EmptyFacts == \A t : ~Has(<<>>, t)
BY DEF Has

\* The first element of a list that is not empty.
LEMMA FirstFacts ==
    ASSUME NEW S, NEW s \in Seq(S), s # <<>>
    PROVE  1 \in DOMAIN s /\ s[1] \in S
OBVIOUS

\* Appending adds exactly the appended element, and keeps a sequence without
\* repetitions so when the element is new (push_back and Vec::push).
LEMMA AppendFacts ==
    ASSUME NEW S, NEW s \in Seq(S), NEW e \in S
    PROVE  /\ Append(s, e) \in Seq(S)
           /\ \A t : Has(Append(s, e), t) <=> Has(s, t) \/ t = e
           /\ Distinct(s) /\ ~Has(s, e) => Distinct(Append(s, e))
           /\ Append(s, e) # <<>>
<1> DEFINE a == Append(s, e)
<1>1. /\ a \in Seq(S)
      /\ DOMAIN a = 1..(Len(s) + 1)
      /\ \A i \in 1..Len(s) : a[i] = s[i]
      /\ a[Len(s) + 1] = e
      /\ DOMAIN s = 1..Len(s)
      /\ Len(s) \in Nat
  OBVIOUS
<1> HIDE DEF a
<1>2. ASSUME NEW t PROVE Has(a, t) <=> Has(s, t) \/ t = e
  BY <1>1 DEF Has
<1>3. ASSUME Distinct(s), ~Has(s, e) PROVE Distinct(a)
  BY <1>1, <1>3 DEF Has, Distinct
<1>4. a # <<>>
  BY <1>1
<1> QED BY <1>1, <1>2, <1>3, <1>4 DEF a

\* Popping the head removes exactly the head (pop_front).
LEMMA TailFacts ==
    ASSUME NEW S, NEW s \in Seq(S), s # <<>>
    PROVE  /\ Tail(s) \in Seq(S)
           /\ Head(s) \in S
           /\ Has(s, Head(s))
           /\ Distinct(s) =>
                /\ Distinct(Tail(s))
                /\ \A t : Has(Tail(s), t) <=> Has(s, t) /\ t # Head(s)
<1> DEFINE a == Tail(s)
<1>1. /\ a \in Seq(S)
      /\ DOMAIN a = 1..(Len(s) - 1)
      /\ \A i \in 1..(Len(s) - 1) : a[i] = s[i + 1]
      /\ Head(s) = s[1]
      /\ s[1] \in S
      /\ DOMAIN s = 1..Len(s)
      /\ Len(s) \in Nat /\ Len(s) > 0
  OBVIOUS
<1> HIDE DEF a
<1>2. Has(s, Head(s))
  BY <1>1 DEF Has
<1>3. ASSUME Distinct(s) PROVE Distinct(a)
  <2> SUFFICES ASSUME NEW i \in 1..(Len(s) - 1), NEW j \in 1..(Len(s) - 1),
                      a[i] = a[j]
               PROVE  i = j
    BY <1>1 DEF Distinct
  <2>1. i + 1 \in DOMAIN s /\ j + 1 \in DOMAIN s /\ s[i + 1] = s[j + 1]
    BY <1>1
  <2>2. i + 1 = j + 1
    BY <1>3, <2>1 DEF Distinct
  <2> QED BY <2>2
<1>4. ASSUME Distinct(s), NEW t
      PROVE  Has(a, t) <=> Has(s, t) /\ t # Head(s)
  <2>1. ASSUME Has(a, t) PROVE Has(s, t) /\ t # Head(s)
    <3>1. PICK i \in 1..(Len(s) - 1) : a[i] = t
      BY <1>1, <2>1 DEF Has
    <3>2. i + 1 \in 1..Len(s) /\ s[i + 1] = t /\ i + 1 # 1
      BY <1>1, <3>1
    <3> QED BY <1>1, <1>4, <3>2 DEF Has, Distinct
  <2>2. ASSUME Has(s, t), t # Head(s) PROVE Has(a, t)
    <3>1. PICK i \in 1..Len(s) : s[i] = t
      BY <1>1, <2>2 DEF Has
    <3>2. i - 1 \in 1..(Len(s) - 1) /\ a[i - 1] = t
      BY <1>1, <2>2, <3>1
    <3> QED BY <1>1, <3>2 DEF Has
  <2> QED BY <2>1, <2>2
<1> QED BY <1>1, <1>2, <1>3, <1>4 DEF a

\* Removing position i of a sequence without repetitions removes exactly the
\* element there (Vec::remove in waitpid).
LEMMA RemoveFacts ==
    ASSUME NEW S, NEW s \in Seq(S), NEW i \in 1..Len(s)
    PROVE  /\ RemoveIndex(s, i) \in Seq(S)
           /\ Distinct(s) =>
                /\ Distinct(RemoveIndex(s, i))
                /\ \A t : Has(RemoveIndex(s, i), t) <=> Has(s, t) /\ t # s[i]
<1> DEFINE a == RemoveIndex(s, i)
<1>1. /\ DOMAIN s = 1..Len(s)
      /\ Len(s) \in Nat /\ Len(s) > 0
      /\ \A j \in 1..Len(s) : s[j] \in S
  OBVIOUS
<1>2. /\ DOMAIN a = 1..(Len(s) - 1)
      /\ \A j \in 1..(Len(s) - 1) : a[j] = IF j < i THEN s[j] ELSE s[j + 1]
  BY <1>1 DEF RemoveIndex
<1>3. a \in Seq(S)
  <2>1. \A j \in 1..(Len(s) - 1) : a[j] \in S
    BY <1>1, <1>2
  <2>2. a \in [1..(Len(s) - 1) -> S]
    BY <1>1, <2>1 DEF RemoveIndex
  <2> QED BY <1>1, <2>2
<1> HIDE DEF a
<1>4. ASSUME Distinct(s) PROVE Distinct(a)
  <2> SUFFICES ASSUME NEW j \in 1..(Len(s) - 1), NEW k \in 1..(Len(s) - 1),
                      a[j] = a[k]
               PROVE  j = k
    BY <1>2 DEF Distinct
  <2> DEFINE old(x) == IF x < i THEN x ELSE x + 1
  <2>1. old(j) \in DOMAIN s /\ old(k) \in DOMAIN s /\ s[old(j)] = s[old(k)]
    BY <1>1, <1>2
  <2>2. old(j) = old(k)
    BY <1>4, <2>1 DEF Distinct
  <2> QED BY <2>2
<1>5. ASSUME Distinct(s), NEW t
      PROVE  Has(a, t) <=> Has(s, t) /\ t # s[i]
  <2>1. ASSUME Has(a, t) PROVE Has(s, t) /\ t # s[i]
    <3>1. PICK j \in 1..(Len(s) - 1) : a[j] = t
      BY <1>2, <2>1 DEF Has
    <3>2. PICK k \in 1..Len(s) : s[k] = t /\ k # i
      BY <1>1, <1>2, <3>1
    <3> QED BY <1>1, <1>5, <3>2 DEF Has, Distinct
  <2>2. ASSUME Has(s, t), t # s[i] PROVE Has(a, t)
    <3>1. PICK k \in 1..Len(s) : s[k] = t
      BY <1>1, <2>2 DEF Has
    <3>2. CASE k < i
      BY <1>1, <1>2, <3>1, <3>2 DEF Has
    <3>3. CASE k > i
      <4>1. k - 1 \in 1..(Len(s) - 1) /\ a[k - 1] = t
        BY <1>1, <1>2, <3>1, <3>3
      <4> QED BY <1>2, <4>1 DEF Has
    <3> QED BY <1>1, <2>2, <3>1, <3>2, <3>3
  <2> QED BY <2>1, <2>2
<1> QED BY <1>1, <1>3, <1>4, <1>5 DEF a

\* A non-empty set of numbers has a lowest member, which Lowest picks (the
\* pid that the bitmap allocator hands out, the zombie that waitpid finds).
LEMMA LowestFact ==
    ASSUME NEW S, S \subseteq Nat, S # {}
    PROVE  Lowest(S) \in S /\ \A q \in S : Lowest(S) <= q
<1>1. IsWellFoundedOn(OpToRel(<, Nat), Nat)
  BY NatLessThanWellFounded, Zenon
<1>2. \E x \in S : \A y \in S : ~(<<y, x>> \in OpToRel(<, Nat))
  BY <1>1, WFMin, Zenon
<1>3. \E x \in S : \A y \in S : x <= y
  <2>1. PICK x \in S : \A y \in S : ~(<<y, x>> \in OpToRel(<, Nat))
    BY <1>2, Zenon
  <2>2. ASSUME NEW y \in S PROVE x <= y
    <3>1. ~(<<y, x>> \in {ss \in Nat \X Nat : ss[1] < ss[2]})
      BY <2>1 DEF OpToRel
    <3>2. x \in Nat /\ y \in Nat
      OBVIOUS
    <3>3. ~(y < x)
      BY <3>1, <3>2
    <3> QED BY <3>2, <3>3
  <2> QED BY <2>2
<1> QED BY <1>3, Zenon DEF Lowest

------------------------------------------------------------------------------
\* It holds after init_origin_task.
LEMMA InitInv == Init => IInv
<1> SUFFICES ASSUME Init PROVE IInv
  OBVIOUS
<1> USE TaskAssumption, PidAssumption, WaitAssumption, BoundAssumption
<1>1. TypeOK
  BY DEF Init, TypeOK, Statuses, CpuModes, Pids
<1>2. /\ \A t : ~Has(<<>>, t)
      /\ \A t : Has(<<Origin>>, t) <=> t = Origin
      /\ Distinct(<<Origin>>) /\ Distinct(<<>>)
  BY DEF Has, Distinct
<1>3. \A p \in Task : \A t : ~Has(child[p], t)
  BY <1>2 DEF Init
<1>4. SchedulerInv
  BY <1>2 DEF Init, SchedulerInv
<1>5. PidInv
  BY DEF Init, PidInv, Pids
<1>6. CountInv
  BY <1>3 DEF Init, CountInv, Runnable, Listed, One
<1>7. FamilyInv
  BY <1>2, <1>3 DEF Init, FamilyInv, Listed
<1>8. ReachableInv
  BY <1>2, <1>3 DEF Init, ReachableInv, Listed
<1>9. WaitInv /\ OffInv
  BY DEF Init, WaitInv, OffInv
<1> QED BY <1>1, <1>4, <1>5, <1>6, <1>7, <1>8, <1>9 DEF IInv

\* A panic changes nothing but where the hart is.
LEMMA PanicInv == IInv /\ Panic => IInv'
<1> SUFFICES ASSUME IInv, Panic PROVE IInv'
  OBVIOUS
<1> USE DEF IInv, Panic, relatives
<1>1. TypeOK'
  BY DEF TypeOK, CpuModes
<1>2. SchedulerInv'
  BY DEF SchedulerInv
<1>3. PidInv'
  BY DEF PidInv
<1>4. CountInv'
  BY DEF CountInv, Calm
<1>5. FamilyInv'
  BY DEF FamilyInv, Calm, Listed
<1>6. ReachableInv'
  BY DEF ReachableInv, Listed
<1>7. WaitInv' /\ OffInv'
  BY DEF WaitInv, OffInv, Runnable, Selects
<1> QED BY <1>1, <1>2, <1>3, <1>4, <1>5, <1>6, <1>7

\* A step of run_task that moves only the hart's program counter.
LEMMA CpuOnlyInv ==
    ASSUME IInv, cpu \in {"pop", "check"},
           \/ cpu' \in {"pop", "check"}
           \/ cpu' = "off" /\ queue = <<>>,
           UNCHANGED <<status, strong, pid, relatives, child, waiting, queue,
                       current, freePids, testcases>>
    PROVE  IInv'
<1> USE DEF IInv, relatives
<1>1. TypeOK'
  BY DEF TypeOK, CpuModes
<1>2. SchedulerInv'
  BY DEF SchedulerInv
<1>3. PidInv'
  BY DEF PidInv
<1>4. CountInv'
  BY Zenon DEF CountInv, Calm, Runnable, Listed
<1>5. FamilyInv'
  BY DEF FamilyInv, Calm, Listed
<1>6. ReachableInv'
  BY DEF ReachableInv, Listed
<1>7. WaitInv' /\ OffInv'
  BY DEF WaitInv, OffInv, Runnable, Selects
<1> QED BY <1>1, <1>2, <1>3, <1>4, <1>5, <1>6, <1>7

\* run_task takes the head of the queue.
LEMMA PopTaskInv == IInv /\ PopTask => IInv'
<1> SUFFICES ASSUME IInv, PopTask PROVE IInv'
  OBVIOUS
<1> USE DEF IInv, PopTask, relatives
<1>1. CASE queue = <<>>
  <2>1. /\ cpu = "pop" /\ cpu' = "check"
        /\ UNCHANGED <<status, strong, pid, relatives, child, waiting, queue,
                       current, freePids, testcases>>
    BY <1>1
  <2> QED BY <2>1, CpuOnlyInv
<1>2. CASE queue # <<>>
  <2> DEFINE h == Head(queue)
  <2>1. /\ h \in Task /\ Tail(queue) \in Seq(Task)
        /\ status[h] = "Ready"
        /\ Distinct(Tail(queue))
        /\ \A t : Has(Tail(queue), t) <=> Has(queue, t) /\ t # h
    BY <1>2, TailFacts DEF TypeOK, SchedulerInv
  <2>2. /\ status' = [status EXCEPT ![h] = "Running"]
        /\ current' = h /\ queue' = Tail(queue) /\ cpu = "pop" /\ cpu' = "user"
        /\ UNCHANGED <<strong, pid, relatives, child, waiting, freePids, testcases>>
    BY <1>2
  <2> HIDE DEF h, PopTask
  <2>3. TypeOK'
    BY <2>1, <2>2, Zenon DEF TypeOK, CpuModes, Statuses
  <2>4. SchedulerInv'
    BY <2>1, <2>2, TaskAssumption, Zenon DEF SchedulerInv, TypeOK
  <2>5. PidInv'
    BY <2>1, <2>2, Zenon DEF PidInv, TypeOK
  <2>6. CountInv'
    <3>1. \A t \in Task : /\ Runnable(t)' <=> Runnable(t)
                          /\ Listed(t)' <=> Listed(t)
                          /\ status'[t] = "Free" <=> status[t] = "Free"
      BY <2>1, <2>2 DEF Runnable, Listed, TypeOK
    <3> QED BY <2>2, <3>1 DEF CountInv, Calm, One
  <2>7. FamilyInv'
    BY <2>1, <2>2, Zenon DEF FamilyInv, Calm, Listed, TypeOK
  <2>8. ReachableInv'
    BY <2>1, <2>2, TaskAssumption, ZenonT(60) DEF ReachableInv, SchedulerInv, Listed, TypeOK
  <2>9. WaitInv' /\ OffInv'
    BY <2>1, <2>2, Zenon DEF WaitInv, OffInv, Runnable, Selects, TypeOK
  <2> QED BY <2>3, <2>4, <2>5, <2>6, <2>7, <2>8, <2>9
<1> QED BY <1>1, <1>2

\* waitpid answers NotFound exactly when no child is selected.
LEMMA NotFoundFact ==
    ASSUME TypeOK, NEW t \in Task, NEW arg
    PROVE  ~NotFound(t, arg) <=>
             \/ arg = -1
             \/ \E c \in Task : Has(child[t], c) /\ Selects(arg, t, c)
<1>1. \A i \in DOMAIN child[t] : child[t][i] \in Task
  BY DEF TypeOK
<1> QED BY <1>1 DEF NotFound, Selected, Has

\* suspend_current_task, called from sched_yield or from wait4.
LEMMA SuspendInv ==
    ASSUME IInv, NEW t \in Task, cpu = "user", current = t,
           SuspendCurrentTask(t),
           waiting' \in [Task -> WaitArgs \cup {NoWait}],
           \A u \in Task \ {t} : waiting'[u] = waiting[u],
           \/ waiting'[t] = waiting[t]
           \/ waiting'[t] \in WaitArgs /\ ~NotFound(t, waiting'[t])
    PROVE  IInv'
<1> USE DEF IInv
<1>1. /\ status' = [status EXCEPT ![t] = "Ready"]
      /\ queue' = Append(queue, t) /\ current' = NoTask /\ cpu' = "check"
      /\ UNCHANGED <<strong, pid, tgid, ppid, parent, child, freePids, testcases>>
  BY DEF SuspendCurrentTask, relatives
<1>2. /\ status[t] = "Running" /\ ~Has(queue, t)
      /\ \A u \in Task \ {t} : status[u] # "Running"
  BY DEF SchedulerInv
<1>3. /\ queue' \in Seq(Task) /\ Distinct(queue')
      /\ \A u : Has(queue', u) <=> Has(queue, u) \/ u = t
  BY <1>1, <1>2, AppendFacts DEF TypeOK, SchedulerInv
<1>4. /\ status' \in [Task -> Statuses] /\ status'[t] = "Ready"
      /\ \A u \in Task \ {t} : status'[u] = status[u]
  BY <1>1 DEF TypeOK, Statuses
<1>5. \A u \in Task : /\ Runnable(u)' <=> Runnable(u)
                      /\ Listed(u)' <=> Listed(u)
                      /\ status'[u] = "Free" <=> status[u] = "Free"
                      /\ status'[u] = "Dead" <=> status[u] = "Dead"
  BY <1>1, <1>2, <1>4 DEF Runnable, Listed
<1>6. TypeOK'
  BY <1>1, <1>3, <1>4 DEF TypeOK, CpuModes
<1>7. SchedulerInv'
  BY <1>1, <1>2, <1>3, <1>4, TaskAssumption DEF SchedulerInv
<1>8. PidInv'
  BY <1>1, <1>5 DEF PidInv
<1>9. CountInv'
  BY <1>1, <1>5 DEF CountInv, Calm, One
<1>10. FamilyInv'
  BY <1>1, <1>5 DEF FamilyInv, Calm
<1>11. ReachableInv'
  BY <1>1, <1>3, <1>5, TaskAssumption DEF ReachableInv
<1>12. WaitInv'
  <2>1. ASSUME NEW u \in Task, waiting'[u] # NoWait
        PROVE  /\ Runnable(u)
               /\ \/ waiting'[u] = -1
                  \/ \E c \in Task : /\ Has(child[u], c)
                                     /\ Selects(waiting'[u], u, c)
    <3>1. CASE waiting'[u] = waiting[u]
      BY <2>1, <3>1 DEF WaitInv
    <3>2. CASE waiting'[u] # waiting[u]
      BY <1>2, <3>2, NotFoundFact DEF Runnable
    <3> QED BY <3>1, <3>2
  <2> QED BY <1>1, <1>5, <2>1 DEF WaitInv, Selects
<1>13. OffInv'
  BY <1>1 DEF OffInv
<1> QED BY <1>6, <1>7, <1>8, <1>9, <1>10, <1>11, <1>12, <1>13

\* The allocator hands out a pid that was free.
LEMMA LowestPid ==
    ASSUME IInv, freePids # {}
    PROVE  LET p == Lowest(freePids) IN p \in freePids /\ p \in Pids /\ p \in Nat
<1>1. Pids \subseteq Nat
  BY PidAssumption DEF Pids
<1>2. freePids \subseteq Pids
  BY DEF IInv, TypeOK
<1>3. Lowest(freePids) \in freePids
  BY <1>1, <1>2, LowestFact, Zenon
<1> QED BY <1>1, <1>2, <1>3, Zenon

\* Creating a PCB, by clone (with the new task in the caller's child list or
\* not) or for a test case.
LEMMA CreateInv ==
    ASSUME IInv, freePids # {},
           NEW n \in Task, NEW g \in Nat, NEW q \in Nat,
           NEW f \in Task \cup {NoTask},
           NewPcb(n, Lowest(freePids), g, q, f),
           NEW t \in Task, NEW listed \in BOOLEAN,
           listed => status[t] = "Running",
           child' = IF listed THEN [child EXCEPT ![t] = Append(@, n)] ELSE child,
           strong' = [strong EXCEPT ![n] = IF listed THEN 2 ELSE 1],
           queue' = Append(queue, n),
           UNCHANGED <<waiting, current>>,
           testcases' \in Nat,
           \/ cpu = "user" /\ cpu' = "user"
           \/ cpu = "check" /\ cpu' = "pop"
    PROVE  IInv'
<1> USE DEF IInv
<1> DEFINE p == Lowest(freePids)
<1>1. p \in freePids /\ p \in Pids /\ p \in Nat
  BY LowestPid
<1> HIDE DEF p
<1>2. /\ status[n] = "Free" /\ n # Origin /\ current # n
      /\ ~Has(queue, n) /\ ~Listed(n) /\ child[n] = <<>> /\ strong[n] = 0
      /\ waiting[n] = NoWait
  BY DEF NewPcb, SchedulerInv, ReachableInv, FamilyInv, CountInv, WaitInv, Runnable
<1>3. /\ pid' = [pid EXCEPT ![n] = p] /\ tgid' = [tgid EXCEPT ![n] = g]
      /\ ppid' = [ppid EXCEPT ![n] = q] /\ parent' = [parent EXCEPT ![n] = f]
      /\ freePids' = freePids \ {p}
  BY DEF NewPcb, p
<1>4. /\ status' \in [Task -> Statuses] /\ status'[n] = "Ready"
      /\ \A u \in Task \ {n} : status'[u] = status[u]
  BY DEF NewPcb, TypeOK, Statuses
<1>5. /\ queue' \in Seq(Task) /\ Distinct(queue')
      /\ \A u : Has(queue', u) <=> Has(queue, u) \/ u = n
  BY <1>2, AppendFacts DEF TypeOK, SchedulerInv
<1>6. /\ child' \in [Task -> Seq(Task)]
      /\ \A v \in Task : ~(listed /\ v = t) => child'[v] = child[v]
      /\ listed => child'[t] = Append(child[t], n)
  <2>1. Append(child[t], n) \in Seq(Task)
    BY AppendFacts DEF TypeOK
  <2> QED BY <2>1, Zenon DEF TypeOK
<1>7. \A v \in Task : \A u :
         Has(child'[v], u) <=> Has(child[v], u) \/ (listed /\ v = t /\ u = n)
  <2>1. \A u : Has(Append(child[t], n), u) <=> Has(child[t], u) \/ u = n
    BY AppendFacts, SMTT(30) DEF TypeOK
  <2> QED BY <1>6, <2>1
<1>8. \A v \in Task : Distinct(child[v]) => Distinct(child'[v])
  <2>1. ~Has(child[t], n)
    BY <1>2 DEF Listed
  <2>2. Distinct(child[t]) => Distinct(Append(child[t], n))
    BY <2>1, AppendFacts DEF TypeOK
  <2> QED BY <1>6, <2>2
<1>9. \A u \in Task : Listed(u)' <=> Listed(u) \/ (listed /\ u = n)
  BY <1>7, Zenon DEF Listed
<1>10. /\ strong' \in [Task -> Nat]
       /\ strong'[n] = IF listed THEN 2 ELSE 1
       /\ \A u \in Task \ {n} : strong'[u] = strong[u]
  BY DEF TypeOK
<1>11. /\ pid'[n] = p /\ tgid'[n] = g
       /\ \A u \in Task \ {n} : pid'[u] = pid[u] /\ tgid'[u] = tgid[u]
  BY <1>3 DEF TypeOK
<1>12. TypeOK'
  BY <1>1, <1>3, <1>4, <1>5, <1>6, <1>10, ZenonT(60) DEF TypeOK, CpuModes
<1>13. SchedulerInv'
  BY <1>2, <1>4, <1>5, TaskAssumption, SMTT(30) DEF SchedulerInv
<1>14. PidInv'
  <2>1. \A u \in Task : status'[u] # "Free" => pid'[u] \in Pids \ freePids'
    BY <1>1, <1>3, <1>4, <1>11 DEF PidInv
  <2>2. ASSUME NEW u \in Task, NEW v \in Task, status'[u] # "Free",
               status'[v] # "Free", pid'[u] = pid'[v]
        PROVE  u = v
    BY <1>1, <1>4, <1>11, <2>2 DEF PidInv
  <2>3. ASSUME NEW x \in Pids \ freePids'
        PROVE  \E u \in Task : status'[u] # "Free" /\ pid'[u] = x
    <3>1. CASE x = p
      BY <1>4, <1>11, <3>1
    <3>2. CASE x # p
      <4>1. x \in Pids \ freePids
        BY <1>3, <3>2
      <4>2. PidInv
        OBVIOUS
      <4>3. PICK u \in Task : status[u] # "Free" /\ pid[u] = x
        BY ONLY <4>1, <4>2 DEF PidInv
      <4>4. u # n
        BY <1>2, <4>3
      <4> QED BY <1>4, <1>11, <4>3, <4>4
    <3> QED BY <3>1, <3>2
  <2> QED BY <2>1, <2>2, <2>3 DEF PidInv
<1>15. CountInv'
  <2>1. \A u \in Task \ {n} : /\ Runnable(u)' <=> Runnable(u)
                              /\ Listed(u)' <=> Listed(u)
    BY <1>4, <1>9 DEF Runnable
  <2>2. /\ Runnable(n)' /\ (Listed(n)' <=> listed)
    BY <1>2, <1>4, <1>9 DEF Runnable
  <2>3. Calm /\ Calm'
    BY DEF Calm
  <2>4. ASSUME NEW u \in Task
        PROVE  strong'[u] = One(Runnable(u)') + One(u = Origin) + One(Listed(u)')
    <3>1. CASE u = n
      BY <1>2, <1>10, <2>2, <3>1 DEF One
    <3>2. CASE u # n
      <4>1. CountInv /\ u \in Task
        OBVIOUS
      <4>2. strong[u] = One(Runnable(u)) + One(u = Origin) + One(Listed(u))
        BY ONLY <2>3, <4>1 DEF CountInv
      <4> QED BY ONLY <1>10, <2>1, <3>2, <4>1, <4>2 DEF One
    <3> QED BY <3>1, <3>2
  <2>5. \A u \in Task : status'[u] = "Free" <=> strong'[u] = 0
    BY <1>4, <1>10, SMTT(30) DEF CountInv
  <2> QED BY <2>4, <2>5 DEF CountInv, One
<1>16. FamilyInv'
  <2>1. \A v \in Task : ~Has(child'[v], Origin)
    BY <1>2, <1>7, Zenon DEF FamilyInv
  <2>2. \A u \in Task : status'[u] = "Free" => child'[u] = <<>> /\ ~Listed(u)'
    BY <1>4, <1>6, <1>9, Zenon DEF FamilyInv
  <2>3. \A u \in Task : status'[u] = "Dead" => child'[u] = <<>>
    BY <1>4, <1>6 DEF FamilyInv, Calm
  <2>4. \A v \in Task : Distinct(child'[v])
    BY <1>8 DEF FamilyInv, Calm
  <2>5. \A v, w, u \in Task : Has(child'[v], u) /\ Has(child'[w], u) => v = w
    BY <1>2, <1>7, Zenon DEF FamilyInv, Calm, Listed
  <2>6. cpu' # "exit"
    OBVIOUS
  <2> QED BY <2>6, <2>1, <2>2, <2>3, <2>4, <2>5 DEF FamilyInv
<1>17. ReachableInv'
  BY <1>4, <1>5, <1>9, ZenonT(30) DEF ReachableInv
<1>18. WaitInv'
  <2>1. ASSUME NEW u \in Task, waiting'[u] # NoWait
        PROVE  /\ Runnable(u)'
               /\ \/ waiting'[u] = -1
                  \/ \E c \in Task : /\ Has(child'[u], c)
                                     /\ Selects(waiting[u], u, c)'
    <3>1. u # n /\ waiting[u] # NoWait /\ Runnable(u) /\ waiting'[u] = waiting[u]
      BY <1>2, <2>1, SMTT(30) DEF WaitInv
    <3>2. Runnable(u)'
      BY <1>4, <3>1 DEF Runnable
    <3>3. ASSUME waiting[u] # -1
          PROVE  \E c \in Task : /\ Has(child'[u], c)
                                 /\ Selects(waiting[u], u, c)'
      <4>1. PICK c \in Task : Has(child[u], c) /\ Selects(waiting[u], u, c)
        BY <3>1, <3>3 DEF WaitInv
      <4>2. c # n
        BY <1>2, <4>1 DEF Listed
      <4> QED BY <1>7, <1>11, <3>1, <4>1, <4>2, ZenonT(60) DEF Selects
    <3> QED BY <3>1, <3>2, <3>3
  <2> QED BY <2>1, ZenonT(30) DEF WaitInv
<1>19. OffInv'
  BY DEF OffInv
<1> QED BY <1>12, <1>13, <1>14, <1>15, <1>16, <1>17, <1>18, <1>19

\* Freeing PCB x: when its last Arc is dropped, by its own exit (it was
\* current) or because wait4 takes it off a child list.
LEMMA FreeInv ==
    ASSUME IInv, NEW x \in Task, x # Origin, strong[x] = 1, child[x] = <<>>,
           cpu = "user", ~Has(queue, x),
           NEW st, st \in [Task -> Statuses],
           \A u \in Task \ {x} : st[u] = status[u],
           DropArc(x, st),
           \/ current = x /\ current' = NoTask /\ cpu' = "check"
           \/ current # x /\ current' = current /\ cpu' = "user",
           child' \in [Task -> Seq(Task)],
           \A v \in Task : child[v] = <<>> => child'[v] = <<>>,
           \A v \in Task : \A u : Has(child'[v], u) <=> Has(child[v], u) /\ u # x,
           \A v \in Task : Distinct(child[v]) => Distinct(child'[v]),
           waiting' \in [Task -> WaitArgs \cup {NoWait}], waiting'[x] = NoWait,
           \A u \in Task : \/ waiting'[u] = NoWait
                           \/ waiting'[u] = waiting[u] /\ ~Has(child[u], x),
           UNCHANGED <<queue, testcases>>
    PROVE  IInv'
<1> USE DEF IInv
<1>0. /\ status' = [st EXCEPT ![x] = "Free"]
      /\ strong' = [strong EXCEPT ![x] = 0]
      /\ freePids' = freePids \cup {pid[x]}
      /\ pid' = [pid EXCEPT ![x] = 0]
      /\ tgid' = [tgid EXCEPT ![x] = 0]
      /\ ppid' = [ppid EXCEPT ![x] = 0]
      /\ parent' = [u \in Task |-> IF u = x \/ parent[u] = x
                                   THEN NoTask ELSE parent[u]]
  BY ZenonT(60) DEF DropArc
<1>1. /\ status' \in [Task -> Statuses] /\ status'[x] = "Free"
      /\ \A u \in Task \ {x} : status'[u] = status[u]
  BY <1>0 DEF Statuses
<1>2. /\ strong' \in [Task -> Nat] /\ strong'[x] = 0
      /\ \A u \in Task \ {x} : strong'[u] = strong[u]
  BY <1>0, ZenonT(30) DEF TypeOK
<1>3. /\ pid' \in [Task -> Nat] /\ tgid' \in [Task -> Nat]
      /\ ppid' \in [Task -> Nat] /\ parent' \in [Task -> Task \cup {NoTask}]
      /\ \A u \in Task \ {x} : pid'[u] = pid[u] /\ tgid'[u] = tgid[u]
      /\ freePids' = freePids \cup {pid[x]}
  <2>1. /\ pid \in [Task -> Nat] /\ tgid \in [Task -> Nat]
        /\ ppid \in [Task -> Nat] /\ parent \in [Task -> Task \cup {NoTask}]
    BY SMTT(30) DEF TypeOK
  <2>2. parent' \in [Task -> Task \cup {NoTask}]
    BY <1>0, <2>1
  <2> QED BY <1>0, <2>1, <2>2
<1>4. status[x] # "Free" /\ pid[x] \in Pids \ freePids
  <2>1. PidInv /\ CountInv /\ x \in Task /\ strong[x] = 1
    OBVIOUS
  <2>2. status[x] # "Free"
    BY ONLY <2>1 DEF CountInv
  <2> QED BY ONLY <2>1, <2>2, SMTT(30) DEF PidInv
<1>5. \A u \in Task : Listed(u)' <=> Listed(u) /\ u # x
  BY DEF Listed
<1>6. TypeOK'
  BY <1>1, <1>2, <1>3, <1>4 DEF TypeOK, CpuModes
<1>7. SchedulerInv'
  BY <1>1, TaskAssumption, ZenonT(60) DEF SchedulerInv
<1>8. PidInv'
  <2>1. ASSUME NEW u \in Task, status'[u] # "Free"
        PROVE  pid'[u] \in Pids \ freePids'
    <3>1. u # x /\ status[u] # "Free" /\ pid'[u] = pid[u]
      BY <1>1, <1>3, <2>1, Zenon
    <3>2. pid[u] \in Pids \ freePids /\ pid[u] # pid[x]
      BY <1>4, <3>1, ZenonT(60) DEF PidInv
    <3> QED BY <1>3, <3>1, <3>2, ZenonT(60)
  <2>2. ASSUME NEW y \in Pids \ freePids'
        PROVE  \E u \in Task : status'[u] # "Free" /\ pid'[u] = y
    <3>1. PICK u \in Task : status[u] # "Free" /\ pid[u] = y
      BY <1>3, <2>2, Zenon DEF PidInv
    <3>2. u # x
      BY <1>3, <2>2, <3>1, Zenon
    <3> QED BY <1>1, <1>3, <3>1, <3>2, Zenon
  <2>3. ASSUME NEW u \in Task, NEW v \in Task, status'[u] # "Free",
               status'[v] # "Free", pid'[u] = pid'[v]
        PROVE  u = v
    <3>1. u # x /\ v # x
      BY <1>1, <2>3
    <3>2. status[u] # "Free" /\ status[v] # "Free" /\ pid[u] = pid[v]
      BY <1>1, <1>3, <2>3, <3>1, ZenonT(60)
    <3>3. PidInv
      OBVIOUS
    <3> QED BY ONLY <3>2, <3>3, u \in Task, v \in Task, ZenonT(30) DEF PidInv
  <2> QED BY <2>1, <2>2, <2>3, Zenon DEF PidInv
<1>9. CountInv'
  <2>1. \A u \in Task \ {x} : /\ Runnable(u)' <=> Runnable(u)
                              /\ Listed(u)' <=> Listed(u)
    BY <1>1, <1>5, ZenonT(60) DEF Runnable
  <2>2. ~Runnable(x)' /\ ~Listed(x)'
    BY <1>1, <1>5, ZenonT(30) DEF Runnable
  <2>3. Calm /\ Calm'
    BY ZenonT(30) DEF Calm
  <2>4. ASSUME NEW u \in Task
        PROVE  strong'[u] = One(Runnable(u)') + One(u = Origin) + One(Listed(u)')
    <3>0. x # Origin
      OBVIOUS
    <3>1. CASE u = x
      BY ONLY <1>2, <2>2, <3>0, <3>1 DEF One
    <3>2. CASE u # x
      <4>1. strong[u] = One(Runnable(u)) + One(u = Origin) + One(Listed(u))
        BY <2>3, ZenonT(60) DEF CountInv
      <4>2. u \in Task
        OBVIOUS
      <4> QED BY ONLY <1>2, <2>1, <3>2, <4>1, <4>2 DEF One
    <3> QED BY <3>1, <3>2, ZenonT(30)
  <2>5. \A u \in Task : status'[u] = "Free" <=> strong'[u] = 0
    BY <1>1, <1>2, ZenonT(60) DEF CountInv
  <2> QED BY <2>4, <2>5, Zenon DEF CountInv, One
<1>10. FamilyInv'
  BY <1>1, <1>5, ZenonT(60) DEF FamilyInv, Calm
<1>11. ReachableInv'
  BY <1>1, <1>5, TaskAssumption, ZenonT(60) DEF ReachableInv
<1>12. WaitInv'
  <2>1. ASSUME NEW u \in Task, waiting'[u] # NoWait
        PROVE  /\ Runnable(u)'
               /\ \/ waiting'[u] = -1
                  \/ \E c \in Task : /\ Has(child'[u], c)
                                     /\ Selects(waiting[u], u, c)'
    <3>1. u # x /\ waiting'[u] = waiting[u] /\ ~Has(child[u], x)
      BY <2>1
    <3>2. Runnable(u)'
      BY <1>1, <2>1, <3>1, Zenon DEF WaitInv, Runnable
    <3>3. ASSUME waiting[u] # -1
          PROVE  \E c \in Task : /\ Has(child'[u], c)
                                 /\ Selects(waiting[u], u, c)'
      <4>1. PICK c \in Task : Has(child[u], c) /\ Selects(waiting[u], u, c)
        BY <2>1, <3>1, <3>3, ZenonT(60) DEF WaitInv
      <4> QED BY <1>3, <3>1, <4>1, Zenon DEF Selects
    <3> QED BY <3>1, <3>2, <3>3, ZenonT(60)
  <2>2. \A u \in Task : waiting'[u] # NoWait => waiting'[u] = waiting[u]
    OBVIOUS
  <2> QED BY <2>1, <2>2 DEF WaitInv, Selects
<1>13. OffInv'
  BY DEF OffInv
<1> QED BY <1>6, <1>7, <1>8, <1>9, <1>10, <1>11, <1>12, <1>13

\* sys_exit of a task without children drops one reference, the last one if
\* nobody lists the task.
LEMMA ExitChildlessInv ==
    ASSUME IInv, NEW t \in Task, InUser(t), ExitChildless(t)
    PROVE  IInv'
<1> USE DEF IInv
<1>1. /\ cpu = "user" /\ current = t /\ waiting[t] = NoWait /\ child[t] = <<>>
      /\ status[t] = "Running" /\ ~Has(queue, t)
      /\ \A u \in Task \ {t} : status[u] # "Running"
  BY DEF InUser, ExitChildless, SchedulerInv
<1>2. Runnable(t) /\ Calm
  BY <1>1 DEF Runnable, Calm
<1>3. strong[t] = 1 + One(t = Origin) + One(Listed(t))
  BY <1>2 DEF CountInv, One
<1> DEFINE st == [status EXCEPT ![t] = "Dead"]
<1>4. st \in [Task -> Statuses] /\ \A u \in Task \ {t} : st[u] = status[u]
  BY DEF TypeOK, Statuses
<1>5. DropArc(t, st) /\ current' = NoTask /\ cpu' = "check"
      /\ UNCHANGED <<child, waiting, queue, testcases>>
  BY DEF ExitChildless
<1>6. CASE strong[t] = 1
  <2>1. t # Origin /\ ~Listed(t)
    BY <1>3, <1>6 DEF One
  <2>2. \A v \in Task : ~Has(child[v], t)
    BY <2>1 DEF Listed
  <2>3. child \in [Task -> Seq(Task)] /\ waiting \in [Task -> WaitArgs \cup {NoWait}]
    BY DEF TypeOK
  <2> HIDE DEF st
  <2> QED BY <1>1, <1>4, <1>5, <1>6, <2>1, <2>2, <2>3, FreeInv, Zenon
<1>7. CASE strong[t] # 1
  <2>1. t = Origin \/ Listed(t)
    BY <1>3, <1>7 DEF One
  <2>2. /\ status' = st
        /\ strong' = [strong EXCEPT ![t] = @ - 1]
        /\ UNCHANGED <<freePids, pid, tgid, ppid, parent>>
    BY <1>5, <1>7 DEF DropArc, relatives
  <2>3. /\ status'[t] = "Dead" /\ status' \in [Task -> Statuses]
        /\ \A u \in Task \ {t} : status'[u] = status[u]
    BY <1>4, <2>2 DEF TypeOK
  <2>4. /\ strong' \in [Task -> Nat] /\ strong'[t] = strong[t] - 1
        /\ strong'[t] # 0
        /\ \A u \in Task \ {t} : strong'[u] = strong[u]
    BY <1>3, <1>7, <2>2 DEF TypeOK, One
  <2> HIDE DEF st
  <2>5. TypeOK'
    BY <1>5, <2>2, <2>3, <2>4, Zenon DEF TypeOK, CpuModes
  <2>6. SchedulerInv'
    BY <1>1, <1>5, <2>3, TaskAssumption, Zenon DEF SchedulerInv
  <2>7. PidInv'
    <3>1. pid' = pid /\ freePids' = freePids
      BY <2>2, ZenonT(30)
    <3>2. \A u \in Task : status'[u] = "Free" <=> status[u] = "Free"
      BY <1>1, <2>3
    <3>3. PidInv
      OBVIOUS
    <3> QED BY ONLY <3>1, <3>2, <3>3 DEF PidInv
  <2>8. CountInv'
    <3>1. \A u \in Task : Listed(u)' <=> Listed(u)
      BY <1>5 DEF Listed
    <3>2. \A u \in Task \ {t} : Runnable(u)' <=> Runnable(u)
      BY <2>3 DEF Runnable
    <3>3. ~Runnable(t)'
      BY <2>3 DEF Runnable
    <3>4. ASSUME NEW u \in Task
          PROVE  strong'[u] = One(Runnable(u)') + One(u = Origin) + One(Listed(u)')
      <4>1. CASE u = t
        BY <1>3, <2>4, <3>1, <3>3, <4>1, SMTT(30) DEF One
      <4>2. CASE u # t
        BY <1>2, <2>4, <3>1, <3>2, <4>2 DEF CountInv, One
      <4> QED BY <4>1, <4>2
    <3>5. \A u \in Task : status'[u] = "Free" <=> strong'[u] = 0
      BY <2>3, <2>4, ZenonT(60) DEF CountInv
    <3> QED BY <3>4, <3>5, Zenon DEF CountInv, One
  <2>9. FamilyInv'
    BY <1>1, <1>2, <1>5, <2>3, Zenon DEF FamilyInv, Calm, Listed
  <2>10. ReachableInv'
    BY <1>1, <1>5, <2>1, <2>3, TaskAssumption DEF ReachableInv, Listed
  <2>11. WaitInv'
    <3>1. \A u \in Task : waiting'[u] # NoWait => u # t /\ waiting[u] # NoWait
      BY <1>1, <1>5
    <3> QED BY <1>5, <2>2, <2>3, <3>1, ZenonT(30) DEF WaitInv, Runnable, Selects
  <2>12. OffInv'
    BY <1>5, ZenonT(30) DEF OffInv
  <2> QED BY <2>5, <2>6, <2>7, <2>8, <2>9, <2>10, <2>11, <2>12
<1> QED BY <1>6, <1>7, ZenonT(30)

\* sys_exit of a task with children enters the loop over them.
LEMMA ExitWithChildrenInv ==
    ASSUME IInv, NEW t \in Task, InUser(t), ExitWithChildren(t)
    PROVE  IInv'
<1> USE DEF IInv
<1>1. /\ cpu = "user" /\ current = t /\ waiting[t] = NoWait
      /\ status[t] = "Running"
      /\ \A u \in Task \ {t} : status[u] # "Running"
  BY DEF InUser, SchedulerInv
<1>2. /\ status' \in [Task -> Statuses] /\ status'[t] = "Dead"
      /\ \A u \in Task \ {t} : status'[u] = status[u]
      /\ cpu' = "exit"
      /\ UNCHANGED <<strong, pid, tgid, ppid, parent, child, waiting, queue,
                     current, freePids, testcases>>
  BY DEF ExitWithChildren, relatives, TypeOK, Statuses
<1>3. TypeOK'
  BY <1>2, ZenonT(30) DEF TypeOK, CpuModes
<1>4. SchedulerInv'
  BY <1>1, <1>2, TaskAssumption DEF SchedulerInv
<1>5. PidInv'
  <2>1. \A u \in Task : status'[u] # "Free" <=> status[u] # "Free"
    BY <1>1, <1>2
  <2>2. pid' = pid /\ freePids' = freePids /\ PidInv
    BY <1>2, Zenon
  <2> QED BY ONLY <2>1, <2>2, Zenon DEF PidInv
<1>6. CountInv'
  BY <1>1, <1>2 DEF CountInv, Calm
<1>7. FamilyInv'
  BY <1>1, <1>2, Zenon DEF FamilyInv, Calm, Listed, ExitWithChildren
<1>8. ReachableInv'
  BY <1>1, <1>2, Zenon DEF ReachableInv, Listed
<1>9. WaitInv'
  <2>1. \A u \in Task : waiting'[u] # NoWait => u # t /\ waiting[u] # NoWait
    BY <1>1, <1>2, Zenon
  <2> QED BY <1>2, <2>1 DEF WaitInv, Runnable, Selects
<1>10. OffInv'
  BY <1>2 DEF OffInv
<1> QED BY <1>3, <1>4, <1>5, <1>6, <1>7, <1>8, <1>9, <1>10

\* A round of that loop adds a reference to the child and its entry in the
\* list of the origin task.
LEMMA ReparentInv ==
    ASSUME IInv, ReparentRound, cpu' = "exit", current # Origin
    PROVE  IInv'
<1> USE DEF IInv
<1> DEFINE c == child[current][1]
<1>1. cpu = "exit" /\ current \in Task /\ child[current] # <<>>
  BY DEF ReparentRound, SchedulerInv, FamilyInv
<1>2. c \in Task /\ Has(child[current], c) /\ c # Origin
  <2>1. child[current] \in Seq(Task) /\ child[current] # <<>>
    BY <1>1 DEF TypeOK
  <2>2. 1 \in DOMAIN child[current] /\ child[current][1] \in Task
    BY ONLY <2>1, FirstFacts
  <2> QED BY <1>1, <2>2 DEF Has, FamilyInv
<1>3. /\ parent' = [parent EXCEPT ![c] = Origin]
      /\ ppid' = [ppid EXCEPT ![c] = 0]
      /\ child' = [child EXCEPT ![Origin] = Append(@, c)]
      /\ strong' = [strong EXCEPT ![c] = @ + 1]
      /\ UNCHANGED <<status, pid, tgid, waiting, queue, current, cpu,
                     freePids, testcases>>
  BY <1>1 DEF ReparentRound, Panic
<1> HIDE DEF c
<1>4. /\ child' \in [Task -> Seq(Task)]
      /\ \A v \in Task \ {Origin} : child'[v] = child[v]
      /\ \A v \in Task : \A u : Has(child'[v], u)
                            <=> Has(child[v], u) \/ (v = Origin /\ u = c)
  <2>1. child[Origin] \in Seq(Task)
    BY TaskAssumption DEF TypeOK
  <2>2. /\ Append(child[Origin], c) \in Seq(Task)
        /\ \A u : Has(Append(child[Origin], c), u) <=> Has(child[Origin], u) \/ u = c
    BY <1>2, <2>1, AppendFacts
  <2> QED BY <1>3, <2>2, Zenon DEF TypeOK
<1>5. \A u \in Task : Listed(u)' <=> Listed(u)
  BY <1>1, <1>2, <1>4, TaskAssumption DEF Listed
<1>6. /\ strong' \in [Task -> Nat]
      /\ \A u \in Task : strong'[u] = 0 <=> strong[u] = 0
  <2>1. status[c] # "Free"
    BY <1>1, <1>2 DEF FamilyInv, Listed
  <2>2. strong[c] # 0 /\ strong[c] \in Nat
    BY <1>2, <2>1 DEF CountInv, TypeOK
  <2>3. strong \in [Task -> Nat]
    BY DEF TypeOK
  <2>4. strong[c] + 1 \in Nat /\ strong[c] + 1 # 0
    BY <2>2
  <2> QED BY <1>2, <1>3, <2>2, <2>3, <2>4
<1>7. TypeOK'
  BY <1>2, <1>3, <1>4, <1>6, TaskAssumption, Zenon DEF TypeOK
<1>8. SchedulerInv'
  BY <1>3, SMTT(30) DEF SchedulerInv
<1>9. PidInv'
  BY <1>3 DEF PidInv
<1>10. CountInv'
  BY <1>1, <1>3, <1>6 DEF CountInv, Calm
<1>11. FamilyInv'
  <2>1. status[Origin] # "Free"
    BY TaskAssumption DEF ReachableInv
  <2> QED BY <1>1, <1>2, <1>3, <1>4, <1>5, <2>1 DEF FamilyInv, Calm
<1>12. ReachableInv'
  BY <1>3, <1>5 DEF ReachableInv
<1>13. WaitInv'
  BY <1>3, <1>4 DEF WaitInv, Runnable, Selects
<1>14. OffInv'
  BY <1>1, <1>3 DEF OffInv
<1> QED BY <1>7, <1>8, <1>9, <1>10, <1>11, <1>12, <1>13, <1>14, ZenonT(30)

\* wait4 collects a zombie: the strong count of a listed dead task is one, so
\* the PCB is freed.
LEMMA ReapInv ==
    ASSUME IInv, NEW t \in Task, NEW arg, cpu = "user", current = t,
           Reap(t, arg)
    PROVE  IInv'
<1> USE DEF IInv
<1> DEFINE Z == Zombies(t, arg)
           i == Lowest(Z)
           c == child[t][i]
<1>1. Calm /\ child \in [Task -> Seq(Task)] /\ child[t] \in Seq(Task)
  BY DEF Calm, TypeOK
<1>2. i \in 1..Len(child[t]) /\ status[c] = "Dead"
  <2>1. Z \subseteq DOMAIN child[t] /\ DOMAIN child[t] = 1..Len(child[t])
    BY <1>1 DEF Zombies, Selected
  <2>2. Z # {} /\ Z \subseteq Nat
    BY <2>1 DEF Reap
  <2>3. i \in Z
    BY <2>2, LowestFact
  <2> QED BY <2>1, <2>3, ZenonT(60) DEF Zombies
<1>3. /\ DropArc(c, status)
      /\ child' = [child EXCEPT ![t] = RemoveIndex(child[t], i)]
      /\ waiting' = [waiting EXCEPT ![t] = NoWait]
      /\ UNCHANGED <<queue, current, cpu, testcases>>
  BY ZenonT(30) DEF Reap
<1> HIDE DEF i, Z
<1>4. c \in Task /\ Has(child[t], c) /\ Listed(c) /\ c # Origin
  <2>1. c \in Task /\ Has(child[t], c)
    BY <1>1, <1>2, SMTT(30) DEF Has
  <2> QED BY <2>1 DEF FamilyInv, Listed
<1>5. /\ RemoveIndex(child[t], i) \in Seq(Task)
      /\ Distinct(child[t])
      /\ Distinct(RemoveIndex(child[t], i))
      /\ \A u : Has(RemoveIndex(child[t], i), u) <=> Has(child[t], u) /\ u # c
  <2>1. Distinct(child[t])
    BY <1>1 DEF FamilyInv
  <2> QED BY <1>1, <1>2, <2>1, RemoveFacts
<1> HIDE DEF c
<1>6. /\ status[t] = "Running" /\ c # t /\ ~Has(queue, c) /\ child[c] = <<>>
  BY <1>1, <1>2, <1>4, SMTT(30) DEF SchedulerInv, FamilyInv
<1>7. strong[c] = 1
  <2>1. ~Runnable(c)
    BY <1>2 DEF Runnable
  <2> QED BY <1>1, <1>4, <2>1 DEF CountInv, One
<1>8. /\ child' \in [Task -> Seq(Task)]
      /\ child'[t] = RemoveIndex(child[t], i)
      /\ \A v \in Task \ {t} : child'[v] = child[v]
  BY <1>1, <1>3, <1>5
<1>9. \A v \in Task : child[v] = <<>> => child'[v] = <<>>
  <2>1. child[t] # <<>>
    BY <1>1, <1>2
  <2> QED BY <1>8, <2>1
<1>10. \A v \in Task : \A u : Has(child'[v], u) <=> Has(child[v], u) /\ u # c
  <2>1. \A v \in Task \ {t} : ~Has(child[v], c)
    BY <1>1, <1>4 DEF FamilyInv
  <2> QED BY <1>5, <1>8, <2>1
<1>11. \A v \in Task : Distinct(child[v]) => Distinct(child'[v])
  BY <1>5, <1>8
<1>12. /\ waiting' \in [Task -> WaitArgs \cup {NoWait}] /\ waiting'[t] = NoWait
       /\ \A u \in Task \ {t} : waiting'[u] = waiting[u]
  BY <1>3, SMTT(30) DEF TypeOK
<1>13. waiting'[c] = NoWait
  BY <1>2, <1>4, <1>6, <1>12 DEF WaitInv, Runnable
<1>14. \A u \in Task : \/ waiting'[u] = NoWait
                       \/ waiting'[u] = waiting[u] /\ ~Has(child[u], c)
  <2>1. \A u \in Task \ {t} : ~Has(child[u], c)
    BY <1>1, <1>4 DEF FamilyInv
  <2> QED BY <1>12, <2>1
<1>15. status \in [Task -> Statuses]
  BY DEF TypeOK
<1> QED
  BY <1>3, <1>4, <1>6, <1>7, <1>8, <1>9, <1>10, <1>11, <1>12, <1>13, <1>14,
     <1>15, FreeInv, ZenonT(60)

\* A round of sys_wait4 reaps, returns or suspends.
LEMMA Wait4RoundInv ==
    ASSUME IInv, NEW t \in Task, NEW arg \in WaitArgs, NEW wnohang \in BOOLEAN,
           cpu = "user", current = t, Wait4Round(t, arg, wnohang)
    PROVE  IInv'
<1> USE DEF IInv
<1>1. CASE Reap(t, arg)
  BY <1>1, ReapInv
<1>2. CASE /\ waiting' = [waiting EXCEPT ![t] = NoWait]
           /\ UNCHANGED <<status, strong, pid, relatives, child, queue, current,
                          cpu, freePids, testcases>>
  <2>1. UNCHANGED <<status, strong, pid, tgid, ppid, parent, child, queue,
                    current, cpu, freePids, testcases>>
    BY <1>2 DEF relatives
  <2>2. /\ waiting' \in [Task -> WaitArgs \cup {NoWait}]
        /\ \A u \in Task : waiting'[u] = NoWait \/ waiting'[u] = waiting[u]
    BY <1>2 DEF TypeOK
  <2>3. TypeOK'
    BY <2>1, <2>2 DEF TypeOK
  <2>4. SchedulerInv' /\ PidInv'
    BY <2>1, Zenon DEF SchedulerInv, PidInv
  <2>5. CountInv' /\ FamilyInv' /\ ReachableInv'
    BY <2>1, Zenon DEF CountInv, FamilyInv, ReachableInv, Calm, Runnable, Listed
  <2>6. WaitInv' /\ OffInv'
    BY <2>1, <2>2 DEF WaitInv, OffInv, Runnable, Selects
  <2> QED BY <2>3, <2>4, <2>5, <2>6
<1>3. CASE /\ ~NotFound(t, arg)
           /\ waiting' = [waiting EXCEPT ![t] = arg]
           /\ SuspendCurrentTask(t)
  <2>1. /\ waiting' \in [Task -> WaitArgs \cup {NoWait}] /\ waiting'[t] = arg
        /\ \A u \in Task \ {t} : waiting'[u] = waiting[u]
    BY <1>3 DEF TypeOK
  <2> QED BY <1>3, <2>1, SuspendInv
<1> QED BY <1>1, <1>2, <1>3 DEF Wait4Round

\* A step that changes nothing.
LEMMA StutterInv == IInv /\ UNCHANGED vars => IInv'
<1> SUFFICES ASSUME IInv, UNCHANGED vars PROVE IInv'
  OBVIOUS
<1> USE DEF IInv, vars
<1>1. TypeOK' /\ SchedulerInv' /\ PidInv'
  BY DEF TypeOK, SchedulerInv, PidInv
<1>2. CountInv' /\ FamilyInv' /\ ReachableInv'
  BY Zenon DEF CountInv, FamilyInv, ReachableInv, Calm, Runnable, Listed
<1>3. WaitInv' /\ OffInv'
  BY DEF WaitInv, OffInv, Runnable, Selects
<1> QED BY <1>1, <1>2, <1>3

------------------------------------------------------------------------------
\* Every step of Next preserves the inductive invariant.
LEMMA NextInv == IInv /\ [Next]_vars => IInv'
<1> SUFFICES ASSUME IInv, [Next]_vars PROVE IInv'
  OBVIOUS
<1>1. CASE PopTask
  BY <1>1, PopTaskInv
<1>2. CASE CheckTestcases
  <2>1. cpu = "check"
    BY <1>2 DEF CheckTestcases
  <2>2. CASE queue # <<>> \/ testcases = 0
    <3>1. /\ \/ cpu' = "pop"
             \/ cpu' = "off" /\ queue = <<>>
          /\ UNCHANGED <<status, strong, pid, relatives, child, waiting, queue,
                         current, freePids, testcases>>
      BY <1>2, <2>2 DEF CheckTestcases
    <3> QED BY <2>1, <3>1, CpuOnlyInv
  <2>3. CASE queue = <<>> /\ testcases > 0 /\ InitTaskAndPush
    <3>1. CASE freePids = {}
      BY <2>3, <3>1, PanicInv DEF InitTaskAndPush
    <3>2. CASE freePids # {}
      <4>1. PICK n \in Task :
               /\ NewPcb(n, Lowest(freePids), Lowest(freePids), 1, NoTask)
               /\ strong' = [strong EXCEPT ![n] = 1]
               /\ queue' = Append(queue, n)
               /\ testcases' = testcases - 1
               /\ cpu' = "pop"
               /\ UNCHANGED <<child, waiting, current>>
        BY <2>3, <3>2 DEF InitTaskAndPush
      <4>2. testcases' \in Nat
        BY <2>3, <4>1 DEF IInv, TypeOK
      <4>3. Lowest(freePids) \in Nat
        BY <3>2, LowestPid
      <4> QED BY <2>1, <3>2, <4>1, <4>2, <4>3, CreateInv, Zenon
    <3> QED BY <3>1, <3>2
  <2> QED BY <1>2, <2>2, <2>3 DEF CheckTestcases
<1>3. CASE ReparentRound
  <2>1. cpu = "exit"
    BY <1>3 DEF ReparentRound
  <2>2. CASE UNCHANGED vars
    BY <2>2, StutterInv
  <2>3. CASE Panic
    BY <2>3, PanicInv
  <2>4. CASE cpu' = "exit" /\ current # Origin
    BY <1>3, <2>4, ReparentInv
  <2> QED BY <1>3, <2>1, <2>2, <2>3, <2>4, SMTT(30) DEF ReparentRound
<1>4. ASSUME NEW t \in Task, SysYield(t) PROVE IInv'
  <2>1. /\ cpu = "user" /\ current = t /\ SuspendCurrentTask(t)
        /\ waiting' = waiting
    BY <1>4 DEF SysYield, InUser
  <2>2. waiting \in [Task -> WaitArgs \cup {NoWait}]
    BY DEF IInv, TypeOK
  <2> QED BY <2>1, <2>2, SuspendInv
<1>5. ASSUME NEW t \in Task, SysExit(t) PROVE IInv'
  BY <1>5, ExitChildlessInv, ExitWithChildrenInv DEF SysExit
<1>6. ASSUME NEW t \in Task, Wait4Resume(t) PROVE IInv'
  <2>1. waiting[t] \in WaitArgs
    BY <1>6 DEF Wait4Resume, IInv, TypeOK
  <2> QED BY <1>6, <2>1, Wait4RoundInv, Zenon DEF Wait4Resume
<1>7. ASSUME NEW t \in Task, UnsupportedFlags(t) PROVE IInv'
  BY <1>7, PanicInv DEF UnsupportedFlags
<1>8. ASSUME NEW t \in Task, NEW flags \in SUBSET CloneFlags, SysClone(t, flags)
      PROVE  IInv'
  <2>1. cpu = "user" /\ current = t /\ status[t] = "Running"
    BY <1>8, ZenonT(60) DEF SysClone, InUser, IInv, SchedulerInv
  <2>2. CASE freePids = {}
    BY <1>8, <2>2, PanicInv DEF SysClone
  <2>3. CASE freePids # {}
    <3> DEFINE p == Lowest(freePids)
               listed == "CLONE_PARENT" \notin flags
               g == IF "CLONE_THREAD" \in flags THEN tgid[t] ELSE p
               q == IF listed THEN pid[t] ELSE ppid[t]
               f == IF listed THEN t ELSE parent[t]
    <3>1. PICK n \in Task :
             /\ NewPcb(n, p, g, q, f)
             /\ strong' = [strong EXCEPT ![n] = IF listed THEN 2 ELSE 1]
             /\ child' = IF listed THEN [child EXCEPT ![t] = Append(@, n)]
                         ELSE child
             /\ queue' = Append(queue, n)
             /\ UNCHANGED <<waiting, current, cpu, testcases>>
      BY <1>8, <2>3 DEF SysClone
    <3>2. p \in Nat
      BY <2>3, LowestPid
    <3>3. g \in Nat /\ q \in Nat /\ f \in Task \cup {NoTask}
          /\ listed \in BOOLEAN /\ testcases \in Nat
      BY <3>2, ZenonT(30) DEF IInv, TypeOK
    <3> HIDE DEF listed, g, q, f
    <3> QED BY <2>1, <2>3, <3>1, <3>2, <3>3, CreateInv, ZenonT(60) DEF p
  <2> QED BY <2>2, <2>3
<1>9. ASSUME NEW t \in Task, NEW arg \in WaitArgs, NEW wnohang \in BOOLEAN,
             SysWait4(t, arg, wnohang)
      PROVE  IInv'
  BY <1>9, Wait4RoundInv DEF SysWait4, InUser
<1>10. CASE Stopped \/ UNCHANGED vars
  BY <1>10, StutterInv DEF Stopped
<1> QED
  BY <1>1, <1>2, <1>3, <1>4, <1>5, <1>6, <1>7, <1>8, <1>9, <1>10 DEF Next

\* The inductive invariant holds in every reachable state.
THEOREM Invariance == Spec => []IInv
BY InitInv, NextInv, PTL DEF Spec

\* Type correctness.
THEOREM TypeCorrect == Spec => []TypeOK
<1>1. IInv => TypeOK
  BY DEF IInv
<1> QED BY <1>1, Invariance, PTL

\* The ready queue holds exactly the Ready tasks, each once, and the Running
\* task is the one on the hart.
THEOREM SchedulerCorrect == Spec => []SchedulerInv
<1>1. IInv => SchedulerInv
  BY DEF IInv
<1> QED BY <1>1, Invariance, PTL

\* Pids of allocated PCBs are unique and no pid leaks.
THEOREM PidsUnique == Spec => []PidInv
<1>1. IInv => PidInv
  BY DEF IInv
<1> QED BY <1>1, Invariance, PTL

\* A PCB is allocated exactly while something holds it: no dangling Arc, no
\* zombie out of everyone's reach.
THEOREM AllocatedIffReachable == Spec => []ReachableInv
<1>1. IInv => ReachableInv
  BY DEF IInv
<1> QED BY <1>1, Invariance, PTL

\* A wait4 that has blocked never finds its child gone.
THEOREM BlockedWaitHasChild == Spec => []BlockedWaitInv
<1>1. IInv => BlockedWaitInv
  BY NotFoundFact DEF IInv, WaitInv, BlockedWaitInv
<1> QED BY <1>1, Invariance, PTL

\* When the queue is empty between test cases, and at power-off, every task
\* but the origin task has been freed and every other pid is available.
THEOREM TestcasesIsolated == Spec => []TestcaseIsolation
<1>1. IInv => TestcaseIsolation
  <2> SUFFICES ASSUME IInv, (cpu = "check" /\ queue = <<>>) \/ cpu = "off"
               PROVE  /\ \A t \in Task \ {Origin} : status[t] = "Free"
                      /\ freePids = Pids \ {pid[Origin]}
    BY DEF TestcaseIsolation
  <2> USE DEF IInv
  <2>1. Calm /\ queue = <<>> /\ current = NoTask
    BY DEF Calm, OffInv, SchedulerInv
  <2>2. \A t \in Task : status[t] \in {"Free", "Dead"}
    BY <2>1, TaskAssumption DEF SchedulerInv, TypeOK, Statuses, Has
  <2>3. \A p \in Task : child[p] = <<>>
    BY <2>1, <2>2 DEF FamilyInv
  <2>4. \A t \in Task : ~Listed(t)
    BY ONLY <2>3, EmptyFacts DEF Listed
  <2>5. \A t \in Task \ {Origin} : status[t] = "Free"
    BY <2>1, <2>4, TaskAssumption DEF ReachableInv, Has
  <2>6. status[Origin] # "Free"
    BY TaskAssumption DEF ReachableInv
  <2>7. freePids = Pids \ {pid[Origin]}
    BY <2>5, <2>6, TaskAssumption, Zenon DEF PidInv, TypeOK
  <2> QED BY <2>5, <2>7
<1> QED BY <1>1, Invariance, PTL

------------------------------------------------------------------------------
\* What FifoOrder says of the queue before a step, q, and after it, r.
InOrder(q, r) ==
    \A i \in DOMAIN q, m \in DOMAIN r : r[m] = q[i] =>
        /\ \A k \in 1..(m - 1) : \E j \in 1..(i - 1) : q[j] = r[k]
        /\ \A j \in (i + 1)..Len(q) : \E k \in (m + 1)..Len(r) : r[k] = q[j]

\* A queue without repetitions keeps its order when nothing happens, when its
\* head is popped and when a new task is pushed at its end.
LEMMA OrderKept ==
    ASSUME NEW S, NEW q \in Seq(S), Distinct(q), NEW x, ~Has(q, x)
    PROVE  /\ InOrder(q, q)
           /\ q # <<>> => InOrder(q, Tail(q))
           /\ x \in S => InOrder(q, Append(q, x))
<1>1. Len(q) \in Nat /\ DOMAIN q = 1..Len(q)
  OBVIOUS
<1>2. \A i, m \in 1..Len(q) : q[m] = q[i] => m = i
  BY <1>1 DEF Distinct
<1>3. InOrder(q, q)
  BY <1>1, <1>2 DEF InOrder
<1>4. ASSUME q # <<>> PROVE InOrder(q, Tail(q))
  <2>1. /\ Len(Tail(q)) = Len(q) - 1 /\ DOMAIN Tail(q) = 1..(Len(q) - 1)
        /\ \A k \in 1..(Len(q) - 1) : Tail(q)[k] = q[k + 1]
    BY <1>1, <1>4
  <2> DEFINE r == Tail(q)
  <2> HIDE DEF r
  <2> SUFFICES ASSUME NEW i \in DOMAIN q, NEW m \in DOMAIN r, r[m] = q[i]
               PROVE  /\ \A k \in 1..(m - 1) : \E j \in 1..(i - 1) : q[j] = r[k]
                      /\ \A j \in (i + 1)..Len(q) : \E k \in (m + 1)..Len(r) : r[k] = q[j]
    BY SMTT(30) DEF InOrder, r
  <2>2. /\ Len(r) = Len(q) - 1 /\ i \in 1..Len(q) /\ m \in 1..(Len(q) - 1)
        /\ \A k \in 1..(Len(q) - 1) : r[k] = q[k + 1]
    BY <1>1, <2>1 DEF r
  <2>3. i = m + 1
    <3>1. m + 1 \in 1..Len(q) /\ q[m + 1] = q[i]
      BY <1>1, <2>2
    <3> QED BY <1>2, <2>2, <3>1
  <2>4. ASSUME NEW k \in 1..(m - 1)
        PROVE  \E j \in 1..(i - 1) : q[j] = r[k]
    <3>1. k + 1 \in 1..(i - 1) /\ k \in 1..(Len(q) - 1)
      BY <1>1, <2>3, <2>2
    <3> QED BY <2>2, <3>1, ZenonT(30)
  <2>5. ASSUME NEW j \in (i + 1)..Len(q)
        PROVE  \E k \in (m + 1)..Len(r) : r[k] = q[j]
    <3>1. j - 1 \in (m + 1)..Len(r) /\ j - 1 \in 1..(Len(q) - 1) /\ (j - 1) + 1 = j
      BY <1>1, <2>3, <2>2
    <3> QED BY <2>2, <3>1
  <2> QED BY <2>4, <2>5
<1>5. ASSUME x \in S PROVE InOrder(q, Append(q, x))
  <2> DEFINE r == Append(q, x)
  <2>1. /\ Len(r) = Len(q) + 1 /\ DOMAIN r = 1..(Len(q) + 1)
        /\ \A k \in 1..Len(q) : r[k] = q[k]
        /\ r[Len(q) + 1] = x
    BY <1>1, <1>5
  <2>2. \A i \in 1..Len(q) : q[i] # x
    BY <1>1 DEF Has
  <2> HIDE DEF r
  <2> SUFFICES ASSUME NEW i \in DOMAIN q, NEW m \in DOMAIN r, r[m] = q[i]
               PROVE  /\ \A k \in 1..(m - 1) : \E j \in 1..(i - 1) : q[j] = r[k]
                      /\ \A j \in (i + 1)..Len(q) : \E k \in (m + 1)..Len(r) : r[k] = q[j]
    BY Zenon DEF InOrder, r
  <2>3. m \in 1..Len(q)
    BY <1>1, <2>1, <2>2
  <2>4. m = i
    BY <1>2, <2>1, <2>3
  <2>5. \A k \in 1..(m - 1) : k \in 1..(i - 1) /\ k \in 1..Len(q)
    BY <1>1, <2>3, <2>4
  <2>6. \A j \in (i + 1)..Len(q) : j \in (m + 1)..Len(r) /\ j \in 1..Len(q)
    BY <1>1, <2>1, <2>3, <2>4
  <2> QED BY <2>1, <2>5, <2>6
<1> QED BY <1>3, <1>4, <1>5

\* A step leaves the ready queue alone, pops its head, or pushes a task that
\* is not in it: the Running one or a PCB that was just made.
LEMMA QueueStep ==
    ASSUME IInv, [Next]_vars
    PROVE  \/ queue' = queue
           \/ queue # <<>> /\ queue' = Tail(queue)
           \/ \E t \in Task : ~Has(queue, t) /\ queue' = Append(queue, t)
<1>1. \A t \in Task : status[t] # "Ready" => ~Has(queue, t)
  BY DEF IInv, SchedulerInv
<1>2. CASE PopTask
  BY <1>2 DEF PopTask
<1>3. CASE CheckTestcases
  BY <1>1, <1>3 DEF CheckTestcases, InitTaskAndPush, Panic, NewPcb
<1>4. CASE ReparentRound
  BY <1>4, Zenon DEF ReparentRound, Panic, vars
<1>5. ASSUME NEW t \in Task, cpu = "user", current = t, SuspendCurrentTask(t)
      PROVE  ~Has(queue, t) /\ queue' = Append(queue, t)
  BY <1>1, <1>5 DEF SuspendCurrentTask, IInv, SchedulerInv
<1>6. ASSUME NEW t \in Task, SysYield(t) PROVE ~Has(queue, t) /\ queue' = Append(queue, t)
  BY <1>5, <1>6 DEF SysYield, InUser
<1>7. ASSUME NEW t \in Task, SysExit(t) \/ UnsupportedFlags(t) PROVE queue' = queue
  BY <1>7, Zenon DEF SysExit, ExitChildless, ExitWithChildren, UnsupportedFlags, Panic
<1>8. ASSUME NEW t \in Task, NEW arg, NEW wnohang, cpu = "user", current = t,
             Wait4Round(t, arg, wnohang)
      PROVE  queue' = queue \/ (~Has(queue, t) /\ queue' = Append(queue, t))
  BY <1>5, <1>8 DEF Wait4Round, Reap
<1>9. ASSUME NEW t \in Task, NEW flags, SysClone(t, flags)
      PROVE  queue' = queue \/ \E n \in Task : ~Has(queue, n) /\ queue' = Append(queue, n)
  BY <1>1, <1>9 DEF SysClone, Panic, NewPcb
<1>10. CASE Stopped \/ UNCHANGED vars
  BY <1>10 DEF Stopped, vars
<1> QED
  BY <1>2, <1>3, <1>4, <1>6, <1>7, <1>8, <1>9, <1>10, ZenonT(60)
  DEF Next, Wait4Resume, SysWait4, InUser

\* The ready queue is first in, first out: whatever clone, exit, wait4 and yield
\* do, the tasks that stay queued keep their order, nothing is put in front of
\* them and nothing behind them is taken out first.
THEOREM QueueFifo == Spec => FifoOrder
<1>1. ASSUME IInv, [Next]_vars PROVE InOrder(queue, queue')
  <2>1. queue \in Seq(Task) /\ Distinct(queue)
    BY <1>1 DEF IInv, TypeOK, SchedulerInv
  <2>2. CASE queue' = queue \/ (queue # <<>> /\ queue' = Tail(queue))
    <3>1. PICK x : ~Has(queue, x)
      <4>1. ~Has(queue, NoTask)
        BY <2>1, TaskAssumption DEF Has
      <4> QED BY <4>1
    <3> QED BY <2>1, <2>2, <3>1, OrderKept, Zenon
  <2>3. CASE \E t \in Task : ~Has(queue, t) /\ queue' = Append(queue, t)
    BY <2>1, <2>3, OrderKept
  <2> QED BY <1>1, <2>2, <2>3, QueueStep
<1>2. IInv /\ [Next]_vars =>
        [\A i \in DOMAIN queue, m \in DOMAIN queue' : queue'[m] = queue[i] =>
            /\ \A k \in 1..(m - 1) : \E j \in 1..(i - 1) : queue[j] = queue'[k]
            /\ \A j \in (i + 1)..Len(queue) :
                  \E k \in (m + 1)..Len(queue') : queue'[k] = queue[j]]_vars
  BY <1>1 DEF InOrder
<1> QED BY <1>2, Invariance, PTL DEF Spec, FifoOrder

------------------------------------------------------------------------------
(* The strong count is the number of holders, whatever the hart does. *)

\* The references are counted one by one.
Counted(t) == IsFiniteSet(References(t)) /\ strong[t] = Cardinality(References(t))

\* A set with at most one member.
LEMMA AtMostOne ==
    ASSUME NEW S, \A x, y \in S : x = y
    PROVE  IsFiniteSet(S) /\ Cardinality(S) = One(S # {})
<1>1. CASE S = {}
  BY <1>1, FS_EmptySet DEF One
<1>2. CASE S # {}
  <2>1. PICK x : S = {x}
    BY <1>2
  <2>2. IsFiniteSet({x}) /\ Cardinality({x}) = 1
    BY FS_Singleton
  <2> QED BY <1>2, <2>1, <2>2 DEF One
<1> QED BY <1>1, <1>2

\* Sets that share nothing.
LEMMA CountBoth ==
    ASSUME NEW S, NEW T, IsFiniteSet(S), IsFiniteSet(T), \A x \in S : x \notin T
    PROVE  IsFiniteSet(S \cup T) /\ Cardinality(S \cup T) = Cardinality(S) + Cardinality(T)
<1>1. S \cap T = {} /\ Cardinality({}) = 0
  BY FS_EmptySet
<1>2. Cardinality(S) \in Nat /\ Cardinality(T) \in Nat
  BY FS_CardinalityType
<1>3. /\ IsFiniteSet(S \cup T)
      /\ Cardinality(S \cup T) = Cardinality(S) + Cardinality(T) - Cardinality(S \cap T)
  BY FS_Union
<1> DEFINE m == Cardinality(S)
           n == Cardinality(T)
<1>4. m + n - 0 = m + n
  BY <1>2
<1> QED BY <1>1, <1>3, <1>4

\* The kinds of holders share nothing.
LEMMA KindsDiffer ==
    ASSUME NEW t
    PROVE  /\ \A x \in QueueRefs(t) : x[1] = "queue"
           /\ \A x \in ChildRefs(t) : x[1] = "child"
           /\ \A x \in CurrentRefs(t) : x[1] = "current"
           /\ \A x \in OriginRefs(t) : x[1] = "origin"
  BY DEF QueueRefs, ChildRefs, CurrentRefs, OriginRefs

\* The reference x that the child list of p has to t.
InChild(x, p, t) == \E i \in DOMAIN child[p] : child[p][i] = t /\ x = <<"child", p, i>>

\* A PCB is held by a list when it is in it.
LEMMA HeldBy ==
    ASSUME NEW t
    PROVE  /\ QueueRefs(t) # {} <=> Has(queue, t)
           /\ ChildRefs(t) # {} <=> Listed(t)
           /\ \A x : x \in ChildRefs(t) <=> \E p \in Task : InChild(x, p, t)
<1>1. \A s : At(s, t) # {} <=> Has(s, t)
  BY DEF At, Has
<1>2. QueueRefs(t) # {} <=> At(queue, t) # {}
  BY Zenon DEF QueueRefs
<1>3. ASSUME NEW x
      PROVE  x \in ChildRefs(t) <=> \E p \in Task : InChild(x, p, t)
  <2>1. x \in ChildRefs(t)
          <=> \E p \in Task : x \in {<<"child", p, i>> : i \in At(child[p], t)}
    BY Zenon DEF ChildRefs
  <2>2. ASSUME NEW p
        PROVE  x \in {<<"child", p, i>> : i \in At(child[p], t)} <=> InChild(x, p, t)
    BY Zenon DEF InChild, At
  <2> QED BY <2>1, <2>2, Zenon
<1>4. ASSUME NEW p
      PROVE  Has(child[p], t) <=> \E x : InChild(x, p, t)
  BY Zenon DEF Has, InChild
<1>5. ChildRefs(t) # {} <=> Listed(t)
  BY <1>3, <1>4, Zenon DEF Listed
<1> QED BY <1>1, <1>2, <1>3, <1>5, Zenon

\* Outside the loop over the children each kind holds a PCB at most once.
LEMMA CalmCounted ==
    ASSUME IInv, Calm, NEW t \in Task
    PROVE  Counted(t)
<1> DEFINE Q == QueueRefs(t)
           C == ChildRefs(t)
           K == CurrentRefs(t)
           O == OriginRefs(t)
<1>1. IsFiniteSet(Q) /\ Cardinality(Q) = One(status[t] = "Ready")
  <2>1. Q # {} <=> status[t] = "Ready"
    BY HeldBy, ZenonT(60) DEF IInv, SchedulerInv
  <2>2. \A x, y \in Q : x = y
    BY DEF QueueRefs, At, IInv, SchedulerInv, Distinct
  <2> QED BY <2>1, <2>2, AtMostOne DEF One
<1>2. IsFiniteSet(C) /\ Cardinality(C) = One(Listed(t))
  <2>1. C # {} <=> Listed(t)
    BY HeldBy
  <2>2. \A x, y \in C : x = y
    <3> SUFFICES ASSUME NEW x \in C, NEW y \in C PROVE x = y
      OBVIOUS
    <3>1. PICK p \in Task : InChild(x, p, t)
      BY HeldBy, Zenon
    <3>2. PICK i \in DOMAIN child[p] : child[p][i] = t /\ x = <<"child", p, i>>
      BY <3>1, Zenon DEF InChild
    <3>3. PICK q \in Task : InChild(y, q, t)
      BY HeldBy, Zenon
    <3>4. PICK j \in DOMAIN child[q] : child[q][j] = t /\ y = <<"child", q, j>>
      BY <3>3, Zenon DEF InChild
    <3>5. Has(child[p], t) /\ Has(child[q], t)
      BY <3>2, <3>4, SMTT(30) DEF Has
    <3>6. p = q
      BY <3>5, ZenonT(30) DEF IInv, FamilyInv
    <3>7. i = j
      BY <3>2, <3>4, <3>6, ZenonT(30) DEF IInv, FamilyInv, Distinct
    <3> QED BY <3>2, <3>4, <3>6, <3>7
  <2> QED BY <2>1, <2>2, AtMostOne DEF One
<1>3. IsFiniteSet(K) /\ Cardinality(K) = One(status[t] = "Running")
  <2>1. current = t <=> status[t] = "Running"
    BY TaskAssumption, SMTT(30) DEF Calm, IInv, SchedulerInv, TypeOK, CpuModes
  <2>2. K # {} <=> current = t
    BY Zenon DEF CurrentRefs
  <2>3. \A x, y \in K : x = y
    BY DEF CurrentRefs
  <2> QED BY <2>1, <2>2, <2>3, AtMostOne DEF One
<1>4. IsFiniteSet(O) /\ Cardinality(O) = One(t = Origin)
  <2>1. O # {} <=> t = Origin
    BY Zenon DEF OriginRefs
  <2>2. \A x, y \in O : x = y
    BY DEF OriginRefs
  <2> QED BY <2>1, <2>2, AtMostOne DEF One
<1>5. /\ \A x \in Q : x \notin C
      /\ \A x \in Q \cup C : x \notin K
      /\ \A x \in (Q \cup C) \cup K : x \notin O
  BY KindsDiffer
<1> HIDE DEF Q, C, K, O
<1>6. IsFiniteSet(Q \cup C) /\ Cardinality(Q \cup C) = Cardinality(Q) + Cardinality(C)
  BY <1>1, <1>2, <1>5, CountBoth
<1>7. /\ IsFiniteSet((Q \cup C) \cup K)
      /\ Cardinality((Q \cup C) \cup K) = Cardinality(Q \cup C) + Cardinality(K)
  BY <1>3, <1>5, <1>6, CountBoth
<1>8. /\ IsFiniteSet(((Q \cup C) \cup K) \cup O)
      /\ Cardinality(((Q \cup C) \cup K) \cup O) = Cardinality((Q \cup C) \cup K) + Cardinality(O)
  BY <1>4, <1>5, <1>7, CountBoth
<1>9. References(t) = ((Q \cup C) \cup K) \cup O
  BY DEF References, Q, C, K, O
<1>10. strong[t] = One(Runnable(t)) + One(t = Origin) + One(Listed(t))
  BY DEF IInv, CountInv
<1>11. One(Runnable(t)) = One(status[t] = "Ready") + One(status[t] = "Running")
  BY DEF Runnable, One
<1>12. /\ One(status[t] = "Ready") \in Nat /\ One(status[t] = "Running") \in Nat
       /\ One(Listed(t)) \in Nat /\ One(t = Origin) \in Nat
  BY DEF One
<1>13. Cardinality(References(t)) = strong[t]
  <2> DEFINE r == One(status[t] = "Ready")
             u == One(status[t] = "Running")
             l == One(Listed(t))
             g == One(t = Origin)
  <2>1. r \in Nat /\ u \in Nat /\ l \in Nat /\ g \in Nat
    BY <1>12
  <2>2. Cardinality(References(t)) = ((r + l) + u) + g
    BY <1>1, <1>2, <1>3, <1>4, <1>6, <1>7, <1>8, <1>9, SMTT(30)
  <2>3. strong[t] = ((r + u) + g) + l
    BY <1>10, <1>11, ZenonT(30)
  <2> HIDE DEF r, u, l, g
  <2> QED BY <2>1, <2>2, <2>3
<1> QED BY <1>8, <1>9, <1>13 DEF Counted

\* The steps that lead into a panic or into the loop over the children, or
\* that go round in it: they move no Arc, or the loop hands one more to the
\* origin task.
LEMMA UncalmStep ==
    ASSUME IInv, [Next]_vars, ~Calm'
    PROVE  \/ UNCHANGED <<strong, queue, child, current>>
           \/ \E c \in Task : /\ c = child[current][1]
                              /\ child' = [child EXCEPT ![Origin] = Append(@, c)]
                              /\ strong' = [strong EXCEPT ![c] = @ + 1]
                              /\ UNCHANGED <<queue, current>>
<1> USE DEF Calm
<1>1. CASE PopTask
  BY <1>1 DEF PopTask
<1>2. CASE CheckTestcases
  <2>1. CASE InitTaskAndPush
    BY <2>1, SMTT(30) DEF InitTaskAndPush, Panic
  <2> QED BY <1>2, <2>1 DEF CheckTestcases
<1>3. CASE ReparentRound
  <2>1. CASE current = Origin
    BY <1>3, <2>1, SMTT(30) DEF ReparentRound, vars
  <2>2. CASE current # Origin /\ Len(child[Origin]) >= HeapLimit
    BY <1>3, <2>2, ZenonT(30) DEF ReparentRound, Panic
  <2>3. CASE current # Origin /\ ~(Len(child[Origin]) >= HeapLimit)
    <3>1. current \in Task /\ child[current] # <<>> /\ child[current] \in Seq(Task)
      BY <1>3 DEF ReparentRound, IInv, SchedulerInv, FamilyInv, TypeOK
    <3>2. child[current][1] \in Task
      BY <3>1, FirstFacts
    <3> QED BY <1>3, <2>3, <3>2, ZenonT(60) DEF ReparentRound
  <2> QED BY <2>1, <2>2, <2>3, SMTT(30)
<1>4. CASE Stopped \/ UNCHANGED vars
  BY <1>4, ZenonT(60) DEF Stopped, vars
<1>5. ASSUME NEW t \in Task, SysYield(t) \/ SysExit(t)
      PROVE  UNCHANGED <<strong, queue, child, current>>
  BY <1>5, Zenon DEF SysYield, SuspendCurrentTask, SysExit, ExitChildless, ExitWithChildren
<1>6. ASSUME NEW t \in Task, NEW arg, NEW wnohang, Wait4Round(t, arg, wnohang), cpu = "user"
      PROVE  FALSE
  BY <1>6 DEF Wait4Round, Reap, SuspendCurrentTask
<1>7. ASSUME NEW t \in Task, UnsupportedFlags(t)
      PROVE  UNCHANGED <<strong, queue, child, current>>
  BY <1>7 DEF UnsupportedFlags, Panic
<1>8. ASSUME NEW t \in Task, NEW flags, SysClone(t, flags)
      PROVE  UNCHANGED <<strong, queue, child, current>>
  BY <1>8, Zenon DEF SysClone, InUser, Panic
<1> QED
  BY <1>1, <1>2, <1>3, <1>4, <1>5, <1>6, <1>7, <1>8, ZenonT(60)
     DEF Next, SysWait4, Wait4Resume, InUser

\* A round of the loop adds one reference, to the child it hands over.
LEMMA UncalmCounted ==
    ASSUME IInv, \A t \in Task : Counted(t), [Next]_vars, ~Calm'
    PROVE  \A t \in Task : Counted(t)'
<1> SUFFICES ASSUME NEW t \in Task PROVE Counted(t)'
  OBVIOUS
<1>1. CASE UNCHANGED <<strong, queue, child, current>>
  <2>1. /\ QueueRefs(t)' = QueueRefs(t) /\ ChildRefs(t)' = ChildRefs(t)
        /\ CurrentRefs(t)' = CurrentRefs(t) /\ OriginRefs(t)' = OriginRefs(t)
    BY <1>1 DEF QueueRefs, ChildRefs, CurrentRefs, OriginRefs, At
  <2>2. References(t)' = References(t)
    BY <2>1, Zenon DEF References
  <2> QED BY <1>1, <2>2, SMTT(30) DEF Counted
<1>2. CASE \E c \in Task : /\ c = child[current][1]
                           /\ child' = [child EXCEPT ![Origin] = Append(@, c)]
                           /\ strong' = [strong EXCEPT ![c] = @ + 1]
                           /\ UNCHANGED <<queue, current>>
  <2>1. PICK c \in Task : /\ child' = [child EXCEPT ![Origin] = Append(@, c)]
                          /\ strong' = [strong EXCEPT ![c] = @ + 1]
                          /\ UNCHANGED <<queue, current>>
    BY <1>2, Zenon
  <2>2. child \in [Task -> Seq(Task)] /\ strong \in [Task -> Nat] /\ Origin \in Task
    BY TaskAssumption, Zenon DEF IInv, TypeOK
  <2> DEFINE L == Len(child[Origin])
             new == <<"child", Origin, L + 1>>
  <2>3. /\ L \in Nat /\ DOMAIN child[Origin] = 1 .. L
        /\ DOMAIN child'[Origin] = 1 .. (L + 1)
        /\ child'[Origin][L + 1] = c
        /\ \A i \in 1 .. L : child'[Origin][i] = child[Origin][i]
        /\ \A p \in Task : p # Origin => child'[p] = child[p]
    BY <2>1, <2>2, SMTT(30)
  <2> HIDE DEF L
  <2>4. QueueRefs(t)' = QueueRefs(t) /\ CurrentRefs(t)' = CurrentRefs(t)
        /\ OriginRefs(t)' = OriginRefs(t)
    BY <2>1 DEF QueueRefs, CurrentRefs, OriginRefs, At
  <2>5. new \notin References(t)
    <3>1. new \notin ChildRefs(t)
      <4> SUFFICES ASSUME new \in ChildRefs(t) PROVE FALSE
        OBVIOUS
      <4>1. PICK p \in Task : InChild(new, p, t)
        BY HeldBy, Zenon
      <4>2. PICK i \in DOMAIN child[p] : new = <<"child", p, i>>
        BY <4>1, Zenon DEF InChild
      <4>3. p = Origin /\ i = L + 1 /\ i \in 1 .. L
        BY <2>3, <4>2, Zenon
      <4> QED BY <2>3, <4>3
    <3>2. new[1] = "child"
      OBVIOUS
    <3> QED BY <3>1, <3>2, KindsDiffer, SMTT(30) DEF References
  <2>6. ChildRefs(t)' = IF t = c THEN ChildRefs(t) \cup {new} ELSE ChildRefs(t)
    <3>1. ASSUME NEW x
          PROVE  x \in ChildRefs(t)' <=> x \in ChildRefs(t) \/ (t = c /\ x = new)
      <4>1. x \in ChildRefs(t) <=> \E p \in Task : InChild(x, p, t)
        BY HeldBy, Zenon
      <4>2. x \in ChildRefs(t)' <=> \E p \in Task : InChild(x, p, t)'
        <5>1. x \in ChildRefs(t)'
                <=> \E p \in Task : x \in {<<"child", p, i>> : i \in At(child'[p], t)}
          BY Zenon DEF ChildRefs, At
        <5>2. ASSUME NEW p
              PROVE  x \in {<<"child", p, i>> : i \in At(child'[p], t)} <=> InChild(x, p, t)'
          BY Zenon DEF InChild, At
        <5> QED BY <5>1, <5>2, Zenon
      <4>3. ASSUME NEW p \in Task, p # Origin
            PROVE  InChild(x, p, t)' <=> InChild(x, p, t)
        BY <2>3, <4>3 DEF InChild
      <4>4. InChild(x, Origin, t)' <=> InChild(x, Origin, t) \/ (t = c /\ x = new)
        <5>1. 1 .. (L + 1) = (1 .. L) \cup {L + 1}
          BY <2>3
        <5>2. InChild(x, Origin, t)' <=> \E i \in (1 .. L) \cup {L + 1} :
                                           child'[Origin][i] = t /\ x = <<"child", Origin, i>>
          BY <2>3, <5>1, Zenon DEF InChild
        <5>3. InChild(x, Origin, t) <=> \E i \in 1 .. L :
                                          child'[Origin][i] = t /\ x = <<"child", Origin, i>>
          BY <2>3, Zenon DEF InChild
        <5> QED BY <2>3, <5>2, <5>3, Zenon
      <4> QED BY <2>2, <4>1, <4>2, <4>3, <4>4, Zenon
    <3> HIDE DEF new
    <3> QED BY <3>1
  <2> HIDE DEF new
  <2>7. References(t)' = ((QueueRefs(t)' \cup ChildRefs(t)') \cup CurrentRefs(t)') \cup OriginRefs(t)'
    BY DEF References
  <2>8. References(t)' = IF t = c THEN References(t) \cup {new} ELSE References(t)
    BY <2>4, <2>6, <2>7 DEF References
  <2>9. IsFiniteSet(References(t)) /\ strong[t] = Cardinality(References(t)) /\ strong[t] \in Nat
    BY <2>2, SMTT(30) DEF Counted
  <2>10. CASE t = c
    <3>1. IsFiniteSet(References(t) \cup {new})
          /\ Cardinality(References(t) \cup {new}) = Cardinality(References(t)) + 1
      BY <2>5, <2>9, FS_AddElement
    <3>2. strong'[t] = strong[t] + 1
      BY <2>1, <2>2, <2>10
    <3> QED BY <2>8, <2>9, <2>10, <3>1, <3>2, SMTT(30) DEF Counted
  <2>11. CASE t # c
    <3>1. strong'[t] = strong[t] /\ References(t)' = References(t)
      BY <2>1, <2>2, <2>8, <2>11
    <3> QED BY <2>9, <3>1 DEF Counted
  <2> QED BY <2>10, <2>11
<1> QED BY <1>1, <1>2, UncalmStep

\* The strong count of a PCB is the number of places that hold it, at every
\* step of clone, exit, wait4 and the scheduler, the loop over the children
\* included.
THEOREM ArcsCounted == Spec => []ArcInv
<1> DEFINE AllCounted == \A t \in Task : Counted(t)
<1>1. Init => Calm
  BY DEF Init, Calm
<1>2. IInv /\ Calm => AllCounted
  BY CalmCounted
<1>3. IInv /\ AllCounted /\ [Next]_vars /\ ~Calm' => AllCounted'
  BY UncalmCounted
<1>4. AllCounted => ArcInv
  BY DEF Counted, ArcInv
<1> HIDE DEF AllCounted
<1> QED BY <1>1, <1>2, <1>3, <1>4, Invariance, PTL DEF Spec

==============================================================================
