------------------------------ MODULE SpinLock ------------------------------
(***************************************************************************)
(* The kernel's two mutexes and its interrupt nesting.  SpinLock only      *)
(* spins (SpinIrq); SpinNoIrqLock also keeps supervisor interrupts off     *)
(* from before it spins until its guard is dropped (push_off, push_on).    *)
(* Every hart counts its open no-interrupt sections in noff and remembers  *)
(* in interrupt_enable whether interrupts were on before the first one.    *)
(*                                                                         *)
(* The library is modelled for every hart count and every initial state of *)
(* the interrupt bit; the shipped build is the instance with one hart      *)
(* whose interrupts are off.  A hart runs a stack of frames: the kernel    *)
(* code and, while sie is on, the trap handler the hardware enters in the  *)
(* middle of it.  Both lock and drop guards as they like, in any order.    *)
(***************************************************************************)
EXTENDS Integers, Sequences, FiniteSets

CONSTANTS
    Harts,          \* the harts that run the kernel
    Locks,          \* the mutexes
    NoIrq           \* those of type SpinNoIrqLock

ASSUME LocksAssumption ==
    Locks # {} /\ IsFiniteSet(Locks) /\ NoIrq \subseteq Locks

VARIABLES
    locked,         \* [Locks -> BOOLEAN]: SpinMutex::lock
    sie,            \* [Harts -> BOOLEAN]: sstatus.SIE
    noff,           \* [Harts -> Nat]: Cpu::noff
    enable,         \* [Harts -> BOOLEAN]: Cpu::interrupt_enable
    base,           \* [Harts -> frame]: the interrupted kernel code
    handler,        \* [Harts -> frame]: the trap handler
    trapped,        \* [Harts -> BOOLEAN]: the handler is running
    dead            \* "Dead Lock!" or push_on's todo!() stopped the machine

lockVars == <<locked, sie, noff, enable, base, handler, trapped, dead>>

\* A frame: where it is in lock or drop, of which mutex, the sie bit push_off
\* read, the guards it holds and the sie bit it started with.
\*   run    outside the library           off    sie read, not cleared yet
\*   spin   in the loop of lock           try    at the exchange of try_lock
\*   drop   lock word cleared, after_lock to come
Steps == {"run", "off", "offTry", "spin", "try", "drop"}
Frames == [pc : Steps, lock : Locks, old : BOOLEAN,
           held : SUBSET Locks, entry : BOOLEAN]

\* Outside the library the lock and old of a frame are of no meaning.
NoLock == CHOOSE l \in Locks : TRUE
Frame(on) == [pc |-> "run", lock |-> NoLock, old |-> FALSE,
              held |-> {}, entry |-> on]

LockInit ==
    /\ locked = [l \in Locks |-> FALSE]
    /\ sie \in [Harts -> BOOLEAN]
    /\ noff = [h \in Harts |-> 0]
    /\ enable = [h \in Harts |-> FALSE]
    /\ base = [h \in Harts |-> Frame(sie[h])]
    /\ handler = [h \in Harts |-> Frame(FALSE)]
    /\ trapped = [h \in Harts |-> FALSE]
    /\ dead = FALSE

\* The frame that executes on a hart, and the step that replaces it.
Top(h) == IF trapped[h] THEN handler[h] ELSE base[h]

SetTop(h, f) ==
    /\ base' = IF trapped[h] THEN base ELSE [base EXCEPT ![h] = f]
    /\ handler' = IF trapped[h] THEN [handler EXCEPT ![h] = f] ELSE handler

\* lock and try_lock, up to before_lock: a no-interrupt mutex first reads sie.
\* Code that asks again for a mutex it holds itself is not modelled here.
Begin(h, l, isTry) ==
    LET f == Top(h)
        spin == IF isTry THEN "try" ELSE "spin"
        off  == IF isTry THEN "offTry" ELSE "off"
    IN  /\ ~dead
        /\ f.pc = "run"
        /\ l \notin f.held
        /\ SetTop(h, [f EXCEPT !.pc = IF l \in NoIrq THEN off ELSE spin,
                               !.lock = l, !.old = l \in NoIrq /\ sie[h]])
        /\ UNCHANGED <<locked, sie, noff, enable, trapped, dead>>

\* Mutant: push_off leaves the interrupt bit alone.
PushOffOn(h) ==
    LET f == Top(h)
    IN  /\ ~dead
        /\ f.pc \in {"off", "offTry"}
        /\ enable' = IF noff[h] = 0 THEN [enable EXCEPT ![h] = f.old] ELSE enable
        /\ noff' = [noff EXCEPT ![h] = @ + 1]
        /\ SetTop(h, [f EXCEPT !.old = FALSE,
                               !.pc = IF f.pc = "off" THEN "spin" ELSE "try"])
        /\ UNCHANGED <<locked, sie, trapped, dead>>

\* The rest of push_off, with the bit read earlier.
PushOff(h) ==
    LET f == Top(h)
    IN  /\ ~dead
        /\ f.pc \in {"off", "offTry"}
        /\ sie' = [sie EXCEPT ![h] = FALSE]
        /\ enable' = IF noff[h] = 0 THEN [enable EXCEPT ![h] = f.old] ELSE enable
        /\ noff' = [noff EXCEPT ![h] = @ + 1]
        /\ SetTop(h, [f EXCEPT !.old = FALSE,
                               !.pc = IF f.pc = "off" THEN "spin" ELSE "try"])
        /\ UNCHANGED <<locked, trapped, dead>>

\* Mutant: the loop leaves without the exchange having succeeded.
AcquireAnyway(h) ==
    LET f == Top(h)
    IN  /\ ~dead
        /\ f.pc \in {"spin", "try"}
        /\ locked' = [locked EXCEPT ![f.lock] = TRUE]
        /\ SetTop(h, [f EXCEPT !.pc = "run", !.lock = NoLock,
                               !.held = @ \cup {f.lock}])
        /\ UNCHANGED <<sie, noff, enable, trapped, dead>>

\* compare_exchange finds the mutex free.
Acquire(h) ==
    LET f == Top(h)
    IN  /\ ~dead
        /\ f.pc \in {"spin", "try"}
        /\ ~locked[f.lock]
        /\ locked' = [locked EXCEPT ![f.lock] = TRUE]
        /\ SetTop(h, [f EXCEPT !.pc = "run", !.lock = NoLock,
                               !.held = @ \cup {f.lock}])
        /\ UNCHANGED <<sie, noff, enable, trapped, dead>>

\* try_lock finds it taken: after_lock follows, and None is returned.
TryFails(h) ==
    LET f == Top(h)
    IN  /\ ~dead
        /\ f.pc = "try"
        /\ locked[f.lock]
        /\ SetTop(h, [f EXCEPT !.pc = "drop"])
        /\ UNCHANGED <<locked, sie, noff, enable, trapped, dead>>

\* The spin count of lock reaches 0x1000_0000 while the mutex is taken.
SpinOut(h) ==
    /\ ~dead
    /\ Top(h).pc = "spin"
    /\ locked[Top(h).lock]
    /\ dead' = TRUE
    /\ UNCHANGED <<locked, sie, noff, enable, base, handler, trapped>>

\* Drop of a guard: the word is cleared, then after_lock.
Unlock(h, l) ==
    LET f == Top(h)
    IN  /\ ~dead
        /\ f.pc = "run"
        /\ l \in f.held
        /\ locked' = [locked EXCEPT ![l] = FALSE]
        /\ SetTop(h, [f EXCEPT !.pc = "drop", !.lock = l, !.held = @ \ {l}])
        /\ UNCHANGED <<sie, noff, enable, trapped, dead>>

\* push_on: with interrupts on or no section open it reaches todo!().
PushOn(h) ==
    LET f == Top(h)
    IN  IF sie[h] \/ noff[h] < 1
        THEN dead' = TRUE /\ UNCHANGED <<noff, sie, base, handler>>
        ELSE /\ noff' = [noff EXCEPT ![h] = @ - 1]
             /\ sie' = [sie EXCEPT ![h] = noff[h] = 1 /\ enable[h]]
             /\ SetTop(h, [f EXCEPT !.pc = "run", !.lock = NoLock])
             /\ dead' = dead

AfterLock(h) ==
    /\ ~dead
    /\ Top(h).pc = "drop"
    /\ IF Top(h).lock \in NoIrq
       THEN PushOn(h)
       ELSE /\ SetTop(h, [Top(h) EXCEPT !.pc = "run", !.lock = NoLock])
            /\ UNCHANGED <<noff, sie, dead>>
    /\ UNCHANGED <<locked, enable, trapped>>

\* The hardware enters the handler with sie off, wherever the kernel code is,
\* and sret puts the bit back.
Interrupt(h) ==
    /\ ~dead
    /\ sie[h]
    /\ ~trapped[h]
    /\ trapped' = [trapped EXCEPT ![h] = TRUE]
    /\ sie' = [sie EXCEPT ![h] = FALSE]
    /\ handler' = [handler EXCEPT ![h] = Frame(FALSE)]
    /\ UNCHANGED <<locked, noff, enable, base, dead>>

Sret(h) ==
    /\ ~dead
    /\ trapped[h]
    /\ handler[h].pc = "run"
    /\ handler[h].held = {}
    /\ trapped' = [trapped EXCEPT ![h] = FALSE]
    /\ sie' = [sie EXCEPT ![h] = TRUE]
    /\ UNCHANGED <<locked, noff, enable, base, handler, dead>>

HartStep(h) ==
    \/ \E l \in Locks, isTry \in BOOLEAN : Begin(h, l, isTry)
    \/ PushOff(h)
    \/ Acquire(h)
    \/ TryFails(h)
    \/ SpinOut(h)
    \/ \E l \in Locks : Unlock(h, l)
    \/ AfterLock(h)
    \/ Interrupt(h)
    \/ Sret(h)

LockNext == \E h \in Harts : HartStep(h)

LockSpec == LockInit /\ [][LockNext]_lockVars

-----------------------------------------------------------------------------

LockTypeOK ==
    /\ locked \in [Locks -> BOOLEAN]
    /\ sie \in [Harts -> BOOLEAN]
    /\ noff \in [Harts -> Nat]
    /\ enable \in [Harts -> BOOLEAN]
    /\ base \in [Harts -> Frames]
    /\ handler \in [Harts -> Frames]
    /\ trapped \in [Harts -> BOOLEAN]
    /\ dead \in BOOLEAN

\* The guards of a hart: those of the kernel code and those of the handler
\* that interrupted it.
HeldOn(h) == base[h].held \cup (IF trapped[h] THEN handler[h].held ELSE {})

\* A mutex never has two guards, on two harts or in two frames of one, and its
\* word is set exactly while it has one (SpinMutex::lock, try_lock and Drop).
MutualExclusion ==
    /\ \A l \in Locks : locked[l] <=> \E h \in Harts : l \in HeldOn(h)
    /\ \A g, h \in Harts : g # h => HeldOn(g) \cap HeldOn(h) = {}
    /\ \A h \in Harts : trapped[h] => base[h].held \cap handler[h].held = {}

\* The sections push_off opened for a frame and push_on has yet to close.
Sections(f) ==
    (f.held \cap NoIrq)
    \cup (IF f.pc \in {"spin", "try", "drop"} THEN {f.lock} \cap NoIrq ELSE {})

\* While a frame is inside a no-interrupt section its hart takes no interrupt;
\* outside, it has the interrupt state it started with, whatever the order its
\* guards were dropped in and even if a handler ran inside push_off.
InterruptsRestored ==
    \A h \in Harts :
        sie[h] <=> Top(h).entry /\ Sections(Top(h)) = {}

\* A handler never waits for a no-interrupt mutex that the code it interrupted
\* holds: that hart would spin until "Dead Lock!".
NoSelfDeadlock ==
    \A h \in Harts :
        trapped[h] /\ handler[h].lock \in NoIrq
            /\ handler[h].pc \in {"off", "offTry", "spin", "try"}
        => handler[h].lock \notin base[h].held

\* The todo!() of push_on is never reached: a hart that closes a section has
\* interrupts off and the section counted.
PushOnSafe ==
    \A h \in Harts :
        Top(h).pc = "drop" /\ Top(h).lock \in NoIrq => ~sie[h] /\ noff[h] >= 1

=============================================================================
