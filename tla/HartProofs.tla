----------------------------- MODULE HartProofs -----------------------------
(***************************************************************************)
(* What a hart keeps in its status register.  The interrupt bit, with the  *)
(* nesting of push_off and the mutexes, for every number of harts, every   *)
(* set of mutexes of both kinds and every initial state of the bits; and   *)
(* the SUM bit for every set of tasks, every mix of system calls and every *)
(* width of the counter.                                                   *)
(***************************************************************************)
EXTENDS SpinLock, Env, TLAPS

(******************************** the mutexes ********************************)
\* A frame inside lock or drop does not hold the mutex it is about; inside
\* push_off the bit it read is the one its frame is entitled to.
FrameInv(f) ==
    /\ f \in Frames
    /\ f.pc # "run" => f.lock \notin f.held
    /\ f.pc \in {"off", "offTry"} =>
          /\ f.lock \in NoIrq
          /\ f.old <=> f.entry /\ Sections(f) = {}

\* n is the number of elements of S.
Counts(n, S) ==
    \E f \in [1..n -> S] :
        /\ \A x \in S : \E i \in 1..n : f[i] = x
        /\ \A i, j \in 1..n : f[i] = f[j] => i = j

\* noff counts the open sections of the running frame, and interrupt_enable
\* is its initial state while there are any; interrupted code has none.
HartInv(h) ==
    /\ FrameInv(base[h])
    /\ FrameInv(handler[h])
    /\ trapped[h] => base[h].entry /\ Sections(base[h]) = {}
    /\ Counts(noff[h], Sections(Top(h)))
    /\ sie[h] <=> Top(h).entry /\ Sections(Top(h)) = {}
    /\ Sections(Top(h)) # {} => (enable[h] <=> Top(h).entry)

NestInv == \A h \in Harts : HartInv(h)

\* The inductive invariant.
LockIInv == LockTypeOK /\ NestInv /\ MutualExclusion

\* No sections are none.
LEMMA CountsNone ==
    /\ Counts(0, {})
    /\ \A S : \A n \in Nat : Counts(n, S) => (n = 0 <=> S = {})
<1>1. Counts(0, {})
  <2>1. 1..0 = {}
    OBVIOUS
  <2>2. [i \in 1..0 |-> 0] \in [1..0 -> {}]
    BY <2>1
  <2> QED BY <2>1, <2>2, Zenon DEF Counts
<1>2. ASSUME NEW n \in Nat, NEW S, Counts(n, S) PROVE n = 0 <=> S = {}
  <2>1. PICK f \in [1..n -> S] : \A x \in S : \E i \in 1..n : f[i] = x
    BY <1>2, Zenon DEF Counts
  <2>2. n # 0 => 1 \in 1..n
    OBVIOUS
  <2>3. n = 0 => 1..n = {}
    OBVIOUS
  <2> QED BY <2>1, <2>2, <2>3, Zenon
<1> QED BY <1>1, <1>2, Zenon

\* One section more.
LEMMA CountsMore ==
    ASSUME NEW n \in Nat, NEW S, Counts(n, S), NEW x, x \notin S
    PROVE  Counts(n + 1, S \cup {x})
<1>1. PICK f \in [1..n -> S] : /\ \A y \in S : \E i \in 1..n : f[i] = y
                               /\ \A i, j \in 1..n : f[i] = f[j] => i = j
  BY Zenon DEF Counts
<1> DEFINE g == [i \in 1..(n + 1) |-> IF i = n + 1 THEN x ELSE f[i]]
<1>2. \A i \in 1..(n + 1) : i = n + 1 \/ i \in 1..n
  OBVIOUS
<1>3. n + 1 \in 1..(n + 1) /\ \A i \in 1..n : i \in 1..(n + 1) /\ i # n + 1
  OBVIOUS
<1>4. g \in [1..(n + 1) -> S \cup {x}]
  BY <1>2, Zenon
<1>5. g[n + 1] = x /\ \A i \in 1..n : g[i] = f[i] /\ f[i] \in S
  BY <1>3, Zenon
<1> HIDE DEF g
<1>6. \A y \in S \cup {x} : \E i \in 1..(n + 1) : g[i] = y
  BY <1>1, <1>3, <1>5, Zenon
<1>7. \A i, j \in 1..(n + 1) : g[i] = g[j] => i = j
  BY <1>1, <1>2, <1>5, Zenon
<1> QED BY <1>4, <1>6, <1>7, Zenon DEF Counts

\* One section less.
LEMMA CountsLess ==
    ASSUME NEW n \in Nat, NEW S, Counts(n, S), NEW x \in S
    PROVE  n >= 1 /\ Counts(n - 1, S \ {x})
<1>1. PICK f \in [1..n -> S] : /\ \A y \in S : \E i \in 1..n : f[i] = y
                               /\ \A i, j \in 1..n : f[i] = f[j] => i = j
  BY Zenon DEF Counts
<1>2. PICK k \in 1..n : f[k] = x
  BY <1>1, Zenon
<1>3. n >= 1 /\ n \in 1..n /\ n - 1 \in Nat
  BY <1>2
<1>4. /\ \A i \in 1..(n - 1) : i \in 1..n /\ i # n
      /\ \A i \in 1..n : i = n \/ i \in 1..(n - 1)
  BY <1>3
<1> DEFINE g == [i \in 1..(n - 1) |-> IF i = k THEN f[n] ELSE f[i]]
<1>5. \A i \in 1..(n - 1) : g[i] = (IF i = k THEN f[n] ELSE f[i])
  BY Zenon
<1>6. g \in [1..(n - 1) -> S \ {x}]
  BY <1>1, <1>2, <1>3, <1>4
<1> HIDE DEF g
<1>7. \A y \in S \ {x} : \E i \in 1..(n - 1) : g[i] = y
  <2> SUFFICES ASSUME NEW y \in S \ {x} PROVE \E i \in 1..(n - 1) : g[i] = y
    OBVIOUS
  <2>1. PICK j \in 1..n : f[j] = y
    BY <1>1, Zenon
  <2>2. j # k
    BY <1>2, <2>1, Zenon
  <2>3. CASE j = n
    <3>1. k \in 1..(n - 1)
      BY <1>4, <2>2, <2>3, Zenon
    <3> QED BY <1>5, <2>1, <2>3, <3>1, Zenon
  <2>4. CASE j # n
    BY <1>4, <1>5, <2>1, <2>2, <2>4, Zenon
  <2> QED BY <2>3, <2>4
<1>8. \A i, j \in 1..(n - 1) : g[i] = g[j] => i = j
  BY <1>1, <1>3, <1>4, <1>5, Zenon
<1> QED BY <1>3, <1>6, <1>7, <1>8, Zenon DEF Counts

\* The frame a hart starts or traps with.
LEMMA FreshFrame ==
    ASSUME NEW on \in BOOLEAN
    PROVE  /\ FrameInv(Frame(on))
           /\ Sections(Frame(on)) = {}
           /\ Frame(on).entry <=> on
           /\ Frame(on).held = {}
<1>1. NoLock \in Locks
  BY LocksAssumption DEF NoLock
<1> QED
  BY <1>1 DEF FrameInv, Frame, Frames, Sections, Steps

\* What replacing the running frame of a hart leaves alone.
LEMMA SetTopFacts ==
    ASSUME LockTypeOK, NEW h \in Harts, NEW f \in Frames,
           SetTop(h, f), trapped' = trapped
    PROVE  /\ base' \in [Harts -> Frames] /\ handler' \in [Harts -> Frames]
           /\ Top(h)' = f
           /\ \A g \in Harts \ {h} : base'[g] = base[g] /\ handler'[g] = handler[g]
           /\ trapped[h] => base'[h] = base[h] /\ handler'[h] = f
           /\ ~trapped[h] => base'[h] = f /\ handler'[h] = handler[h]
BY DEF LockTypeOK, SetTop, Top

\* A hart whose state does not change stays in order.
LEMMA OtherHart ==
    ASSUME NestInv, NEW g \in Harts,
           base'[g] = base[g] /\ handler'[g] = handler[g] /\ trapped'[g] = trapped[g],
           noff'[g] = noff[g] /\ sie'[g] = sie[g] /\ enable'[g] = enable[g]
    PROVE  HartInv(g)'
<1>1. Top(g)' = Top(g)
  BY DEF Top
<1>2. HartInv(g)
  BY DEF NestInv
<1>3. /\ FrameInv(base'[g]) /\ FrameInv(handler'[g])
      /\ trapped'[g] => base'[g].entry /\ Sections(base'[g]) = {}
  BY <1>2 DEF HartInv
<1>4. /\ Counts(noff'[g], Sections(Top(g)'))
      /\ sie'[g] <=> Top(g)'.entry /\ Sections(Top(g)') = {}
      /\ Sections(Top(g)') # {} => (enable'[g] <=> Top(g)'.entry)
  BY <1>1, <1>2 DEF HartInv
<1> QED
  BY <1>3, <1>4 DEF HartInv, FrameInv, Sections

\* A step of one hart that replaces its running frame keeps every hart in
\* order if the new frame agrees with that hart's counter and bits.
LEMMA OneHart ==
    ASSUME LockTypeOK, NestInv, NEW h \in Harts, NEW f, FrameInv(f),
           SetTop(h, f), trapped' = trapped,
           \A g \in Harts \ {h} :
               noff'[g] = noff[g] /\ sie'[g] = sie[g] /\ enable'[g] = enable[g],
           Counts(noff'[h], Sections(f)),
           sie'[h] <=> f.entry /\ Sections(f) = {},
           Sections(f) # {} => (enable'[h] <=> f.entry)
    PROVE  NestInv'
<1>0. f \in Frames
  BY DEF FrameInv
<1>1. HartInv(h)'
  <2>1. FrameInv(base'[h]) /\ FrameInv(handler'[h])
    BY <1>0, SetTopFacts DEF NestInv, HartInv
  <2>2. trapped'[h] => base'[h].entry /\ Sections(base'[h]) = {}
    BY <1>0, SetTopFacts, Zenon DEF NestInv, HartInv
  <2>3. Top(h)' = f
    BY <1>0, SetTopFacts
  <2> QED
    BY <2>1, <2>2, <2>3 DEF HartInv, FrameInv, Sections, Top
<1>2. ASSUME NEW g \in Harts \ {h} PROVE HartInv(g)'
  BY <1>0, SetTopFacts, OtherHart
<1> QED
  BY <1>1, <1>2 DEF NestInv

\* The running frame of a hart is in order.
LEMMA TopFacts ==
    ASSUME LockTypeOK, NestInv, NEW h \in Harts
    PROVE  /\ Top(h) \in Frames
           /\ FrameInv(Top(h))
           /\ noff[h] \in Nat /\ Counts(noff[h], Sections(Top(h)))
           /\ sie[h] <=> Top(h).entry /\ Sections(Top(h)) = {}
           /\ Sections(Top(h)) # {} => (enable[h] <=> Top(h).entry)
BY Zenon DEF LockTypeOK, NestInv, HartInv, Top

\* lock and try_lock up to the read of sie open no section yet.
LEMMA BeginNest ==
    ASSUME LockTypeOK, NestInv, NEW h \in Harts, NEW l \in Locks,
           NEW isTry \in BOOLEAN, Begin(h, l, isTry)
    PROVE  NestInv'
<1> DEFINE f == Top(h)
           pc == IF l \in NoIrq THEN IF isTry THEN "offTry" ELSE "off"
                 ELSE IF isTry THEN "try" ELSE "spin"
           g == [f EXCEPT !.pc = pc, !.lock = l, !.old = l \in NoIrq /\ sie[h]]
<1>1. f \in Frames /\ f.pc = "run" /\ l \notin f.held
  BY TopFacts DEF Begin
<1>2. /\ g \in Frames /\ g.pc = pc /\ g.lock = l /\ g.held = f.held
      /\ g.entry = f.entry /\ (g.old <=> l \in NoIrq /\ sie[h])
  BY <1>1, Zenon DEF Frames, Steps, LockTypeOK
<1>3. Sections(g) = Sections(f)
  BY <1>1, <1>2 DEF Sections
<1>4. FrameInv(g)
  <2>1. sie[h] <=> f.entry /\ Sections(f) = {}
    BY TopFacts
  <2>2. g.pc # "run" /\ (g.pc \in {"off", "offTry"} => l \in NoIrq)
    BY <1>2
  <2>3. l \in NoIrq => (g.old <=> g.entry /\ Sections(g) = {})
    BY <1>2, <1>3, <2>1
  <2> HIDE DEF f, g, pc
  <2> QED
    BY <1>1, <1>2, <2>2, <2>3 DEF FrameInv
<1>5. SetTop(h, g)
  BY DEF Begin
<1>6. UNCHANGED <<noff, sie, enable, trapped>>
  BY DEF Begin
<1> HIDE DEF f, g, pc
<1> QED
  BY <1>2, <1>3, <1>4, <1>5, <1>6, TopFacts, OneHart DEF f

\* push_off opens one section and turns the interrupts off.
LEMMA PushOffNest ==
    ASSUME LockTypeOK, NestInv, NEW h \in Harts, PushOff(h)
    PROVE  NestInv'
<1> DEFINE f == Top(h)
           g == [f EXCEPT !.old = FALSE, !.pc = IF f.pc = "off" THEN "spin" ELSE "try"]
<1>1. /\ f \in Frames /\ f.pc \in {"off", "offTry"} /\ f.lock \notin f.held
      /\ f.lock \in NoIrq /\ (f.old <=> f.entry /\ Sections(f) = {})
  BY TopFacts DEF PushOff, FrameInv
<1>2. /\ g \in Frames /\ g.pc \in {"spin", "try"} /\ g.lock = f.lock
      /\ g.held = f.held /\ g.entry = f.entry
  BY <1>1, Zenon DEF Frames, Steps
<1>3. Sections(g) = Sections(f) \cup {f.lock} /\ f.lock \notin Sections(f)
  BY <1>1, <1>2 DEF Sections
<1>4. Counts(noff[h] + 1, Sections(g))
  <2>1. noff[h] \in Nat /\ Counts(noff[h], Sections(f))
    BY TopFacts
  <2> HIDE DEF f, g
  <2>2. Counts(noff[h] + 1, Sections(f) \cup {f.lock})
    BY <1>3, <2>1, CountsMore
  <2> QED BY <1>3, <2>2, Zenon
<1>5. FrameInv(g)
  BY <1>1, <1>2 DEF FrameInv
<1>6. SetTop(h, g) /\ trapped' = trapped
  BY DEF PushOff
<1>7. noff'[h] = noff[h] + 1 /\ ~sie'[h]
  BY DEF PushOff, LockTypeOK
<1>8. \A k \in Harts \ {h} : noff'[k] = noff[k] /\ sie'[k] = sie[k] /\ enable'[k] = enable[k]
  BY DEF PushOff, LockTypeOK
<1>9. enable'[h] <=> f.entry
  <2>1. CASE noff[h] = 0
    <3>1. Sections(f) = {}
      BY <2>1, TopFacts, CountsNone, Zenon
    <3>2. enable' = [enable EXCEPT ![h] = f.old]
      BY <2>1 DEF PushOff
    <3> QED
      BY <1>1, <3>1, <3>2 DEF LockTypeOK
  <2>2. CASE noff[h] # 0
    <3>1. Sections(f) # {}
      BY <2>2, TopFacts, CountsNone, Zenon
    <3>2. enable' = enable
      BY <2>2 DEF PushOff
    <3> QED
      BY <3>1, <3>2, TopFacts
  <2> QED
    BY <2>1, <2>2
<1>10. Counts(noff'[h], Sections(g)) /\ Sections(g) # {}
  BY <1>3, <1>4, <1>7, Zenon
<1> HIDE DEF f, g
<1> QED
  BY <1>2, <1>5, <1>6, <1>7, <1>8, <1>9, <1>10, OneHart

\* A successful exchange turns the section of the mutex into a held guard.
LEMMA AcquireNest ==
    ASSUME LockTypeOK, NestInv, NEW h \in Harts, Acquire(h)
    PROVE  NestInv'
<1> DEFINE f == Top(h)
           g == [f EXCEPT !.pc = "run", !.lock = NoLock, !.held = @ \cup {f.lock}]
<1>1. f \in Frames /\ f.pc \in {"spin", "try"}
  BY TopFacts DEF Acquire
<1>2. NoLock \in Locks
  BY LocksAssumption DEF NoLock
<1>3. /\ g \in Frames /\ g.pc = "run" /\ g.held = f.held \cup {f.lock}
      /\ g.entry = f.entry
  BY <1>1, <1>2, Zenon DEF Frames, Steps
<1>4. Sections(g) = Sections(f)
  BY <1>1, <1>3 DEF Sections
<1>5. FrameInv(g)
  BY <1>3 DEF FrameInv
<1>6. SetTop(h, g) /\ UNCHANGED <<noff, sie, enable, trapped>>
  BY DEF Acquire
<1> HIDE DEF f, g
<1> QED
  BY <1>3, <1>4, <1>5, <1>6, TopFacts, OneHart DEF f

\* A failed try_lock keeps its section until after_lock.
LEMMA TryFailsNest ==
    ASSUME LockTypeOK, NestInv, NEW h \in Harts, TryFails(h)
    PROVE  NestInv'
<1> DEFINE f == Top(h)
           g == [f EXCEPT !.pc = "drop"]
<1>1. f \in Frames /\ f.pc = "try" /\ f.lock \notin f.held
  BY TopFacts DEF TryFails, FrameInv
<1>2. /\ g \in Frames /\ g.pc = "drop" /\ g.lock = f.lock /\ g.held = f.held
      /\ g.entry = f.entry
  BY <1>1 DEF Frames, Steps
<1>3. Sections(g) = Sections(f)
  BY <1>1, <1>2 DEF Sections
<1>4. FrameInv(g)
  BY <1>1, <1>2 DEF FrameInv
<1>5. SetTop(h, g) /\ UNCHANGED <<noff, sie, enable, trapped>>
  BY DEF TryFails
<1> HIDE DEF f, g
<1> QED
  BY <1>2, <1>3, <1>4, <1>5, TopFacts, OneHart DEF f

\* Clearing the lock word leaves the section open until after_lock.
LEMMA UnlockNest ==
    ASSUME LockTypeOK, NestInv, NEW h \in Harts, NEW l \in Locks, Unlock(h, l)
    PROVE  NestInv'
<1> DEFINE f == Top(h)
           g == [f EXCEPT !.pc = "drop", !.lock = l, !.held = @ \ {l}]
<1>1. f \in Frames /\ f.pc = "run" /\ l \in f.held
  BY TopFacts DEF Unlock
<1>2. /\ g \in Frames /\ g.pc = "drop" /\ g.lock = l /\ g.held = f.held \ {l}
      /\ g.entry = f.entry
  BY <1>1, Zenon DEF Frames, Steps
<1>3. Sections(g) = Sections(f)
  BY <1>1, <1>2 DEF Sections
<1>4. FrameInv(g)
  BY <1>1, <1>2 DEF FrameInv
<1>5. SetTop(h, g) /\ UNCHANGED <<noff, sie, enable, trapped>>
  BY DEF Unlock
<1> HIDE DEF f, g
<1> QED
  BY <1>2, <1>3, <1>4, <1>5, TopFacts, OneHart DEF f

\* A frame in after_lock of a no-interrupt mutex has a section to close.
LEMMA DropFacts ==
    ASSUME LockTypeOK, NestInv, NEW h \in Harts,
           Top(h).pc = "drop", Top(h).lock \in NoIrq
    PROVE  /\ Top(h).lock \in Sections(Top(h))
           /\ ~sie[h] /\ noff[h] >= 1
<1>1. Top(h).lock \in Sections(Top(h))
  BY DEF Sections
<1> QED
  BY <1>1, TopFacts, CountsLess, Zenon

\* push_on closes one section; the last one restores the interrupts.
LEMMA AfterLockNest ==
    ASSUME LockTypeOK, NestInv, NEW h \in Harts, AfterLock(h)
    PROVE  NestInv'
<1> DEFINE f == Top(h)
           g == [f EXCEPT !.pc = "run", !.lock = NoLock]
<1>1. f \in Frames /\ f.pc = "drop" /\ f.lock \notin f.held
  BY TopFacts DEF AfterLock, FrameInv
<1>2. NoLock \in Locks
  BY LocksAssumption DEF NoLock
<1>3. /\ g \in Frames /\ g.pc = "run" /\ g.held = f.held /\ g.entry = f.entry
  BY <1>1, <1>2, Zenon DEF Frames, Steps
<1>4. FrameInv(g)
  BY <1>3 DEF FrameInv
<1>5. Sections(g) = Sections(f) \ {f.lock}
  BY <1>1, <1>3 DEF Sections
<1>6. CASE f.lock \in NoIrq
  <2>1. f.lock \in Sections(f) /\ ~sie[h] /\ noff[h] >= 1
    BY <1>1, <1>6, DropFacts
  <2>2. /\ noff' = [noff EXCEPT ![h] = @ - 1]
        /\ sie' = [sie EXCEPT ![h] = noff[h] = 1 /\ enable[h]]
        /\ SetTop(h, g) /\ trapped' = trapped /\ enable' = enable
    BY <1>6, <2>1, TopFacts DEF AfterLock, PushOn, LockTypeOK
  <2>3. Counts(noff[h] - 1, Sections(g)) /\ noff[h] \in Nat
    <3>1. noff[h] \in Nat /\ Counts(noff[h], Sections(f))
      BY TopFacts
    <3> HIDE DEF f, g
    <3>2. Counts(noff[h] - 1, Sections(f) \ {f.lock})
      BY <2>1, <3>1, CountsLess
    <3> QED BY <1>5, <3>1, <3>2, Zenon
  <2>4. Sections(g) = {} <=> noff[h] = 1
    <3>1. noff[h] - 1 \in Nat /\ (noff[h] - 1 = 0 <=> noff[h] = 1)
      BY <2>1, <2>3
    <3> QED BY <2>3, <3>1, CountsNone, Zenon
  <2>5. enable[h] <=> f.entry
    BY <2>1, TopFacts
  <2>6. Counts(noff'[h], Sections(g)) /\ (sie'[h] <=> noff[h] = 1 /\ enable[h])
    BY <2>2, <2>3, Zenon DEF LockTypeOK
  <2>7. \A k \in Harts \ {h} : noff'[k] = noff[k] /\ sie'[k] = sie[k] /\ enable'[k] = enable[k]
    BY <2>2 DEF LockTypeOK
  <2> HIDE DEF f, g
  <2> QED
    BY <1>3, <1>4, <2>2, <2>4, <2>5, <2>6, <2>7, OneHart
<1>7. CASE f.lock \notin NoIrq
  <2>1. SetTop(h, g) /\ UNCHANGED <<noff, sie, enable, trapped>>
    BY <1>7 DEF AfterLock
  <2>2. Sections(g) = Sections(f)
    BY <1>5, <1>7 DEF Sections
  <2> HIDE DEF f, g
  <2> QED
    BY <1>3, <1>4, <2>1, <2>2, TopFacts, OneHart DEF f
<1> QED
  BY <1>6, <1>7

\* A trap finds the hart outside every no-interrupt section.
LEMMA InterruptNest ==
    ASSUME LockTypeOK, NestInv, NEW h \in Harts, Interrupt(h)
    PROVE  NestInv'
<1> DEFINE f == Frame(FALSE)
<1>1. Top(h) = base[h] /\ sie[h]
  BY DEF Interrupt, Top
<1>2. base[h].entry /\ Sections(base[h]) = {} /\ noff[h] = 0
  BY <1>1, TopFacts, CountsNone, Zenon
<1>3. FrameInv(f) /\ Sections(f) = {} /\ ~f.entry
  BY FreshFrame, Zenon
<1>4. /\ base' = base /\ handler'[h] = f /\ trapped'[h] /\ ~sie'[h]
      /\ noff' = noff /\ enable' = enable
      /\ \A g \in Harts \ {h} : /\ handler'[g] = handler[g] /\ sie'[g] = sie[g]
                                /\ trapped'[g] = trapped[g]
  BY DEF Interrupt, LockTypeOK
<1>5. HartInv(h)'
  <2>1. Top(h)' = f
    BY <1>4 DEF Top
  <2>2. FrameInv(base'[h]) /\ FrameInv(handler'[h])
    BY <1>3, <1>4, Zenon DEF NestInv, HartInv
  <2>3. /\ trapped'[h] => base'[h].entry /\ Sections(base'[h]) = {}
        /\ Counts(noff'[h], Sections(f))
    BY <1>2, <1>3, <1>4, CountsNone, Zenon
  <2> HIDE DEF f
  <2> QED
    BY <1>3, <1>4, <2>1, <2>2, <2>3 DEF HartInv, FrameInv, Sections, Top
<1>6. ASSUME NEW g \in Harts \ {h} PROVE HartInv(g)'
  BY <1>4, OtherHart
<1> QED
  BY <1>5, <1>6 DEF NestInv

\* sret returns to code that is outside every no-interrupt section.
LEMMA SretNest ==
    ASSUME LockTypeOK, NestInv, NEW h \in Harts, Sret(h)
    PROVE  NestInv'
<1>1. Top(h) = handler[h] /\ base[h].entry /\ Sections(base[h]) = {}
  BY DEF Sret, Top, NestInv, HartInv
<1>2. noff[h] = 0
  <2>1. Sections(handler[h]) = {}
    BY DEF Sret, Sections
  <2> QED
    BY <1>1, <2>1, TopFacts, CountsNone, Zenon
<1>3. /\ base' = base /\ handler' = handler /\ ~trapped'[h] /\ sie'[h]
      /\ noff' = noff /\ enable' = enable
      /\ \A g \in Harts \ {h} : sie'[g] = sie[g] /\ trapped'[g] = trapped[g]
  BY DEF Sret, LockTypeOK
<1>4. HartInv(h)'
  <2>1. Top(h)' = base[h]
    BY <1>3 DEF Top
  <2>2. FrameInv(base'[h]) /\ FrameInv(handler'[h])
    BY <1>3 DEF NestInv, HartInv
  <2>3. /\ Counts(noff'[h], Sections(Top(h)'))
        /\ sie'[h] <=> Top(h)'.entry /\ Sections(Top(h)') = {}
        /\ Sections(Top(h)') # {} => (enable'[h] <=> Top(h)'.entry)
    BY <1>1, <1>2, <1>3, <2>1, CountsNone
  <2> QED
    BY <1>3, <2>2, <2>3 DEF HartInv, FrameInv, Sections
<1>5. ASSUME NEW g \in Harts \ {h} PROVE HartInv(g)'
  BY <1>3, OtherHart
<1> QED
  BY <1>4, <1>5 DEF NestInv

\* Every step keeps the types.
LEMMA LockTypeStep ==
    ASSUME LockTypeOK, NestInv, NEW h \in Harts, HartStep(h)
    PROVE  LockTypeOK'
<1>0. NoLock \in Locks /\ Top(h) \in Frames
  BY LocksAssumption, TopFacts DEF NoLock
<1>1. ASSUME NEW l \in Locks, NEW isTry \in BOOLEAN, Begin(h, l, isTry) PROVE LockTypeOK'
  <2> DEFINE g == [Top(h) EXCEPT
                      !.pc = IF l \in NoIrq THEN IF isTry THEN "offTry" ELSE "off"
                             ELSE IF isTry THEN "try" ELSE "spin",
                      !.lock = l, !.old = l \in NoIrq /\ sie[h]]
  <2>1. g \in Frames
    BY <1>0, Zenon DEF Frames, Steps
  <2>2. SetTop(h, g) /\ UNCHANGED <<locked, sie, noff, enable, trapped, dead>>
    BY <1>1 DEF Begin
  <2> HIDE DEF g
  <2> QED
    BY <2>1, <2>2, SetTopFacts DEF LockTypeOK
<1>2. CASE PushOff(h)
  <2> DEFINE g == [Top(h) EXCEPT !.old = FALSE,
                      !.pc = IF Top(h).pc = "off" THEN "spin" ELSE "try"]
  <2>1. g \in Frames /\ Top(h).old \in BOOLEAN
    BY <1>0, Zenon DEF Frames, Steps
  <2>2. SetTop(h, g) /\ UNCHANGED <<locked, trapped, dead>>
    BY <1>2 DEF PushOff
  <2>3. base' \in [Harts -> Frames] /\ handler' \in [Harts -> Frames]
    BY <2>1, <2>2, SetTopFacts
  <2>4. sie' \in [Harts -> BOOLEAN] /\ noff' \in [Harts -> Nat]
    BY <1>2 DEF PushOff, LockTypeOK
  <2>5. enable' \in [Harts -> BOOLEAN]
    BY <1>2, <2>1 DEF PushOff, LockTypeOK
  <2> QED
    BY <2>2, <2>3, <2>4, <2>5 DEF LockTypeOK
<1>3. CASE Acquire(h)
  BY <1>0, <1>3, ZenonT(60) DEF Acquire, SetTop, LockTypeOK, Frames, Steps
<1>4. CASE TryFails(h)
  BY <1>0, <1>4, Zenon DEF TryFails, SetTop, LockTypeOK, Frames, Steps
<1>5. CASE SpinOut(h)
  BY <1>5 DEF SpinOut, LockTypeOK
<1>6. ASSUME NEW l \in Locks, Unlock(h, l) PROVE LockTypeOK'
  BY <1>0, <1>6, Zenon DEF Unlock, SetTop, LockTypeOK, Frames, Steps
<1>7. CASE AfterLock(h)
  <2> DEFINE g == [Top(h) EXCEPT !.pc = "run", !.lock = NoLock]
  <2>1. g \in Frames
    BY <1>0, Zenon DEF Frames, Steps
  <2>2. UNCHANGED <<locked, enable, trapped>>
    BY <1>7 DEF AfterLock
  <2>3. base' \in [Harts -> Frames] /\ handler' \in [Harts -> Frames]
    <3>1. CASE SetTop(h, g)
      BY <2>1, <2>2, <3>1, SetTopFacts
    <3>2. CASE UNCHANGED <<base, handler>>
      BY <3>2 DEF LockTypeOK
    <3> QED
      BY <1>7, <3>1, <3>2 DEF AfterLock, PushOn
  <2>4. sie' \in [Harts -> BOOLEAN] /\ noff' \in [Harts -> Nat] /\ dead' \in BOOLEAN
    <3>1. CASE Top(h).lock \in NoIrq /\ ~sie[h] /\ noff[h] >= 1
      <4>1. /\ noff' = [noff EXCEPT ![h] = @ - 1] /\ dead' = dead
            /\ sie' = [sie EXCEPT ![h] = noff[h] = 1 /\ enable[h]]
        BY <1>7, <3>1 DEF AfterLock, PushOn, LockTypeOK
      <4> QED
        BY <3>1, <4>1 DEF LockTypeOK
    <3>2. CASE Top(h).lock \notin NoIrq
      BY <1>7, <3>2 DEF AfterLock, LockTypeOK
    <3> QED
      BY <1>7, <3>1, <3>2, DropFacts DEF AfterLock
  <2> QED
    BY <2>2, <2>3, <2>4 DEF LockTypeOK
<1>8. CASE Interrupt(h)
  <2>1. Frame(FALSE) \in Frames
    BY FreshFrame, Zenon DEF FrameInv
  <2> QED
    BY <1>8, <2>1, Zenon DEF Interrupt, LockTypeOK
<1>9. CASE Sret(h)
  BY <1>9 DEF Sret, LockTypeOK
<1> QED
  BY <1>1, <1>2, <1>3, <1>4, <1>5, <1>6, <1>7, <1>8, <1>9 DEF HartStep

\* A step that changes no set of guards and no lock word keeps exclusion.
LEMMA SameGuards ==
    ASSUME LockTypeOK, MutualExclusion, NEW h \in Harts, NEW g \in Frames,
           SetTop(h, g), g.held = Top(h).held, trapped' = trapped, locked' = locked
    PROVE  MutualExclusion'
<1>1. \A k \in Harts : base'[k].held = base[k].held /\ handler'[k].held = handler[k].held
  BY SetTopFacts DEF Top
<1>2. \A k \in Harts : HeldOn(k)' = HeldOn(k)
  BY <1>1 DEF HeldOn
<1> QED
  BY <1>1, <1>2 DEF MutualExclusion

\* A mutex that was free gets one guard, in one frame.
LEMMA AcquireExcludes ==
    ASSUME LockTypeOK, NestInv, MutualExclusion, NEW h \in Harts, Acquire(h)
    PROVE  MutualExclusion'
<1> DEFINE f == Top(h)
           l == f.lock
           g == [f EXCEPT !.pc = "run", !.lock = NoLock, !.held = @ \cup {l}]
<1>1. f \in Frames /\ l \in Locks /\ ~locked[l] /\ NoLock \in Locks
  BY TopFacts, LocksAssumption DEF Acquire, Frames, NoLock
<1>2. g \in Frames /\ g.held = f.held \cup {l}
  BY <1>1, Zenon DEF Frames, Steps
<1>3. SetTop(h, g) /\ trapped' = trapped /\ locked' = [locked EXCEPT ![l] = TRUE]
  BY DEF Acquire
<1> HIDE DEF f, g, l
<1>4. /\ \A k \in Harts \ {h} : base'[k] = base[k] /\ handler'[k] = handler[k]
      /\ trapped[h] => base'[h] = base[h] /\ handler'[h] = g
      /\ ~trapped[h] => base'[h] = g
  BY <1>2, <1>3, SetTopFacts
<1>5. \A k \in Harts : l \notin HeldOn(k)
  BY <1>1 DEF MutualExclusion
<1>6. \A k \in Harts \ {h} : HeldOn(k)' = HeldOn(k)
  BY <1>3, <1>4 DEF HeldOn
<1>7. HeldOn(h)' = HeldOn(h) \cup {l}
  BY <1>2, <1>3, <1>4 DEF HeldOn, Top, f
<1>8. \A m \in Locks : locked'[m] <=> locked[m] \/ m = l
  BY <1>1, <1>3 DEF LockTypeOK
<1>9. \A k \in Harts : trapped'[k] => base'[k].held \cap handler'[k].held = {}
  <2>1. \A k \in Harts : trapped[k] => base[k].held \cap handler[k].held = {}
    BY DEF MutualExclusion
  <2>2. trapped[h] => l \notin base[h].held /\ f = handler[h]
    BY <1>5 DEF HeldOn, Top, f
  <2> QED
    BY <1>2, <1>3, <1>4, <2>1, <2>2
<1>10. \A m \in Locks : locked'[m] <=> \E k \in Harts : m \in HeldOn(k)'
  BY <1>6, <1>7, <1>8 DEF MutualExclusion
<1>11. \A j, k \in Harts : j # k => HeldOn(j)' \cap HeldOn(k)' = {}
  BY <1>5, <1>6, <1>7 DEF MutualExclusion
<1> QED
  BY <1>9, <1>10, <1>11 DEF MutualExclusion, HeldOn

\* Dropping the guard of a mutex frees it: nobody else has one.
LEMMA UnlockExcludes ==
    ASSUME LockTypeOK, NestInv, MutualExclusion, NEW h \in Harts,
           NEW l \in Locks, Unlock(h, l)
    PROVE  MutualExclusion'
<1> DEFINE f == Top(h)
           g == [f EXCEPT !.pc = "drop", !.lock = l, !.held = @ \ {l}]
<1>1. f \in Frames /\ l \in f.held
  BY TopFacts DEF Unlock
<1>2. g \in Frames /\ g.held = f.held \ {l}
  BY <1>1, Zenon DEF Frames, Steps
<1>3. SetTop(h, g) /\ trapped' = trapped /\ locked' = [locked EXCEPT ![l] = FALSE]
  BY DEF Unlock
<1> HIDE DEF f, g
<1>4. /\ \A k \in Harts \ {h} : base'[k] = base[k] /\ handler'[k] = handler[k]
      /\ trapped[h] => base'[h] = base[h] /\ handler'[h] = g
      /\ ~trapped[h] => base'[h] = g
  BY <1>2, <1>3, SetTopFacts
<1>5. \A k \in Harts \ {h} : HeldOn(k)' = HeldOn(k)
  BY <1>3, <1>4 DEF HeldOn
<1>6. trapped[h] => l \notin base[h].held
  BY <1>1 DEF MutualExclusion, Top, f
<1>7. HeldOn(h)' = HeldOn(h) \ {l} /\ l \in HeldOn(h)
  BY <1>1, <1>2, <1>3, <1>4, <1>6 DEF HeldOn, Top, f
<1>8. \A m \in Locks : locked'[m] <=> locked[m] /\ m # l
  BY <1>3 DEF LockTypeOK
<1>9. \A k \in Harts : trapped'[k] => base'[k].held \cap handler'[k].held = {}
  <2>1. \A k \in Harts : trapped[k] => base[k].held \cap handler[k].held = {}
    BY DEF MutualExclusion
  <2>2. trapped[h] => f = handler[h]
    BY DEF Top, f
  <2> QED
    BY <1>2, <1>3, <1>4, <2>1, <2>2
<1>10. \A k \in Harts \ {h} : l \notin HeldOn(k)
  BY <1>7 DEF MutualExclusion
<1>11. \A m \in Locks : locked'[m] <=> \E k \in Harts : m \in HeldOn(k)'
  BY <1>5, <1>7, <1>8, <1>10 DEF MutualExclusion
<1>12. \A j, k \in Harts : j # k => HeldOn(j)' \cap HeldOn(k)' = {}
  BY <1>5, <1>7 DEF MutualExclusion
<1> QED
  BY <1>9, <1>11, <1>12 DEF MutualExclusion, HeldOn

\* Every step keeps exclusion.
LEMMA ExclusionStep ==
    ASSUME LockTypeOK, NestInv, MutualExclusion, NEW h \in Harts, HartStep(h)
    PROVE  MutualExclusion'
<1>0. NoLock \in Locks /\ Top(h) \in Frames
  BY LocksAssumption, TopFacts DEF NoLock
<1>1. ASSUME NEW l \in Locks, NEW isTry \in BOOLEAN, Begin(h, l, isTry)
      PROVE  MutualExclusion'
  <2> DEFINE g == [Top(h) EXCEPT
                      !.pc = IF l \in NoIrq THEN IF isTry THEN "offTry" ELSE "off"
                             ELSE IF isTry THEN "try" ELSE "spin",
                      !.lock = l, !.old = l \in NoIrq /\ sie[h]]
  <2>1. g \in Frames /\ g.held = Top(h).held
    BY <1>0, Zenon DEF Frames, Steps
  <2>2. SetTop(h, g) /\ trapped' = trapped /\ locked' = locked
    BY <1>1 DEF Begin
  <2> HIDE DEF g
  <2> QED
    BY <2>1, <2>2, SameGuards
<1>2. CASE PushOff(h)
  <2> DEFINE g == [Top(h) EXCEPT !.old = FALSE,
                      !.pc = IF Top(h).pc = "off" THEN "spin" ELSE "try"]
  <2>1. g \in Frames /\ g.held = Top(h).held
    BY <1>0, Zenon DEF Frames, Steps
  <2>2. SetTop(h, g) /\ trapped' = trapped /\ locked' = locked
    BY <1>2 DEF PushOff
  <2> HIDE DEF g
  <2> QED
    BY <2>1, <2>2, SameGuards
<1>3. CASE TryFails(h)
  <2> DEFINE g == [Top(h) EXCEPT !.pc = "drop"]
  <2>1. g \in Frames /\ g.held = Top(h).held
    BY <1>0 DEF Frames, Steps
  <2>2. SetTop(h, g) /\ trapped' = trapped /\ locked' = locked
    BY <1>3 DEF TryFails
  <2> HIDE DEF g
  <2> QED
    BY <2>1, <2>2, SameGuards
<1>4. CASE SpinOut(h)
  BY <1>4 DEF SpinOut, MutualExclusion, HeldOn
<1>5. CASE AfterLock(h)
  <2> DEFINE g == [Top(h) EXCEPT !.pc = "run", !.lock = NoLock]
  <2>1. g \in Frames /\ g.held = Top(h).held
    BY <1>0, Zenon DEF Frames, Steps
  <2>2. trapped' = trapped /\ locked' = locked
    BY <1>5 DEF AfterLock
  <2>3. CASE SetTop(h, g)
    <3> HIDE DEF g
    <3> QED
      BY <2>1, <2>2, <2>3, SameGuards
  <2>4. CASE UNCHANGED <<base, handler>>
    BY <2>2, <2>4 DEF MutualExclusion, HeldOn
  <2> QED
    BY <1>5, <2>3, <2>4 DEF AfterLock, PushOn
<1>6. CASE Interrupt(h)
  <2>1. /\ base' = base /\ locked' = locked /\ handler'[h].held = {}
        /\ ~trapped[h] /\ trapped'[h]
        /\ \A g \in Harts \ {h} : handler'[g] = handler[g] /\ trapped'[g] = trapped[g]
    BY <1>6, FreshFrame, Zenon DEF Interrupt, LockTypeOK
  <2>2. \A g \in Harts : HeldOn(g)' = HeldOn(g)
    BY <2>1 DEF HeldOn
  <2> QED
    BY <2>1, <2>2 DEF MutualExclusion
<1>7. CASE Sret(h)
  <2>1. /\ base' = base /\ locked' = locked /\ handler' = handler
        /\ handler[h].held = {} /\ trapped[h] /\ ~trapped'[h]
        /\ \A g \in Harts \ {h} : trapped'[g] = trapped[g]
    BY <1>7 DEF Sret, LockTypeOK
  <2>2. \A g \in Harts : HeldOn(g)' = HeldOn(g)
    BY <2>1 DEF HeldOn
  <2> QED
    BY <2>1, <2>2 DEF MutualExclusion
<1> QED
  BY <1>1, <1>2, <1>3, <1>4, <1>5, <1>6, <1>7, AcquireExcludes, UnlockExcludes DEF HartStep

\* The invariant holds when the machine starts.
LEMMA LockInitInv == LockInit => LockIInv
<1> SUFFICES ASSUME LockInit PROVE LockIInv
  OBVIOUS
<1>1. \A h \in Harts : sie[h] \in BOOLEAN
  BY DEF LockInit
<1>2. \A h \in Harts : /\ base[h] = Frame(sie[h]) /\ handler[h] = Frame(FALSE)
                       /\ ~trapped[h] /\ noff[h] = 0
  BY DEF LockInit
<1>3. LockTypeOK
  BY <1>1, FreshFrame, Zenon DEF LockInit, LockTypeOK, FrameInv
<1>4. NestInv
  <2> SUFFICES ASSUME NEW h \in Harts PROVE HartInv(h)
    BY DEF NestInv
  <2>1. Top(h) = Frame(sie[h])
    BY <1>2, Zenon DEF Top
  <2> QED
    BY <1>1, <1>2, <2>1, FreshFrame, CountsNone, Zenon DEF HartInv
<1>5. MutualExclusion
  <2>1. \A h \in Harts : HeldOn(h) = {}
    BY <1>1, <1>2, FreshFrame, Zenon DEF HeldOn
  <2> QED
    BY <1>2, <2>1 DEF MutualExclusion, LockInit
<1> QED
  BY <1>3, <1>4, <1>5 DEF LockIInv

\* Every step of every hart keeps the invariant.
LEMMA LockStepInv == LockIInv /\ [LockNext]_lockVars => LockIInv'
<1> SUFFICES ASSUME LockIInv, [LockNext]_lockVars PROVE LockIInv'
  OBVIOUS
<1>1. LockTypeOK /\ NestInv /\ MutualExclusion
  BY DEF LockIInv
<1>2. ASSUME NEW h \in Harts, HartStep(h) PROVE LockIInv'
  <2>1. NestInv'
    <3>1. CASE SpinOut(h)
      BY <1>1, <3>1, OtherHart DEF SpinOut, NestInv
    <3> QED
      BY <1>1, <1>2, <3>1, BeginNest, PushOffNest, AcquireNest, TryFailsNest, UnlockNest,
         AfterLockNest, InterruptNest, SretNest DEF HartStep
  <2> QED
    BY <1>1, <1>2, <2>1, LockTypeStep, ExclusionStep DEF LockIInv
<1>3. CASE UNCHANGED lockVars
  <2>1. LockTypeOK' /\ MutualExclusion'
    BY <1>1, <1>3 DEF lockVars, LockTypeOK, MutualExclusion, HeldOn
  <2>2. NestInv'
    BY <1>1, <1>3, OtherHart DEF lockVars, NestInv
  <2> QED
    BY <2>1, <2>2 DEF LockIInv
<1> QED
  BY <1>2, <1>3 DEF LockNext

\* What the inductive invariant says of a state.
LEMMA LockIInvImplies ==
    LockIInv => InterruptsRestored /\ NoSelfDeadlock /\ PushOnSafe
<1> SUFFICES ASSUME LockIInv PROVE InterruptsRestored /\ NoSelfDeadlock /\ PushOnSafe
  OBVIOUS
<1>1. LockTypeOK /\ NestInv
  BY DEF LockIInv
<1>2. InterruptsRestored
  BY <1>1, TopFacts DEF InterruptsRestored
<1>3. NoSelfDeadlock
  BY <1>1, Zenon DEF NoSelfDeadlock, NestInv, HartInv, Sections
<1>4. PushOnSafe
  BY <1>1, DropFacts DEF PushOnSafe
<1> QED
  BY <1>2, <1>3, <1>4

\* The states of the mutexes, whatever harts and interrupts do, are those of
\* the inductive invariant.
THEOREM LockInvariant == LockSpec => []LockIInv
BY LockInitInv, LockStepInv, PTL DEF LockSpec

\* SpinMutex excludes: no mutex ever has two guards, on two harts or in a
\* handler and the code it interrupted, and its word tells whether it has one.
THEOREM LockExcludes == LockSpec => []MutualExclusion
<1>1. LockIInv => MutualExclusion
  BY DEF LockIInv
<1> QED
  BY <1>1, LockInvariant, PTL

\* push_off and push_on nest: a hart has interrupts off in every no-interrupt
\* section and exactly its initial state outside, in any order of the drops.
THEOREM LockRestores == LockSpec => []InterruptsRestored
BY LockIInvImplies, LockInvariant, PTL

\* A handler never spins on a no-interrupt mutex its own hart holds.
THEOREM LockNoSelfDeadlock == LockSpec => []NoSelfDeadlock
BY LockIInvImplies, LockInvariant, PTL

\* push_on never reaches its todo!().
THEOREM LockPushOnSafe == LockSpec => []PushOnSafe
BY LockIInvImplies, LockInvariant, PTL

(******************************** user memory ********************************)
Names == {"copy", "pipe", "stdin", "stdout", "wait4", "yield", "clone", "exec", "exit"}

Ops == {"new", "drop", "access", "suspend", "clone", "context", "exit"}

\* Which step may follow which in a system call.  A trap context is only made
\* after a drop, and nothing follows an exit.
Follows ==
    ({"new"} \X {"access", "new", "suspend", "clone"})
    \cup ({"access"} \X {"new", "drop"})
    \cup ({"suspend"} \X {"new", "drop", "access"})
    \cup ({"drop"} \X {"drop", "context", "suspend"})
    \cup ({"clone", "context"} \X {"drop"})

Ordered(s) ==
    /\ s \in Seq(Ops)
    /\ \A i \in 1 .. Len(s) - 1 : <<s[i], s[i + 1]>> \in Follows

\* The kernel makes a guard between a wait and the access that follows it.
Fresh(s) == \A i \in 1 .. Len(s) - 1 : ~(s[i] = "suspend" /\ s[i + 1] = "access")

\* Every way through every call is ordered and begins with a guard, a wait or
\* an exit.
LEMMA PathsOrdered ==
    ASSUME NEW c \in Names, NEW s \in Paths(c)
    PROVE  /\ Ordered(s) /\ s # <<>> /\ Head(s) \in {"new", "suspend", "exit"}
           /\ c # "stdin" => Fresh(s)
<1>1. CASE c = "copy"
  <2>1. s = <<"new", "access", "drop">>
    BY <1>1 DEF Paths, Guarded
  <2> QED
    BY <2>1 DEF Ordered, Follows, Ops, Fresh
<1>2. CASE c = "pipe"
  <2>1. CASE s = <<"new", "suspend", "new", "access", "drop", "drop">>
    BY <2>1 DEF Ordered, Follows, Ops, Fresh
  <2>2. CASE s = <<"new", "suspend", "new", "access", "drop", "suspend", "new", "access", "drop", "drop">>
    BY <2>2 DEF Ordered, Follows, Ops, Fresh
  <2>3. CASE s = <<"new", "suspend", "drop">>
    BY <2>3 DEF Ordered, Follows, Ops, Fresh
  <2>4. CASE s = <<"new", "suspend", "new", "access", "drop", "suspend", "drop">>
    BY <2>4 DEF Ordered, Follows, Ops, Fresh
  <2> QED
    BY <1>2, <2>1, <2>2, <2>3, <2>4 DEF Paths, Guarded, PipeCopies, Round
<1>3. CASE c = "stdin"
  <2>1. s = <<"new", "suspend", "access", "drop">>
    BY <1>3 DEF Paths, Guarded, StdinRead
  <2> QED
    BY <1>3, <2>1 DEF Ordered, Follows, Ops, Fresh
<1>4. CASE c = "stdout"
  <2>1. s = <<"new", "new", "access", "drop", "drop">>
    BY <1>4 DEF Paths, Guarded, StdoutWrite
  <2> QED
    BY <2>1 DEF Ordered, Follows, Ops, Fresh
<1>5. CASE c = "wait4"
  <2>1. CASE s = <<"suspend", "new", "access", "drop">>
    BY <2>1 DEF Ordered, Follows, Ops, Fresh
  <2>2. CASE s = <<"suspend">>
    BY <2>2 DEF Ordered, Follows, Ops, Fresh
  <2> QED
    BY <1>5, <2>1, <2>2 DEF Paths, WaitPid, Round
<1>6. CASE c = "yield"
  <2>1. s = <<"suspend">>
    BY <1>6 DEF Paths
  <2> QED
    BY <2>1 DEF Ordered, Follows, Ops, Fresh
<1>7. CASE c = "clone"
  <2>1. s = <<"new", "clone", "drop">>
    BY <1>7 DEF Paths, Guarded
  <2> QED
    BY <2>1 DEF Ordered, Follows, Ops, Fresh
<1>8. CASE c = "exec"
  <2>1. s = <<"new", "access", "new", "access", "drop", "context", "drop">>
    BY <1>8 DEF Paths, Guarded, FromExec
  <2> QED
    BY <2>1 DEF Ordered, Follows, Ops, Fresh
<1>9. CASE c = "exit"
  <2>1. s = <<"exit">>
    BY <1>9 DEF Paths
  <2> QED
    BY <2>1 DEF Ordered, Follows, Ops, Fresh
<1> QED
  BY <1>1, <1>2, <1>3, <1>4, <1>5, <1>6, <1>7, <1>8, <1>9 DEF Names

\* What is left of an ordered call is ordered.
LEMMA TailOrdered ==
    ASSUME NEW s, Ordered(s), s # <<>>
    PROVE  /\ Ordered(Tail(s)) /\ Head(s) \in Ops
           /\ Tail(s) # <<>> => <<Head(s), Head(Tail(s))>> \in Follows
           /\ Fresh(s) => Fresh(Tail(s))
           /\ Fresh(s) /\ Tail(s) # <<>> => ~(Head(s) = "suspend" /\ Head(Tail(s)) = "access")
<1>1. s \in Seq(Ops) /\ Len(s) \in Nat \ {0} /\ Head(s) = s[1] /\ Head(s) \in Ops
  BY DEF Ordered
<1>2. /\ Tail(s) \in Seq(Ops) /\ Len(Tail(s)) = Len(s) - 1
      /\ \A i \in 1 .. Len(s) - 1 : Tail(s)[i] = s[i + 1]
  BY <1>1
<1>3. \A i \in 1 .. Len(Tail(s)) - 1 :
          /\ i + 1 \in 1 .. Len(s) - 1
          /\ Tail(s)[i] = s[i + 1] /\ Tail(s)[i + 1] = s[(i + 1) + 1]
  BY <1>1, <1>2
<1>4. Tail(s) # <<>> => 1 \in 1 .. Len(s) - 1 /\ Head(Tail(s)) = s[2]
  BY <1>1, <1>2
<1>5. Ordered(Tail(s))
  BY <1>2, <1>3 DEF Ordered
<1>6. Fresh(s) => Fresh(Tail(s))
  BY <1>3 DEF Fresh
<1>7. Tail(s) # <<>> => <<Head(s), Head(Tail(s))>> \in Follows
  BY <1>1, <1>4 DEF Ordered
<1>8. Fresh(s) /\ Tail(s) # <<>> => ~(Head(s) = "suspend" /\ Head(Tail(s)) = "access")
  BY <1>1, <1>4 DEF Fresh
<1> QED
  BY <1>1, <1>5, <1>6, <1>7, <1>8

\* A task that does not run is outside a call or waits in one; the calls are
\* ordered; while the bit is set the counter is 1, so the next drop clears it,
\* and it is clear wherever a trap context is made or saved.
EnvInv ==
    /\ TypeOK
    /\ todo \in [Task -> Seq(Ops)] /\ \A k \in Task : Ordered(todo[k])
    /\ user \subseteq {current}
    /\ \A k \in Task \ alive : todo[k] = <<>>
    /\ \A k \in alive : k # current => todo[k] = <<>> \/ Head(todo[k]) = "suspend"
    /\ \A k \in alive : ~saved[k]
    /\ sum => sum_status = 1
    /\ current \in user => ~sum
    /\ \A k \in alive : k = current /\ todo[k] # <<>> /\ Head(todo[k]) \in {"context", "exit"}
                        => ~sum
    /\ current = NoTask /\ alive = {} => ~sum

\* A step of a call: the task runs in the kernel and goes on with the rest.
LEMMA AdvanceFacts ==
    ASSUME EnvInv, NEW k \in Task, NEW op, At(k, op), Advance(k)
    PROVE  /\ k \in alive /\ k = current /\ user = {} /\ op \in Ops
           /\ todo' \in [Task -> Seq(Ops)] /\ \A j \in Task : Ordered(todo'[j])
           /\ \A j \in Task : j # k => todo'[j] = todo[j]
           /\ todo'[k] # <<>> => <<op, Head(todo'[k])>> \in Follows
<1>1. k \in alive /\ k = current /\ user = {}
  BY TaskAssumption DEF EnvInv, TypeOK, At, InKernel
<1>2. todo[k] \in Seq(Ops) /\ Ordered(todo[k]) /\ todo[k] # <<>> /\ Head(todo[k]) = op
  BY DEF EnvInv, At
<1>3. todo' = [todo EXCEPT ![k] = Tail(todo[k])] /\ todo \in [Task -> Seq(Ops)]
  BY DEF Advance, EnvInv
<1>4. todo'[k] = Tail(todo[k]) /\ \A j \in Task : j # k => todo'[j] = todo[j]
  BY <1>3
<1>5. Ordered(Tail(todo[k])) /\ Tail(todo[k]) \in Seq(Ops) /\ op \in Ops
  BY <1>2, TailOrdered DEF Ordered
<1>6. Tail(todo[k]) # <<>> => <<op, Head(Tail(todo[k]))>> \in Follows
  BY <1>2, TailOrdered
<1> QED
  BY <1>1, <1>3, <1>4, <1>5, <1>6, Zenon DEF EnvInv

\* sum_on sets the bit and the counter to 1, whatever they were; sum_off
\* clears the bit.
LEMMA SumFacts ==
    ASSUME EnvInv
    PROVE  /\ SumOn => sum' = TRUE /\ sum_status' = 1
           /\ SumOff => sum' = FALSE /\ sum_status' \in 0 .. Width - 1
<1>1. sum \in BOOLEAN /\ sum_status \in 0 .. Width - 1 /\ Width \in Nat /\ Width > 1
  BY WidthAssumption DEF EnvInv, TypeOK
<1>2. SumOn => sum' = TRUE /\ sum_status' = 1
  BY DEF SumOn, ReadSum
<1>3. (sum_status - 1) % Width \in 0 .. Width - 1
  BY <1>1
<1>4. sum => sum_status = 1
  BY DEF EnvInv
<1> QED
  BY <1>1, <1>2, <1>3, <1>4, Zenon DEF SumOff

\* The steps of a call that leave the tasks and their contexts alone.
LEMMA InCallStep ==
    ASSUME EnvInv, NEW k \in Task, New(k) \/ Drop(k) \/ Access(k) \/ GoOn(k)
    PROVE  EnvInv'
<1>0. PICK op \in {"new", "drop", "access", "suspend"} :
        /\ At(k, op) /\ Advance(k) /\ UNCHANGED <<saved, alive, current, user>>
        /\ fault' \in BOOLEAN
        /\ op = "new" => SumOn
        /\ op = "drop" => SumOff
        /\ op \in {"access", "suspend"} => UNCHANGED hart
  <2>1. fault \in BOOLEAN
    BY DEF EnvInv, TypeOK
  <2>2. CASE New(k)
    BY <2>1, <2>2 DEF New
  <2>3. CASE Drop(k)
    BY <2>1, <2>3 DEF Drop
  <2>4. CASE Access(k)
    BY <2>1, <2>4 DEF Access
  <2>5. CASE GoOn(k)
    BY <2>1, <2>5 DEF GoOn
  <2> QED
    BY <2>2, <2>3, <2>4, <2>5
<1>1. /\ k \in alive /\ k = current /\ user = {}
      /\ todo' \in [Task -> Seq(Ops)] /\ \A j \in Task : Ordered(todo'[j])
      /\ \A j \in Task : j # k => todo'[j] = todo[j]
      /\ todo'[k] # <<>> => <<op, Head(todo'[k])>> \in Follows
  BY <1>0, AdvanceFacts
<1>2. sum' \in BOOLEAN /\ sum_status' \in 0 .. Width - 1 /\ (sum' => sum_status' = 1)
  <2>1. 1 \in 0 .. Width - 1
    BY WidthAssumption
  <2>2. /\ sum \in BOOLEAN /\ sum_status \in 0 .. Width - 1 /\ (sum => sum_status = 1)
        /\ op \in {"access", "suspend"} => sum' = sum /\ sum_status' = sum_status
    BY <1>0 DEF EnvInv, TypeOK, hart
  <2>3. CASE op = "new"
    BY <1>0, <2>1, <2>3, SumFacts
  <2>4. CASE op = "drop"
    BY <1>0, <2>4, SumFacts
  <2>5. CASE op \in {"access", "suspend"}
    BY <2>2, <2>5
  <2> QED
    BY <1>0, <2>3, <2>4, <2>5
<1>3. op = "drop" => ~sum'
  BY <1>0, SumFacts
<1>4. todo'[k] # <<>> /\ Head(todo'[k]) \in {"context", "exit"} => op = "drop"
  BY <1>0, <1>1 DEF Follows
<1>5. TypeOK'
  BY <1>0, <1>1, <1>2 DEF EnvInv, TypeOK
<1>6. /\ alive' = alive /\ current' = current /\ user' = user /\ saved' = saved
      /\ user = {} /\ alive \subseteq Task /\ k # NoTask
  BY <1>0, <1>1, TaskAssumption DEF EnvInv, TypeOK
<1>7. \A j \in Task \ alive' : todo'[j] = <<>>
  BY <1>1, <1>6 DEF EnvInv
<1>8. \A j \in alive' : j # current' => todo'[j] = <<>> \/ Head(todo'[j]) = "suspend"
  BY <1>1, <1>6 DEF EnvInv
<1>9. \A j \in alive' : j = current' /\ todo'[j] # <<>> /\ Head(todo'[j]) \in {"context", "exit"}
                        => ~sum'
  BY <1>1, <1>3, <1>4, <1>6
<1>10. \A j \in alive' : ~saved'[j]
  BY <1>6 DEF EnvInv
<1> QED
  BY <1>1, <1>2, <1>5, <1>6, <1>7, <1>8, <1>9, <1>10 DEF EnvInv

\* suspend_current_task leaves the task at the wait it is in.
LEMMA SuspendStep ==
    ASSUME EnvInv, NEW k \in Task, Suspend(k)
    PROVE  EnvInv'
<1>1. /\ k = current /\ k \notin user /\ Head(todo[k]) = "suspend" /\ current' = NoTask
      /\ UNCHANGED <<sum, sum_status, saved, alive, user, todo, fault>>
  BY DEF Suspend, At, InKernel, hart
<1>2. k \in alive /\ NoTask \notin alive /\ user = {}
  BY <1>1, TaskAssumption DEF EnvInv, TypeOK
<1>3. TypeOK'
  BY <1>1, <1>2 DEF EnvInv, TypeOK
<1> QED
  BY <1>1, <1>2, <1>3 DEF EnvInv, Ordered

\* The child of clone gets a context that was saved with the bit clear.
LEMMA CloneStep ==
    ASSUME EnvInv, NEW k \in Task, NEW new \in Task, Clone(k, new)
    PROVE  EnvInv'
<1>0. At(k, "clone") /\ Advance(k)
  BY DEF Clone
<1>1. /\ k \in alive /\ k = current /\ user = {}
      /\ todo' \in [Task -> Seq(Ops)] /\ \A j \in Task : Ordered(todo'[j])
      /\ \A j \in Task : j # k => todo'[j] = todo[j]
      /\ todo'[k] # <<>> => <<"clone", Head(todo'[k])>> \in Follows
  BY <1>0, AdvanceFacts
<1>2. /\ new \notin alive /\ alive' = alive \cup {new} /\ saved' = [saved EXCEPT ![new] = saved[k]]
      /\ UNCHANGED <<sum, sum_status, current, user, fault>>
  BY DEF Clone, hart
<1>3. /\ saved \in [Task -> BOOLEAN] /\ alive \subseteq Task /\ ~saved[k]
      /\ todo[new] = <<>> /\ k # new
  BY <1>1, <1>2 DEF EnvInv, TypeOK
<1>4. \A j \in alive' : ~saved'[j]
  BY <1>2, <1>3 DEF EnvInv
<1>5. todo'[k] # <<>> => Head(todo'[k]) = "drop"
  BY <1>1 DEF Follows
<1>6. TypeOK'
  <2>1. saved' \in [Task -> BOOLEAN]
    BY <1>1, <1>2, <1>3
  <2> QED
    BY <1>1, <1>2, <1>3, <2>1 DEF EnvInv, TypeOK
<1>7. \A j \in alive' : j # current' => todo'[j] = <<>> \/ Head(todo'[j]) = "suspend"
  BY <1>1, <1>2, <1>3 DEF EnvInv
<1>8. \A j \in Task \ alive' : todo'[j] = <<>>
  BY <1>1, <1>2 DEF EnvInv
<1> QED
  BY <1>1, <1>2, <1>4, <1>5, <1>6, <1>7, <1>8 DEF EnvInv

\* exec_trap_cx reads the bit after the inner guard has cleared it.
LEMMA ContextStep ==
    ASSUME EnvInv, NEW k \in Task, Context(k)
    PROVE  EnvInv'
<1>0. At(k, "context") /\ Advance(k)
  BY DEF Context
<1>1. /\ k \in alive /\ k = current /\ user = {}
      /\ todo' \in [Task -> Seq(Ops)] /\ \A j \in Task : Ordered(todo'[j])
      /\ \A j \in Task : j # k => todo'[j] = todo[j]
      /\ todo'[k] # <<>> => <<"context", Head(todo'[k])>> \in Follows
  BY <1>0, AdvanceFacts
<1>2. ~sum
  BY <1>0, <1>1 DEF EnvInv, At
<1>3. /\ saved' = [saved EXCEPT ![k] = sum]
      /\ UNCHANGED <<sum, sum_status, alive, current, user, fault>>
  BY DEF Context, hart
<1>4. saved \in [Task -> BOOLEAN] /\ sum \in BOOLEAN /\ alive \subseteq Task
  BY DEF EnvInv, TypeOK
<1>5. saved' \in [Task -> BOOLEAN] /\ ~saved'[k] /\ \A j \in Task : j # k => saved'[j] = saved[j]
  BY <1>2, <1>3, <1>4
<1>6. TypeOK'
  BY <1>1, <1>3, <1>5 DEF EnvInv, TypeOK
<1>7. \A j \in alive' : ~saved'[j]
  BY <1>3, <1>4, <1>5 DEF EnvInv
<1>8. \A j \in alive' : j # current' => todo'[j] = <<>> \/ Head(todo'[j]) = "suspend"
  BY <1>1, <1>3, <1>4 DEF EnvInv
<1>9. \A j \in Task \ alive' : todo'[j] = <<>>
  BY <1>1, <1>3 DEF EnvInv
<1> QED
  BY <1>1, <1>2, <1>3, <1>6, <1>7, <1>8, <1>9 DEF EnvInv

\* A task that exits leaves the bit clear: it came from user mode.
LEMMA ExitStep ==
    ASSUME EnvInv, NEW k \in Task, Exit(k)
    PROVE  EnvInv'
<1>0. At(k, "exit") /\ Advance(k)
  BY DEF Exit
<1>1. /\ k \in alive /\ k = current /\ user = {}
      /\ todo' \in [Task -> Seq(Ops)] /\ \A j \in Task : Ordered(todo'[j])
      /\ \A j \in Task : j # k => todo'[j] = todo[j]
      /\ todo'[k] # <<>> => <<"exit", Head(todo'[k])>> \in Follows
  BY <1>0, AdvanceFacts
<1>2. ~sum
  BY <1>0, <1>1 DEF EnvInv, At
<1>3. /\ alive' = alive \ {k} /\ current' = NoTask
      /\ UNCHANGED <<sum, sum_status, saved, user, fault>>
  BY DEF Exit, hart
<1>4. todo'[k] = <<>>
  BY <1>1 DEF Follows
<1>5. TypeOK'
  BY <1>1, <1>3 DEF EnvInv, TypeOK
<1>6. \A j \in Task \ alive' : todo'[j] = <<>>
  BY <1>1, <1>3, <1>4 DEF EnvInv
<1>7. \A j \in alive' : j \in Task /\ j # current'
  BY <1>3, TaskAssumption DEF EnvInv, TypeOK
<1>8. \A j \in alive' : todo'[j] = <<>> \/ Head(todo'[j]) = "suspend"
  BY <1>1, <1>3, <1>7 DEF EnvInv
<1> QED
  BY <1>1, <1>2, <1>3, <1>5, <1>6, <1>7, <1>8 DEF EnvInv

\* A program that traps ran with the bit clear, and so it is saved.
LEMMA TrapStep ==
    ASSUME EnvInv, NEW k \in Task, NEW c \in Syscalls, Trap(k, c)
    PROVE  EnvInv'
<1>1. /\ current = k /\ k \in user /\ user' = user \ {k} /\ saved' = [saved EXCEPT ![k] = sum]
      /\ UNCHANGED <<sum, sum_status, alive, current, fault>>
  BY DEF Trap, hart
<1>2. PICK path \in Paths(c) : todo' = [todo EXCEPT ![k] = path]
  BY Zenon DEF Trap
<1>3. c \in Names
  BY SyscallsAssumption DEF Names
<1>4. Ordered(path) /\ path # <<>> /\ Head(path) \in {"new", "suspend", "exit"}
  BY <1>3, PathsOrdered
<1>5. /\ todo \in [Task -> Seq(Ops)] /\ saved \in [Task -> BOOLEAN] /\ sum \in BOOLEAN
      /\ user \subseteq {k} /\ user \subseteq alive /\ alive \subseteq Task /\ ~sum
  BY <1>1 DEF EnvInv, TypeOK
<1>6. /\ todo'[k] = path /\ todo' \in [Task -> Seq(Ops)]
      /\ \A j \in Task : j # k => todo'[j] = todo[j]
  BY <1>2, <1>4, <1>5 DEF Ordered
<1>7. /\ ~saved'[k] /\ saved' \in [Task -> BOOLEAN]
      /\ \A j \in Task : j # k => saved'[j] = saved[j]
  BY <1>1, <1>5
<1>8. user' = {} /\ k \in alive /\ NoTask # k
  BY <1>1, <1>5, TaskAssumption
<1>9. TypeOK'
  BY <1>1, <1>7, <1>8 DEF EnvInv, TypeOK
<1>10. \A j \in Task : Ordered(todo'[j])
  BY <1>4, <1>6, Zenon DEF EnvInv
<1>11. \A j \in Task \ alive' : todo'[j] = <<>>
  BY <1>1, <1>6, <1>8 DEF EnvInv
<1>12. \A j \in alive' : j # current' => todo'[j] = <<>> \/ Head(todo'[j]) = "suspend"
  BY <1>1, <1>5, <1>6 DEF EnvInv
<1>13. \A j \in alive' : ~saved'[j]
  BY <1>1, <1>5, <1>7 DEF EnvInv
<1>14. ~sum'
  BY <1>1, <1>5
<1> QED
  BY <1>1, <1>6, <1>8, <1>9, <1>10, <1>11, <1>12, <1>13, <1>14 DEF EnvInv

\* __restore puts the clear bit of the trap context back.
LEMMA RestoreStep ==
    ASSUME EnvInv, NEW k \in Task, Restore(k)
    PROVE  EnvInv'
<1>1. /\ current = k /\ k \notin user /\ todo[k] = <<>> /\ sum' = saved[k]
      /\ user' = user \cup {k} /\ UNCHANGED <<sum_status, saved, alive, current, todo, fault>>
  BY DEF Restore, InKernel
<1>2. k \in alive /\ user = {} /\ saved \in [Task -> BOOLEAN]
  BY <1>1, TaskAssumption DEF EnvInv, TypeOK
<1>3. sum' \in BOOLEAN /\ ~sum'
  BY <1>1, <1>2 DEF EnvInv
<1>4. TypeOK'
  BY <1>1, <1>2, <1>3, ZenonT(30) DEF EnvInv, TypeOK
<1> QED
  BY <1>1, <1>2, <1>3, <1>4 DEF EnvInv, Ordered

\* run_task goes on with a task that waits in a call or returns from one.
LEMMA SwitchStep ==
    ASSUME EnvInv, NEW k \in Task, Switch(k)
    PROVE  EnvInv'
<1>1. /\ current = NoTask /\ k \in alive /\ current' = k
      /\ UNCHANGED <<sum, sum_status, saved, alive, user, todo, fault>>
  BY DEF Switch, hart
<1>2. user = {} /\ k # NoTask /\ alive \subseteq Task
  BY <1>1, TaskAssumption DEF EnvInv, TypeOK
<1>3. todo[k] = <<>> \/ Head(todo[k]) = "suspend"
  BY <1>1, <1>2 DEF EnvInv
<1>4. TypeOK'
  BY <1>1, <1>2 DEF EnvInv, TypeOK
<1>5. \A j \in alive : j # NoTask
  BY <1>2, TaskAssumption
<1> QED
  BY <1>1, <1>2, <1>3, <1>4, <1>5 DEF EnvInv, Ordered

\* The next program starts when the last task has left the bit clear.
LEMMA InitTaskStep ==
    ASSUME EnvInv, NEW k \in Task, InitTask(k)
    PROVE  EnvInv'
<1>1. /\ current = NoTask /\ alive = {} /\ alive' = {k} /\ saved' = [saved EXCEPT ![k] = sum]
      /\ UNCHANGED <<sum, sum_status, current, user, todo, fault>>
  BY DEF InitTask, hart
<1>2. ~sum /\ saved \in [Task -> BOOLEAN] /\ sum \in BOOLEAN /\ user = {}
  BY <1>1 DEF EnvInv, TypeOK
<1>3. saved' \in [Task -> BOOLEAN] /\ ~saved'[k]
  BY <1>1, <1>2
<1>4. \A j \in Task : todo'[j] = <<>>
  BY <1>1 DEF EnvInv
<1>5. TypeOK'
  BY <1>1, <1>2, <1>3 DEF EnvInv, TypeOK
<1> QED
  BY <1>1, <1>2, <1>3, <1>4, <1>5 DEF EnvInv, Ordered

\* The inductive invariant holds of every reachable state.
THEOREM EnvInvariant == Spec => []EnvInv
<1>1. Init => EnvInv
  <2> SUFFICES ASSUME Init PROVE EnvInv
    OBVIOUS
  <2>0. 0 \in 0 .. Width - 1
    BY WidthAssumption
  <2>1. TypeOK
    <3>1. /\ sum \in BOOLEAN /\ fault \in BOOLEAN /\ sum_status \in 0 .. Width - 1
          /\ saved \in [Task -> BOOLEAN]
      BY <2>0, Zenon DEF Init
    <3> QED
      BY <3>1, TaskAssumption DEF Init, TypeOK
  <2>2. todo \in [Task -> Seq(Ops)] /\ \A k \in Task : todo[k] = <<>> /\ Ordered(todo[k])
    BY DEF Init, Ordered
  <2>3. alive \subseteq Task /\ \A k \in Task : ~saved[k]
    BY TaskAssumption DEF Init
  <2> QED
    BY <2>1, <2>2, <2>3 DEF Init, EnvInv
<1>2. EnvInv /\ [Next]_vars => EnvInv'
  <2> SUFFICES ASSUME EnvInv, [Next]_vars PROVE EnvInv'
    OBVIOUS
  <2>1. CASE UNCHANGED vars
    BY <2>1 DEF vars, hart, EnvInv, TypeOK, Ordered
  <2>2. CASE Next
    <3>1. PICK k \in Task :
            \/ New(k) \/ Drop(k) \/ Access(k) \/ Suspend(k) \/ GoOn(k)
            \/ \E new \in Task : Clone(k, new)
            \/ Context(k) \/ Exit(k)
            \/ \E c \in Syscalls : Trap(k, c)
            \/ Restore(k) \/ Switch(k) \/ InitTask(k)
      BY <2>2 DEF Next
    <3> QED
      BY <3>1, InCallStep, SuspendStep, CloneStep, ContextStep, ExitStep, TrapStep,
         RestoreStep, SwitchStep, InitTaskStep
  <2> QED
    BY <2>1, <2>2
<1> QED
  BY <1>1, <1>2, PTL DEF Spec

\* The counter of sum_on and sum_off stays a usize, and a program that runs has
\* no call left to finish.
THEOREM EnvTyped == Spec => []TypeOK
<1>1. EnvInv => TypeOK
  BY DEF EnvInv
<1> QED
  BY <1>1, EnvInvariant, PTL

\* No program runs with SUM set, and none will after its next __restore,
\* whatever calls are made, those that read the terminal included.
THEOREM EnvUserSumClear == Spec => []UserSumClear
<1>1. EnvInv => UserSumClear
  BY DEF EnvInv, UserSumClear
<1> QED
  BY <1>1, EnvInvariant, PTL

------------------------------------------------------------------------------
\* Without reads of the terminal every access comes right after a new guard,
\* so the bit is set when the kernel is about to touch user memory.
FreshInv ==
    /\ EnvInv
    /\ \A k \in Task : Fresh(todo[k])
    /\ \A k \in Task : k = current /\ todo[k] # <<>> /\ Head(todo[k]) = "access" => sum
    /\ ~fault

\* A step of a call leaves the rest of it fresh, and only a new guard brings
\* the task to an access.
LEMMA FreshAdvance ==
    ASSUME FreshInv, NEW k \in Task, NEW op, At(k, op), Advance(k)
    PROVE  /\ \A j \in Task : Fresh(todo'[j])
           /\ todo'[k] # <<>> /\ Head(todo'[k]) = "access" => op = "new"
           /\ op = "access" => sum
<1>1. EnvInv
  BY DEF FreshInv
<1>2. /\ k = current /\ \A j \in Task : j # k => todo'[j] = todo[j]
      /\ todo'[k] # <<>> => <<op, Head(todo'[k])>> \in Follows
  BY <1>1, AdvanceFacts, Zenon
<1>3. todo[k] # <<>> /\ Head(todo[k]) = op /\ Ordered(todo[k]) /\ Fresh(todo[k])
  BY <1>1, Zenon DEF FreshInv, EnvInv, At
<1>4. todo'[k] = Tail(todo[k])
  BY <1>1 DEF Advance, EnvInv
<1>5. Fresh(Tail(todo[k])) /\ (Tail(todo[k]) # <<>> =>
          ~(op = "suspend" /\ Head(Tail(todo[k])) = "access"))
  BY <1>3, TailOrdered, Zenon
<1>6. \A j \in Task : Fresh(todo'[j])
  BY <1>2, <1>4, <1>5 DEF FreshInv
<1>7. todo'[k] # <<>> /\ Head(todo'[k]) = "access" => op = "new"
  BY <1>2, <1>4, <1>5 DEF Follows
<1>8. op = "access" => sum
  BY <1>2, <1>3 DEF FreshInv
<1> QED
  BY <1>6, <1>7, <1>8

\* Every step keeps the bit set where the kernel is about to use it.
LEMMA FreshStep ==
    ASSUME FreshInv, "stdin" \notin Syscalls, [Next]_vars, EnvInv'
    PROVE  FreshInv'
<1>0. /\ EnvInv /\ ~fault /\ \A k \in Task : Fresh(todo[k])
  BY DEF FreshInv
<1>1. CASE UNCHANGED vars
  BY <1>1 DEF vars, hart, FreshInv, Fresh
<1>2. ASSUME NEW k \in Task, NEW op \in {"new", "drop", "access", "suspend", "clone", "context", "exit"},
             At(k, op), Advance(k), current' \in {current, NoTask},
             op = "new" => SumOn, op # "access" => fault' = fault,
             op = "access" => fault' = (fault \/ ~sum)
      PROVE  FreshInv'
  <2>1. k = current
    BY <1>2 DEF At, InKernel
  <2>2. /\ \A j \in Task : Fresh(todo'[j])
        /\ todo'[k] # <<>> /\ Head(todo'[k]) = "access" => op = "new"
        /\ op = "access" => sum
    BY <1>2, FreshAdvance
  <2>3. op = "new" => sum'
    BY <1>0, <1>2, SumFacts
  <2>4. ~fault'
    BY <1>0, <1>2, <2>2, Zenon
  <2>5. \A j \in Task : j = current' => j = k
    BY <1>2, <2>1, TaskAssumption
  <2> QED
    BY <2>2, <2>3, <2>4, <2>5 DEF FreshInv
<1>3. ASSUME NEW k \in Task, NEW c \in Syscalls, Trap(k, c)
      PROVE  FreshInv'
  <2>1. PICK path \in Paths(c) : todo' = [todo EXCEPT ![k] = path]
    BY <1>3, Zenon DEF Trap
  <2>2. c \in Names /\ c # "stdin"
    BY SyscallsAssumption DEF Names
  <2>3. Fresh(path) /\ Head(path) \in {"new", "suspend", "exit"}
    BY <2>2, PathsOrdered
  <2>4. todo'[k] = path /\ \A j \in Task : j # k => todo'[j] = todo[j]
    BY <1>0, <2>1 DEF EnvInv
  <2>5. current' = k /\ fault' = fault
    BY <1>3 DEF Trap
  <2>6. \A j \in Task : Fresh(todo'[j])
    BY <1>0, <2>3, <2>4
  <2> QED
    BY <1>0, <2>3, <2>4, <2>5, <2>6 DEF FreshInv
<1>4. ASSUME NEW k \in Task, Suspend(k) \/ Restore(k) \/ Switch(k) \/ InitTask(k)
      PROVE  FreshInv'
  <2>1. todo' = todo /\ fault' = fault
    BY <1>4 DEF Suspend, Restore, Switch, InitTask
  <2>2. \A j \in Task : j = current' => todo[j] = <<>> \/ Head(todo[j]) = "suspend"
    <3>1. CASE Suspend(k) \/ InitTask(k)
      BY <3>1, TaskAssumption DEF Suspend, InitTask
    <3>2. CASE Restore(k)
      BY <3>2 DEF Restore, InKernel
    <3>3. CASE Switch(k)
      BY <1>0, <3>3, TaskAssumption DEF Switch, EnvInv
    <3> QED
      BY <1>4, <3>1, <3>2, <3>3
  <2>3. \A j \in Task : Fresh(todo'[j])
    BY <1>0, <2>1
  <2>4. \A j \in Task : j = current' /\ todo'[j] # <<>> => Head(todo'[j]) # "access"
    BY <2>1, <2>2
  <2> QED
    BY <1>0, <2>1, <2>3, <2>4, ZenonT(30) DEF FreshInv
<1>5. ASSUME NEW k \in Task, NEW new \in Task,
             New(k) \/ Drop(k) \/ Access(k) \/ GoOn(k) \/ Clone(k, new) \/ Context(k) \/ Exit(k)
      PROVE  FreshInv'
  <2>1. CASE New(k)
    BY <1>2, <2>1 DEF New
  <2>2. CASE Drop(k)
    BY <1>2, <2>2 DEF Drop
  <2>3. CASE Access(k)
    BY <1>2, <2>3 DEF Access
  <2>4. CASE GoOn(k)
    BY <1>2, <2>4 DEF GoOn
  <2>5. CASE Clone(k, new)
    BY <1>2, <2>5 DEF Clone
  <2>6. CASE Context(k)
    BY <1>2, <2>6 DEF Context
  <2>7. CASE Exit(k)
    BY <1>2, <2>7 DEF Exit
  <2> QED
    BY <1>5, <2>1, <2>2, <2>3, <2>4, <2>5, <2>6, <2>7
<1> QED
  BY <1>1, <1>3, <1>4, <1>5 DEF Next

\* While no program reads the terminal the kernel never touches user memory
\* with SUM clear: although __switch does not save the bit and a nested drop
\* clears it early, each copy makes a guard of its own after the last wait.
THEOREM EnvNoKernelFault == "stdin" \notin Syscalls => (Spec => []NoKernelFault)
<1> SUFFICES ASSUME "stdin" \notin Syscalls PROVE Spec => []NoKernelFault
  OBVIOUS
<1>1. Init /\ EnvInv => FreshInv
  <2> SUFFICES ASSUME Init, EnvInv PROVE FreshInv
    OBVIOUS
  <2>1. \A k \in Task : todo[k] = <<>>
    BY DEF Init
  <2> QED
    BY <2>1 DEF Init, FreshInv, Fresh
<1>2. FreshInv /\ EnvInv' /\ [Next]_vars => FreshInv'
  BY FreshStep
<1>3. FreshInv => NoKernelFault
  BY DEF FreshInv, NoKernelFault
<1> QED
  BY <1>1, <1>2, <1>3, EnvInvariant, PTL DEF Spec

==============================================================================
