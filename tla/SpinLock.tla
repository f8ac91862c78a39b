------------------------------ MODULE SpinLock ------------------------------
(***************************************************************************)
(* SpinLock (base/spinlock.h, spinlock.cc) with the three values of its     *)
(* lock word and the waits of spinlock_internal.cc: on Linux a thread       *)
(* sleeps on a futex while the word still has the value it read, and is     *)
(* woken, or gives up after a while; on Windows nobody is woken.  Each step *)
(* is one atomic operation on the word.                                     *)
(***************************************************************************)
EXTENDS Naturals

CONSTANTS
  Threads,
  have_futex,   \* SpinLockWake wakes a sleeper
  TimesOut      \* a delay may end by itself

ASSUME SpinLockAssumption == have_futex \in BOOLEAN /\ TimesOut \in BOOLEAN

kSpinLockFree == 0
kSpinLockHeld == 1
kSpinLockSleeper == 2

VARIABLES
  lockword,  \* lockword_
  pc         \* where each thread is
vars == <<lockword, pc>>

Init == lockword = kSpinLockFree /\ pc = [t \in Threads |-> "idle"]

Goto(t, l) == pc' = [pc EXCEPT ![t] = l]
\* Acquire_CompareAndSwap(&lockword_, from, to)
CAS(from, to) == lockword' = IF lockword = from THEN to ELSE lockword
\* The loop of SlowLock goes on with the value it has read.
Loop(t) ==
  Goto(t, IF lockword = kSpinLockFree THEN "cs" ELSE IF lockword = kSpinLockHeld THEN "mark" ELSE "delay")

Lock(t) ==
  /\ pc[t] = "idle"
  /\ CAS(kSpinLockFree, kSpinLockHeld)
  /\ Goto(t, IF lockword = kSpinLockFree THEN "cs" ELSE "spin")

\* Mutant: the word does not keep that there may be other sleepers.
SpinLoopHeld(t) == pc[t] = "spin" /\ CAS(kSpinLockFree, kSpinLockHeld) /\ Loop(t)
\* SpinLoop, and the end of a delay: the word is watched, then taken if free.
SpinLoop(t) == pc[t] = "spin" /\ CAS(kSpinLockFree, kSpinLockSleeper) /\ Loop(t)

\* Mutant: a word that became free meanwhile counts as the lock taken.
MarkTakes(t) ==
  /\ pc[t] = "mark" /\ CAS(kSpinLockHeld, kSpinLockSleeper)
  /\ Goto(t, IF lockword = kSpinLockFree THEN "cs" ELSE "delay")
\* A held word is marked before the thread goes to sleep.
Mark(t) ==
  /\ pc[t] = "mark" /\ CAS(kSpinLockHeld, kSpinLockSleeper)
  /\ Goto(t, IF lockword = kSpinLockFree THEN "retry" ELSE "delay")
Retry(t) == pc[t] = "retry" /\ CAS(kSpinLockFree, kSpinLockSleeper) /\ Loop(t)

\* SpinLockDelay: FUTEX_WAIT on kSpinLockSleeper.
SpinLockDelay(t) ==
  /\ pc[t] = "delay"
  /\ Goto(t, IF have_futex /\ lockword # kSpinLockSleeper THEN "spin" ELSE "asleep")
  /\ UNCHANGED lockword
DelayEnds(t) == TimesOut /\ pc[t] = "asleep" /\ Goto(t, "spin") /\ UNCHANGED lockword

Unlock(t) ==
  /\ pc[t] = "cs"
  /\ lockword' = kSpinLockFree
  /\ Goto(t, IF lockword = kSpinLockHeld THEN "idle" ELSE "wake")

\* SpinLockWake(&lockword_, false) of SlowUnlock.
SlowUnlock(t) ==
  /\ pc[t] = "wake"
  /\ \/ have_futex /\ \E u \in Threads : pc[u] = "asleep" /\ pc' = [pc EXCEPT ![t] = "idle", ![u] = "spin"]
     \/ (have_futex => \A u \in Threads : pc[u] # "asleep") /\ Goto(t, "idle")
  /\ UNCHANGED lockword

Step(t) == Lock(t) \/ SpinLoop(t) \/ Mark(t) \/ Retry(t) \/ SpinLockDelay(t) \/ DelayEnds(t) \/ Unlock(t) \/ SlowUnlock(t)
Next == \E t \in Threads : Step(t)
Spec == Init /\ [][Next]_vars

\* A thread that is in the middle of Lock or Unlock, or holds the lock, goes on;
\* nobody has to lock again.
Fairness == \A t \in Threads : WF_vars(Step(t) /\ ~Lock(t))

-----------------------------------------------------------------------------
(* Properties.                                                              *)

TypeOK ==
  /\ lockword \in {kSpinLockFree, kSpinLockHeld, kSpinLockSleeper}
  /\ pc \in [Threads -> {"idle", "spin", "mark", "retry", "delay", "asleep", "cs", "wake"}]

\* Mutual exclusion, and the word says free exactly when nobody holds the lock
\* (IsHeld).
Exclusion ==
  /\ \A t, u \in Threads : pc[t] = "cs" /\ pc[u] = "cs" => t = u
  /\ lockword # kSpinLockFree <=> \E t \in Threads : pc[t] = "cs"

\* No lost wakeup: while a thread sleeps on the futex, the word says so, or a
\* thread is about to wake it or to look at the word itself and pass it on.
SleeperRemembered ==
  have_futex /\ (\E t \in Threads : pc[t] = "asleep") =>
    lockword = kSpinLockSleeper \/ \E t \in Threads : pc[t] \in {"wake", "spin", "mark", "retry"}

\* Nobody sleeps for ever once the others stop locking.
NobodySleepsOn ==
  (<>[][\A t \in Threads : ~Lock(t)]_vars) => <>[](\A t \in Threads : pc[t] = "idle")

-----------------------------------------------------------------------------
\* The lock as its users see it: a holder or none.
holder == {t \in Threads : pc[t] = "cs"}
Mutex == INSTANCE Mutex WITH holder <- holder
IsMutex == Mutex!Spec
=============================================================================
