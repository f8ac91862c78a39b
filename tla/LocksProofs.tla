----------------------------- MODULE LocksProofs -----------------------------
(***************************************************************************)
(* The spin lock, for any set of threads, with or without futexes and        *)
(* timeouts: types, mutual exclusion, no lost wakeup, and that it implements *)
(* Mutex.  The lists of hooks, for any threads and hooks and any length:     *)
(* a traversal without a lock calls the hooks it should.  The central free   *)
(* lists, for any threads, classes, spans and sizes: no object, span or slot  *)
(* is lost or given twice.  The heap profiler, for any threads, objects and  *)
(* intervals: what it shows is what is in use.                               *)
(***************************************************************************)
EXTENDS SpinLock, HookList, CentralFreeList, HeapProfiler, FiniteSetTheorems, SequenceTheorems, WellFoundedInduction, TLAPS

\* All that is needed is that the word says free exactly when nobody holds.
LockIInv == TypeOK /\ Exclusion /\ SleeperRemembered

LEMMA LockInit == Init => LockIInv
  BY DEF Init, LockIInv, TypeOK, Exclusion, SleeperRemembered, kSpinLockFree, kSpinLockHeld, kSpinLockSleeper

\* Every step keeps the types: the places a thread can be at, the three values.
LEMMA StepTypes == ASSUME LockIInv, NEW t \in Threads, Step(t) PROVE TypeOK'
  <1> USE DEF LockIInv, TypeOK, kSpinLockFree, kSpinLockHeld, kSpinLockSleeper, Goto, CAS, Loop
  <1>1. CASE Lock(t)  BY <1>1 DEF Lock
  <1>2. CASE SpinLoop(t)  BY <1>2 DEF SpinLoop
  <1>3. CASE Mark(t)  BY <1>3 DEF Mark
  <1>4. CASE Retry(t)  BY <1>4 DEF Retry
  <1>5. CASE SpinLockDelay(t)  BY <1>5 DEF SpinLockDelay
  <1>6. CASE DelayEnds(t)  BY <1>6 DEF DelayEnds
  <1>7. CASE Unlock(t)  BY <1>7 DEF Unlock
  <1>8. CASE SlowUnlock(t)  BY <1>8 DEF SlowUnlock
  <1> QED  BY <1>1, <1>2, <1>3, <1>4, <1>5, <1>6, <1>7, <1>8 DEF Step

\* A thread enters the critical section only by changing the word from free.
LEMMA StepExclusion == ASSUME LockIInv, NEW t \in Threads, Step(t) PROVE Exclusion'
  <1> USE DEF LockIInv, TypeOK, Exclusion, kSpinLockFree, kSpinLockHeld, kSpinLockSleeper, Goto, CAS, Loop
  <1>1. CASE Lock(t)  BY <1>1 DEF Lock
  <1>2. CASE SpinLoop(t)  BY <1>2 DEF SpinLoop
  <1>3. CASE Mark(t)  BY <1>3 DEF Mark
  <1>4. CASE Retry(t)  BY <1>4 DEF Retry
  <1>5. CASE SpinLockDelay(t)  BY <1>5 DEF SpinLockDelay
  <1>6. CASE DelayEnds(t)  BY <1>6 DEF DelayEnds
  <1>7. CASE Unlock(t)  BY <1>7 DEF Unlock
  <1>8. CASE SlowUnlock(t)  BY <1>8 DEF SlowUnlock
  <1> QED  BY <1>1, <1>2, <1>3, <1>4, <1>5, <1>6, <1>7, <1>8 DEF Step

\* The owner that frees a sleeper's word is on its way to wake one; a thread
\* that is awake marks the word before it sleeps again.
LEMMA StepRemembered == ASSUME LockIInv, NEW t \in Threads, Step(t) PROVE SleeperRemembered'
  <1> USE DEF LockIInv, TypeOK, SleeperRemembered, kSpinLockFree, kSpinLockHeld, kSpinLockSleeper, Goto, CAS, Loop
  <1>1. CASE Lock(t)  BY <1>1 DEF Lock
  <1>2. CASE SpinLoop(t)  BY <1>2 DEF SpinLoop
  <1>3. CASE Mark(t)  BY <1>3 DEF Mark
  <1>4. CASE Retry(t)  BY <1>4 DEF Retry
  <1>5. CASE SpinLockDelay(t)  BY <1>5 DEF SpinLockDelay
  <1>6. CASE DelayEnds(t)  BY <1>6 DEF DelayEnds
  <1>7. CASE Unlock(t)  BY <1>7 DEF Unlock
  <1>8. CASE SlowUnlock(t)  BY <1>8 DEF SlowUnlock
  <1> QED  BY <1>1, <1>2, <1>3, <1>4, <1>5, <1>6, <1>7, <1>8 DEF Step

\* The inductive invariant holds in every state.
THEOREM LockInvariant == Spec => []LockIInv
  <1>1. LockIInv /\ [Next]_vars => LockIInv'
    <2>1. ASSUME LockIInv, Next PROVE LockIInv'
      BY <2>1, StepTypes, StepExclusion, StepRemembered DEF Next, LockIInv
    <2>2. ASSUME LockIInv, UNCHANGED vars PROVE LockIInv'
      BY <2>2 DEF vars, LockIInv, TypeOK, Exclusion, SleeperRemembered
    <2> QED  BY <2>1, <2>2
  <1> QED  BY <1>1, LockInit, PTL DEF Spec

\* At most one thread is between Lock and Unlock, and IsHeld tells the truth.
THEOREM MutualExclusion == Spec => []Exclusion
  BY LockInvariant, PTL DEF LockIInv

\* A sleeping thread is always remembered: Unlock never forgets to wake one.
THEOREM NoLostWakeup == Spec => []SleeperRemembered
  BY LockInvariant, PTL DEF LockIInv

\* Every step of the lock is a step of Mutex, or changes no holder: taking the
\* word takes the lock, freeing it gives it up.
THEOREM Refinement == Spec => IsMutex
  <1>1. Init => Mutex!Init
    BY DEF Init, Mutex!Init, holder
  <1>2. ASSUME LockIInv, NEW t \in Threads, Step(t) PROVE [Mutex!Next]_holder
    <2> USE <1>2 DEF LockIInv, TypeOK, Exclusion, holder, kSpinLockFree, kSpinLockHeld, kSpinLockSleeper, Goto, CAS, Loop
    <2>0. ASSUME lockword = kSpinLockFree, pc' = [pc EXCEPT ![t] = "cs"] PROVE Mutex!Next
      <3>1. holder = {} /\ holder' = {t}  BY <2>0
      <3> QED  BY <3>1 DEF Mutex!Next, Mutex!Lock
    <2>1. CASE Lock(t)
      <3>1. CASE lockword = kSpinLockFree  BY <2>0, <2>1, <3>1 DEF Lock
      <3>2. CASE lockword # kSpinLockFree  BY <2>1, <3>2 DEF Lock
      <3> QED  BY <3>1, <3>2
    <2>2. CASE SpinLoop(t)
      <3>1. CASE lockword = kSpinLockFree  BY <2>0, <2>2, <3>1 DEF SpinLoop
      <3>2. CASE lockword # kSpinLockFree  BY <2>2, <3>2 DEF SpinLoop
      <3> QED  BY <3>1, <3>2
    <2>3. CASE Mark(t)  BY <2>3 DEF Mark
    <2>4. CASE Retry(t)
      <3>1. CASE lockword = kSpinLockFree  BY <2>0, <2>4, <3>1 DEF Retry
      <3>2. CASE lockword # kSpinLockFree  BY <2>4, <3>2 DEF Retry
      <3> QED  BY <3>1, <3>2
    <2>5. CASE SpinLockDelay(t)  BY <2>5 DEF SpinLockDelay
    <2>6. CASE DelayEnds(t)  BY <2>6 DEF DelayEnds
    <2>7. CASE Unlock(t)
      <3>1. holder = {t} /\ holder' = {}  BY <2>7 DEF Unlock
      <3> QED  BY <3>1 DEF Mutex!Next, Mutex!Unlock
    <2>8. CASE SlowUnlock(t)  BY <2>8 DEF SlowUnlock
    <2> QED  BY <2>1, <2>2, <2>3, <2>4, <2>5, <2>6, <2>7, <2>8 DEF Step
  <1>3. LockIInv /\ [Next]_vars => [Mutex!Next]_holder
    <2>1. ASSUME LockIInv, Next PROVE [Mutex!Next]_holder  BY <1>2, <2>1 DEF Next
    <2>2. ASSUME UNCHANGED vars PROVE [Mutex!Next]_holder  BY <2>2 DEF vars, holder
    <2> QED  BY <2>1, <2>2
  <1> QED  BY <1>1, <1>3, LockInvariant, PTL DEF Spec, IsMutex, Mutex!Spec

------------------------------------------------------------------------------
(* The lists of hooks.                                                      *)

Values == Hooks \cup {InitHook, LateHook, Singular, None}
Frames == [end : 0..(kHookListSingularIdx + 1), i : 0..(kHookListSingularIdx + 1), hooks : Seq(Values),
           next : Nat \ {0}, stay : SUBSET Values, ever : SUBSET Values]
Fixup == [kind |-> "fixup"]

Types ==
  /\ priv_data \in [Slots -> Values] /\ priv_data[kHookListSingularIdx] \in {Singular, None}
  /\ priv_end \in 0..(kHookListSingularIdx + 1)
  /\ hooklist_spinlock \in Callers \cup {None}
  /\ op \in [Callers -> {Idle, Fixup} \cup [kind : {"add"}, end : 1..(kHookListSingularIdx + 1)]]
  /\ \A t \in Callers : op[t] # Idle => hooklist_spinlock = t
  /\ call \in [Readers -> Seq(Frames)] /\ \A r \in Readers : Len(call[r]) <= 2
  /\ once \in {"no", "done"} \cup Readers

EndsAt(e) == (\A i \in Used : i < e) /\ (e = 0 \/ e - 1 \in Used)

\* The end is exact but for the slot just filled, or those emptied below it.
EndInv ==
  /\ hooklist_spinlock = None => EndsAt(priv_end)
  /\ \A t \in Callers :
       /\ op[t] = Fixup => \A i \in Used : i < priv_end
       /\ op[t].kind = "add" => /\ \A i \in Used : i < priv_end \/ i < op[t].end
                                /\ op[t].end - 1 \in Used /\ (priv_end = 0 \/ priv_end - 1 \in Used)

\* What a traversal has found was there; what is still to be found lies ahead of it,
\* and the output is never full before the traversal is at the singular slot.
FrameInv(f, data) ==
  /\ Len(f.hooks) <= kHookListMaxValues
  /\ f.i < f.end => Len(f.hooks) <= f.i /\ Len(f.hooks) < kHookListMaxValues
  /\ Range(f.hooks) \subseteq f.ever
  /\ f.i < f.end => \A j \in Slots : data[j] = None \/ data[j] \in f.ever
  /\ None \notin f.stay
  /\ \A h \in f.stay \ {Singular} :
       h \in Range(f.hooks) \/ \E j \in Slots : f.i <= j /\ j < f.end /\ data[j] = h

CallInv == \A r \in Readers : \A n \in DOMAIN call[r] :
             FrameInv(call[r][n], priv_data) /\ (n = 2 => InitHook \notin call[r][n].ever /\ LateHook \in call[r][n].ever)

\* The initial hook is there until the initializers run, theirs from then on.
OnceInv ==
  /\ \A i \in Slots : priv_data[i] = InitHook => i = 0 /\ once = "no"
  /\ once # "done" => \A i \in Slots : priv_data[i] # LateHook
  /\ once = "done" => \E i \in Slots : \A j \in Slots : priv_data[j] = LateHook <=> j = i

HookIInv == Types /\ EndInv /\ CallInv /\ OnceInv

-----------------------------------------------------------------------------
(* The greatest number of a set (Max), as FixupPrivEndLocked looks for it.  *)

LEMMA Smaller == \A a, b \in Nat : a < b => <<a, b>> \in OpToRel(<, Nat)
  BY DEF OpToRel

\* A set of natural numbers that is not empty has a least element.
LEMMA HasLeast == ASSUME NEW T \in SUBSET Nat, T # {} PROVE \E x \in T : \A y \in T : x <= y
<1>1. PICK x \in T : \A y \in T : ~ (<<y, x>> \in OpToRel(<, Nat))
  BY NatLessThanWellFounded, WFMin
<1>2. \A y \in T : ~(y < x)
  BY <1>1, Smaller
<1> QED
  BY <1>2

LEMMA MaxIs == ASSUME NEW S \in SUBSET Nat, NEW m \in S, \A y \in S : m >= y PROVE Max(S) = m
<1> DEFINE M == Max(S)
<1>1. M \in S /\ \A y \in S : M >= y
  BY DEF Max
<1> HIDE DEF M
<1>2. M = m
  BY <1>1
<1> QED
  BY <1>2 DEF M

\* The greatest element of a bounded set.
LEMMA MaxIn == ASSUME NEW n \in Nat, NEW S \in SUBSET (0..n), S # {} PROVE Max(S) \in S /\ \A y \in S : y <= Max(S)
<1> DEFINE T == {n - x : x \in S}
<1>1. T \subseteq Nat
  OBVIOUS
<1>2. T # {}
  <2>1. PICK s \in S : TRUE
    OBVIOUS
  <2>2. n - s \in T
    BY <2>1
  <2> QED
    BY <2>2
<1>3. \E x \in T : \A y \in T : x <= y
  <2> HIDE DEF T
  <2> QED
    BY <1>1, <1>2, HasLeast
<1>4. PICK m \in S : \A y \in S : n - m <= n - y
  BY <1>3
<1>5. \A y \in S : m >= y
  BY <1>4
<1>6. S \in SUBSET Nat
  OBVIOUS
<1> QED
  BY <1>5, <1>6, MaxIs

\* EndsAt says where FixupPrivEndLocked and Add put the end.
LEMMA EndIsMax == ASSUME NEW e \in 0..(kHookListSingularIdx + 1), EndsAt(e) PROVE e = Max({0} \cup {i + 1 : i \in Used})
<1> DEFINE S == {0} \cup {i + 1 : i \in Used}
<1>1. kHookListSingularIdx \in Nat
  BY HooksAssumption DEF kHookListSingularIdx
<1>2. S \in SUBSET Nat
  BY <1>1 DEF Used, Slots
<1>3. e \in S /\ \A y \in S : e >= y
  BY <1>1 DEF EndsAt, Used, Slots
<1> QED
  BY <1>2, <1>3, MaxIs

\* FixupPrivEndLocked puts the end after the last slot in use.
LEMMA FixupEnds == ASSUME Types, \A i \in Used : i < priv_end PROVE FixupPrivEnd \in 0..(kHookListSingularIdx + 1) /\ EndsAt(FixupPrivEnd)
<1> DEFINE S == {0} \cup {i + 1 : i \in {j \in Used : j < priv_end}}
<1>1. kHookListSingularIdx \in Nat
  BY HooksAssumption DEF kHookListSingularIdx
<1>2. S \in SUBSET (0..(kHookListSingularIdx + 1)) /\ S # {}
  BY <1>1 DEF Used, Slots
<1>3. Max(S) \in S /\ \A y \in S : y <= Max(S)
  <2> HIDE DEF S
  <2> DEFINE n == kHookListSingularIdx + 1
  <2>1. n \in Nat
    BY <1>1
  <2>2. S \in SUBSET (0..n)
    BY <1>2
  <2> HIDE DEF n
  <2> QED
    BY <1>2, <2>1, <2>2, MaxIn
<1>4. FixupPrivEnd = Max(S)
  BY DEF FixupPrivEnd
<1>5. \A i \in Used : i + 1 \in S /\ i \in Nat
  BY <1>1 DEF Used, Slots
<1>6. \A y \in S : y = 0 \/ y - 1 \in Used
  BY <1>1 DEF Used, Slots
<1>7. Max(S) \in 0..(kHookListSingularIdx + 1)
  BY <1>2, <1>3
<1> HIDE DEF S
<1>8. \A i \in Used : i < Max(S)
  <2> SUFFICES ASSUME NEW i \in Used PROVE i < Max(S)
    OBVIOUS
  <2>1. i + 1 \in S /\ i \in Nat
    BY <1>5
  <2>2. i + 1 <= Max(S)
    BY <1>3, <2>1
  <2> QED
    BY <1>7, <2>1, <2>2
<1>9. Max(S) = 0 \/ Max(S) - 1 \in Used
  BY <1>3, <1>6
<1> QED
  BY <1>4, <1>7, <1>8, <1>9 DEF EndsAt

\* A function on 1..n is a sequence.
LEMMA SeqOf == ASSUME NEW S, NEW n \in Nat, NEW s \in [1..n -> S] PROVE s \in Seq(S) /\ Len(s) = n /\ DOMAIN s = 1..n
OBVIOUS

-----------------------------------------------------------------------------
(* The invariant.                                                           *)

\* HookList begins with the initial hook alone (malloc_hook.cc:255-263).
LEMMA HookInitIInv == HookInit => HookIInv
<1> SUFFICES ASSUME HookInit PROVE HookIInv
  OBVIOUS
<1> USE HooksAssumption DEF HookInit, kHookListSingularIdx
<1>1. Types
  BY DEF Types, Values, Slots, Idle
<1>2. EndInv
  BY DEF EndInv, EndsAt, Used, Slots, Idle, Fixup
<1>3. CallInv
  BY DEF CallInv
<1>4. OnceInv
  BY DEF OnceInv, Slots
<1> QED
  BY <1>1, <1>2, <1>3, <1>4 DEF HookIInv

\* A new traversal of the list as it is.
LEMMA FrameIsNew == ASSUME HookIInv PROVE Frame \in Frames /\ FrameInv(Frame, priv_data)
<1> USE HooksAssumption DEF kHookListSingularIdx, HookIInv
<1>1. Frame \in Frames
  <2>1. priv_end \in 0..(kHookListSingularIdx + 1) /\ 0 \in 0..(kHookListSingularIdx + 1)
    BY DEF Types
  <2>2. {priv_data[i] : i \in {j \in Used : j < priv_end}} \subseteq Values /\ {priv_data[i] : i \in Used} \subseteq Values
    BY DEF Types, Used
  <2>3. <<>> \in Seq(Values)
    OBVIOUS
  <2> QED
    BY <2>1, <2>2, <2>3 DEF Frame, Frames
<1>2. Frame.hooks = <<>> /\ Range(Frame.hooks) = {}
  BY DEF Frame, Range
<1>3. \A h \in Frame.stay : \E j \in Slots : Frame.i <= j /\ j < Frame.end /\ priv_data[j] = h
  BY DEF Frame, Used, Slots
<1>4. None \notin Frame.stay /\ \A j \in Slots : priv_data[j] = None \/ priv_data[j] \in Frame.ever
  BY DEF Frame, Used
<1>5. Len(Frame.hooks) = 0 /\ Frame.i = 0
  BY <1>2 DEF Frame
<1> QED
  BY <1>1, <1>2, <1>3, <1>4, <1>5 DEF FrameInv

\* One load of a traversal.
LEMMA VisitKeeps ==
  ASSUME HookIInv, NEW f \in Frames, FrameInv(f, priv_data), f.i < f.end
  PROVE  LET g == Visit(f, priv_data[f.i]) IN g \in Frames /\ FrameInv(g, priv_data) /\ g.ever = f.ever
<1> USE HooksAssumption DEF kHookListSingularIdx, HookIInv
<1> DEFINE d == priv_data[f.i]
           g == Visit(f, d)
<1>1. f.i \in Slots /\ d \in Values /\ f.hooks \in Seq(Values) /\ Len(f.hooks) \in Nat
  BY DEF Frames, Slots, Types
<1>2. CASE d = None
  <2>1. g = [f EXCEPT !.i = @ + 1] /\ g \in Frames
    BY <1>1, <1>2, SMTT(30) DEF Visit, Frames, Slots
  <2>2. /\ g.hooks = f.hooks /\ g.i = f.i + 1 /\ f.i \in Nat
        /\ g.end = f.end /\ g.stay = f.stay /\ g.ever = f.ever
    BY <2>1 DEF Frames
  <2>3. \A h \in g.stay \ {Singular} : h \in Range(g.hooks) \/ \E j \in Slots : g.i <= j /\ j < g.end /\ priv_data[j] = h
    BY <1>1, <1>2, <2>2 DEF FrameInv, Slots
  <2>4. FrameInv(g, priv_data)
    <3> HIDE DEF g
    <3> QED
      BY <1>1, <2>2, <2>3 DEF FrameInv
  <2> QED
    BY <2>1, <2>2, <2>4
<1>3. CASE d # None
  <2> DEFINE full == Len(f.hooks) + 1 = kHookListMaxValues
  <2>1. g = [f EXCEPT !.hooks = Append(@, d), !.i = IF full THEN f.end ELSE @ + 1]
    BY <1>3 DEF Visit
  <2>2. /\ g.hooks = Append(f.hooks, d) /\ g.i = (IF full THEN f.end ELSE f.i + 1)
        /\ g.end = f.end /\ g.stay = f.stay /\ g.ever = f.ever /\ g.next = f.next /\ g \in Frames
    <3>1. Append(f.hooks, d) \in Seq(Values)
      BY <1>1
    <3>2. (IF full THEN f.end ELSE f.i + 1) \in 0..(kHookListSingularIdx + 1)
      BY <1>1 DEF Frames, Slots
    <3> HIDE DEF full
    <3> QED
      BY <2>1, <3>1, <3>2 DEF Frames
  <2>3. Len(g.hooks) = Len(f.hooks) + 1 /\ Range(g.hooks) = Range(f.hooks) \cup {d}
    BY <1>1, <2>2 DEF Range
  <2>4. ASSUME NEW h \in g.stay \ {Singular} PROVE h \in Range(g.hooks) \/ \E j \in Slots : g.i <= j /\ j < g.end /\ priv_data[j] = h
    <3>1. CASE h \in Range(f.hooks)
      BY <2>3, <3>1
    <3>2. CASE h \notin Range(f.hooks)
      <4>1. PICK j \in Slots : f.i <= j /\ j < f.end /\ priv_data[j] = h
        BY <2>2, <2>4, <3>2 DEF FrameInv
      <4>2. CASE j = f.i
        BY <2>3, <4>1, <4>2
      <4>3. CASE j # f.i
        <5>1. ~full
          <6>1. j # kHookListSingularIdx
            BY <2>4, <4>1, <2>2 DEF FrameInv, Types
          <6> QED
            BY <1>1, <4>1, <4>3, <6>1 DEF FrameInv, Frames, Slots
        <5> QED
          BY <1>1, <2>2, <4>1, <4>3, <5>1 DEF Slots, Frames
      <4> QED
        BY <4>2, <4>3
    <3> QED
      BY <3>1, <3>2
  <2>5. d \in f.ever
    BY <1>1, <1>3 DEF FrameInv, Used
  <2> QED
    BY <1>1, <2>2, <2>3, <2>4, <2>5, SMTT(30) DEF FrameInv, Frames, Slots
<1> QED
  BY <1>2, <1>3

\* The innermost traversal of a reader that is in one.
LEMMA InnerIs ==
  ASSUME HookIInv, NEW r \in Readers, call[r] # <<>>
  PROVE  /\ call[r] \in Seq(Frames) /\ Len(call[r]) \in 1..2 /\ DOMAIN call[r] = 1..Len(call[r])
         /\ Inner(r) \in Frames /\ FrameInv(Inner(r), priv_data)
         /\ Len(call[r]) = 2 => InitHook \notin Inner(r).ever /\ LateHook \in Inner(r).ever
<1> DEFINE k == Len(call[r])
<1>1. call[r] \in Seq(Frames) /\ k <= 2
  BY DEF HookIInv, Types
<1>2. \A q \in Seq(Frames) : q # <<>> => Len(q) \in Nat \ {0}
  BY EmptySeq
<1>3. k \in Nat \ {0} /\ k <= 2
  BY <1>1, <1>2
<1>4. k \in 1..2
  <2> HIDE DEF k
  <2> QED
    BY <1>3
<1>5. DOMAIN call[r] = 1..k
  BY <1>1, LenProperties
<1>6. k \in DOMAIN call[r] /\ Inner(r) \in Frames
  BY <1>1, <1>4, <1>5, ElementOfSeq DEF Inner
<1> QED
  BY <1>1, <1>4, <1>5, <1>6 DEF HookIInv, CallInv, Inner

\* A hook that is due was found.
LEMMA DueFound ==
  ASSUME HookIInv, NEW r \in Readers, NEW h, Due(r, h)
  PROVE  call[r] # <<>> /\ op[r] = Idle /\ h \in Inner(r).ever
<1>1. call[r] # <<>> /\ op[r] = Idle /\ Inner(r).next <= Len(Inner(r).hooks) /\ h = Inner(r).hooks[Inner(r).next]
  BY DEF Due
<1>2. Inner(r) \in Frames /\ FrameInv(Inner(r), priv_data)
  BY <1>1, InnerIs
<1>3. Inner(r).hooks \in Seq(Values) /\ Inner(r).next \in 1..Len(Inner(r).hooks)
  BY <1>1, <1>2 DEF Frames
<1>4. h \in Range(Inner(r).hooks)
  BY <1>1, <1>3 DEF Range
<1> QED
  BY <1>1, <1>2, <1>4 DEF FrameInv

\* A step of the innermost traversal of a reader.
LEMMA SetInnerKeeps ==
  ASSUME HookIInv, NEW r \in Readers, call[r] # <<>>, NEW f \in Frames, FrameInv(f, priv_data), f.ever = Inner(r).ever,
         SetInner(r, f), UNCHANGED <<priv_data, priv_end, hooklist_spinlock, op, once>>
  PROVE  HookIInv'
<1> USE DEF HookIInv, Inner, SetInner
<1>0. priv_data' = priv_data
  OBVIOUS
<1>1. /\ call \in [Readers -> Seq(Frames)] /\ Len(call[r]) \in 1..2
      /\ call[r] \in Seq(Frames) /\ call' = [call EXCEPT ![r] = [call[r] EXCEPT ![Len(call[r])] = f]]
  BY InnerIs DEF Types
<1>2. call'[r] \in Seq(Frames) /\ Len(call'[r]) = Len(call[r])
  BY <1>1
<1>3. \A n \in 1..Len(call[r]) : call'[r][n] = IF n = Len(call[r]) THEN f ELSE call[r][n]
  BY <1>1
<1>4. \A q \in Readers \ {r} : call'[q] = call[q]
  BY <1>1
<1>5. Types'
  BY <1>1, <1>2, <1>4 DEF Types
<1>6. CallInv'
  <2> SUFFICES ASSUME NEW q \in Readers, NEW n \in DOMAIN call'[q]
               PROVE  FrameInv(call'[q][n], priv_data') /\ (n = 2 => InitHook \notin call'[q][n].ever /\ LateHook \in call'[q][n].ever)
    BY DEF CallInv
  <2>1. CASE q # r
    BY <1>4, <2>1, <1>0 DEF CallInv
  <2>2. CASE q = r
    <3>1. n \in 1..Len(call[r]) /\ DOMAIN call[r] = 1..Len(call[r])
      BY <1>1, <1>2, <2>2
    <3>2. CASE n = Len(call[r])
      BY <1>3, <2>2, <3>1, <3>2, <1>0 DEF CallInv
    <3>3. CASE n # Len(call[r])
      BY <1>3, <2>2, <3>1, <3>3, <1>0 DEF CallInv
    <3> QED
      BY <3>2, <3>3
  <2> QED
    BY <2>1, <2>2
<1>7. EndInv'
  BY DEF EndInv, EndsAt, Used
<1>8. OnceInv'
  BY DEF OnceInv
<1> QED
  BY <1>5, <1>6, <1>7, <1>8

\* A store under the lock: the part of the invariant that is the same for every change.
LEMMA StoreKeeps ==
  ASSUME HookIInv, NEW t \in Callers, NEW i \in Slots, NEW h \in Values \ {InitHook}, NEW o,
         i = kHookListSingularIdx => h \in {Singular, None},
         h # None => i \notin Used /\ o = [kind |-> "add", end |-> i + 1],
         h = None => o = Fixup,
         Store(t, i, h, o), once' \in {"no", "done"} \cup Readers
  PROVE  Types' /\ EndInv' /\ CallInv'
<1> USE HooksAssumption DEF HookIInv, kHookListSingularIdx
<1>1. /\ op[t] = Idle /\ hooklist_spinlock = None /\ hooklist_spinlock' = t /\ t # None
      /\ priv_data' = [priv_data EXCEPT ![i] = h] /\ priv_data \in [Slots -> Values] /\ UNCHANGED priv_end
      /\ op' = [op EXCEPT ![t] = o] /\ \A u \in Callers : op[u] = Idle
  BY DEF Store, Types
<1>2. Used' = IF h = None THEN Used \ {i} ELSE Used \cup {i}
  BY <1>1 DEF Used
<1>3. o \in {Idle, Fixup} \cup [kind : {"add"}, end : 1..(kHookListSingularIdx + 1)] /\ (o = Fixup => h = None) /\ (o.kind = "add" => h # None)
  BY DEF Slots, Fixup
<1> DEFINE g(f) == [f EXCEPT !.stay = @ \ {priv_data[i]}, !.ever = @ \cup {h}]
<1>4. \A r \in Readers : /\ call'[r] = [n \in DOMAIN call[r] |-> g(call[r][n])] /\ call[r] \in Seq(Frames)
                          /\ DOMAIN call[r] = 1..Len(call[r]) /\ Len(call[r]) \in Nat
  <2>1. call' = [r \in Readers |-> [n \in DOMAIN call[r] |-> g(call[r][n])]]
    BY DEF Store
  <2>2. \A r \in Readers : call[r] \in Seq(Frames)
    BY DEF Types
  <2> HIDE DEF g
  <2> QED
    BY <2>1, <2>2
<1>5. \A f \in Frames : g(f) \in Frames
  BY DEF Frames
<1>6. \A r \in Readers : call'[r] \in Seq(Frames) /\ Len(call'[r]) = Len(call[r])
  <2> HIDE DEF g
  <2> SUFFICES ASSUME NEW r \in Readers PROVE call'[r] \in Seq(Frames) /\ Len(call'[r]) = Len(call[r])
    OBVIOUS
  <2>1. \A n \in 1..Len(call[r]) : g(call[r][n]) \in Frames
    <3> SUFFICES ASSUME NEW n \in 1..Len(call[r]) PROVE g(call[r][n]) \in Frames
      OBVIOUS
    <3>1. call[r][n] \in Frames
      BY <1>4, ElementOfSeq
    <3> QED
      BY <1>5, <3>1
  <2>2. call'[r] \in [1..Len(call[r]) -> Frames]
    BY <1>4, <2>1
  <2> QED
    BY <1>4, <2>2, SeqOf
<1>7. Types'
  <2>1. call' \in [Readers -> Seq(Frames)]
    <3>1. call' = [r \in Readers |-> [n \in DOMAIN call[r] |-> g(call[r][n])]]
      BY DEF Store
    <3> HIDE DEF g
    <3> QED
      BY <1>6, <3>1
  <2>2. priv_data' \in [Slots -> Values] /\ priv_data'[kHookListSingularIdx] \in {Singular, None}
    BY <1>1 DEF Types, Values, Slots
  <2>3. /\ op' \in [Callers -> {Idle, Fixup} \cup [kind : {"add"}, end : 1..(kHookListSingularIdx + 1)]]
        /\ \A u \in Callers : op'[u] # Idle => hooklist_spinlock' = u
    BY <1>1, <1>3 DEF Types
  <2> QED
    BY <1>1, <1>6, <2>1, <2>2, <2>3 DEF Types
<1>8. EndInv'
  <2>1. EndsAt(priv_end) /\ Used \subseteq Nat
    BY <1>1 DEF EndInv, Used, Slots
  <2>2. \A u \in Callers : op'[u] = IF u = t THEN o ELSE Idle
    BY <1>1 DEF Types
  <2>3. (h # None => o.end = i + 1) /\ Idle # Fixup /\ Idle.kind # "add"
    BY DEF Idle, Fixup
  <2>4. (\A j \in Used : j < priv_end) /\ (priv_end = 0 \/ priv_end - 1 \in Used) /\ priv_end \in Nat
    BY <2>1 DEF EndsAt, Types
  <2>5. h = None => \A j \in Used' : j < priv_end'
    BY <1>1, <1>2, <2>4
  <2>6. h # None => /\ \A j \in Used' : j < priv_end' \/ j < o.end
                    /\ o.end - 1 \in Used' /\ (priv_end' = 0 \/ priv_end' - 1 \in Used')
    BY <1>1, <1>2, <2>3, <2>4 DEF Slots
  <2> QED
    BY <1>1, <1>3, <2>2, <2>3, <2>5, <2>6 DEF EndInv
<1>9. CallInv'
  <2> SUFFICES ASSUME NEW r \in Readers, NEW n \in DOMAIN call'[r]
               PROVE  FrameInv(call'[r][n], priv_data') /\ (n = 2 => InitHook \notin call'[r][n].ever /\ LateHook \in call'[r][n].ever)
    BY DEF CallInv
  <2> DEFINE f == call[r][n]
  <2>1. n \in DOMAIN call[r] /\ call'[r][n] = g(f) /\ f \in Frames
    <3> HIDE DEF g
    <3>1. call'[r] = [k \in DOMAIN call[r] |-> g(call[r][k])] /\ call[r] \in Seq(Frames)
      BY <1>4
    <3> QED
      BY <3>1
  <2>2. FrameInv(f, priv_data) /\ (n = 2 => InitHook \notin f.ever /\ LateHook \in f.ever)
    BY <2>1 DEF CallInv
  <2> HIDE DEF f
  <2>3. /\ g(f).hooks = f.hooks /\ g(f).i = f.i /\ g(f).end = f.end
        /\ g(f).stay = f.stay \ {priv_data[i]} /\ g(f).ever = f.ever \cup {h}
    BY <2>1 DEF Frames
  <2> HIDE DEF g
  <2>4. f.i < f.end => \A j \in Slots : priv_data'[j] = None \/ priv_data'[j] \in g(f).ever
    BY <1>1, <2>2, <2>3 DEF FrameInv
  <2>5. \A x \in g(f).stay \ {Singular} :
          x \in Range(f.hooks) \/ \E j \in Slots : f.i <= j /\ j < f.end /\ priv_data'[j] = x
    BY <1>1, <2>2, <2>3 DEF FrameInv
  <2>6. FrameInv(g(f), priv_data')
    BY <2>2, <2>3, <2>4, <2>5 DEF FrameInv
  <2> QED
    BY <2>1, <2>2, <2>3, <2>6
<1> QED
  BY <1>7, <1>8, <1>9

\* A new traversal, on top of those of the reader.
LEMMA PushKeeps ==
  ASSUME HookIInv, NEW r \in Readers, NEW q \in Seq(Frames), Len(q) <= 1, Len(q) = 1 => FrameInv(q[1], priv_data),
         Len(q) = 1 => once = "done",
         call' = [call EXCEPT ![r] = Append(q, Frame)], UNCHANGED <<priv_data, priv_end, hooklist_spinlock, op, once>>
  PROVE  HookIInv'
<1> USE HooksAssumption DEF HookIInv, kHookListSingularIdx
<1>0. priv_data' = priv_data
  OBVIOUS
<1>1. Frame \in Frames /\ FrameInv(Frame, priv_data)
  BY FrameIsNew
<1>2. call'[r] = Append(q, Frame) /\ call'[r] \in Seq(Frames) /\ Len(call'[r]) = Len(q) + 1 /\ Len(q) \in 0..1
  <2>1. Len(q) \in 0..1
    <3> DEFINE k == Len(q)
    <3>1. k \in Nat /\ k <= 1
      BY LenProperties
    <3> HIDE DEF k
    <3>2. k \in 0..1
      BY <3>1
    <3> QED
      BY <3>2 DEF k
  <2>2. call'[r] = Append(q, Frame)
    BY DEF Types
  <2> QED
    BY <1>1, <2>1, <2>2
<1>3. \A p \in Readers \ {r} : call'[p] = call[p]
  BY DEF Types
<1>4. Types'
  BY <1>2, <1>3 DEF Types
<1>5. once = "done" => InitHook \notin Frame.ever /\ LateHook \in Frame.ever
  BY DEF OnceInv, Frame, Used
<1>6. CallInv'
  <2> SUFFICES ASSUME NEW p \in Readers, NEW n \in DOMAIN call'[p]
               PROVE  FrameInv(call'[p][n], priv_data') /\ (n = 2 => InitHook \notin call'[p][n].ever /\ LateHook \in call'[p][n].ever)
    BY DEF CallInv
  <2>1. CASE p # r
    BY <1>0, <1>3, <2>1 DEF CallInv
  <2>2. CASE p = r
    <3>1. n \in 1..(Len(q) + 1)
      BY <1>2, <2>2
    <3>2. CASE n = Len(q) + 1
      <4>1. call'[r][n] = Frame
        BY <1>2, <3>2
      <4> QED
        BY <1>0, <1>1, <1>2, <1>5, <2>2, <3>2, <4>1
    <3>3. CASE n = 1 /\ Len(q) = 1
      BY <1>0, <1>2, <2>2, <3>3
    <3> QED
      BY <1>2, <3>1, <3>2, <3>3
  <2> QED
    BY <2>1, <2>2
<1>7. EndInv'
  BY DEF EndInv, EndsAt, Used
<1>8. OnceInv'
  BY DEF OnceInv
<1> QED
  BY <1>4, <1>6, <1>7, <1>8

\* Add, Remove and ExchangeSingular by a thread (malloc_hook.cc:168-249).
LEMMA ChangeInv == ASSUME HookIInv, NEW t \in Writers, Change(t) PROVE HookIInv'
<1> USE HooksAssumption DEF kHookListSingularIdx
<1>0. t \in Callers /\ UNCHANGED once /\ once' \in {"no", "done"} \cup Readers /\ priv_data \in [Slots -> Values]
  BY DEF Change, Callers, HookIInv, Types
<1>1. ASSUME NEW h \in Hooks, Add(t, h) PROVE HookIInv'
  <2>1. PICK i \in 0..(kHookListMaxValues - 1) : i \notin Used /\ Store(t, i, h, [kind |-> "add", end |-> i + 1])
    BY <1>1 DEF Add
  <2>2. i \in Slots /\ i # kHookListSingularIdx /\ h \in Values \ {InitHook} /\ h # None
    BY DEF Slots, Values
  <2>3. Types' /\ EndInv' /\ CallInv'
    BY <1>0, <2>1, <2>2, StoreKeeps
  <2>4. OnceInv'
    BY <1>0, <2>1, <2>2 DEF Store, OnceInv, HookIInv, Used
  <2> QED
    BY <2>3, <2>4 DEF HookIInv
<1>2. ASSUME NEW h \in Hooks, Remove(t, h) PROVE HookIInv'
  <2>1. PICK i \in 0..(priv_end - 1) : priv_data[i] = h /\ Store(t, i, None, Fixup)
    BY <1>2 DEF Remove, Fixup
  <2>2. i \in Slots /\ None \in Values \ {InitHook}
    BY <2>1 DEF Slots, Values, HookIInv, Types
  <2>3. Types' /\ EndInv' /\ CallInv'
    BY <1>0, <2>1, <2>2, StoreKeeps
  <2>4. OnceInv'
    BY <1>0, <2>1, <2>2 DEF Store, OnceInv, HookIInv
  <2> QED
    BY <2>3, <2>4 DEF HookIInv
<1>3. ASSUME NEW h \in {Singular, None} \ {priv_data[kHookListSingularIdx]}, ExchangeSingular(t, h) PROVE HookIInv'
  <2> DEFINE i == kHookListSingularIdx
             o == IF h = None THEN Fixup ELSE [kind |-> "add", end |-> i + 1]
  <2>1. Store(t, i, h, o)
    BY <1>3 DEF ExchangeSingular, Fixup
  <2>2. i \in Slots /\ h \in Values \ {InitHook} /\ (h # None => i \notin Used)
    BY <1>3 DEF Slots, Values, HookIInv, Types, Used
  <2>3. Types' /\ EndInv' /\ CallInv'
    <3> HIDE DEF i
    <3>1. i = kHookListSingularIdx => h \in {Singular, None}
      BY <1>3
    <3> QED
      BY <1>0, <2>1, <2>2, <3>1, StoreKeeps
  <2>4. OnceInv'
    <3>1. priv_data[i] \in {Singular, None}
      BY DEF HookIInv, Types
    <3> HIDE DEF i, o
    <3> QED
      BY <1>0, <1>3, <2>1, <2>2, <3>1 DEF Store, OnceInv, HookIInv
  <2> QED
    BY <2>3, <2>4 DEF HookIInv
<1> QED
  BY <1>1, <1>2, <1>3 DEF Change

\* The last store of a change puts the end (malloc_hook.cc:186-200).
LEMMA StoreEndInv == ASSUME HookIInv, NEW t \in Callers, StoreEnd(t) PROVE HookIInv'
<1> USE HooksAssumption DEF kHookListSingularIdx, HookIInv
<1>1. /\ op[t] # Idle /\ hooklist_spinlock' = None /\ op' = [op EXCEPT ![t] = Idle] /\ UNCHANGED <<priv_data, call, once>>
      /\ priv_end' = IF op[t].kind = "fixup" THEN FixupPrivEnd ELSE Max({priv_end, op[t].end})
      /\ op[t] \in {Idle, Fixup} \cup [kind : {"add"}, end : 1..(kHookListSingularIdx + 1)]
  BY DEF StoreEnd, Types
<1>2. \A u \in Callers : op'[u] = Idle
  BY <1>1 DEF Types
<1>3. priv_end' \in 0..(kHookListSingularIdx + 1) /\ EndsAt(priv_end')
  <2>1. CASE op[t] = Fixup
    BY <1>1, <2>1, FixupEnds DEF EndInv, Fixup
  <2>2. CASE op[t] # Fixup
    <3> DEFINE e == op[t].end
    <3>1. op[t].kind = "add" /\ e \in 1..(kHookListSingularIdx + 1) /\ priv_end \in 0..(kHookListSingularIdx + 1)
      BY <1>1, <2>2 DEF Types
    <3>2. /\ \A i \in Used : i < priv_end \/ i < e
          /\ e - 1 \in Used /\ (priv_end = 0 \/ priv_end - 1 \in Used)
      BY <3>1 DEF EndInv
    <3>3. priv_end' = Max({priv_end, e})
      BY <1>1, <3>1
    <3> HIDE DEF e
    <3>4. priv_end' = IF priv_end >= e THEN priv_end ELSE e
      <4>1. CASE priv_end >= e
        BY <3>1, <3>3, <4>1, MaxIs
      <4>2. CASE priv_end < e
        BY <3>1, <3>3, <4>2, MaxIs
      <4> QED
        BY <3>1, <4>1, <4>2
    <3> QED
      BY <3>1, <3>2, <3>4 DEF EndsAt, Used, Slots
  <2> QED
    BY <2>1, <2>2
<1>4. Types'
  BY <1>1, <1>2, <1>3 DEF Types
<1>5. EndInv'
  <2>1. Used' = Used /\ Idle # Fixup /\ Idle.kind # "add"
    BY <1>1 DEF Used, Idle, Fixup
  <2>2. EndsAt(priv_end)'
    BY <1>3, <2>1 DEF EndsAt
  <2> QED
    BY <1>2, <2>1, <2>2 DEF EndInv
<1>6. CallInv'
  BY <1>1 DEF CallInv
<1>7. OnceInv'
  BY <1>1 DEF OnceInv
<1> QED
  BY <1>4, <1>5, <1>6, <1>7

\* The steps of an allocation (malloc_hook.cc:105-150, 222-235, 473-484).
LEMMA AllocationInv == ASSUME HookIInv, NEW r \in Readers, Allocation(r) PROVE HookIInv'
<1> USE HooksAssumption DEF kHookListSingularIdx
<1> DEFINE f == Inner(r)
<1>0. r \in Callers /\ call \in [Readers -> Seq(Frames)] /\ priv_data \in [Slots -> Values] /\ once \in {"no", "done"} \cup Readers
  BY DEF Callers, HookIInv, Types
<1>n. call[r] # <<>> => LET g == [f EXCEPT !.next = @ + 1] IN g \in Frames /\ FrameInv(g, priv_data) /\ g.ever = f.ever
  <2> SUFFICES ASSUME call[r] # <<>>
               PROVE LET g == [f EXCEPT !.next = @ + 1] IN g \in Frames /\ FrameInv(g, priv_data) /\ g.ever = f.ever
    OBVIOUS
  <2>1. f \in Frames /\ FrameInv(f, priv_data)
    BY InnerIs
  <2> HIDE DEF f
  <2> QED
    BY <2>1 DEF Frames, FrameInv
<1>1. CASE InvokeNewHook(r)
  <2> DEFINE q == <<>>
  <2>1. call' = [call EXCEPT ![r] = Append(q, Frame)] /\ UNCHANGED <<priv_data, priv_end, hooklist_spinlock, op, once>>
    <3>1. Append(<<>>, Frame) = <<Frame>>
      OBVIOUS
    <3> QED
      BY <1>1, <3>1 DEF InvokeNewHook
  <2>2. q \in Seq(Frames) /\ Len(q) = 0
    BY EmptySeq
  <2>3. Len(q) <= 1 /\ Len(q) # 1
    BY <2>2
  <2> HIDE DEF q
  <2> QED
    BY <2>1, <2>2, <2>3, PushKeeps
<1>2. CASE Traverse(r)
  <2> DEFINE g == Visit(f, priv_data[f.i])
  <2>1. call[r] # <<>> /\ f.i < f.end /\ SetInner(r, g) /\ UNCHANGED <<priv_data, priv_end, hooklist_spinlock, op, once>>
    BY <1>2 DEF Traverse, Traversing
  <2>2. f \in Frames /\ FrameInv(f, priv_data)
    BY <2>1, InnerIs
  <2>3. g \in Frames /\ FrameInv(g, priv_data) /\ g.ever = f.ever
    <3> HIDE DEF f
    <3> QED
      BY <2>1, <2>2, VisitKeeps
  <2> HIDE DEF g
  <2> QED
    BY <2>1, <2>3, SetInnerKeeps
<1>3. CASE CallHook(r)
  <2> DEFINE g == [f EXCEPT !.next = @ + 1]
  <2>1. call[r] # <<>> /\ SetInner(r, g) /\ UNCHANGED <<priv_data, priv_end, hooklist_spinlock, op, once>>
    BY <1>3 DEF CallHook, Due
  <2>2. g \in Frames /\ FrameInv(g, priv_data) /\ g.ever = f.ever
    BY <1>n, <2>1
  <2> HIDE DEF g
  <2> QED
    BY <2>1, <2>2, SetInnerKeeps
<1>4. CASE RemoveSelf(r)
  <2>1. PICK h \in Hooks : Remove(r, h) /\ UNCHANGED once
    BY <1>4 DEF RemoveSelf
  <2>2. PICK i \in 0..(priv_end - 1) : priv_data[i] = h /\ Store(r, i, None, Fixup)
    BY <2>1 DEF Remove, Fixup
  <2>3. i \in Slots /\ None \in Values \ {InitHook}
    BY <2>2 DEF Slots, Values, HookIInv, Types
  <2>4. Types' /\ EndInv' /\ CallInv'
    BY <1>0, <2>1, <2>2, <2>3, StoreKeeps
  <2>5. OnceInv'
    BY <1>0, <2>1, <2>2, <2>3 DEF Store, OnceInv, HookIInv
  <2> QED
    BY <2>4, <2>5 DEF HookIInv
<1>5. CASE RemoveInitialHook(r)
  <2>1. PICK i \in 0..(priv_end - 1) : priv_data[i] = InitHook /\ Store(r, i, None, Fixup)
    BY <1>5 DEF RemoveInitialHook, Remove, Fixup
  <2>2. i \in Slots /\ None \in Values \ {InitHook} /\ once = "no" /\ once' = r
    BY <1>5, <2>1 DEF RemoveInitialHook, Slots, Values, HookIInv, Types
  <2>3. Types' /\ EndInv' /\ CallInv'
    BY <1>0, <2>1, <2>2, StoreKeeps
  <2>4. OnceInv'
    BY <1>0, <2>1, <2>2 DEF Store, OnceInv, HookIInv
  <2> QED
    BY <2>3, <2>4 DEF HookIInv
<1>6. CASE CallInitializers(r)
  <2>1. PICK i \in 0..(kHookListMaxValues - 1) : i \notin Used /\ Store(r, i, LateHook, [kind |-> "add", end |-> i + 1])
    BY <1>6 DEF CallInitializers, Add
  <2>2. i \in Slots /\ i # kHookListSingularIdx /\ LateHook \in Values \ {InitHook} /\ LateHook # None /\ once = r /\ once' = "done"
    BY <1>6 DEF CallInitializers, Slots, Values
  <2>3. Types' /\ EndInv' /\ CallInv'
    BY <1>0, <2>1, <2>2, StoreKeeps
  <2>4. OnceInv'
    BY <1>0, <2>1, <2>2 DEF Store, OnceInv, HookIInv, Used
  <2> QED
    BY <2>3, <2>4 DEF HookIInv
<1>7. CASE Redispatch(r)
  <2> DEFINE g == [f EXCEPT !.next = @ + 1]
             q == [call[r] EXCEPT ![Len(call[r])] = g]
  <2>1. /\ Due(r, InitHook) /\ once = "done" /\ UNCHANGED <<priv_data, priv_end, hooklist_spinlock, op, once>>
        /\ call' = [call EXCEPT ![r] = Append(q, Frame)]
    BY <1>7 DEF Redispatch
  <2>2. call[r] # <<>> /\ InitHook \in f.ever
    BY <2>1, DueFound
  <2>3. call[r] \in Seq(Frames) /\ Len(call[r]) = 1
    BY <2>2, InnerIs
  <2>4. g \in Frames /\ FrameInv(g, priv_data)
    BY <1>n, <2>2
  <2> HIDE DEF g
  <2>5. q \in Seq(Frames) /\ Len(q) = 1 /\ q[1] = g
    BY <2>3, <2>4
  <2> HIDE DEF q
  <2>6. Len(q) <= 1 /\ FrameInv(q[1], priv_data)
    BY <2>4, <2>5
  <2> QED
    BY <2>1, <2>5, <2>6, PushKeeps
<1>8. CASE Return(r)
  <2>1. call[r] # <<>> /\ call' = [call EXCEPT ![r] = SubSeq(call[r], 1, Len(call[r]) - 1)] /\ UNCHANGED <<priv_data, priv_end, hooklist_spinlock, op, once>>
    BY <1>8 DEF Return
  <2>2. call[r] \in Seq(Frames) /\ Len(call[r]) \in 1..2 /\ DOMAIN call[r] = 1..Len(call[r])
    BY <2>1, InnerIs
  <2>3. /\ call'[r] \in Seq(Frames) /\ Len(call'[r]) = Len(call[r]) - 1
        /\ \A n \in 1..Len(call'[r]) : call'[r][n] = call[r][n]
    BY <1>0, <2>1, <2>2
  <2>4. \A p \in Readers \ {r} : call'[p] = call[p]
    BY <1>0, <2>1
  <2>5. Types'
    BY <2>1, <2>2, <2>3, <2>4 DEF Types, HookIInv
  <2>6. CallInv'
    <3>1. \A p \in Readers : \A n \in DOMAIN call'[p] : n \in DOMAIN call[p] /\ call'[p][n] = call[p][n]
      BY <2>2, <2>3, <2>4
    <3>2. priv_data' = priv_data
      BY <2>1
    <3> QED
      BY <3>1, <3>2 DEF CallInv, HookIInv
  <2>7. EndInv' /\ OnceInv'
    BY <2>1 DEF EndInv, EndsAt, Used, OnceInv, HookIInv
  <2> QED
    BY <2>5, <2>6, <2>7 DEF HookIInv
<1> QED
  BY <1>1, <1>2, <1>3, <1>4, <1>5, <1>6, <1>7, <1>8 DEF Allocation

\* The invariant holds in every state.
THEOREM HookInvariant == HookSpec => []HookIInv
<1>1. HookIInv /\ [HookNext]_hookVars => HookIInv'
  <2>1. ASSUME HookIInv, HookNext PROVE HookIInv'
    BY <2>1, ChangeInv, StoreEndInv, AllocationInv DEF HookNext
  <2>2. ASSUME HookIInv, UNCHANGED hookVars PROVE HookIInv'
    BY <2>2 DEF hookVars, HookIInv, Types, EndInv, EndsAt, Used, CallInv, OnceInv
  <2> QED
    BY <2>1, <2>2
<1> QED
  BY <1>1, HookInitIInv, PTL DEF HookSpec

\* The invariant says that the initial hook's successor is there once, and that a
\* second dispatch sees it.
LEMMA InvInitializedOnce == ASSUME HookIInv PROVE InitializedOnce
<1> DEFINE L == {i \in Slots : priv_data[i] = LateHook}
<1>1. Cardinality(L) <= 1
  <2>1. CASE L = {}
    BY <2>1, FS_EmptySet
  <2>2. CASE L # {}
    <3>1. PICK i \in Slots : L = {i}
      BY <2>2 DEF HookIInv, OnceInv
    <3> QED
      BY <3>1, FS_Singleton
  <2> QED
    BY <2>1, <2>2
<1>2. ASSUME NEW r \in Readers, Len(call[r]) = 2 PROVE LateHook \in Inner(r).ever
  <2>1. call[r] # <<>>
    BY <1>2, EmptySeq
  <2> QED
    BY <1>2, <2>1, InnerIs
<1> QED
  BY <1>1, <1>2 DEF InitializedOnce

\* HooksSeen: a traversal calls every normal hook that was there all the time and
\* none that was never there, the end is exact, and the initial hook runs the
\* initializers once (malloc_hook.cc:105-249, 473-484).
THEOREM HooksAllSeen == HookSpec => []HooksSeen
<1>1. HookIInv => HooksSeen
  <2> SUFFICES ASSUME HookIInv PROVE HooksSeen
    OBVIOUS
  <2> USE HooksAssumption DEF kHookListSingularIdx
  <2>1. HookTypeOK
    BY DEF HookIInv, Types, HookTypeOK, CallInv, FrameInv
  <2>2. EndExact
    BY EndIsMax DEF HookIInv, Types, EndInv, EndExact
  <2>3. \A f \in Traversed : f \in Frames /\ f.i >= f.end /\ FrameInv(f, priv_data)
    <3> SUFFICES ASSUME NEW r \in Readers, NEW n \in DOMAIN call[r] PROVE call[r][n] \in Frames /\ FrameInv(call[r][n], priv_data)
      BY DEF Traversed, Range
    <3>1. call[r] \in Seq(Frames)
      BY DEF HookIInv, Types
    <3>2. call[r][n] \in Frames
      BY <3>1, ElementOfSeq, LenProperties
    <3> QED
      BY <3>2 DEF HookIInv, CallInv
  <2>4. StaySeen
    <3> SUFFICES ASSUME NEW f \in Traversed, NEW h \in f.stay \ {Singular} PROVE h \in Range(f.hooks)
      BY DEF StaySeen
    <3>1. f.i \in Nat /\ f.end \in Nat /\ f.i >= f.end /\ FrameInv(f, priv_data)
      BY <2>3 DEF Frames
    <3> QED
      BY <3>1 DEF FrameInv, Slots
  <2>5. NoGhost
    BY <2>3 DEF NoGhost, FrameInv
  <2> QED
    BY <2>1, <2>2, <2>4, <2>5, InvInitializedOnce DEF HooksSeen
<1> QED
  BY <1>1, HookInvariant, PTL

------------------------------------------------------------------------------
(* The central free lists.                                                  *)

SomeClass == Classes \cup {NoClass}
Calls == [pc : Pcs, c : SomeClass, list : SUBSET Objects, n : Nat, populated : BOOLEAN,
          other : SomeClass, force : BOOLEAN, evicted : BOOLEAN, drop : SUBSET Objects,
          from : SomeClass, after : {"idle", "revert"}, span : SUBSET Spans]
InRelease == {"release", "delete", "relock"}

CentralTypes ==
  /\ lock \in [Classes -> Clients \cup {NoThread}]
  /\ cache_size \in [Classes -> Nat] /\ slots \in [Classes -> Seq(SUBSET Objects)]
  /\ nonempty \in [Classes -> Seq(Spans)] /\ empty \in [Classes -> SUBSET Spans]
  /\ num_spans \in [Classes -> Int] /\ counter \in [Classes -> Int]
  /\ class \in [Spans -> SomeClass]
  /\ objects \in [Spans -> SUBSET Objects] /\ refcount \in [Spans -> 0..SpanObjects]
  /\ held \in [Clients -> SUBSET Objects] /\ th \in [Clients -> Calls]

\* What is set at each place of a call.
Control(x) ==
  /\ x.pc # "idle" => x.c \in Classes
  /\ x.pc = "invert" => x.other \in Classes
  /\ IF x.pc \in InRelease THEN x.from \in Classes ELSE x.drop = {}
  /\ x.pc \in {"idle", "remove", "populate", "populated"} => x.list = {}
  /\ x.pc \notin {"delete", "populated"} => x.span = {}
Controls == \A t \in Clients : Control(th[t])

\* The locks are held exactly by the threads that are at a place with a lock.
HasLock(x, c) == \/ x.pc \in {"evict", "fetch"} /\ x.c = c
                 \/ x.pc = "release" /\ x.from = c
LockInv == \A c \in Classes, t \in Clients : lock[c] = t <=> HasLock(th[t], c)

\* A span that is cut up is on a list of its class, or on its way between the
\* lists and the page heap with one thread.
Mine(c) == Range(nonempty[c]) \cup empty[c]
OnList(s, c) ==
  /\ class[s] = c /\ refcount[s] = SpanObjects - Cardinality(objects[s])
  /\ s \in empty[c] <=> objects[s] = {}
  /\ s \in empty[c] => s \notin Range(nonempty[c])
  /\ \A t \in Clients : s \notin th[t].span
OnTheWay(s, t) ==
  /\ th[t].span = {s} /\ class[s] # NoClass
  /\ \A u \in Clients : s \in th[u].span => u = t
  /\ th[t].pc = "populated" => class[s] = th[t].c /\ objects[s] = ObjectsOf(s) /\ refcount[s] = 0
  /\ th[t].pc = "delete" => objects[s] = {}
SpanInv ==
  /\ \A c \in Classes : IsInjective(nonempty[c])
  /\ \A s \in Spans : objects[s] \subseteq ObjectsOf(s)
  /\ \A s \in Spans, c \in Classes : s \in Mine(c) => OnList(s, c)
  /\ \A s \in Spans, t \in Clients : s \in th[t].span => OnTheWay(s, t)
  /\ \A s \in Spans : class[s] # NoClass => s \in Mine(class[s]) \/ \E t \in Clients : s \in th[t].span

\* Objects are where only objects of one class belong.
ClassInv ==
  /\ \A c \in Classes : \A i \in DOMAIN slots[c] : \A o \in slots[c][i] : class[o[1]] = c
  /\ \A t \in Clients : \A o \in OwnList(th[t]) : class[o[1]] = th[t].c
  /\ \A t \in Clients : \A o \in th[t].drop : class[o[1]] = th[t].from

FreeOf(c) == UNION {objects[s] : s \in Mine(c)}
CountInv == \A c \in Classes : num_spans[c] = Cardinality(Mine(c)) /\ counter[c] = Cardinality(FreeOf(c))

IInv == CentralTypes /\ Controls /\ LockInv /\ CacheBounded /\ SpanInv /\ ClassInv /\ Conserved /\ CountInv

-----------------------------------------------------------------------------
(* Sets of objects, and the operations on the lists of spans and the slots.  *)

LEMMA ObjectsOfIs ==
  ASSUME NEW s \in Spans
  PROVE  /\ ObjectsOf(s) \subseteq Objects
         /\ \A o \in Objects : o \in ObjectsOf(s) <=> o[1] = s
         /\ IsFiniteSet(ObjectsOf(s)) /\ Cardinality(ObjectsOf(s)) = SpanObjects
<1>1. IsFiniteSet({s}) /\ Cardinality({s}) = 1
  BY FS_Singleton
<1>2. IsFiniteSet(1..SpanObjects) /\ Cardinality(1..SpanObjects) = SpanObjects
  BY CentralAssumption, FS_Interval
<1>3. /\ IsFiniteSet({s} \X (1..SpanObjects))
      /\ Cardinality({s} \X (1..SpanObjects)) = Cardinality({s}) * Cardinality(1..SpanObjects)
  BY <1>1, <1>2, FS_Product, Zenon
<1>4. Cardinality(ObjectsOf(s)) = 1 * SpanObjects
  BY <1>1, <1>2, <1>3, Zenon DEF ObjectsOf
<1>5. 1 * SpanObjects = SpanObjects
  BY CentralAssumption
<1> QED
  BY <1>3, <1>4, <1>5 DEF ObjectsOf, Objects

LEMMA ObjectsFinite == IsFiniteSet(Objects)
<1>1. IsFiniteSet(1..SpanObjects)
  BY CentralAssumption, FS_Interval
<1> QED
  BY <1>1, CentralAssumption, FS_Product DEF Objects

\* A finite set has subsets of every size up to its own.
LEMMA SomeIs ==
  ASSUME NEW S, IsFiniteSet(S), NEW n \in Nat, n <= Cardinality(S)
  PROVE  Some(S, n) \subseteq S /\ Cardinality(Some(S, n)) = n
<1>1. PICK f \in Bijection(1..Cardinality(S), S) : TRUE
  BY FS_CardinalityType DEF ExistsBijection
<1> DEFINE T == {f[i] : i \in 1..n}
           g == [i \in 1..n |-> f[i]]
<1>2. Cardinality(S) \in Nat /\ 1..n \subseteq 1..Cardinality(S)
  BY FS_CardinalityType
<1>3. g \in Bijection(1..n, T)
  BY <1>1, <1>2 DEF Bijection, Injection, IsInjective, Surjection
<1>4. T \in SUBSET S /\ Cardinality(T) = n
  BY <1>1, <1>2, <1>3, FS_CountingElements DEF ExistsBijection, Bijection, Injection
<1>5. \E U \in SUBSET S : Cardinality(U) = n
  BY <1>4
<1> QED
  BY <1>5 DEF Some

LEMMA CutIs ==
  ASSUME NEW S, NEW q \in Seq(S), IsInjective(q), NEW s \in Range(q)
  PROVE  Cut(q, s) \in Seq(S) /\ IsInjective(Cut(q, s)) /\ Range(Cut(q, s)) = Range(q) \ {s}
<1> DEFINE k == CHOOSE j \in DOMAIN q : q[j] = s
           r == [j \in 1..(Len(q) - 1) |-> IF j < k THEN q[j] ELSE q[j + 1]]
<1>1. k \in DOMAIN q /\ q[k] = s
  BY DEF Range
<1>2. Len(q) \in Nat /\ DOMAIN q = 1..Len(q) /\ q \in [1..Len(q) -> S]
  BY LenProperties
<1>3. Cut(q, s) = r
  BY DEF Cut
<1> HIDE DEF k
<1>4. r \in [1..(Len(q) - 1) -> S] /\ Len(q) - 1 \in Nat
  BY <1>1, <1>2
<1>5. r \in Seq(S) /\ Len(r) = Len(q) - 1
  BY <1>4, IsASeq
<1>6. IsInjective(r)
  BY <1>1, <1>2 DEF IsInjective
<1>7. ASSUME NEW j \in DOMAIN q, j # k PROVE q[j] # s /\ q[j] \in Range(r)
  <2>1. q[j] # s
    BY <1>1, <1>7 DEF IsInjective
  <2>2. CASE j < k
    <3>1. j \in DOMAIN r /\ r[j] = q[j]
      BY <1>1, <1>2, <2>2
    <3> QED
      BY <3>1, <2>1 DEF Range
  <2>3. CASE j > k
    <3>1. j - 1 \in DOMAIN r /\ r[j - 1] = q[j]
      BY <1>1, <1>2, <2>3
    <3> QED
      BY <3>1, <2>1 DEF Range
  <2> QED
    BY <1>1, <1>2, <1>7, <2>1, <2>2, <2>3
<1>8. ASSUME NEW j \in DOMAIN r PROVE r[j] \in Range(q) \ {s}
  <2>1. PICK i \in DOMAIN q : i # k /\ r[j] = q[i]
    BY <1>1, <1>2
  <2> QED
    BY <2>1, <1>7 DEF Range
<1>9. Range(r) = Range(q) \ {s}
  BY <1>1, <1>7, <1>8 DEF Range
<1> QED
  BY <1>3, <1>5, <1>6, <1>9

LEMMA PushIs ==
  ASSUME NEW S, NEW q \in Seq(S), NEW s \in S
  PROVE  /\ <<s>> \o q \in Seq(S) /\ Range(<<s>> \o q) = Range(q) \cup {s}
         /\ IsInjective(q) /\ s \notin Range(q) => IsInjective(<<s>> \o q)
<1> DEFINE r == <<s>> \o q
<1>1. Len(q) \in Nat /\ DOMAIN q = 1..Len(q)
  BY LenProperties
<1>2. r \in Seq(S) /\ Len(r) = Len(q) + 1 /\ DOMAIN r = 1..(Len(q) + 1)
  BY <1>1, ConcatProperties, LenProperties
<1>3. r[1] = s /\ \A i \in 2..(Len(q) + 1) : r[i] = q[i - 1]
  BY <1>1
<1> HIDE DEF r
<1>4. Range(r) = Range(q) \cup {s}
  <2>1. \A i \in DOMAIN r : r[i] \in Range(q) \cup {s}
    BY <1>1, <1>2, <1>3 DEF Range
  <2>2. \A i \in DOMAIN q : i + 1 \in DOMAIN r /\ r[i + 1] = q[i]
    BY <1>1, <1>2, <1>3
  <2>3. 1 \in DOMAIN r
    BY <1>1, <1>2
  <2> QED
    BY <2>1, <2>2, <2>3, <1>3 DEF Range
<1>5. ASSUME IsInjective(q), s \notin Range(q) PROVE IsInjective(r)
  <2>1. ASSUME NEW a \in DOMAIN r, NEW b \in DOMAIN r, r[a] = r[b], a # 1, b # 1 PROVE a = b
    <3>1. a - 1 \in DOMAIN q /\ b - 1 \in DOMAIN q /\ q[a - 1] = q[b - 1]
      BY <1>1, <1>2, <1>3, <2>1
    <3> QED
      BY <3>1, <1>2, <1>5 DEF IsInjective
  <2>2. ASSUME NEW a \in DOMAIN r, a # 1 PROVE r[a] # s
    <3>1. a - 1 \in DOMAIN q /\ r[a] = q[a - 1]
      BY <1>1, <1>2, <1>3, <2>2
    <3> QED
      BY <3>1, <1>5 DEF Range
  <2> QED
    BY <1>3, <2>1, <2>2 DEF IsInjective
<1> QED
  BY <1>2, <1>4, <1>5 DEF r

LEMMA TailIs ==
  ASSUME NEW S, NEW q \in Seq(S), q # <<>>
  PROVE  /\ Head(q) \in Range(q) /\ Tail(q) \in Seq(S)
         /\ IsInjective(q) => IsInjective(Tail(q)) /\ Range(Tail(q)) = Range(q) \ {Head(q)}
<1>1. Len(q) \in Nat \ {0} /\ DOMAIN q = 1..Len(q) /\ Head(q) = q[1]
  BY LenProperties, EmptySeq
<1>2. Tail(q) \in Seq(S) /\ DOMAIN Tail(q) = 1..(Len(q) - 1) /\ \A i \in 1..(Len(q) - 1) : Tail(q)[i] = q[i + 1]
  BY <1>1, HeadTailProperties, LenProperties
<1>3. Head(q) \in Range(q)
  BY <1>1 DEF Range
<1>4. ASSUME IsInjective(q) PROVE IsInjective(Tail(q))
  BY <1>1, <1>2, <1>4 DEF IsInjective
<1>5. ASSUME IsInjective(q) PROVE Range(Tail(q)) = Range(q) \ {Head(q)}
  <2>1. \A i \in DOMAIN Tail(q) : Tail(q)[i] \in Range(q) \ {Head(q)}
    BY <1>1, <1>2, <1>5 DEF IsInjective, Range
  <2>2. \A i \in DOMAIN q : i # 1 => i - 1 \in DOMAIN Tail(q) /\ Tail(q)[i - 1] = q[i]
    BY <1>1, <1>2
  <2> QED
    BY <1>1, <2>1, <2>2 DEF Range
<1> QED
  BY <1>2, <1>3, <1>4, <1>5

LEMMA PoppedIs ==
  ASSUME NEW S, NEW q \in Seq(S), q # <<>>
  PROVE  /\ Len(q) \in Nat \ {0} /\ DOMAIN q = 1..Len(q) /\ Top(q) = q[Len(q)] /\ Top(q) \in S
         /\ Popped(q) \in Seq(S) /\ Len(Popped(q)) = Len(q) - 1 /\ DOMAIN Popped(q) = 1..(Len(q) - 1)
         /\ \A i \in 1..(Len(q) - 1) : Popped(q)[i] = q[i]
<1>1. Len(q) \in Nat \ {0} /\ DOMAIN q = 1..Len(q)
  BY LenProperties, EmptySeq
<1>2. Top(q) \in S
  BY <1>1, ElementOfSeq DEF Top
<1> QED
  BY <1>1, <1>2, SubSeqProperties, LenProperties DEF Top, Popped

-----------------------------------------------------------------------------
(* What a step of one thread does to the places of an object.               *)

Others(t) == th' \in [Clients -> Calls] /\ \A u \in Clients \ {t} : th'[u] = th[u]

LEMMA ListStep ==
  ASSUME NEW t \in Clients, Others(t), NEW x
  PROVE  /\ x \in OwnList(th[t]) <=> <<"list", t>> \in ListPlaces(x)
         /\ (x \in OwnList(th'[t]) <=> x \in OwnList(th[t])) => ListPlaces(x)' = ListPlaces(x)
         /\ x \in OwnList(th'[t]) => ListPlaces(x)' = ListPlaces(x) \cup {<<"list", t>>}
         /\ x \notin OwnList(th'[t]) => ListPlaces(x)' = ListPlaces(x) \ {<<"list", t>>}
<1> DEFINE own == OwnList(th[t])
           own2 == OwnList(th'[t])
<1>1. \A u \in Clients \ {t} : OwnList(th'[u]) = OwnList(th[u])
  BY DEF Others
<1>2. ListPlaces(x)' = {<<"list", u>> : u \in {v \in Clients : x \in OwnList(th'[v])}}
  BY DEF ListPlaces, OwnList
<1> QED
  BY <1>1, <1>2 DEF ListPlaces

LEMMA DropStep ==
  ASSUME NEW t \in Clients, Others(t), NEW x
  PROVE  /\ x \in th[t].drop <=> <<"drop", t>> \in DropPlaces(x)
         /\ (x \in th'[t].drop <=> x \in th[t].drop) => DropPlaces(x)' = DropPlaces(x)
         /\ x \in th'[t].drop => DropPlaces(x)' = DropPlaces(x) \cup {<<"drop", t>>}
         /\ x \notin th'[t].drop => DropPlaces(x)' = DropPlaces(x) \ {<<"drop", t>>}
  BY DEF Others, DropPlaces

LEMMA HeldStep ==
  ASSUME CentralTypes, NEW t \in Clients, NEW A \in SUBSET Objects, held' = [held EXCEPT ![t] = A], NEW x
  PROVE  /\ x \in held[t] <=> <<"held", t>> \in HeldPlaces(x)
         /\ (x \in A <=> x \in held[t]) => HeldPlaces(x)' = HeldPlaces(x)
         /\ x \in A => HeldPlaces(x)' = HeldPlaces(x) \cup {<<"held", t>>}
         /\ x \notin A => HeldPlaces(x)' = HeldPlaces(x) \ {<<"held", t>>}
  BY DEF CentralTypes, HeldPlaces

LEMMA HeldSame ==
  ASSUME CentralTypes, NEW t \in Clients, NEW A \in SUBSET Objects, held' = [held EXCEPT ![t] = A], NEW x, x \in A <=> x \in held[t]
  PROVE  HeldPlaces(x)' = HeldPlaces(x)
  BY HeldStep

LEMMA HeldLost ==
  ASSUME CentralTypes, NEW t \in Clients, NEW A \in SUBSET Objects, held' = [held EXCEPT ![t] = A], NEW x, x \notin A
  PROVE  HeldPlaces(x)' = HeldPlaces(x) \ {<<"held", t>>}
  BY HeldStep

LEMMA SpanStep ==
  ASSUME CentralTypes, NEW s \in Spans, NEW A \in SUBSET Objects, objects' = [objects EXCEPT ![s] = A], NEW x
  PROVE  /\ x \in objects[s] <=> <<"span", s>> \in SpanPlaces(x)
         /\ (x \in A <=> x \in objects[s]) => SpanPlaces(x)' = SpanPlaces(x)
         /\ x \in A => SpanPlaces(x)' = SpanPlaces(x) \cup {<<"span", s>>}
         /\ x \notin A => SpanPlaces(x)' = SpanPlaces(x) \ {<<"span", s>>}
  BY DEF CentralTypes, SpanPlaces

\* The slots of an object, one by one.
LEMMA InSlot ==
  ASSUME NEW x, NEW p
  PROVE  p \in SlotPlaces(x) <=> \E c \in Classes : \E i \in DOMAIN slots[c] : x \in slots[c][i] /\ p = <<"slot", c, i>>
<1>1. p \in SlotPlaces(x) <=> \E c \in Classes : p \in {<<"slot", c, i>> : i \in {y \in DOMAIN slots[c] : x \in slots[c][y]}}
  BY Zenon DEF SlotPlaces
<1> QED
  BY <1>1

LEMMA InSlotNext ==
  ASSUME NEW x, NEW p
  PROVE  p \in SlotPlaces(x)' <=> \E c \in Classes : \E i \in DOMAIN slots'[c] : x \in slots'[c][i] /\ p = <<"slot", c, i>>
<1>1. p \in SlotPlaces(x)' <=> \E c \in Classes : p \in {<<"slot", c, i>> : i \in {y \in DOMAIN slots'[c] : x \in slots'[c][y]}}
  BY Zenon DEF SlotPlaces
<1> QED
  BY <1>1

LEMMA PushStep ==
  ASSUME CentralTypes, NEW c \in Classes, NEW A \in SUBSET Objects, slots' = [slots EXCEPT ![c] = Append(@, A)]
  PROVE  /\ slots' \in [Classes -> Seq(SUBSET Objects)] /\ Len(slots'[c]) = Len(slots[c]) + 1
         /\ \A d \in Classes \ {c} : slots'[d] = slots[d]
         /\ Len(slots[c]) + 1 \notin DOMAIN slots[c] /\ DOMAIN slots'[c] = DOMAIN slots[c] \cup {Len(slots[c]) + 1}
         /\ slots'[c][Len(slots[c]) + 1] = A /\ \A i \in DOMAIN slots[c] : slots'[c][i] = slots[c][i]
<1> DEFINE n == Len(slots[c])
           q == slots[c]
           r == Append(q, A)
<1>1. q \in Seq(SUBSET Objects) /\ n \in Nat /\ DOMAIN q = 1..n
  BY LenProperties DEF CentralTypes
<1>2. /\ r \in Seq(SUBSET Objects) /\ Len(r) = n + 1 /\ DOMAIN r = 1..(n + 1) /\ r[n + 1] = A
      /\ DOMAIN r = DOMAIN q \cup {n + 1} /\ n + 1 \notin DOMAIN q
      /\ \A i \in 1..n : r[i] = q[i]
  BY <1>1, AppendProperties, LenProperties
<1>3. slots'[c] = r /\ \A d \in Classes \ {c} : slots'[d] = slots[d]
  BY DEF CentralTypes
<1>4. slots' \in [Classes -> Seq(SUBSET Objects)]
  BY <1>2 DEF CentralTypes
<1> HIDE DEF r
<1> QED
  BY <1>1, <1>2, <1>3, <1>4

LEMMA PushPlaces ==
  ASSUME CentralTypes, NEW c \in Classes, NEW A \in SUBSET Objects, slots' = [slots EXCEPT ![c] = Append(@, A)], NEW x
  PROVE  /\ x \in A => SlotPlaces(x)' = SlotPlaces(x) \cup {<<"slot", c, Len(slots[c]) + 1>>}
         /\ x \notin A => SlotPlaces(x)' = SlotPlaces(x)
<1> DEFINE k == Len(slots[c]) + 1
<1>1. /\ \A d \in Classes \ {c} : slots'[d] = slots[d]
      /\ k \notin DOMAIN slots[c] /\ DOMAIN slots'[c] = DOMAIN slots[c] \cup {k}
      /\ slots'[c][k] = A /\ \A i \in DOMAIN slots[c] : slots'[c][i] = slots[c][i]
  BY PushStep
<1> HIDE DEF k
<1>2. ASSUME NEW p PROVE p \in SlotPlaces(x)' <=> p \in SlotPlaces(x) \/ (x \in A /\ p = <<"slot", c, k>>)
  <2>1. p \in SlotPlaces(x)' <=> \E d \in Classes : \E i \in DOMAIN slots'[d] : x \in slots'[d][i] /\ p = <<"slot", d, i>>
    BY InSlotNext
  <2>2. p \in SlotPlaces(x) <=> \E d \in Classes : \E i \in DOMAIN slots[d] : x \in slots[d][i] /\ p = <<"slot", d, i>>
    BY InSlot
  <2>3. ASSUME NEW d \in Classes, NEW i \in DOMAIN slots'[d], x \in slots'[d][i], p = <<"slot", d, i>>
        PROVE  p \in SlotPlaces(x) \/ (x \in A /\ p = <<"slot", c, k>>)
    <3>1. CASE d # c
      BY <3>1, <2>2, <2>3, <1>1, Zenon
    <3>2. CASE d = c /\ i = k
      BY <3>2, <2>3, <1>1
    <3>3. CASE d = c /\ i # k
      <4>1. i \in DOMAIN slots[c] /\ x \in slots[c][i]
        BY <3>3, <2>3, <1>1
      <4> QED
        BY <4>1, <3>3, <2>2, <2>3, Zenon
    <3> QED
      BY <3>1, <3>2, <3>3
  <2>4. ASSUME NEW d \in Classes, NEW i \in DOMAIN slots[d], x \in slots[d][i]
        PROVE  i \in DOMAIN slots'[d] /\ x \in slots'[d][i]
    BY <2>4, <1>1
  <2>5. x \in A => k \in DOMAIN slots'[c] /\ x \in slots'[c][k]
    BY <1>1
  <2> QED
    BY <2>1, <2>2, <2>3, <2>4, <2>5
<1>3. x \in A => SlotPlaces(x)' = SlotPlaces(x) \cup {<<"slot", c, k>>}
  BY <1>2, Zenon
<1>4. x \notin A => SlotPlaces(x)' = SlotPlaces(x)
  <2>1. x \notin A => SlotPlaces(x)' \subseteq SlotPlaces(x) /\ SlotPlaces(x) \subseteq SlotPlaces(x)'
    BY <1>2, Zenon
  <2> QED
    BY <2>1
<1> QED
  BY <1>3, <1>4 DEF k

LEMMA PushedPlaces ==
  ASSUME CentralTypes, NEW c \in Classes, NEW A \in SUBSET Objects, slots' = [slots EXCEPT ![c] = Append(@, A)], NEW x \in A
  PROVE  SlotPlaces(x)' = SlotPlaces(x) \cup {<<"slot", c, Len(slots[c]) + 1>>}
  BY PushPlaces

LEMMA PopStep ==
  ASSUME CentralTypes, NEW c \in Classes, slots[c] # <<>>, slots' = [slots EXCEPT ![c] = Popped(@)]
  PROVE  /\ slots' \in [Classes -> Seq(SUBSET Objects)] /\ Len(slots[c]) \in Nat \ {0} /\ Len(slots'[c]) = Len(slots[c]) - 1
         /\ \A d \in Classes \ {c} : slots'[d] = slots[d]
         /\ Len(slots[c]) \in DOMAIN slots[c] /\ Top(slots[c]) = slots[c][Len(slots[c])] /\ Top(slots[c]) \subseteq Objects
         /\ DOMAIN slots'[c] = DOMAIN slots[c] \ {Len(slots[c])}
         /\ \A i \in DOMAIN slots'[c] : slots'[c][i] = slots[c][i]
<1> DEFINE n == Len(slots[c])
           q == slots[c]
           r == Popped(q)
<1>1. /\ n \in Nat \ {0} /\ DOMAIN q = 1..n /\ Top(q) = q[n] /\ Top(q) \subseteq Objects
      /\ r \in Seq(SUBSET Objects) /\ Len(r) = n - 1 /\ DOMAIN r = 1..(n - 1)
      /\ \A i \in 1..(n - 1) : r[i] = q[i]
  <2>1. q \in Seq(SUBSET Objects) /\ q # <<>>
    BY DEF CentralTypes
  <2>2. Top(q) \in SUBSET Objects
    BY <2>1, PoppedIs
  <2> QED
    BY <2>1, <2>2, PoppedIs
<1>2. slots'[c] = r /\ \A d \in Classes \ {c} : slots'[d] = slots[d]
  BY DEF CentralTypes
<1>3. slots' \in [Classes -> Seq(SUBSET Objects)]
  BY <1>1 DEF CentralTypes
<1> HIDE DEF r
<1>4. n \in DOMAIN q /\ DOMAIN r = DOMAIN q \ {n} /\ \A i \in DOMAIN r : r[i] = q[i]
  BY <1>1
<1> QED
  BY <1>1, <1>2, <1>3, <1>4

LEMMA PopPlaces ==
  ASSUME CentralTypes, NEW c \in Classes, slots[c] # <<>>, slots' = [slots EXCEPT ![c] = Popped(@)], NEW x
  PROVE  /\ SlotPlaces(x)' = SlotPlaces(x) \ {<<"slot", c, Len(slots[c])>>}
         /\ x \in Top(slots[c]) <=> <<"slot", c, Len(slots[c])>> \in SlotPlaces(x)
<1> DEFINE n == Len(slots[c])
<1>1. /\ \A d \in Classes \ {c} : slots'[d] = slots[d]
      /\ n \in DOMAIN slots[c] /\ Top(slots[c]) = slots[c][n]
      /\ DOMAIN slots'[c] = DOMAIN slots[c] \ {n} /\ \A i \in DOMAIN slots'[c] : slots'[c][i] = slots[c][i]
  BY PopStep
<1> HIDE DEF n
<1>2. ASSUME NEW p PROVE p \in SlotPlaces(x)' <=> p \in SlotPlaces(x) /\ p # <<"slot", c, n>>
  <2>1. p \in SlotPlaces(x)' <=> \E d \in Classes : \E i \in DOMAIN slots'[d] : x \in slots'[d][i] /\ p = <<"slot", d, i>>
    BY InSlotNext
  <2> QED
    BY <2>1, <1>1, InSlot
<1>3. SlotPlaces(x)' = SlotPlaces(x) \ {<<"slot", c, n>>}
  BY <1>2
<1>4. x \in Top(slots[c]) <=> <<"slot", c, n>> \in SlotPlaces(x)
  BY <1>1, InSlot
<1> QED
  BY <1>3, <1>4 DEF n

\* An object with a place has no other, and places of one kind are no places of another.
LEMMA Alone ==
  ASSUME Conserved, NEW x \in Objects, NEW p \in Places(x)
  PROVE  /\ Places(x) = {p} /\ class[x[1]] # NoClass /\ ~leaving(x[1])
         /\ p[1] # "span" => SpanPlaces(x) = {}
         /\ p[1] # "slot" => SlotPlaces(x) = {}
         /\ p[1] # "held" => HeldPlaces(x) = {}
         /\ p[1] # "list" => ListPlaces(x) = {}
         /\ p[1] # "drop" => DropPlaces(x) = {}
<1>1. Places(x) = {p} /\ class[x[1]] # NoClass /\ ~leaving(x[1])
  BY DEF Conserved
<1>2. /\ \A q \in SpanPlaces(x) : q[1] = "span"
      /\ \A q \in SlotPlaces(x) : q[1] = "slot"
      /\ \A q \in HeldPlaces(x) : q[1] = "held"
      /\ \A q \in ListPlaces(x) : q[1] = "list"
      /\ \A q \in DropPlaces(x) : q[1] = "drop"
  BY DEF SpanPlaces, SlotPlaces, HeldPlaces, ListPlaces, DropPlaces
<1> QED
  BY <1>1, <1>2 DEF Places

\* Objects that stay or go from one place to another are conserved.
LEMMA Moved ==
  ASSUME Conserved, UNCHANGED class, \A s \in Spans : leaving(s)' <=> leaving(s),
         \A x \in Objects : Places(x)' = Places(x) \/ (Places(x) # {} /\ \E q : Places(x)' = {q})
  PROVE  Conserved'
<1>1. \A x \in Objects : x[1] \in Spans
  BY DEF Objects
<1> QED
  BY <1>1 DEF Conserved

-----------------------------------------------------------------------------
(* What a step of one thread does to the rest of the invariant.             *)

LEMMA ControlStep ==
  ASSUME Controls, NEW t \in Clients, Others(t), Control(th'[t])
  PROVE  Controls'
  BY DEF Controls, Control, Others

LEMMA LockSame ==
  ASSUME LockInv, NEW t \in Clients, Others(t), UNCHANGED lock,
         \A c \in Classes : HasLock(th'[t], c) <=> HasLock(th[t], c)
  PROVE  LockInv'
<1>1. \A u \in Clients, c \in Classes : HasLock(th'[u], c) <=> HasLock(th[u], c)
  BY DEF Others
<1> QED
  BY <1>1 DEF LockInv, HasLock

LEMMA LockTaken ==
  ASSUME CentralTypes, LockInv, NEW t \in Clients, Others(t), NEW d \in Classes, Acquire(t, d),
         \A c \in Classes : ~HasLock(th[t], c), \A c \in Classes : HasLock(th'[t], c) <=> c = d
  PROVE  LockInv' /\ lock' \in [Classes -> Clients \cup {NoThread}]
<1>1. \A u \in Clients \ {t}, c \in Classes : HasLock(th'[u], c) <=> HasLock(th[u], c)
  BY DEF Others
<1>2. lock[d] = NoThread /\ lock'[d] = t /\ \A c \in Classes \ {d} : lock'[c] = lock[c]
  BY DEF Acquire, CentralTypes
<1>3. \A u \in Clients, c \in Classes : lock'[c] = u <=> HasLock(th'[u], c)
  BY <1>1, <1>2, CentralAssumption DEF LockInv
<1>4. lock' \in [Classes -> Clients \cup {NoThread}]
  BY DEF Acquire, CentralTypes
<1> QED
  BY <1>3, <1>4 DEF LockInv, HasLock

LEMMA LockGiven ==
  ASSUME CentralTypes, LockInv, NEW t \in Clients, Others(t), NEW d \in Classes, Release(d),
         \A c \in Classes : HasLock(th[t], c) <=> c = d, \A c \in Classes : ~HasLock(th'[t], c)
  PROVE  LockInv' /\ lock' \in [Classes -> Clients \cup {NoThread}]
<1>1. \A u \in Clients \ {t}, c \in Classes : HasLock(th'[u], c) <=> HasLock(th[u], c)
  BY DEF Others
<1>2. lock[d] = t /\ lock'[d] = NoThread /\ \A c \in Classes \ {d} : lock'[c] = lock[c]
  BY DEF Release, CentralTypes, LockInv
<1>3. \A u \in Clients, c \in Classes : lock'[c] = u <=> HasLock(th'[u], c)
  BY <1>1, <1>2, CentralAssumption DEF LockInv
<1>4. lock' \in [Classes -> Clients \cup {NoThread}]
  BY DEF Release, CentralTypes
<1> QED
  BY <1>3, <1>4 DEF LockInv, HasLock

\* A step that touches no span, of a thread that has none on the way.
LEMMA SpansKept ==
  ASSUME SpanInv, CountInv, NEW t \in Clients, Others(t), UNCHANGED spans,
         th[t].span = {}, th'[t].span = {}
  PROVE  SpanInv' /\ CountInv' /\ (\A s : leaving(s)' <=> leaving(s)) /\ \A x : SpanPlaces(x)' = SpanPlaces(x)
<1>1. UNCHANGED <<nonempty, empty, num_spans, counter, class, objects, refcount>>
  BY DEF spans
<1>2. \A u \in Clients : th'[u].span = th[u].span /\ (th[u].span # {} => th'[u] = th[u])
  BY DEF Others
<1>3. CountInv'
  BY <1>1 DEF CountInv, Mine, FreeOf
<1>4. \A c \in Classes : Mine(c)' = Mine(c)
  BY <1>1 DEF Mine
<1>5. \A s \in Spans, c \in Classes : OnList(s, c) => OnList(s, c)'
  BY <1>1, <1>2 DEF OnList
<1>6. \A s \in Spans, u \in Clients : s \in th[u].span /\ OnTheWay(s, u) => OnTheWay(s, u)'
  BY <1>1, <1>2 DEF OnTheWay
<1>7. SpanInv'
  <2>1. \A c \in Classes : IsInjective(nonempty'[c])
    BY <1>1 DEF SpanInv
  <2>2. \A s \in Spans : ObjectsOf(s)' = ObjectsOf(s)
    BY DEF ObjectsOf
  <2>3. \A s \in Spans : (objects[s] \subseteq ObjectsOf(s))'
    BY <1>1, <2>2 DEF SpanInv
  <2>4. \A s \in Spans, c \in Classes : (s \in Mine(c) => OnList(s, c))'
    BY <1>4, <1>5 DEF SpanInv
  <2>5. \A s \in Spans, u \in Clients : (s \in th[u].span => OnTheWay(s, u))'
    BY <1>2, <1>6 DEF SpanInv
  <2>6. \A s \in Spans : (class[s] # NoClass => s \in Mine(class[s]) \/ \E u \in Clients : s \in th[u].span)'
    BY <1>1, <1>2 DEF SpanInv, Mine
  <2> QED
    BY <2>1, <2>3, <2>4, <2>5, <2>6 DEF SpanInv
<1>8. \A s : leaving(s)' <=> leaving(s)
  BY <1>2 DEF leaving
<1> QED
  BY <1>1, <1>3, <1>7, <1>8 DEF SpanPlaces

LEMMA ClassStep ==
  ASSUME ClassInv, NEW t \in Clients, Others(t), UNCHANGED class,
         \A c \in Classes : \A i \in DOMAIN slots'[c] : \A o \in slots'[c][i] : class[o[1]] = c,
         \A o \in OwnList(th'[t]) : class[o[1]] = th'[t].c, \A o \in th'[t].drop : class[o[1]] = th'[t].from
  PROVE  ClassInv'
<1>1. \A u \in Clients : u # t => th'[u] = th[u]
  BY DEF Others
<1>2. \A u \in Clients : \A o \in OwnList(th'[u]) : class[o[1]] = th'[u].c
  BY <1>1 DEF ClassInv
<1>3. \A u \in Clients : \A o \in th'[u].drop : class[o[1]] = th'[u].from
  BY <1>1 DEF ClassInv
<1> QED
  BY <1>2, <1>3 DEF ClassInv, OwnList

\* A step of thread t in its call that leaves the spans alone.
Stepped(t) ==
  /\ Others(t) /\ Control(th'[t]) /\ th[t].span = {} /\ th'[t].span = {} /\ UNCHANGED spans
  /\ LockInv' /\ lock' \in [Classes -> Clients \cup {NoThread}]
  /\ CacheBounded' /\ cache_size' \in [Classes -> Nat]

LEMMA Assemble ==
  ASSUME IInv, NEW t \in Clients, Stepped(t), ClassInv',
         slots' \in [Classes -> Seq(SUBSET Objects)], held' \in [Clients -> SUBSET Objects],
         \A x \in Objects : Places(x)' = Places(x) \/ (Places(x) # {} /\ \E q : Places(x)' = {q})
  PROVE  IInv'
<1> USE DEF IInv
<1>1. SpanInv' /\ CountInv' /\ (\A s : leaving(s)' <=> leaving(s)) /\ Controls'
  BY SpansKept, ControlStep DEF Stepped
<1>2. Conserved'
  BY <1>1, Moved DEF Stepped, spans
<1>3. CentralTypes'
  BY DEF CentralTypes, Stepped, Others, spans
<1> QED
  BY <1>1, <1>2, <1>3 DEF Stepped

\* Nothing changes hands.
LEMMA Quiet ==
  ASSUME IInv, NEW t \in Clients, Stepped(t), UNCHANGED <<slots, held>>,
         OwnList(th'[t]) = OwnList(th[t]), th'[t].drop = th[t].drop,
         OwnList(th[t]) # {} => th'[t].c = th[t].c, th[t].drop # {} => th'[t].from = th[t].from
  PROVE  IInv'
<1>1. UNCHANGED class
  BY DEF Stepped, spans
<1>2. ClassInv'
  <2>1. \A c \in Classes : \A i \in DOMAIN slots'[c] : \A o \in slots'[c][i] : class[o[1]] = c
    BY DEF IInv, ClassInv
  <2>2. \A o \in OwnList(th'[t]) : class[o[1]] = th'[t].c
    BY DEF IInv, ClassInv
  <2>3. \A o \in th'[t].drop : class[o[1]] = th'[t].from
    BY DEF IInv, ClassInv
  <2> QED
    BY <1>1, <2>1, <2>2, <2>3, ClassStep DEF Stepped, IInv
<1>3. \A x : Places(x)' = Places(x)
  <2> TAKE x
  <2>1. SpanPlaces(x)' = SpanPlaces(x)
    BY SpansKept DEF Stepped, IInv
  <2>2. SlotPlaces(x)' = SlotPlaces(x) /\ HeldPlaces(x)' = HeldPlaces(x)
    BY DEF SlotPlaces, HeldPlaces
  <2>3. ListPlaces(x)' = ListPlaces(x) /\ DropPlaces(x)' = DropPlaces(x)
    BY ListStep, DropStep DEF Stepped
  <2> QED
    BY <2>1, <2>2, <2>3 DEF Places
<1> QED
  BY <1>2, <1>3, Assemble DEF IInv, CentralTypes

\* The thread's list is what is left to be released.
LEMMA ToDrop ==
  ASSUME IInv, NEW t \in Clients, Stepped(t), UNCHANGED <<slots, held>>,
         th[t].drop = {}, th'[t].drop = OwnList(th[t]), OwnList(th'[t]) = {}, th'[t].from = th[t].c
  PROVE  IInv'
<1>1. UNCHANGED class
  BY DEF Stepped, spans
<1>2. ClassInv'
  <2>1. \A c \in Classes : \A i \in DOMAIN slots'[c] : \A o \in slots'[c][i] : class[o[1]] = c
    BY DEF IInv, ClassInv
  <2>2. \A o \in th'[t].drop : class[o[1]] = th'[t].from
    BY DEF IInv, ClassInv
  <2> QED
    BY <1>1, <2>1, <2>2, ClassStep DEF Stepped, IInv
<1>3. ASSUME NEW x \in Objects PROVE Places(x)' = Places(x) \/ (Places(x) # {} /\ \E q : Places(x)' = {q})
  <2>1. SpanPlaces(x)' = SpanPlaces(x)
    BY SpansKept DEF Stepped, IInv
  <2>2. SlotPlaces(x)' = SlotPlaces(x) /\ HeldPlaces(x)' = HeldPlaces(x)
    BY DEF SlotPlaces, HeldPlaces
  <2>3. CASE x \in OwnList(th[t])
    <3>1. <<"list", t>> \in Places(x)
      BY <2>3, ListStep DEF Stepped, Places
    <3>2. /\ Places(x) = {<<"list", t>>} /\ SpanPlaces(x) = {} /\ SlotPlaces(x) = {}
          /\ HeldPlaces(x) = {} /\ DropPlaces(x) = {}
      BY <3>1, Alone DEF IInv
    <3>3. ListPlaces(x)' = ListPlaces(x) \ {<<"list", t>>}
      BY <2>3, ListStep, Zenon DEF Stepped
    <3>4. DropPlaces(x)' = DropPlaces(x) \cup {<<"drop", t>>}
      <4>1. x \in th'[t].drop
        BY <2>3
      <4> QED
        BY <4>1, DropStep, Zenon DEF Stepped
    <3>5. ListPlaces(x)' = {} /\ DropPlaces(x)' = {<<"drop", t>>}
      BY <3>2, <3>3, <3>4 DEF Places
    <3>6. Places(x)' = {<<"drop", t>>}
      BY <2>1, <2>2, <3>2, <3>5 DEF Places
    <3> QED
      BY <3>2, <3>6
  <2>4. CASE x \notin OwnList(th[t])
    <3>1. ListPlaces(x)' = ListPlaces(x)
      BY <2>4, ListStep, Zenon DEF Stepped
    <3>2. DropPlaces(x)' = DropPlaces(x)
      BY <2>4, DropStep, Zenon DEF Stepped
    <3> QED
      BY <2>1, <2>2, <3>1, <3>2 DEF Places
  <2> QED
    BY <2>3, <2>4
<1> QED
  BY <1>2, <1>3, Assemble DEF IInv, CentralTypes

\* The thread's list is put into a slot, and its call is over.
LEMMA ToSlot ==
  ASSUME IInv, NEW t \in Clients, Stepped(t), UNCHANGED held, NEW c \in Classes, NEW A \in SUBSET Objects,
         slots' = [slots EXCEPT ![c] = Append(@, A)], c = th[t].c, A = OwnList(th[t]),
         OwnList(th'[t]) = {}, th[t].drop = {}, th'[t].drop = {}
  PROVE  IInv'
<1>1. UNCHANGED class
  BY DEF Stepped, spans
<1>2. CentralTypes
  BY DEF IInv
<1>3. /\ slots' \in [Classes -> Seq(SUBSET Objects)]
      /\ \A d \in Classes \ {c} : slots'[d] = slots[d]
      /\ \A i \in DOMAIN slots'[c] : (i \in DOMAIN slots[c] /\ slots'[c][i] = slots[c][i]) \/ slots'[c][i] = A
  <2> DEFINE k == Len(slots[c]) + 1
  <2>1. slots' \in [Classes -> Seq(SUBSET Objects)] /\ \A d \in Classes \ {c} : slots'[d] = slots[d]
    BY <1>2, PushStep, Zenon
  <2>2. DOMAIN slots'[c] = DOMAIN slots[c] \cup {k}
    BY <1>2, PushStep, Zenon
  <2>3. slots'[c][k] = A /\ \A i \in DOMAIN slots[c] : slots'[c][i] = slots[c][i]
    BY <1>2, PushStep, ZenonT(60)
  <2> HIDE DEF k
  <2> QED
    BY <2>1, <2>2, <2>3
<1>4. \A o \in A : class[o[1]] = c
  BY DEF IInv, ClassInv
<1>5. ClassInv'
  <2>1. \A d \in Classes : \A i \in DOMAIN slots'[d] : \A o \in slots'[d][i] : class[o[1]] = d
    BY <1>3, <1>4 DEF IInv, ClassInv
  <2> QED
    BY <1>1, <2>1, ClassStep DEF Stepped, IInv
<1>6. ASSUME NEW x \in Objects PROVE Places(x)' = Places(x) \/ (Places(x) # {} /\ \E q : Places(x)' = {q})
  <2>1. SpanPlaces(x)' = SpanPlaces(x)
    BY SpansKept DEF Stepped, IInv
  <2>2. HeldPlaces(x)' = HeldPlaces(x) /\ DropPlaces(x)' = DropPlaces(x)
    BY DropStep DEF HeldPlaces, Stepped
  <2>3. CASE x \in A
    <3>1. <<"list", t>> \in Places(x)
      BY <2>3, ListStep DEF Stepped, Places
    <3>2. /\ Places(x) = {<<"list", t>>} /\ SpanPlaces(x) = {} /\ SlotPlaces(x) = {}
          /\ HeldPlaces(x) = {} /\ DropPlaces(x) = {}
      BY <3>1, Alone DEF IInv
    <3>3. ListPlaces(x)' = ListPlaces(x) \ {<<"list", t>>}
      BY ListStep DEF Stepped
    <3>6. SlotPlaces(x)' = SlotPlaces(x) \cup {<<"slot", c, Len(slots[c]) + 1>>}
      BY <1>2, <2>3, PushedPlaces, Zenon
    <3>4. ListPlaces(x)' = {} /\ SlotPlaces(x)' = {<<"slot", c, Len(slots[c]) + 1>>}
      BY <3>2, <3>3, <3>6 DEF Places
    <3>5. Places(x)' = {<<"slot", c, Len(slots[c]) + 1>>}
      BY <2>1, <2>2, <3>2, <3>4 DEF Places
    <3> QED
      BY <3>2, <3>5
  <2>4. CASE x \notin A
    <3>1. ListPlaces(x)' = ListPlaces(x)
      BY <2>4, ListStep, Zenon DEF Stepped
    <3>2. SlotPlaces(x)' = SlotPlaces(x)
      BY <1>2, <2>4, PushPlaces
    <3> QED
      BY <2>1, <2>2, <3>1, <3>2 DEF Places
  <2> QED
    BY <2>3, <2>4
<1> QED
  BY <1>3, <1>5, <1>6, Assemble DEF IInv, CentralTypes

\* A batch leaves its slot, to be released.
LEMMA SlotToDrop ==
  ASSUME IInv, NEW t \in Clients, Stepped(t), UNCHANGED held, NEW c \in Classes, slots[c] # <<>>,
         slots' = [slots EXCEPT ![c] = Popped(@)], OwnList(th'[t]) = OwnList(th[t]), th'[t].c = th[t].c,
         th[t].drop = {}, th'[t].drop = Top(slots[c]), th'[t].from = c
  PROVE  IInv'
<1> DEFINE p == <<"slot", c, Len(slots[c])>>
<1>1. UNCHANGED class
  BY DEF Stepped, spans
<1>2. CentralTypes
  BY DEF IInv
<1>3. /\ slots' \in [Classes -> Seq(SUBSET Objects)]
      /\ \A d \in Classes : \A i \in DOMAIN slots'[d] : i \in DOMAIN slots[d] /\ slots'[d][i] = slots[d][i]
      /\ \E i \in DOMAIN slots[c] : Top(slots[c]) = slots[c][i]
  <2>1. slots' \in [Classes -> Seq(SUBSET Objects)] /\ \A d \in Classes \ {c} : slots'[d] = slots[d]
    BY <1>2, PopStep, Zenon
  <2>2. DOMAIN slots'[c] \subseteq DOMAIN slots[c] /\ \A i \in DOMAIN slots'[c] : slots'[c][i] = slots[c][i]
    BY <1>2, PopStep, Zenon
  <2>3. \E i \in DOMAIN slots[c] : Top(slots[c]) = slots[c][i]
    BY <1>2, PopStep, Zenon
  <2> QED
    BY <2>1, <2>2, <2>3
<1>4. ClassInv'
  <2>1. \A d \in Classes : \A i \in DOMAIN slots'[d] : \A o \in slots'[d][i] : class[o[1]] = d
    BY <1>3 DEF IInv, ClassInv
  <2>2. \A o \in th'[t].drop : class[o[1]] = th'[t].from
    BY <1>3 DEF IInv, ClassInv
  <2>3. \A o \in OwnList(th'[t]) : class[o[1]] = th'[t].c
    BY DEF IInv, ClassInv
  <2> QED
    BY <1>1, <2>1, <2>2, <2>3, ClassStep DEF Stepped, IInv
<1>5. ASSUME NEW x \in Objects PROVE Places(x)' = Places(x) \/ (Places(x) # {} /\ \E q : Places(x)' = {q})
  <2>1. SpanPlaces(x)' = SpanPlaces(x)
    BY SpansKept DEF Stepped, IInv
  <2>2. HeldPlaces(x)' = HeldPlaces(x)
    BY DEF HeldPlaces
  <2>3. ListPlaces(x)' = ListPlaces(x)
    BY ListStep, Zenon DEF Stepped
  <2>4. SlotPlaces(x)' = SlotPlaces(x) \ {p}
    BY <1>2, PopPlaces
  <2>5. x \in Top(slots[c]) <=> p \in SlotPlaces(x)
    BY <1>2, PopPlaces
  <2> HIDE DEF p
  <2>6. CASE x \in Top(slots[c])
    <3>1. p \in Places(x) /\ p[1] = "slot"
      BY <2>5, <2>6 DEF Places, p
    <3>2. /\ Places(x) = {p} /\ SpanPlaces(x) = {} /\ HeldPlaces(x) = {}
          /\ ListPlaces(x) = {} /\ DropPlaces(x) = {}
      BY <3>1, Alone DEF IInv
    <3>3. DropPlaces(x)' = DropPlaces(x) \cup {<<"drop", t>>}
      <4>1. x \in th'[t].drop
        BY <2>6
      <4> QED
        BY <4>1, DropStep, Zenon DEF Stepped
    <3>4. SlotPlaces(x)' = {} /\ DropPlaces(x)' = {<<"drop", t>>}
      BY <2>4, <3>2, <3>3 DEF Places
    <3>5. Places(x)' = {<<"drop", t>>}
      BY <2>1, <2>2, <2>3, <3>2, <3>4 DEF Places
    <3> QED
      BY <3>2, <3>5
  <2>7. CASE x \notin Top(slots[c])
    <3>1. DropPlaces(x)' = DropPlaces(x)
      <4>1. x \in th'[t].drop <=> x \in th[t].drop
        BY <2>7
      <4> QED
        BY <4>1, DropStep, Zenon DEF Stepped
    <3>2. SlotPlaces(x)' = SlotPlaces(x)
      BY <2>4, <2>5, <2>7
    <3> QED
      BY <2>1, <2>2, <2>3, <3>1, <3>2 DEF Places
  <2> QED
    BY <2>6, <2>7
<1> QED
  BY <1>3, <1>4, <1>5, Assemble DEF IInv, CentralTypes

\* A batch leaves its slot, and the thread's cache has it.
LEMMA SlotToHeld ==
  ASSUME IInv, NEW t \in Clients, Stepped(t), NEW c \in Classes, slots[c] # <<>>,
         slots' = [slots EXCEPT ![c] = Popped(@)], held' = [held EXCEPT ![t] = held[t] \cup Top(slots[c])],
         OwnList(th[t]) = {}, OwnList(th'[t]) = {}, th[t].drop = {}, th'[t].drop = {}
  PROVE  IInv'
<1> DEFINE p == <<"slot", c, Len(slots[c])>>
           A == held[t] \cup Top(slots[c])
<1>1. UNCHANGED class
  BY DEF Stepped, spans
<1>2. CentralTypes
  BY DEF IInv
<1>3. /\ slots' \in [Classes -> Seq(SUBSET Objects)] /\ A \in SUBSET Objects
      /\ \A d \in Classes : \A i \in DOMAIN slots'[d] : i \in DOMAIN slots[d] /\ slots'[d][i] = slots[d][i]
  <2>1. slots' \in [Classes -> Seq(SUBSET Objects)] /\ \A d \in Classes \ {c} : slots'[d] = slots[d]
    BY <1>2, PopStep, Zenon
  <2>2. DOMAIN slots'[c] \subseteq DOMAIN slots[c] /\ \A i \in DOMAIN slots'[c] : slots'[c][i] = slots[c][i]
    BY <1>2, PopStep, Zenon
  <2>3. Top(slots[c]) \subseteq Objects
    BY <1>2, PopStep, Zenon
  <2> QED
    BY <2>1, <2>2, <2>3, <1>2 DEF CentralTypes
<1>4. ClassInv'
  <2>1. \A d \in Classes : \A i \in DOMAIN slots'[d] : \A o \in slots'[d][i] : class[o[1]] = d
    BY <1>3 DEF IInv, ClassInv
  <2> QED
    BY <1>1, <2>1, ClassStep DEF Stepped, IInv
<1>7. held' = [held EXCEPT ![t] = A]
  OBVIOUS
<1>5. ASSUME NEW x \in Objects PROVE Places(x)' = Places(x) \/ (Places(x) # {} /\ \E q : Places(x)' = {q})
  <2>1. SpanPlaces(x)' = SpanPlaces(x)
    BY SpansKept DEF Stepped, IInv
  <2>2. ListPlaces(x)' = ListPlaces(x)
    BY ListStep, Zenon DEF Stepped
  <2>3. DropPlaces(x)' = DropPlaces(x)
    BY DropStep, Zenon DEF Stepped
  <2>4. SlotPlaces(x)' = SlotPlaces(x) \ {p}
    BY <1>2, PopPlaces
  <2>5. x \in Top(slots[c]) <=> p \in SlotPlaces(x)
    BY <1>2, PopPlaces
  <2> HIDE DEF p, A
  <2>6. CASE x \in Top(slots[c])
    <3>1. p \in Places(x) /\ p[1] = "slot"
      BY <2>5, <2>6 DEF Places, p
    <3>2. /\ Places(x) = {p} /\ SpanPlaces(x) = {} /\ HeldPlaces(x) = {}
          /\ ListPlaces(x) = {} /\ DropPlaces(x) = {}
      BY <3>1, Alone DEF IInv
    <3>3. HeldPlaces(x)' = HeldPlaces(x) \cup {<<"held", t>>}
      <4>1. x \in A
        BY <2>6 DEF A
      <4> QED
        BY <1>2, <1>3, <1>7, <4>1, HeldStep, Zenon
    <3>4. SlotPlaces(x)' = {} /\ HeldPlaces(x)' = {<<"held", t>>}
      BY <2>4, <3>2, <3>3 DEF Places
    <3>5. Places(x)' = {<<"held", t>>}
      BY <2>1, <2>2, <2>3, <3>2, <3>4 DEF Places
    <3> QED
      BY <3>2, <3>5
  <2>7. CASE x \notin Top(slots[c])
    <3>1. HeldPlaces(x)' = HeldPlaces(x)
      <4>1. x \in A <=> x \in held[t]
        BY <2>7 DEF A
      <4> QED
        BY <1>2, <1>3, <1>7, <4>1, HeldSame, Zenon
    <3>2. SlotPlaces(x)' = SlotPlaces(x)
      BY <2>4, <2>5, <2>7
    <3> QED
      BY <2>1, <2>2, <2>3, <3>1, <3>2 DEF Places
  <2> QED
    BY <2>6, <2>7
<1>6. held' \in [Clients -> SUBSET Objects]
  BY <1>2, <1>3 DEF CentralTypes
<1> QED
  BY <1>3, <1>4, <1>5, <1>6, Assemble

\* A thread hands objects of its cache in.
LEMMA HeldToList ==
  ASSUME IInv, NEW t \in Clients, Stepped(t), UNCHANGED slots, NEW L \in SUBSET Objects, NEW A \in SUBSET Objects,
         held' = [held EXCEPT ![t] = A], L \subseteq held[t], A = held[t] \ L,
         OwnList(th[t]) = {}, OwnList(th'[t]) = L, \A o \in L : class[o[1]] = th'[t].c,
         th[t].drop = {}, th'[t].drop = {}
  PROVE  IInv'
<1>1. UNCHANGED class
  BY DEF Stepped, spans
<1>2. CentralTypes
  BY DEF IInv
<1>3. ClassInv'
  <2>1. \A d \in Classes : \A i \in DOMAIN slots'[d] : \A o \in slots'[d][i] : class[o[1]] = d
    BY DEF IInv, ClassInv
  <2> QED
    BY <1>1, <2>1, ClassStep DEF Stepped, IInv
<1>4. ASSUME NEW x \in Objects PROVE Places(x)' = Places(x) \/ (Places(x) # {} /\ \E q : Places(x)' = {q})
  <2>1. SpanPlaces(x)' = SpanPlaces(x)
    BY SpansKept DEF Stepped, IInv
  <2>2. SlotPlaces(x)' = SlotPlaces(x)
    BY DEF SlotPlaces
  <2>3. DropPlaces(x)' = DropPlaces(x)
    BY DropStep, Zenon DEF Stepped
  <2>4. CASE x \in L
    <3>1. <<"held", t>> \in Places(x)
      BY <2>4, <1>2, HeldStep DEF Places
    <3>2. /\ Places(x) = {<<"held", t>>} /\ SpanPlaces(x) = {} /\ SlotPlaces(x) = {}
          /\ ListPlaces(x) = {} /\ DropPlaces(x) = {}
      BY <3>1, Alone DEF IInv
    <3>3. HeldPlaces(x)' = HeldPlaces(x) \ {<<"held", t>>}
      <4>1. x \notin A
        BY <2>4
      <4> QED
        BY <1>2, <4>1, HeldLost, Zenon
    <3>4. ListPlaces(x)' = ListPlaces(x) \cup {<<"list", t>>}
      <4>1. x \in OwnList(th'[t])
        BY <2>4
      <4> QED
        BY <4>1, ListStep, Zenon DEF Stepped
    <3>5. HeldPlaces(x)' = {} /\ ListPlaces(x)' = {<<"list", t>>}
      BY <3>2, <3>3, <3>4 DEF Places
    <3>6. Places(x)' = {<<"list", t>>}
      BY <2>1, <2>2, <2>3, <3>2, <3>5 DEF Places
    <3> QED
      BY <3>2, <3>6
  <2>5. CASE x \notin L
    <3>1. HeldPlaces(x)' = HeldPlaces(x)
      <4>1. x \in A <=> x \in held[t]
        BY <2>5
      <4> QED
        BY <1>2, <4>1, HeldSame, Zenon
    <3>2. ListPlaces(x)' = ListPlaces(x)
      <4>1. x \in OwnList(th'[t]) <=> x \in OwnList(th[t])
        BY <2>5
      <4> QED
        BY <4>1, ListStep, Zenon DEF Stepped
    <3> QED
      BY <2>1, <2>2, <2>3, <3>1, <3>2 DEF Places
  <2> QED
    BY <2>4, <2>5
<1>5. held' \in [Clients -> SUBSET Objects] /\ slots' \in [Classes -> Seq(SUBSET Objects)]
  BY <1>2 DEF CentralTypes
<1> QED
  BY <1>3, <1>4, <1>5, Assemble

\* A thread's cache gets the objects it has asked for.
LEMMA ListToHeld ==
  ASSUME IInv, NEW t \in Clients, Stepped(t), UNCHANGED slots, NEW L \in SUBSET Objects, NEW A \in SUBSET Objects,
         held' = [held EXCEPT ![t] = A], L = OwnList(th[t]), A = held[t] \cup L, OwnList(th'[t]) = {},
         th[t].drop = {}, th'[t].drop = {}
  PROVE  IInv'
<1>1. UNCHANGED class
  BY DEF Stepped, spans
<1>2. CentralTypes
  BY DEF IInv
<1>3. ClassInv'
  <2>1. \A d \in Classes : \A i \in DOMAIN slots'[d] : \A o \in slots'[d][i] : class[o[1]] = d
    BY DEF IInv, ClassInv
  <2> QED
    BY <1>1, <2>1, ClassStep DEF Stepped, IInv
<1>4. ASSUME NEW x \in Objects PROVE Places(x)' = Places(x) \/ (Places(x) # {} /\ \E q : Places(x)' = {q})
  <2>1. SpanPlaces(x)' = SpanPlaces(x)
    BY SpansKept DEF Stepped, IInv
  <2>2. SlotPlaces(x)' = SlotPlaces(x)
    BY DEF SlotPlaces
  <2>3. DropPlaces(x)' = DropPlaces(x)
    BY DropStep, Zenon DEF Stepped
  <2>4. CASE x \in L
    <3>1. <<"list", t>> \in Places(x)
      BY <2>4, ListStep DEF Stepped, Places
    <3>2. /\ Places(x) = {<<"list", t>>} /\ SpanPlaces(x) = {} /\ SlotPlaces(x) = {}
          /\ HeldPlaces(x) = {} /\ DropPlaces(x) = {}
      BY <3>1, Alone DEF IInv
    <3>3. HeldPlaces(x)' = HeldPlaces(x) \cup {<<"held", t>>}
      <4>1. x \in A
        BY <2>4
      <4> QED
        BY <1>2, <4>1, HeldStep, Zenon
    <3>4. ListPlaces(x)' = ListPlaces(x) \ {<<"list", t>>}
      BY ListStep, Zenon DEF Stepped
    <3>5. ListPlaces(x)' = {} /\ HeldPlaces(x)' = {<<"held", t>>}
      BY <3>2, <3>3, <3>4 DEF Places
    <3>6. Places(x)' = {<<"held", t>>}
      BY <2>1, <2>2, <2>3, <3>2, <3>5 DEF Places
    <3> QED
      BY <3>2, <3>6
  <2>5. CASE x \notin L
    <3>1. HeldPlaces(x)' = HeldPlaces(x)
      <4>1. x \in A <=> x \in held[t]
        BY <2>5
      <4> QED
        BY <1>2, <4>1, HeldSame, Zenon
    <3>2. ListPlaces(x)' = ListPlaces(x)
      <4>1. x \in OwnList(th'[t]) <=> x \in OwnList(th[t])
        BY <2>5
      <4> QED
        BY <4>1, ListStep, Zenon DEF Stepped
    <3> QED
      BY <2>1, <2>2, <2>3, <3>1, <3>2 DEF Places
  <2> QED
    BY <2>4, <2>5
<1>5. held' \in [Clients -> SUBSET Objects] /\ slots' \in [Classes -> Seq(SUBSET Objects)]
  BY <1>2 DEF CentralTypes
<1> QED
  BY <1>3, <1>4, <1>5, Assemble

-----------------------------------------------------------------------------
(* The actions that leave the spans alone.                                  *)

\* Sizes of the caches that are not changed, or not the slots.
LEMMA CacheSame ==
  ASSUME CentralTypes, CacheBounded, UNCHANGED cache
  PROVE  CacheBounded' /\ cache_size' \in [Classes -> Nat]
  BY DEF CentralTypes, CacheBounded, cache, used_slots

LEMMA LockUnchanged ==
  ASSUME CentralTypes, LockInv, NEW t \in Clients, Others(t), UNCHANGED lock,
         \A c \in Classes : HasLock(th'[t], c) <=> HasLock(th[t], c)
  PROVE  LockInv' /\ lock' \in [Classes -> Clients \cup {NoThread}]
  BY LockSame DEF CentralTypes

\* A step that leaves the locks alone, takes one, or gives one back.
LEMMA StepSame ==
  ASSUME IInv, NEW t \in Clients, Others(t), Control(th'[t]), th[t].span = {}, th'[t].span = {},
         UNCHANGED <<lock, spans>>, CacheBounded', cache_size' \in [Classes -> Nat],
         \A c \in Classes : HasLock(th'[t], c) <=> HasLock(th[t], c)
  PROVE  Stepped(t)
  BY LockSame DEF Stepped, IInv, CentralTypes

LEMMA StepTakes ==
  ASSUME IInv, NEW t \in Clients, Others(t), Control(th'[t]), th[t].span = {}, th'[t].span = {},
         NEW d \in Classes, Acquire(t, d), UNCHANGED spans, CacheBounded', cache_size' \in [Classes -> Nat],
         \A c \in Classes : ~HasLock(th[t], c), \A c \in Classes : HasLock(th'[t], c) <=> c = d
  PROVE  Stepped(t)
  BY LockTaken DEF Stepped, IInv

LEMMA StepGives ==
  ASSUME IInv, NEW t \in Clients, Others(t), Control(th'[t]), th[t].span = {}, th'[t].span = {},
         NEW d \in Classes, Release(d), UNCHANGED spans, CacheBounded', cache_size' \in [Classes -> Nat],
         \A c \in Classes : HasLock(th[t], c) <=> c = d, \A c \in Classes : ~HasLock(th'[t], c)
  PROVE  Stepped(t)
  BY LockGiven DEF Stepped, IInv

LEMMA InsertRangeInv ==
  ASSUME IInv, NEW t \in Clients, NEW c \in Classes, NEW list \in SUBSET held[t], InsertRange(t, c, list)
  PROVE  IInv'
<1> DEFINE r == [NoCall EXCEPT !.pc = "insert", !.c = c, !.list = list]
<1>1. th[t].pc = "idle" /\ th[t] \in Calls /\ list \in SUBSET Objects /\ held[t] \in SUBSET Objects
  BY DEF IInv, CentralTypes, InsertRange, Call, At
<1>2. r \in Calls /\ r.pc = "insert" /\ r.c = c /\ r.list = list /\ r.drop = {} /\ r.span = {} /\ r.after = "idle"
  BY <1>1 DEF NoCall, Calls, Pcs, SomeClass
<1>3. Others(t) /\ th'[t] = r
  BY <1>2 DEF InsertRange, Others, IInv, CentralTypes
<1> HIDE DEF r
<1>4. th[t].list = {} /\ th[t].drop = {} /\ th[t].span = {} /\ Control(r)
  BY <1>1, <1>2 DEF IInv, Controls, Control, InRelease
<1>5. Stepped(t)
  <2>1. UNCHANGED <<lock, cache, spans>>
    BY DEF InsertRange
  <2>2. LockInv' /\ lock' \in [Classes -> Clients \cup {NoThread}]
    <3>1. \A d \in Classes : HasLock(th'[t], d) <=> HasLock(th[t], d)
      BY <1>1, <1>2, <1>3 DEF HasLock
    <3> QED
      BY <1>3, <2>1, <3>1, LockUnchanged DEF IInv
  <2> QED
    BY <1>2, <1>3, <1>4, <2>1, <2>2, CacheSame DEF Stepped, IInv
<1>6. OwnList(th[t]) = {} /\ OwnList(th'[t]) = list
  BY <1>1, <1>2, <1>3, <1>4 DEF OwnList
<1>7. held' = [held EXCEPT ![t] = held[t] \ list] /\ UNCHANGED slots /\ \A o \in list : class[o[1]] = c
  BY DEF InsertRange, cache
<1>8. held[t] \ list \in SUBSET Objects /\ th'[t].c = c /\ th'[t].drop = {}
  BY <1>1, <1>2, <1>3
<1> QED
  BY <1>1, <1>4, <1>5, <1>6, <1>7, <1>8, HeldToList

LEMMA RemoveRangeInv ==
  ASSUME IInv, NEW t \in Clients, NEW c \in Classes, NEW n \in Nat, RemoveRange(t, c, n)
  PROVE  IInv'
<1> DEFINE r == [NoCall EXCEPT !.pc = "remove", !.c = c, !.n = n]
<1>1. th[t].pc = "idle" /\ th[t] \in Calls
  BY DEF IInv, CentralTypes, RemoveRange, Call, At
<1>2. r \in Calls /\ r.pc = "remove" /\ r.c = c /\ r.list = {} /\ r.drop = {} /\ r.span = {} /\ r.after = "idle"
  BY <1>1 DEF NoCall, Calls, Pcs, SomeClass
<1>3. Others(t) /\ th'[t] = r
  BY <1>2 DEF RemoveRange, Others, IInv, CentralTypes
<1> HIDE DEF r
<1>4. th[t].list = {} /\ th[t].drop = {} /\ th[t].span = {} /\ Control(r)
  BY <1>1, <1>2 DEF IInv, Controls, Control, InRelease
<1>5. Stepped(t)
  <2>1. UNCHANGED <<lock, cache, spans>>
    BY DEF RemoveRange
  <2>2. LockInv' /\ lock' \in [Classes -> Clients \cup {NoThread}]
    <3>1. \A d \in Classes : HasLock(th'[t], d) <=> HasLock(th[t], d)
      BY <1>1, <1>2, <1>3 DEF HasLock
    <3> QED
      BY <1>3, <2>1, <3>1, LockUnchanged DEF IInv
  <2> QED
    BY <1>2, <1>3, <1>4, <2>1, <2>2, CacheSame DEF Stepped, IInv
<1>6. OwnList(th[t]) = {} /\ OwnList(th'[t]) = {}
  BY <1>1, <1>2, <1>3, <1>4 DEF OwnList
<1>7. UNCHANGED <<slots, held>>
  BY DEF RemoveRange, cache
<1> QED
  BY <1>1, <1>2, <1>3, <1>4, <1>5, <1>6, <1>7, Quiet

LEMMA Becomes ==
  ASSUME CentralTypes, NEW t \in Clients, NEW r \in Calls, th' = [th EXCEPT ![t] = r]
  PROVE  Others(t) /\ th'[t] = r
  BY DEF CentralTypes, Others

\* A slot more, where the size has room for it.
LEMMA PushBounded ==
  ASSUME CentralTypes, CacheBounded, NEW c \in Classes, NEW A \in SUBSET Objects, slots' = [slots EXCEPT ![c] = Append(@, A)],
         NEW n \in Nat, cache_size' = [cache_size EXCEPT ![c] = n], Len(slots[c]) < n, n <= MaxSize
  PROVE  CacheBounded' /\ cache_size' \in [Classes -> Nat]
<1>1. Len(slots'[c]) = Len(slots[c]) + 1 /\ \A d \in Classes \ {c} : slots'[d] = slots[d]
  BY PushStep, Zenon
<1>2. Len(slots[c]) \in Nat
  BY LenProperties DEF CentralTypes
<1>3. cache_size' \in [Classes -> Nat] /\ cache_size'[c] = n /\ \A d \in Classes \ {c} : cache_size'[d] = cache_size[d]
  BY DEF CentralTypes
<1>4. Len(slots'[c]) <= cache_size'[c] /\ cache_size'[c] <= MaxSize
  BY <1>1, <1>2, <1>3
<1>5. ASSUME NEW d \in Classes, d # c PROVE Len(slots'[d]) <= cache_size'[d] /\ cache_size'[d] <= MaxSize
  BY <1>1, <1>3, <1>5 DEF CacheBounded, used_slots
<1> QED
  BY <1>3, <1>4, <1>5 DEF CacheBounded, used_slots

\* The thread has the lock of its class, or takes it.
Locks(t) == IF th[t].pc = "evict" THEN UNCHANGED lock ELSE Acquire(t, th[t].c)

\* MakeCacheSpace fails, and the list goes back to the spans.
LEMMA GiveUp ==
  ASSUME IInv, NEW t \in Clients, th[t].pc \in {"insert", "evict", "revert"}, Locks(t),
         Releasing(t, th[t].c, th[t].list, "idle"), UNCHANGED <<cache, spans, held>>
  PROVE  IInv'
<1> DEFINE c == th[t].c
           list == th[t].list
           r == [th[t] EXCEPT !.pc = "release", !.from = c, !.drop = list, !.after = "idle"]
<1>1. /\ th[t] \in Calls /\ c \in Classes /\ list \in SUBSET Objects
      /\ th[t].drop = {} /\ th[t].span = {} /\ OwnList(th[t]) = list
  BY DEF IInv, CentralTypes, Controls, Control, InRelease, OwnList, Calls
<1>2. /\ r \in Calls /\ r.pc = "release" /\ r.c = c /\ r.from = c /\ r.drop = list /\ r.span = {} /\ r.after = "idle"
  BY <1>1 DEF Calls, Pcs, SomeClass
<1>3. Others(t) /\ th'[t] = r
  <2>1. th' = [th EXCEPT ![t] = r]
    BY <1>1 DEF IInv, CentralTypes, Calls, Releasing
  <2> QED
    BY <1>2, Becomes, <2>1 DEF IInv
<1> HIDE DEF r
<1>4. Control(r) /\ OwnList(r) = {} /\ \A d \in Classes : HasLock(r, d) <=> d = c
  BY <1>1, <1>2 DEF Control, InRelease, OwnList, HasLock
<1>5. CASE th[t].pc = "evict"
  <2>1. UNCHANGED lock /\ \A d \in Classes : HasLock(th[t], d) <=> d = c
    BY <1>5 DEF Locks, HasLock
  <2> QED
    BY <1>1, <1>2, <1>3, <1>4, <2>1, StepSame, CacheSame, ToDrop DEF IInv, cache
<1>6. CASE th[t].pc # "evict"
  <2>1. Acquire(t, c) /\ \A d \in Classes : ~HasLock(th[t], d)
    BY <1>6 DEF Locks, HasLock
  <2> QED
    BY <1>1, <1>2, <1>3, <1>4, <2>1, StepTakes, CacheSame, ToDrop DEF IInv, cache
<1> QED
  BY <1>5, <1>6

LEMMA FailedInv ==
  ASSUME IInv, NEW t \in Clients, th[t].pc \in {"evict", "revert"}, Locks(t),
         Failed(t), UNCHANGED <<cache, spans, held>>
  PROVE  IInv'
<1>1. CASE th[t].force
  BY <1>1, GiveUp DEF Failed
<1>2. CASE ~th[t].force
  <2> DEFINE c == th[t].c
             list == th[t].list
             r == [th[t] EXCEPT !.pc = "evict", !.force = TRUE]
  <2>1. /\ th[t] \in Calls /\ c \in Classes
        /\ th[t].drop = {} /\ th[t].span = {} /\ OwnList(th[t]) = list
    BY DEF IInv, CentralTypes, Controls, Control, InRelease, OwnList, Calls
  <2>2. r \in Calls /\ r.pc = "evict" /\ r.c = c /\ r.list = list /\ r.drop = {} /\ r.span = {} /\ r.from = th[t].from
    BY <2>1 DEF Calls, Pcs
  <2>3. Others(t) /\ th'[t] = r
    <3>1. th' = [th EXCEPT ![t] = r]
      BY <1>2, <2>1 DEF IInv, CentralTypes, Calls, Failed
    <3> QED
      BY <1>2, <2>2, Becomes, <3>1 DEF IInv
  <2> HIDE DEF r
  <2>4. Control(r) /\ OwnList(r) = list /\ \A d \in Classes : HasLock(r, d) <=> d = c
    BY <2>1, <2>2 DEF Control, InRelease, OwnList, HasLock
  <2>5. Stepped(t)
    <3>1. CASE th[t].pc = "evict"
      <4>1. UNCHANGED lock /\ \A d \in Classes : HasLock(th[t], d) <=> d = c
        BY <3>1 DEF Locks, HasLock
      <4> QED
        BY <2>1, <2>2, <2>3, <2>4, <4>1, StepSame, CacheSame DEF IInv, cache
    <3>2. CASE th[t].pc # "evict"
      <4>1. Acquire(t, c) /\ \A d \in Classes : ~HasLock(th[t], d)
        BY <3>2 DEF Locks, HasLock
      <4> QED
        BY <2>1, <2>2, <2>3, <2>4, <4>1, StepTakes, CacheSame DEF IInv, cache
    <3> QED
      BY <3>1, <3>2
  <2> QED
    BY <2>1, <2>2, <2>3, <2>4, <2>5, Quiet DEF cache
<1> QED
  BY <1>1, <1>2

LEMMA InsertLockedInv ==
  ASSUME IInv, NEW t \in Clients, InsertLocked(t)
  PROVE  IInv'
<1> DEFINE c == th[t].c
           list == th[t].list
<1>1. /\ th[t].pc = "insert" /\ th[t] \in Calls /\ c \in Classes /\ list \in SUBSET Objects /\ lock[c] = NoThread
      /\ th[t].drop = {} /\ th[t].span = {} /\ OwnList(th[t]) = list
  BY DEF IInv, CentralTypes, InsertLocked, At, Controls, Control, InRelease, OwnList, Calls
<1>2. UNCHANGED <<cache_size, spans, held>>
  BY DEF InsertLocked
<1>3. \A d \in Classes : ~HasLock(th[t], d)
  BY <1>1 DEF HasLock
<1>4. CASE /\ used_slots(c) < cache_size[c] /\ StoreBatch(t, c) /\ UNCHANGED lock
  <2>1. NoCall \in Calls /\ NoCall.pc = "idle" /\ NoCall.list = {} /\ NoCall.drop = {} /\ NoCall.span = {}
    BY DEF NoCall, Calls, Pcs, SomeClass
  <2>2. Others(t) /\ th'[t] = NoCall
    BY <1>4, <2>1 DEF StoreBatch, Others, IInv, CentralTypes
  <2>3. Control(NoCall) /\ OwnList(NoCall) = {} /\ \A d \in Classes : ~HasLock(NoCall, d)
    BY <2>1 DEF Control, InRelease, OwnList, HasLock
  <2>4. slots' = [slots EXCEPT ![c] = Append(@, list)]
    BY <1>4 DEF StoreBatch
  <2>5. CacheBounded' /\ cache_size' \in [Classes -> Nat]
    <3>1. cache_size[c] \in Nat /\ cache_size' = [cache_size EXCEPT ![c] = cache_size[c]]
      BY <1>1, <1>2 DEF IInv, CentralTypes
    <3>2. Len(slots[c]) < cache_size[c] /\ cache_size[c] <= MaxSize
      BY <1>1, <1>4 DEF IInv, CacheBounded, used_slots
    <3> QED
      BY <1>1, <2>4, <3>1, <3>2, PushBounded DEF IInv
  <2>6. Stepped(t)
    BY <1>1, <1>2, <1>3, <1>4, <2>1, <2>2, <2>3, <2>5, StepSame
  <2> QED
    BY <1>1, <1>2, <2>1, <2>2, <2>3, <2>4, <2>6, ToSlot
<1>5. CASE th' = [th EXCEPT ![t].pc = "evict"] /\ Acquire(t, c) /\ UNCHANGED slots
  <2> DEFINE r == [th[t] EXCEPT !.pc = "evict"]
  <2>1. r \in Calls /\ r.pc = "evict" /\ r.c = c /\ r.list = list /\ r.drop = {} /\ r.span = {} /\ r.from = th[t].from
    BY <1>1 DEF Calls, Pcs
  <2>2. Others(t) /\ th'[t] = r
    BY <1>5, <2>1, Becomes DEF IInv
  <2> HIDE DEF r
  <2>3. Control(r) /\ OwnList(r) = list /\ \A d \in Classes : HasLock(r, d) <=> d = c
    BY <1>1, <2>1 DEF Control, InRelease, OwnList, HasLock
  <2>4. Stepped(t)
    BY <1>1, <1>2, <1>3, <1>5, <2>1, <2>2, <2>3, StepTakes, CacheSame DEF IInv, cache
  <2> QED
    BY <1>1, <1>2, <1>5, <2>1, <2>2, <2>3, <2>4, Quiet
<1>6. CASE Releasing(t, c, list, "idle") /\ Acquire(t, c) /\ UNCHANGED slots
  BY <1>1, <1>2, <1>6, GiveUp DEF Locks, cache
<1> QED
  BY <1>4, <1>5, <1>6 DEF InsertLocked

LEMMA EvictInv ==
  ASSUME IInv, NEW t \in Clients, Evict(t)
  PROVE  IInv'
<1>1. th[t].pc = "evict" /\ UNCHANGED <<cache, spans, held>>
  BY DEF Evict, At
<1>2. CASE Failed(t) /\ UNCHANGED lock
  BY <1>1, <1>2, FailedInv DEF Locks
<1>3. ASSUME NEW other \in Classes, QuickCheck(t, other), Release(th[t].c),
             th' = [th EXCEPT ![t].pc = "invert", ![t].other = other]
      PROVE  IInv'
  <2> DEFINE c == th[t].c
             list == th[t].list
             r == [th[t] EXCEPT !.pc = "invert", !.other = other]
  <2>1. /\ th[t] \in Calls /\ c \in Classes
        /\ th[t].drop = {} /\ th[t].span = {} /\ OwnList(th[t]) = list
    BY <1>1 DEF IInv, CentralTypes, Controls, Control, InRelease, OwnList, Calls
  <2>2. /\ r \in Calls /\ r.pc = "invert" /\ r.other = other /\ r.c = c /\ r.list = list
        /\ r.drop = {} /\ r.span = {} /\ r.from = th[t].from
    BY <2>1 DEF Calls, Pcs, SomeClass
  <2>3. Others(t) /\ th'[t] = r
    <3>1. th' = [th EXCEPT ![t] = r]
      BY <1>3, <2>1 DEF IInv, CentralTypes, Calls
    <3> QED
      BY <1>3, <2>2, Becomes, <3>1 DEF IInv
  <2> HIDE DEF r
  <2>4. Control(r) /\ OwnList(r) = list /\ \A d \in Classes : ~HasLock(r, d)
    BY <2>1, <2>2 DEF Control, InRelease, OwnList, HasLock
  <2>5. \A d \in Classes : HasLock(th[t], d) <=> d = c
    BY <1>1, <2>1 DEF HasLock
  <2>6. Stepped(t)
    BY <1>1, <1>3, <2>1, <2>2, <2>3, <2>4, <2>5, StepGives, CacheSame DEF IInv
  <2> QED
    BY <1>1, <2>1, <2>2, <2>3, <2>4, <2>6, Quiet DEF cache
<1> QED
  BY <1>2, <1>3 DEF Evict

\* A slot less, and the batch in it when it was the last.
LEMMA ShrinkBounded ==
  ASSUME CentralTypes, CacheBounded, NEW c \in Classes, cache_size[c] # 0, cache_size' = [cache_size EXCEPT ![c] = @ - 1],
         \/ UNCHANGED slots /\ used_slots(c) # cache_size[c]
         \/ slots[c] # <<>> /\ slots' = [slots EXCEPT ![c] = Popped(@)]
  PROVE  CacheBounded' /\ cache_size' \in [Classes -> Nat]
<1>1. cache_size[c] \in Nat \ {0} /\ Len(slots[c]) \in Nat /\ MaxSize \in Nat
  BY LenProperties, CentralAssumption DEF CentralTypes
<1>2. cache_size'[c] = cache_size[c] - 1 /\ \A d \in Classes \ {c} : cache_size'[d] = cache_size[d]
  BY DEF CentralTypes
<1>3. cache_size' \in [Classes -> Nat]
  BY <1>1 DEF CentralTypes
<1>4. Len(slots'[c]) <= cache_size[c] - 1 /\ \A d \in Classes \ {c} : slots'[d] = slots[d]
  <2>1. CASE UNCHANGED slots /\ used_slots(c) # cache_size[c]
    BY <1>1, <2>1 DEF CacheBounded, used_slots
  <2>2. CASE slots[c] # <<>> /\ slots' = [slots EXCEPT ![c] = Popped(@)]
    <3>1. Len(slots'[c]) = Len(slots[c]) - 1 /\ \A d \in Classes \ {c} : slots'[d] = slots[d]
      BY <2>2, PopStep, Zenon
    <3> QED
      BY <1>1, <3>1 DEF CacheBounded, used_slots
  <2> QED
    BY <2>1, <2>2
<1>5. \A d \in Classes : Len(slots'[d]) <= cache_size'[d]
  BY <1>2, <1>4 DEF CacheBounded, used_slots
<1>6. \A d \in Classes : cache_size'[d] <= MaxSize
  BY <1>1, <1>2 DEF CacheBounded, CentralTypes
<1> QED
  BY <1>3, <1>5, <1>6 DEF CacheBounded, used_slots

LEMMA ShrinkCacheInv ==
  ASSUME IInv, NEW t \in Clients, ShrinkCache(t)
  PROVE  IInv'
<1> DEFINE o == th[t].other
           c == th[t].c
           list == th[t].list
<1>1. /\ th[t].pc = "invert" /\ th[t] \in Calls /\ c \in Classes /\ o \in Classes
      /\ th[t].drop = {} /\ th[t].span = {} /\ OwnList(th[t]) = list
  BY DEF ShrinkCache, At, IInv, CentralTypes, Controls, Control, InRelease, OwnList, Calls
<1>2. UNCHANGED <<spans, held>> /\ \A d \in Classes : ~HasLock(th[t], d)
  BY <1>1 DEF ShrinkCache, HasLock
<1>3. ASSUME NEW e \in BOOLEAN, th' = [th EXCEPT ![t].pc = "revert", ![t].evicted = e], UNCHANGED <<lock, slots>>,
             CacheBounded', cache_size' \in [Classes -> Nat]
      PROVE  IInv'
  <2> DEFINE r == [th[t] EXCEPT !.pc = "revert", !.evicted = e]
  <2>1. r \in Calls /\ r.pc = "revert" /\ r.c = c /\ r.list = list /\ r.drop = {} /\ r.span = {} /\ r.from = th[t].from
    BY <1>1 DEF Calls, Pcs
  <2>2. Others(t) /\ th'[t] = r
    <3>1. th' = [th EXCEPT ![t] = r]
      BY <1>3, <1>1 DEF IInv, CentralTypes, Calls
    <3> QED
      BY <1>3, <2>1, Becomes, <3>1 DEF IInv
  <2> HIDE DEF r
  <2>3. Control(r) /\ OwnList(r) = list /\ \A d \in Classes : ~HasLock(r, d)
    BY <1>1, <2>1 DEF Control, InRelease, OwnList, HasLock
  <2>4. Stepped(t)
    BY <1>1, <1>2, <1>3, <2>1, <2>2, <2>3, StepSame
  <2> QED
    BY <1>1, <1>2, <1>3, <2>1, <2>2, <2>3, <2>4, Quiet
<1>4. CASE th' = [th EXCEPT ![t].pc = "revert", ![t].evicted = FALSE] /\ UNCHANGED <<lock, cache>>
  BY <1>3, <1>4, CacheSame DEF IInv, cache
<1>5. CASE /\ cache_size[o] # 0 /\ used_slots(o) # cache_size[o]
           /\ cache_size' = [cache_size EXCEPT ![o] = @ - 1]
           /\ th' = [th EXCEPT ![t].pc = "revert", ![t].evicted = TRUE]
           /\ UNCHANGED <<lock, slots>>
  BY <1>1, <1>3, <1>5, ShrinkBounded DEF IInv
<1>6. CASE /\ cache_size[o] # 0 /\ used_slots(o) = cache_size[o]
           /\ cache_size' = [cache_size EXCEPT ![o] = @ - 1]
           /\ slots' = [slots EXCEPT ![o] = Popped(@)]
           /\ th' = [th EXCEPT ![t].pc = "release", ![t].evicted = TRUE, ![t].from = o,
                               ![t].drop = Top(slots[o]), ![t].after = "revert"]
           /\ Acquire(t, o)
  <2> DEFINE r == [th[t] EXCEPT !.pc = "release", !.evicted = TRUE, !.from = o, !.drop = Top(slots[o]), !.after = "revert"]
  <2>1. slots[o] \in Seq(SUBSET Objects) /\ slots[o] # <<>>
    BY <1>1, <1>6, EmptySeq, LenProperties DEF IInv, CentralTypes, used_slots
  <2>2. Top(slots[o]) \in SUBSET Objects
    BY <2>1, PoppedIs
  <2>3. /\ r \in Calls /\ r.pc = "release" /\ r.c = c /\ r.list = list /\ r.drop = Top(slots[o]) /\ r.span = {}
        /\ r.from = o /\ r.after = "revert"
    BY <1>1, <2>2 DEF Calls, Pcs, SomeClass
  <2>4. Others(t) /\ th'[t] = r
    <3>1. th' = [th EXCEPT ![t] = r]
      BY <1>6, <1>1, <2>2 DEF IInv, CentralTypes, Calls
    <3> QED
      BY <1>6, <2>3, Becomes, <3>1 DEF IInv
  <2> HIDE DEF r
  <2>5. Control(r) /\ OwnList(r) = list /\ \A d \in Classes : HasLock(r, d) <=> d = o
    BY <1>1, <2>3 DEF Control, InRelease, OwnList, HasLock
  <2>6. CacheBounded' /\ cache_size' \in [Classes -> Nat]
    BY <1>1, <1>6, <2>1, ShrinkBounded DEF IInv
  <2>7. Stepped(t)
    BY <1>1, <1>2, <1>6, <2>3, <2>4, <2>5, <2>6, StepTakes, ZenonT(60)
  <2> QED
    BY <1>1, <1>2, <1>6, <2>1, <2>3, <2>4, <2>5, <2>7, SlotToDrop
<1> QED
  BY <1>4, <1>5, <1>6 DEF ShrinkCache

LEMMA RevertInv ==
  ASSUME IInv, NEW t \in Clients, Revert(t)
  PROVE  IInv'
<1> DEFINE c == th[t].c
           list == th[t].list
<1>1. /\ th[t].pc = "revert" /\ th[t] \in Calls /\ c \in Classes /\ list \in SUBSET Objects
      /\ th[t].drop = {} /\ th[t].span = {} /\ OwnList(th[t]) = list
  BY DEF Revert, At, IInv, CentralTypes, Controls, Control, InRelease, OwnList, Calls
<1>2. UNCHANGED <<spans, held>> /\ \A d \in Classes : ~HasLock(th[t], d)
  BY <1>1 DEF Revert, HasLock
<1>3. CASE Releasing(t, c, list, "idle") /\ Acquire(t, c) /\ UNCHANGED cache
  BY <1>1, <1>2, <1>3, GiveUp DEF Locks
<1>4. CASE Failed(t) /\ Acquire(t, c) /\ UNCHANGED cache
  BY <1>1, <1>2, <1>4, FailedInv DEF Locks
<1>5. CASE /\ cache_size[c] < MaxSize
           /\ cache_size' = [cache_size EXCEPT ![c] = @ + 1]
           /\ StoreBatch(t, c) /\ UNCHANGED lock
  <2>1. NoCall \in Calls /\ NoCall.pc = "idle" /\ NoCall.list = {} /\ NoCall.drop = {} /\ NoCall.span = {}
    BY DEF NoCall, Calls, Pcs, SomeClass
  <2>2. Others(t) /\ th'[t] = NoCall
    BY <1>5, <2>1 DEF StoreBatch, Others, IInv, CentralTypes
  <2>3. Control(NoCall) /\ OwnList(NoCall) = {} /\ \A d \in Classes : ~HasLock(NoCall, d)
    BY <2>1 DEF Control, InRelease, OwnList, HasLock
  <2>4. slots' = [slots EXCEPT ![c] = Append(@, list)]
    BY <1>5 DEF StoreBatch
  <2>5. CacheBounded' /\ cache_size' \in [Classes -> Nat]
    <3> DEFINE n == cache_size[c] + 1
    <3>1. n \in Nat /\ cache_size' = [cache_size EXCEPT ![c] = n] /\ n <= MaxSize
      BY <1>1, <1>5, CentralAssumption DEF IInv, CentralTypes
    <3>2. Len(slots[c]) < n
      BY <1>1, LenProperties DEF IInv, CacheBounded, used_slots, CentralTypes
    <3> HIDE DEF n
    <3> QED
      BY <1>1, <2>4, <3>1, <3>2, PushBounded DEF IInv
  <2>6. Stepped(t)
    BY <1>1, <1>2, <1>5, <2>1, <2>2, <2>3, <2>5, StepSame
  <2> QED
    BY <1>1, <1>2, <2>1, <2>2, <2>3, <2>4, <2>6, ToSlot
<1> QED
  BY <1>3, <1>4, <1>5 DEF Revert

LEMMA RelockInv ==
  ASSUME IInv, NEW t \in Clients, Relock(t)
  PROVE  IInv'
<1> DEFINE f == th[t].from
           r == [th[t] EXCEPT !.pc = "release"]
<1>1. th[t].pc = "relock" /\ th[t] \in Calls /\ f \in Classes /\ th[t].span = {}
  BY DEF Relock, At, IInv, CentralTypes, Controls, Control, InRelease
<1>2. UNCHANGED <<cache, spans, held>> /\ Acquire(t, f) /\ \A d \in Classes : ~HasLock(th[t], d)
  BY <1>1 DEF Relock, HasLock
<1>3. /\ r \in Calls /\ r.pc = "release" /\ r.c = th[t].c /\ r.list = th[t].list /\ r.span = {}
      /\ r.drop = th[t].drop /\ r.from = f /\ r.after = th[t].after
  BY <1>1 DEF Calls, Pcs
<1>4. Others(t) /\ th'[t] = r
  <2>1. th' = [th EXCEPT ![t] = r]
    BY <1>1 DEF Relock, IInv, CentralTypes, Calls
  <2> QED
    BY <2>1, <1>3, Becomes DEF IInv
<1> HIDE DEF r
<1>5. Control(r) /\ OwnList(r) = OwnList(th[t]) /\ \A d \in Classes : HasLock(r, d) <=> d = f
  BY <1>1, <1>3 DEF Control, InRelease, OwnList, HasLock, IInv, Controls
<1>6. Stepped(t)
  BY <1>1, <1>2, <1>3, <1>4, <1>5, StepTakes, CacheSame DEF IInv
<1> QED
  BY <1>1, <1>2, <1>3, <1>4, <1>5, <1>6, Quiet DEF cache

LEMMA ReleaseDoneInv ==
  ASSUME IInv, NEW t \in Clients, ReleaseDone(t)
  PROVE  IInv'
<1> DEFINE f == th[t].from
           r == IF th[t].after = "idle" THEN NoCall
                ELSE [th[t] EXCEPT !.pc = "revert", !.from = NoClass, !.after = "idle"]
<1>1. th[t].pc = "release" /\ th[t] \in Calls /\ f \in Classes /\ th[t].c \in Classes /\ th[t].span = {} /\ th[t].drop = {}
  BY DEF ReleaseDone, At, IInv, CentralTypes, Controls, Control, InRelease
<1>2. UNCHANGED <<cache, spans, held>> /\ Release(f) /\ \A d \in Classes : HasLock(th[t], d) <=> d = f
  BY <1>1 DEF ReleaseDone, HasLock
<1>3. CASE th[t].after = "idle"
  <2>1. NoCall \in Calls /\ NoCall.pc = "idle" /\ NoCall.list = {} /\ NoCall.drop = {} /\ NoCall.span = {}
    BY DEF NoCall, Calls, Pcs, SomeClass
  <2>2. Others(t) /\ th'[t] = NoCall
    BY <1>3, <2>1, Becomes DEF ReleaseDone, IInv
  <2>3. Control(NoCall) /\ OwnList(NoCall) = {} /\ OwnList(th[t]) = {} /\ \A d \in Classes : ~HasLock(NoCall, d)
    BY <1>1, <1>3, <2>1 DEF Control, InRelease, OwnList, HasLock
  <2>4. Stepped(t)
    BY <1>1, <1>2, <2>1, <2>2, <2>3, StepGives, CacheSame DEF IInv
  <2> QED
    BY <1>1, <1>2, <2>1, <2>2, <2>3, <2>4, Quiet DEF cache
<1>4. CASE th[t].after # "idle"
  <2>1. /\ r \in Calls /\ r.pc = "revert" /\ r.c = th[t].c /\ r.list = th[t].list /\ r.span = {} /\ r.drop = {}
    BY <1>1, <1>4 DEF Calls, Pcs, SomeClass
  <2>2. Others(t) /\ th'[t] = r
    BY <2>1, Becomes DEF ReleaseDone, IInv
  <2> HIDE DEF r
  <2>3. Control(r) /\ OwnList(r) = OwnList(th[t]) /\ \A d \in Classes : ~HasLock(r, d)
    BY <1>1, <1>4, <2>1 DEF Control, InRelease, OwnList, HasLock
  <2>4. Stepped(t)
    BY <1>1, <1>2, <2>1, <2>2, <2>3, StepGives, CacheSame DEF IInv
  <2> QED
    BY <1>1, <1>2, <2>1, <2>2, <2>3, <2>4, Quiet DEF cache
<1> QED
  BY <1>3, <1>4

\* A slot less that is used, and no change of the sizes.
LEMMA PopBounded ==
  ASSUME CentralTypes, CacheBounded, NEW c \in Classes, slots[c] # <<>>, slots' = [slots EXCEPT ![c] = Popped(@)], UNCHANGED cache_size
  PROVE  CacheBounded' /\ cache_size' \in [Classes -> Nat]
<1>1. Len(slots[c]) \in Nat \ {0} /\ Len(slots'[c]) = Len(slots[c]) - 1 /\ \A d \in Classes \ {c} : slots'[d] = slots[d]
  BY PopStep, Zenon
<1>2. \A d \in Classes : Len(slots'[d]) <= cache_size'[d]
  BY <1>1 DEF CacheBounded, used_slots, CentralTypes
<1> QED
  BY <1>2 DEF CacheBounded, used_slots, CentralTypes

LEMMA RemoveLockedInv ==
  ASSUME IInv, NEW t \in Clients, RemoveLocked(t)
  PROVE  IInv'
<1> DEFINE c == th[t].c
<1>1. /\ th[t].pc = "remove" /\ th[t] \in Calls /\ c \in Classes /\ OwnList(th[t]) = {} /\ th[t].list = {}
      /\ th[t].drop = {} /\ th[t].span = {}
  BY DEF RemoveLocked, At, IInv, CentralTypes, Controls, Control, InRelease, OwnList
<1>2. UNCHANGED <<cache_size, spans>> /\ \A d \in Classes : ~HasLock(th[t], d)
  BY <1>1 DEF RemoveLocked, HasLock
<1>3. CASE /\ slots[c] # <<>> /\ slots' = [slots EXCEPT ![c] = Popped(@)]
           /\ held' = [held EXCEPT ![t] = @ \union Top(slots[c])]
           /\ th' = [th EXCEPT ![t] = NoCall] /\ UNCHANGED lock
  <2>1. NoCall \in Calls /\ NoCall.pc = "idle" /\ NoCall.list = {} /\ NoCall.drop = {} /\ NoCall.span = {}
    BY DEF NoCall, Calls, Pcs, SomeClass
  <2>2. Others(t) /\ th'[t] = NoCall
    BY <1>3, <2>1, Becomes DEF IInv
  <2>3. Control(NoCall) /\ OwnList(NoCall) = {} /\ \A d \in Classes : ~HasLock(NoCall, d)
    BY <2>1 DEF Control, InRelease, OwnList, HasLock
  <2>4. CacheBounded' /\ cache_size' \in [Classes -> Nat]
    BY <1>1, <1>2, <1>3, PopBounded DEF IInv
  <2>5. Stepped(t)
    BY <1>1, <1>2, <1>3, <2>1, <2>2, <2>3, <2>4, StepSame
  <2> QED
    BY <1>1, <1>3, <2>1, <2>2, <2>3, <2>5, SlotToHeld
<1>4. CASE th' = [th EXCEPT ![t].pc = "fetch"] /\ Acquire(t, c) /\ UNCHANGED <<slots, held>>
  <2> DEFINE r == [th[t] EXCEPT !.pc = "fetch"]
  <2>1. r \in Calls /\ r.pc = "fetch" /\ r.c = c /\ r.list = {} /\ r.drop = {} /\ r.span = {}
    BY <1>1 DEF Calls, Pcs
  <2>2. Others(t) /\ th'[t] = r
    BY <1>4, <2>1, Becomes DEF IInv
  <2> HIDE DEF r
  <2>3. Control(r) /\ OwnList(r) = {} /\ \A d \in Classes : HasLock(r, d) <=> d = c
    BY <1>1, <2>1 DEF Control, InRelease, OwnList, HasLock
  <2>4. Stepped(t)
    BY <1>1, <1>2, <1>4, <2>1, <2>2, <2>3, StepTakes, CacheSame DEF IInv, cache
  <2> QED
    BY <1>1, <1>4, <2>1, <2>2, <2>3, <2>4, Quiet
<1> QED
  BY <1>3, <1>4 DEF RemoveLocked

LEMMA RemoveDoneInv ==
  ASSUME IInv, NEW t \in Clients, RemoveDone(t)
  PROVE  IInv'
<1> DEFINE c == th[t].c
           L == th[t].list
<1>1. /\ th[t].pc = "fetch" /\ th[t] \in Calls /\ c \in Classes /\ OwnList(th[t]) = L /\ L \in SUBSET Objects
      /\ th[t].drop = {} /\ th[t].span = {} /\ held[t] \in SUBSET Objects
  BY DEF RemoveDone, At, IInv, CentralTypes, Controls, Control, InRelease, OwnList, Calls
<1>2. UNCHANGED <<cache, spans>> /\ Release(c) /\ \A d \in Classes : HasLock(th[t], d) <=> d = c
  BY <1>1 DEF RemoveDone, HasLock
<1>3. NoCall \in Calls /\ NoCall.pc = "idle" /\ NoCall.list = {} /\ NoCall.drop = {} /\ NoCall.span = {}
  BY DEF NoCall, Calls, Pcs, SomeClass
<1>4. Others(t) /\ th'[t] = NoCall
  BY <1>3, Becomes DEF RemoveDone, IInv
<1>5. Control(NoCall) /\ OwnList(NoCall) = {} /\ \A d \in Classes : ~HasLock(NoCall, d)
  BY <1>3 DEF Control, InRelease, OwnList, HasLock
<1>6. Stepped(t)
  BY <1>1, <1>2, <1>3, <1>4, <1>5, StepGives, CacheSame DEF IInv
<1>7. held' = [held EXCEPT ![t] = held[t] \cup L] /\ held[t] \cup L \in SUBSET Objects
  BY <1>1 DEF RemoveDone
<1> QED
  BY <1>1, <1>2, <1>3, <1>4, <1>5, <1>6, <1>7, ListToHeld DEF cache

LEMMA StartPopulateInv ==
  ASSUME IInv, NEW t \in Clients, StartPopulate(t)
  PROVE  IInv'
<1> DEFINE c == th[t].c
           r == [th[t] EXCEPT !.pc = "populate"]
<1>1. /\ th[t].pc = "fetch" /\ th[t] \in Calls /\ c \in Classes /\ OwnList(th[t]) = {} /\ th[t].list = {}
      /\ th[t].drop = {} /\ th[t].span = {}
  BY DEF StartPopulate, At, IInv, CentralTypes, Controls, Control, InRelease, OwnList
<1>2. UNCHANGED <<cache, spans, held>> /\ Release(c) /\ \A d \in Classes : HasLock(th[t], d) <=> d = c
  BY <1>1 DEF StartPopulate, HasLock
<1>3. r \in Calls /\ r.pc = "populate" /\ r.c = c /\ r.list = {} /\ r.drop = {} /\ r.span = {}
  BY <1>1 DEF Calls, Pcs
<1>4. Others(t) /\ th'[t] = r
  <2>1. th' = [th EXCEPT ![t] = r]
    BY DEF StartPopulate
  <2> QED
    BY <2>1, <1>3, Becomes DEF IInv
<1> HIDE DEF r
<1>5. Control(r) /\ OwnList(r) = {} /\ \A d \in Classes : ~HasLock(r, d)
  BY <1>1, <1>3 DEF Control, InRelease, OwnList, HasLock
<1>6. Stepped(t)
  BY <1>1, <1>2, <1>3, <1>4, <1>5, StepGives, CacheSame DEF IInv
<1> QED
  BY <1>1, <1>2, <1>3, <1>4, <1>5, <1>6, Quiet DEF cache

-----------------------------------------------------------------------------
(* The actions on a span.                                                   *)

\* Objects of a span that the page heap has, or that leaves for it, are nowhere.
LEMMA Nowhere ==
  ASSUME IInv, NEW x \in Objects, class[x[1]] = NoClass \/ leaving(x[1])
  PROVE  /\ Places(x) = {} /\ \A s \in Spans : x \notin objects[s]
         /\ \A c \in Classes : \A i \in DOMAIN slots[c] : x \notin slots[c][i]
         /\ \A u \in Clients : x \notin OwnList(th[u]) /\ x \notin th[u].drop
<1>1. Places(x) = {}
  BY DEF IInv, Conserved
<1>2. SpanPlaces(x) = {} /\ ListPlaces(x) = {} /\ DropPlaces(x) = {}
  BY <1>1 DEF Places
<1>3. \A p : p \notin SlotPlaces(x)
  BY <1>1 DEF Places
<1>4. \A c \in Classes : \A i \in DOMAIN slots[c] : x \notin slots[c][i]
  <2>1. SUFFICES ASSUME NEW c \in Classes, NEW i \in DOMAIN slots[c], x \in slots[c][i]
                 PROVE  FALSE
    OBVIOUS
  <2> DEFINE p == <<"slot", c, i>>
  <2>2. p \in SlotPlaces(x) <=> \E d \in Classes : \E j \in DOMAIN slots[d] : x \in slots[d][j] /\ p = <<"slot", d, j>>
    BY InSlot, Zenon
  <2> QED
    BY <1>3, <2>1, <2>2, Zenon
<1>5. \A s \in Spans : x \notin objects[s]
  BY <1>2 DEF SpanPlaces
<1>6. \A u \in Clients : x \notin OwnList(th[u])
  BY <1>2 DEF ListPlaces
<1>7. \A u \in Clients : x \notin th[u].drop
  BY <1>2 DEF DropPlaces
<1> QED
  BY <1>1, <1>4, <1>5, <1>6, <1>7

\* Whose class changes is nowhere, so that the others are where they belong.
LEMMA ClassChanged ==
  ASSUME IInv, NEW t \in Clients, Others(t), UNCHANGED slots, NEW s \in Spans,
         \A r \in Spans \ {s} : class'[r] = class[r], class[s] = NoClass \/ leaving(s),
         OwnList(th'[t]) = OwnList(th[t]), th'[t].c = th[t].c, th'[t].drop = th[t].drop, th'[t].from = th[t].from
  PROVE  ClassInv'
<1>1. \A x \in Objects : x[1] \in Spans
  BY DEF Objects
<1>2. \A x \in Objects : x[1] = s => \A c \in Classes : \A i \in DOMAIN slots[c] : x \notin slots[c][i]
  BY Nowhere, Zenon
<1>3. \A x \in Objects : x[1] = s => \A u \in Clients : x \notin OwnList(th[u]) /\ x \notin th[u].drop
  BY Nowhere, Zenon
<1>4. ASSUME NEW c \in Classes, NEW i \in DOMAIN slots'[c], NEW o \in slots'[c][i] PROVE class'[o[1]] = c
  <2>1. slots[c] \in Seq(SUBSET Objects) /\ i \in DOMAIN slots[c] /\ o \in slots[c][i]
    BY <1>4 DEF IInv, CentralTypes
  <2>2. slots[c][i] \in SUBSET Objects
    BY <2>1, ElementOfSeq, LenProperties
  <2> QED
    BY <1>1, <1>2, <2>1, <2>2 DEF IInv, ClassInv
<1>5. \A u \in Clients : OwnList(th'[u]) = OwnList(th[u]) /\ th'[u].c = th[u].c /\ th'[u].drop = th[u].drop /\ th'[u].from = th[u].from
  BY DEF Others
<1>6. \A u \in Clients : OwnList(th[u]) \subseteq Objects /\ th[u].drop \subseteq Objects
  BY DEF IInv, CentralTypes, Calls, OwnList
<1>7. \A u \in Clients : \A o \in OwnList(th'[u]) : class'[o[1]] = th'[u].c
  BY <1>1, <1>3, <1>5, <1>6 DEF IInv, ClassInv
<1>8. \A u \in Clients : \A o \in th'[u].drop : class'[o[1]] = th'[u].from
  BY <1>1, <1>3, <1>5, <1>6 DEF IInv, ClassInv
<1> QED
  BY <1>4, <1>7, <1>8 DEF ClassInv, OwnList

\* A step on one span, of the thread that has it on the way or the lock of its class.
LEMMA OneSpan ==
  ASSUME CentralTypes, SpanInv, NEW t \in Clients, Others(t), NEW c \in Classes, NEW s \in Spans,
         \A d \in Classes \ {c} : nonempty'[d] = nonempty[d] /\ empty'[d] = empty[d] /\ s \notin Mine(d),
         \A r \in Spans \ {s} : (r \in Range(nonempty'[c]) <=> r \in Range(nonempty[c])) /\ (r \in empty'[c] <=> r \in empty[c]),
         \A r \in Spans \ {s} : class'[r] = class[r] /\ objects'[r] = objects[r] /\ refcount'[r] = refcount[r],
         th[t].span \subseteq {s}, th'[t].span \subseteq {s}, \A u \in Clients \ {t} : s \notin th[u].span,
         IsInjective(nonempty'[c]), objects'[s] \subseteq ObjectsOf(s),
         s \in Mine(c)' => OnList(s, c)', s \in th'[t].span => OnTheWay(s, t)',
         class'[s] # NoClass => (class'[s] = c /\ s \in Mine(c)') \/ s \in th'[t].span
  PROVE  SpanInv'
<1>1. \A u \in Clients \ {t} : th'[u] = th[u]
  BY DEF Others
<1>2. ASSUME NEW r \in Spans, r # s, NEW d \in Classes
      PROVE  /\ r \in Range(nonempty'[d]) <=> r \in Range(nonempty[d])
             /\ r \in empty'[d] <=> r \in empty[d]
             /\ r \in Mine(d)' <=> r \in Mine(d)
  BY <1>2 DEF Mine
<1>3. \A r \in Spans \ {s}, u \in Clients : r \in th'[u].span <=> r \in th[u].span
  BY <1>1
<1>4. \A d \in Classes : IsInjective(nonempty'[d])
  BY DEF SpanInv
<1>5. \A r \in Spans : ObjectsOf(r)' = ObjectsOf(r)
  BY DEF ObjectsOf
<1>6. \A r \in Spans : (objects[r] \subseteq ObjectsOf(r))'
  BY <1>5 DEF SpanInv
<1>7. ASSUME NEW r \in Spans, NEW d \in Classes, r \in Mine(d)' PROVE OnList(r, d)'
  <2>1. CASE r = s
    <3>1. d = c
      BY <1>7, <2>1 DEF Mine
    <3> QED
      BY <1>7, <2>1, <3>1
  <2>2. CASE r # s
    <3>1. OnList(r, d)
      BY <1>2, <1>7, <2>2 DEF SpanInv
    <3> QED
      BY <1>2, <1>3, <2>2, <3>1 DEF OnList
  <2> QED
    BY <2>1, <2>2
<1>8. ASSUME NEW r \in Spans, NEW u \in Clients, r \in th'[u].span PROVE OnTheWay(r, u)'
  <2>1. CASE r = s
    BY <1>1, <1>8, <2>1
  <2>2. CASE r # s
    <3>1. u # t /\ r \in th[u].span /\ OnTheWay(r, u)
      BY <1>3, <1>8, <2>2 DEF SpanInv
    <3> QED
      BY <1>1, <1>3, <1>5, <2>2, <3>1 DEF OnTheWay
  <2> QED
    BY <2>1, <2>2
<1>9. ASSUME NEW r \in Spans, class'[r] # NoClass
      PROVE  r \in Range(nonempty'[class'[r]]) \cup empty'[class'[r]] \/ \E u \in Clients : r \in th'[u].span
  <2>1. CASE r = s
    BY <1>9, <2>1 DEF Mine
  <2>2. CASE r # s
    <3>1. class'[r] = class[r] /\ class[r] \in Classes
      BY <1>9, <2>2 DEF CentralTypes, SomeClass
    <3>2. CASE r \in Mine(class[r])
      <4>1. r \in Mine(class[r]) => r \in Range(nonempty'[class[r]]) \/ r \in empty'[class[r]]
        BY <1>2, <2>2, <3>1 DEF Mine
      <4> QED
        BY <3>1, <3>2, <4>1
    <3>3. CASE \E u \in Clients : r \in th[u].span
      BY <1>3, <2>2, <3>3
    <3> QED
      BY <1>9, <3>1, <3>2, <3>3 DEF SpanInv
  <2> QED
    BY <2>1, <2>2
<1>10. (\A d \in Classes : IsInjective(nonempty[d]))' /\ (\A r \in Spans, d \in Classes : r \in Mine(d) => OnList(r, d))'
  BY <1>4, <1>7
<1>11. (\A r \in Spans, u \in Clients : r \in th[u].span => OnTheWay(r, u))'
  BY <1>8
<1>12. (\A r \in Spans : class[r] # NoClass => r \in Mine(class[r]) \/ \E u \in Clients : r \in th[u].span)'
  BY <1>9 DEF Mine
<1> QED
  BY <1>6, <1>10, <1>11, <1>12 DEF SpanInv

LEMMA CountStep ==
  ASSUME CountInv, CentralTypes, NEW c \in Classes, NEW s \in Spans,
         \A d \in Classes \ {c} : nonempty'[d] = nonempty[d] /\ empty'[d] = empty[d] /\ s \notin Mine(d)
                                   /\ num_spans'[d] = num_spans[d] /\ counter'[d] = counter[d],
         \A r \in Spans \ {s} : objects'[r] = objects[r],
         num_spans'[c] = Cardinality(Mine(c)'), counter'[c] = Cardinality(FreeOf(c)')
  PROVE  CountInv'
<1>1. ASSUME NEW d \in Classes, d # c
      PROVE  num_spans'[d] = Cardinality(Mine(d)') /\ counter'[d] = Cardinality(FreeOf(d)')
  <2>1. Mine(d)' = Mine(d)
    BY <1>1 DEF Mine
  <2>2. \A r \in Mine(d) : r \in Spans \ {s}
    <3>1. nonempty[d] \in Seq(Spans) /\ empty[d] \subseteq Spans
      BY DEF CentralTypes
    <3>2. Range(nonempty[d]) \subseteq Spans
      BY <3>1, ElementOfSeq, LenProperties DEF Range
    <3> QED
      BY <1>1, <3>1, <3>2 DEF Mine
  <2>3. \A r \in Mine(d) : objects'[r] = objects[r]
    BY <2>2
  <2>4. FreeOf(d)' = FreeOf(d)
    BY <2>1, <2>3 DEF FreeOf
  <2> QED
    BY <1>1, <2>1, <2>4 DEF CountInv
<1> QED
  BY <1>1 DEF CountInv, Mine, FreeOf

LEMMA LeavingStep ==
  ASSUME NEW t \in Clients, Others(t), NEW r,
         th'[t].pc = "delete" /\ r \in th'[t].span <=> th[t].pc = "delete" /\ r \in th[t].span
  PROVE  leaving(r)' <=> leaving(r)
  BY DEF leaving, Others

\* The spans of a class and their free objects are finite.
LEMMA MineFinite ==
  ASSUME CentralTypes, NEW c \in Classes
  PROVE  /\ Mine(c) \subseteq Spans /\ IsFiniteSet(Mine(c)) /\ Range(nonempty[c]) \subseteq Spans
         /\ FreeOf(c) \subseteq Objects /\ IsFiniteSet(FreeOf(c))
<1>1. nonempty[c] \in Seq(Spans) /\ empty[c] \subseteq Spans
  BY DEF CentralTypes
<1>2. Range(nonempty[c]) \subseteq Spans
  BY <1>1, ElementOfSeq, LenProperties DEF Range
<1>3. Mine(c) \subseteq Spans
  BY <1>1, <1>2 DEF Mine
<1>4. IsFiniteSet(Mine(c))
  BY <1>3, CentralAssumption, FS_Subset
<1>5. FreeOf(c) \subseteq Objects
  BY <1>3 DEF FreeOf, CentralTypes
<1>6. IsFiniteSet(FreeOf(c))
  BY <1>5, ObjectsFinite, FS_Subset
<1> QED
  BY <1>2, <1>3, <1>4, <1>5, <1>6

LEMMA DeleteSpanInv ==
  ASSUME IInv, NEW t \in Clients, DeleteSpan(t)
  PROVE  IInv'
<1> DEFINE r == [th[t] EXCEPT !.pc = "relock", !.span = {}]
<1>1. th[t].pc = "delete" /\ th[t] \in Calls
  BY DEF DeleteSpan, At, IInv, CentralTypes
<1>2. /\ UNCHANGED <<lock, cache, nonempty, empty, num_spans, counter, objects, refcount, held>>
      /\ class' = [x \in Spans |-> IF x \in th[t].span THEN NoClass ELSE class[x]]
  BY DEF DeleteSpan
<1>3. /\ r \in Calls /\ r.pc = "relock" /\ r.c = th[t].c /\ r.list = th[t].list /\ r.span = {} /\ r.drop = th[t].drop
      /\ r.from = th[t].from /\ r.after = th[t].after
  BY <1>1 DEF Calls, Pcs
<1>4. Others(t) /\ th'[t] = r
  <2>1. th' = [th EXCEPT ![t] = r]
    BY <1>1 DEF DeleteSpan, IInv, CentralTypes, Calls
  <2> QED
    BY <2>1, <1>3, Becomes DEF IInv
<1> HIDE DEF r
<1>5. Control(r) /\ OwnList(r) = OwnList(th[t]) /\ \A d \in Classes : HasLock(r, d) <=> HasLock(th[t], d)
  BY <1>1, <1>3 DEF Control, InRelease, OwnList, HasLock, IInv, Controls
<1>6. LockInv' /\ lock' \in [Classes -> Clients \cup {NoThread}] /\ CacheBounded' /\ cache_size' \in [Classes -> Nat]
  BY <1>2, <1>4, <1>5, LockUnchanged, CacheSame DEF IInv
<1>7. CASE th[t].span = {}
  <2>1. UNCHANGED spans
    BY <1>2, <1>7 DEF spans, IInv, CentralTypes
  <2>2. Stepped(t)
    BY <1>3, <1>4, <1>5, <1>6, <1>7, <2>1 DEF Stepped
  <2> QED
    BY <1>2, <1>3, <1>4, <1>5, <2>2, Quiet DEF cache
<1>8. ASSUME NEW s \in Spans, s \in th[t].span PROVE IInv'
  <2>1. /\ th[t].span = {s} /\ class[s] # NoClass /\ leaving(s) /\ \A u \in Clients \ {t} : s \notin th[u].span
        /\ \A d \in Classes : s \notin Mine(d)
    BY <1>1, <1>8 DEF IInv, SpanInv, OnTheWay, OnList, leaving
  <2>2. /\ class' \in [Spans -> SomeClass] /\ class'[s] = NoClass /\ \A q \in Spans \ {s} : class'[q] = class[q]
    BY <1>2, <2>1 DEF IInv, CentralTypes, SomeClass
  <2>3. ClassInv'
    BY <1>2, <1>3, <1>4, <1>5, <2>1, <2>2, ClassChanged DEF cache
  <2>4. SpanInv'
    <3>1. PICK c \in Classes : class[s] = c
      BY <2>1 DEF IInv, CentralTypes, SomeClass
    <3>2. s \notin Mine(c)' /\ IsInjective(nonempty'[c]) /\ objects'[s] \subseteq ObjectsOf(s)
      BY <1>2, <2>1 DEF Mine, IInv, SpanInv
    <3> QED
      BY <1>2, <1>3, <1>4, <2>1, <2>2, <3>2, OneSpan DEF IInv
  <2>5. CountInv'
    BY <1>2 DEF IInv, CountInv, Mine, FreeOf
  <2>6. \A x \in Objects : Places(x)' = Places(x)
    <3> TAKE x \in Objects
    <3>1. ListPlaces(x)' = ListPlaces(x)
      BY <1>4, <1>5, ListStep
    <3>2. DropPlaces(x)' = DropPlaces(x)
      BY <1>3, <1>4, DropStep
    <3>3. SlotPlaces(x)' = SlotPlaces(x) /\ HeldPlaces(x)' = HeldPlaces(x) /\ SpanPlaces(x)' = SpanPlaces(x)
      BY <1>2 DEF SlotPlaces, HeldPlaces, SpanPlaces, cache
    <3> QED
      BY <3>1, <3>2, <3>3 DEF Places
  <2>7. Conserved'
    <3>1. ASSUME NEW x \in Objects, x[1] = s PROVE class'[x[1]] = NoClass /\ Places(x)' = {}
      BY <2>1, <2>2, <2>6, <3>1, Nowhere
    <3>2. ASSUME NEW x \in Objects, x[1] # s PROVE class'[x[1]] = class[x[1]] /\ (leaving(x[1])' <=> leaving(x[1]))
      <4>1. x[1] \in Spans
        BY DEF Objects
      <4>2. leaving(x[1])' <=> leaving(x[1])
        BY <1>3, <1>4, <2>1, <3>2, LeavingStep
      <4> QED
        BY <2>2, <3>2, <4>1, <4>2
    <3> QED
      BY <2>6, <3>1, <3>2 DEF IInv, Conserved
  <2>8. CentralTypes'
    BY <1>2, <1>4, <1>6, <2>2 DEF IInv, CentralTypes, Others, cache
  <2>9. Controls'
    BY <1>4, <1>5, ControlStep DEF IInv
  <2> QED
    BY <1>6, <2>3, <2>4, <2>5, <2>7, <2>8, <2>9 DEF IInv
<1> QED
  BY <1>1, <1>7, <1>8 DEF Calls

LEMMA PopulateInv ==
  ASSUME IInv, NEW t \in Clients, Populate(t)
  PROVE  IInv'
<1>0. PICK c \in Classes : c = th[t].c
  BY DEF Populate, At, IInv, Controls, Control
<1>1. /\ th[t].pc = "populate" /\ c = th[t].c /\ th[t] \in Calls /\ c \in Classes /\ th[t].list = {} /\ th[t].drop = {} /\ th[t].span = {}
      /\ OwnList(th[t]) = {}
  BY <1>0 DEF Populate, At, IInv, CentralTypes, Controls, Control, InRelease, OwnList
<1>2. UNCHANGED <<lock, cache, nonempty, empty, num_spans, counter, held>> /\ \A d \in Classes : ~HasLock(th[t], d)
  BY <1>1 DEF Populate, HasLock
<1>3. CASE th' = [th EXCEPT ![t].pc = "populated"] /\ UNCHANGED <<class, objects, refcount>>
  <2> DEFINE r == [th[t] EXCEPT !.pc = "populated"]
  <2>1. r \in Calls /\ r.pc = "populated" /\ r.c = c /\ r.list = {} /\ r.drop = {} /\ r.span = {}
    BY <1>1 DEF Calls, Pcs
  <2>2. Others(t) /\ th'[t] = r
    BY <1>3, <2>1, Becomes DEF IInv
  <2> HIDE DEF r
  <2>3. Control(r) /\ OwnList(r) = {} /\ \A d \in Classes : ~HasLock(r, d)
    BY <1>1, <2>1 DEF Control, InRelease, OwnList, HasLock
  <2>4. Stepped(t)
    BY <1>1, <1>2, <1>3, <2>1, <2>2, <2>3, StepSame, CacheSame DEF IInv, spans
  <2> QED
    BY <1>1, <1>2, <2>1, <2>2, <2>3, <2>4, Quiet DEF cache
<1>4. ASSUME NEW s \in Spans, class[s] = NoClass, class' = [class EXCEPT ![s] = th[t].c],
             objects' = [objects EXCEPT ![s] = ObjectsOf(s)], refcount' = [refcount EXCEPT ![s] = 0],
             th' = [th EXCEPT ![t].pc = "populated", ![t].span = {s}]
      PROVE  IInv'
  <2> DEFINE r == [th[t] EXCEPT !.pc = "populated", !.span = {s}]
  <2>1. r \in Calls /\ r.pc = "populated" /\ r.c = c /\ r.list = {} /\ r.drop = {} /\ r.span = {s} /\ r.from = th[t].from
    BY <1>1 DEF Calls, Pcs
  <2>2. Others(t) /\ th'[t] = r
    <3>1. th' = [th EXCEPT ![t] = r]
      BY <1>1, <1>4 DEF IInv, CentralTypes, Calls
    <3> QED
      BY <3>1, <2>1, Becomes DEF IInv
  <2> HIDE DEF r
  <2>3. Control(r) /\ OwnList(r) = {} /\ \A d \in Classes : ~HasLock(r, d)
    BY <1>1, <2>1 DEF Control, InRelease, OwnList, HasLock
  <2>4. LockInv' /\ lock' \in [Classes -> Clients \cup {NoThread}] /\ CacheBounded' /\ cache_size' \in [Classes -> Nat]
    BY <1>2, <2>2, <2>3, LockUnchanged, CacheSame DEF IInv
  <2>5. (\A d \in Classes : s \notin Mine(d)) /\ \A u \in Clients : s \notin th[u].span
    BY <1>4, CentralAssumption DEF IInv, SpanInv, OnList, OnTheWay
  <2>6. /\ class'[s] = c /\ c # NoClass /\ objects'[s] = ObjectsOf(s) /\ refcount'[s] = 0
        /\ class' \in [Spans -> SomeClass] /\ objects' \in [Spans -> SUBSET Objects] /\ refcount' \in [Spans -> 0..SpanObjects]
        /\ \A q \in Spans \ {s} : class'[q] = class[q] /\ objects'[q] = objects[q] /\ refcount'[q] = refcount[q]
    <3>1. ObjectsOf(s) \in SUBSET Objects /\ 0 \in 0..SpanObjects
      BY ObjectsOfIs, CentralAssumption
    <3> QED
      BY <1>1, <1>4, <3>1, CentralAssumption DEF IInv, CentralTypes, SomeClass
  <2>7. ClassInv'
    <3>1. OwnList(th'[t]) = OwnList(th[t]) /\ th'[t].c = th[t].c /\ th'[t].drop = th[t].drop /\ th'[t].from = th[t].from
      BY <1>1, <2>1, <2>2, <2>3
    <3> QED
      BY <1>2, <1>4, <2>2, <2>6, <3>1, ClassChanged DEF cache
  <2>8. SpanInv'
    <3>1. s \notin Mine(c)' /\ IsInjective(nonempty'[c])
      BY <1>1, <1>2, <2>5 DEF Mine, IInv, SpanInv
    <3>2. OnTheWay(s, t)'
      <4>1. \A u \in Clients : s \in th'[u].span => u = t
        BY <2>2, <2>5 DEF Others
      <4> QED
        BY <2>1, <2>2, <2>6, <4>1 DEF OnTheWay, ObjectsOf
    <3>3. \A d \in Classes \ {c} : nonempty'[d] = nonempty[d] /\ empty'[d] = empty[d] /\ s \notin Mine(d)
      BY <1>2, <2>5
    <3>4. \A q \in Spans \ {s} : (q \in Range(nonempty'[c]) <=> q \in Range(nonempty[c])) /\ (q \in empty'[c] <=> q \in empty[c])
      BY <1>2
    <3> QED
      BY <1>1, <2>1, <2>2, <2>5, <2>6, <3>1, <3>2, <3>3, <3>4, OneSpan DEF IInv
  <2>9. CountInv'
    <3>1. \A d \in Classes : Mine(d)' = Mine(d)
      BY <1>2 DEF Mine
    <3>2. \A d \in Classes : \A q \in Mine(d) : q \in Spans \ {s}
      BY <2>5, MineFinite DEF IInv
    <3>3. \A d \in Classes : FreeOf(d)' = FreeOf(d)
      BY <2>6, <3>1, <3>2 DEF FreeOf
    <3>4. \A d \in Classes : num_spans'[d] = Cardinality(Mine(d)) /\ counter'[d] = Cardinality(FreeOf(d))
      BY <1>2 DEF IInv, CountInv
    <3> QED
      BY <3>1, <3>3, <3>4 DEF CountInv
  <2>10. Conserved'
    <3>1. ASSUME NEW x \in Objects
          PROVE  /\ ListPlaces(x)' = ListPlaces(x) /\ DropPlaces(x)' = DropPlaces(x)
                 /\ SlotPlaces(x)' = SlotPlaces(x) /\ HeldPlaces(x)' = HeldPlaces(x)
      <4>1. x \in OwnList(th'[t]) <=> x \in OwnList(th[t])
        BY <1>1, <2>2, <2>3
      <4>2. x \in th'[t].drop <=> x \in th[t].drop
        BY <1>1, <2>1, <2>2
      <4>3. ListPlaces(x)' = ListPlaces(x)
        BY <2>2, <4>1, ListStep, Zenon
      <4>4. DropPlaces(x)' = DropPlaces(x)
        BY <2>2, <4>2, DropStep, Zenon
      <4>5. SlotPlaces(x)' = SlotPlaces(x) /\ HeldPlaces(x)' = HeldPlaces(x)
        BY <1>2 DEF SlotPlaces, HeldPlaces, cache
      <4> QED
        BY <4>3, <4>4, <4>5
    <3>2. ASSUME NEW x \in Objects, x[1] = s
          PROVE  class'[x[1]] # NoClass /\ ~leaving(x[1])' /\ \E p \in Places(x)' : Places(x)' = {p}
      <4>1. Places(x) = {}
        BY <1>4, <3>2, Nowhere
      <4>2. x \in ObjectsOf(s) /\ ObjectsOf(s) \in SUBSET Objects
        BY <3>2, ObjectsOfIs
      <4>3. SpanPlaces(x)' = SpanPlaces(x) \cup {<<"span", s>>}
        BY <1>4, <4>2, SpanStep DEF IInv
      <4>4. Places(x)' = {<<"span", s>>}
        BY <3>1, <4>1, <4>3 DEF Places
      <4>5. ~leaving(x[1])'
        BY <2>1, <2>2, <2>5, <3>2 DEF leaving, Others
      <4> QED
        BY <2>6, <3>2, <4>4, <4>5
    <3>3. ASSUME NEW x \in Objects, x[1] # s
          PROVE  class'[x[1]] = class[x[1]] /\ (leaving(x[1])' <=> leaving(x[1])) /\ Places(x)' = Places(x)
      <4>1. x[1] \in Spans
        BY DEF Objects
      <4>2. leaving(x[1])' <=> leaving(x[1])
        BY <1>1, <2>1, <2>2, LeavingStep
      <4>3. x \notin ObjectsOf(s) /\ x \notin objects[s] /\ ObjectsOf(s) \in SUBSET Objects
        BY <3>3, ObjectsOfIs DEF IInv, SpanInv
      <4>4. SpanPlaces(x)' = SpanPlaces(x)
        BY <1>4, <4>3, SpanStep DEF IInv
      <4>5. Places(x)' = Places(x)
        BY <3>1, <4>4 DEF Places
      <4> QED
        BY <2>6, <3>3, <4>1, <4>2, <4>5
    <3> QED
      BY <3>2, <3>3 DEF IInv, Conserved
  <2>11. CentralTypes'
    BY <1>2, <2>2, <2>4, <2>6 DEF IInv, CentralTypes, Others, cache
  <2>12. Controls'
    BY <2>2, <2>3, ControlStep DEF IInv
  <2> QED
    BY <2>4, <2>7, <2>8, <2>9, <2>10, <2>11, <2>12 DEF IInv
<1> QED
  BY <1>3, <1>4 DEF Populate

LEMMA PopulatedInv ==
  ASSUME IInv, NEW t \in Clients, Populated(t)
  PROVE  IInv'
<1>0. PICK c \in Classes : c = th[t].c
  BY DEF Populated, At, IInv, Controls, Control
<1> DEFINE new == th[t].span
           r == [th[t] EXCEPT !.pc = "fetch", !.populated = TRUE, !.span = {}]
<1>1. /\ th[t].pc = "populated" /\ c = th[t].c /\ th[t] \in Calls /\ th[t].list = {} /\ th[t].drop = {}
      /\ OwnList(th[t]) = {}
  BY <1>0 DEF Populated, At, IInv, CentralTypes, Controls, Control, InRelease, OwnList
<1>2. /\ UNCHANGED <<cache, empty, class, objects, refcount, held>> /\ Acquire(t, c)
      /\ nonempty' = [nonempty EXCEPT ![c] = IF new = {} THEN @ ELSE <<CHOOSE s \in new : TRUE>> \o @]
      /\ num_spans' = [num_spans EXCEPT ![c] = @ + Cardinality(new)]
      /\ counter' = [counter EXCEPT ![c] = @ + SpanObjects * Cardinality(new)]
  BY <1>0 DEF Populated
<1>3. r \in Calls /\ r.pc = "fetch" /\ r.c = c /\ r.list = {} /\ r.drop = {} /\ r.span = {} /\ r.from = th[t].from
  BY <1>1 DEF Calls, Pcs
<1>4. Others(t) /\ th'[t] = r
  <2>1. th' = [th EXCEPT ![t] = r]
    BY <1>1 DEF Populated, IInv, CentralTypes, Calls
  <2> QED
    BY <2>1, <1>3, Becomes DEF IInv
<1> HIDE DEF r
<1>5. Control(r) /\ OwnList(r) = {} /\ (\A d \in Classes : ~HasLock(th[t], d)) /\ \A d \in Classes : HasLock(r, d) <=> d = c
  BY <1>1, <1>3 DEF Control, InRelease, OwnList, HasLock
<1>6. LockInv' /\ lock' \in [Classes -> Clients \cup {NoThread}] /\ CacheBounded' /\ cache_size' \in [Classes -> Nat]
  BY <1>2, <1>4, <1>5, LockTaken, CacheSame DEF IInv
<1>7. CASE new = {}
  <2>1. Cardinality(new) = 0 /\ num_spans[c] \in Int /\ counter[c] \in Int /\ SpanObjects * 0 = 0
    BY <1>7, FS_EmptySet, CentralAssumption DEF IInv, CentralTypes
  <2>2. nonempty' = nonempty
    BY <1>2, <1>7 DEF IInv, CentralTypes
  <2>3. num_spans' = num_spans
    BY <1>2, <2>1 DEF IInv, CentralTypes
  <2>4. counter' = counter
    <3>1. counter[c] + SpanObjects * Cardinality(new) = counter[c]
      BY <2>1
    <3> QED
      BY <1>2, <3>1 DEF IInv, CentralTypes
  <2>5. Stepped(t)
    BY <1>2, <1>3, <1>4, <1>5, <1>6, <1>7, <2>2, <2>3, <2>4 DEF Stepped, spans
  <2> QED
    BY <1>1, <1>2, <1>3, <1>4, <1>5, <2>5, Quiet DEF cache
<1>8. ASSUME NEW s \in Spans, s \in new PROVE IInv'
  <2>1. /\ new = {s} /\ class[s] = c /\ objects[s] = ObjectsOf(s) /\ refcount[s] = 0
        /\ (\A u \in Clients \ {t} : s \notin th[u].span) /\ \A d \in Classes : s \notin Mine(d)
    BY <1>1, <1>8 DEF IInv, SpanInv, OnTheWay, OnList
  <2>2. Cardinality(new) = 1 /\ (CHOOSE x \in new : TRUE) = s
    BY <2>1, FS_Singleton
  <2>3. /\ nonempty'[c] = <<s>> \o nonempty[c] /\ num_spans'[c] = num_spans[c] + 1
        /\ counter'[c] = counter[c] + SpanObjects
        /\ \A d \in Classes \ {c} : nonempty'[d] = nonempty[d] /\ num_spans'[d] = num_spans[d] /\ counter'[d] = counter[d]
    <3>1. SpanObjects * 1 = SpanObjects
      BY CentralAssumption
    <3>2. counter'[c] = counter[c] + SpanObjects * Cardinality(new)
      BY <1>2 DEF IInv, CentralTypes
    <3>3. num_spans'[c] = num_spans[c] + Cardinality(new)
      BY <1>2 DEF IInv, CentralTypes
    <3>4. nonempty'[c] = <<s>> \o nonempty[c]
      BY <1>2, <1>8, <2>2 DEF IInv, CentralTypes
    <3>5. \A d \in Classes \ {c} : nonempty'[d] = nonempty[d] /\ num_spans'[d] = num_spans[d] /\ counter'[d] = counter[d]
      BY <1>2 DEF IInv, CentralTypes
    <3> QED
      BY <2>2, <3>1, <3>2, <3>3, <3>4, <3>5
  <2>4. nonempty[c] \in Seq(Spans) /\ num_spans[c] \in Int /\ counter[c] \in Int
    BY DEF IInv, CentralTypes
  <2>5. /\ nonempty'[c] \in Seq(Spans) /\ Range(nonempty'[c]) = Range(nonempty[c]) \cup {s} /\ IsInjective(nonempty'[c])
    BY <2>1, <2>3, <2>4, PushIs DEF Mine, IInv, SpanInv
  <2>6. nonempty' \in [Classes -> Seq(Spans)] /\ num_spans' \in [Classes -> Int] /\ counter' \in [Classes -> Int]
    <3>1. nonempty' \in [Classes -> Seq(Spans)]
      <4>1. nonempty' = [nonempty EXCEPT ![c] = nonempty'[c]]
        BY <1>2, <1>8, <2>2, <2>3 DEF IInv, CentralTypes
      <4> QED
        BY <2>5, <4>1 DEF IInv, CentralTypes
    <3>2. num_spans' \in [Classes -> Int]
      BY <1>2, <2>2, <2>4 DEF IInv, CentralTypes
    <3>3. counter' \in [Classes -> Int]
      <4>1. SpanObjects * Cardinality(new) \in Int
        BY <2>2, CentralAssumption
      <4> QED
        BY <1>2, <2>4, <4>1 DEF IInv, CentralTypes
    <3> QED
      BY <3>1, <3>2, <3>3
  <2>7. SpanInv'
    <3>1. OnList(s, c)'
      <4>1. \A u \in Clients : s \notin th'[u].span
        BY <1>3, <1>4, <2>1 DEF Others
      <4>2. Cardinality(ObjectsOf(s)) = SpanObjects /\ ObjectsOf(s) # {} /\ SpanObjects \in Nat
        BY ObjectsOfIs, FS_EmptySet, CentralAssumption
      <4>3. s \notin empty[c]
        BY <2>1 DEF Mine
      <4> QED
        BY <1>2, <2>1, <4>1, <4>2, <4>3 DEF OnList
    <3>2. objects'[s] \subseteq ObjectsOf(s) /\ class'[s] = c /\ s \in Mine(c)'
      BY <1>2, <2>1, <2>5 DEF Mine
    <3>3. \A d \in Classes \ {c} : nonempty'[d] = nonempty[d] /\ empty'[d] = empty[d] /\ s \notin Mine(d)
      BY <1>2, <2>1, <2>3
    <3>4. \A q \in Spans \ {s} : (q \in Range(nonempty'[c]) <=> q \in Range(nonempty[c])) /\ (q \in empty'[c] <=> q \in empty[c])
      BY <1>2, <2>5
    <3>5. \A q \in Spans \ {s} : class'[q] = class[q] /\ objects'[q] = objects[q] /\ refcount'[q] = refcount[q]
      BY <1>2
    <3>6. th[t].span \subseteq {s} /\ th'[t].span = {}
      BY <1>3, <1>4, <2>1
    <3> QED
      BY <1>4, <2>1, <2>5, <3>1, <3>2, <3>3, <3>4, <3>5, <3>6, OneSpan DEF IInv
  <2>8. CountInv'
    <3>1. Mine(c)' = Mine(c) \cup {s}
      BY <1>2, <2>5 DEF Mine
    <3>2. FreeOf(c)' = FreeOf(c) \cup ObjectsOf(s)
      BY <1>2, <2>1, <3>1 DEF FreeOf
    <3>3. Cardinality(Mine(c) \cup {s}) = Cardinality(Mine(c)) + 1
      BY <2>1, MineFinite, FS_AddElement DEF IInv
    <3>4. FreeOf(c) \cap ObjectsOf(s) = {}
      <4>1. \A q \in Mine(c) : q \in Spans /\ q # s
        BY <2>1, MineFinite DEF IInv
      <4>2. \A q \in Mine(c) : \A x \in objects[q] : x \notin ObjectsOf(s)
        BY <4>1 DEF IInv, SpanInv, ObjectsOf
      <4> QED
        BY <4>2 DEF FreeOf
    <3>5. Cardinality(FreeOf(c) \cup ObjectsOf(s)) = Cardinality(FreeOf(c)) + SpanObjects - Cardinality(FreeOf(c) \cap ObjectsOf(s))
      BY MineFinite, ObjectsOfIs, FS_Union DEF IInv
    <3>6. Cardinality(FreeOf(c) \cap ObjectsOf(s)) = 0
      BY <3>4, FS_EmptySet
    <3>7. num_spans[c] = Cardinality(Mine(c)) /\ counter[c] = Cardinality(FreeOf(c))
      BY DEF IInv, CountInv
    <3>8. counter[c] + SpanObjects - 0 = counter[c] + SpanObjects
      BY <2>4, CentralAssumption
    <3>9. num_spans'[c] = Cardinality(Mine(c)') /\ counter'[c] = Cardinality(FreeOf(c)')
      BY <2>3, <3>1, <3>2, <3>3, <3>5, <3>6, <3>7, <3>8
    <3>10. \A d \in Classes \ {c} : nonempty'[d] = nonempty[d] /\ empty'[d] = empty[d] /\ s \notin Mine(d)
                                    /\ num_spans'[d] = num_spans[d] /\ counter'[d] = counter[d]
      BY <1>2, <2>1, <2>3
    <3>11. \A q \in Spans \ {s} : objects'[q] = objects[q]
      BY <1>2
    <3> QED
      BY <3>9, <3>10, <3>11, CountStep DEF IInv
  <2>9. ClassInv'
    <3>1. \A d \in Classes : \A i \in DOMAIN slots'[d] : \A o \in slots'[d][i] : class[o[1]] = d
      BY <1>2 DEF IInv, ClassInv, cache
    <3> QED
      BY <1>2, <1>3, <1>4, <1>5, <3>1, ClassStep DEF IInv
  <2>10. Conserved'
    <3>1. ASSUME NEW x \in Objects PROVE Places(x)' = Places(x)
      <4>1. ListPlaces(x)' = ListPlaces(x)
        BY <1>1, <1>4, <1>5, ListStep
      <4>2. DropPlaces(x)' = DropPlaces(x)
        BY <1>1, <1>3, <1>4, DropStep
      <4>3. SlotPlaces(x)' = SlotPlaces(x) /\ HeldPlaces(x)' = HeldPlaces(x) /\ SpanPlaces(x)' = SpanPlaces(x)
        BY <1>2 DEF SlotPlaces, HeldPlaces, SpanPlaces, cache
      <4> QED
        BY <4>1, <4>2, <4>3 DEF Places
    <3>2. \A q \in Spans : leaving(q)' <=> leaving(q)
      BY <1>1, <1>3, <1>4, LeavingStep
    <3> QED
      BY <1>2, <3>1, <3>2, Moved DEF IInv
  <2>11. CentralTypes'
    BY <1>2, <1>4, <1>6, <2>6 DEF IInv, CentralTypes, Others, cache
  <2>12. Controls'
    BY <1>4, <1>5, ControlStep DEF IInv
  <2> QED
    BY <1>6, <2>7, <2>8, <2>9, <2>10, <2>11, <2>12 DEF IInv
<1> QED
  BY <1>1, <1>7, <1>8 DEF Calls

\* A span that is on a list of its class: what is on it, and where else it is.
LEMMA Listed ==
  ASSUME IInv, NEW c \in Classes, NEW s \in Mine(c)
  PROVE  /\ s \in Spans /\ OnList(s, c) /\ c # NoClass /\ (\A d \in Classes \ {c} : s \notin Mine(d))
         /\ objects[s] \subseteq ObjectsOf(s) /\ IsFiniteSet(objects[s])
         /\ Cardinality(objects[s]) \in 0..SpanObjects
<1>1. s \in Spans
  BY MineFinite DEF IInv
<1>2. OnList(s, c) /\ objects[s] \subseteq ObjectsOf(s) /\ c # NoClass
  BY <1>1, CentralAssumption DEF IInv, SpanInv
<1>3. \A d \in Classes \ {c} : s \notin Mine(d)
  BY <1>1, <1>2 DEF IInv, SpanInv, OnList
<1>4. IsFiniteSet(objects[s]) /\ Cardinality(objects[s]) <= SpanObjects
  BY <1>1, <1>2, ObjectsOfIs, FS_Subset
<1>5. Cardinality(objects[s]) \in Nat
  BY <1>4, FS_CardinalityType
<1> QED
  BY <1>1, <1>2, <1>3, <1>4, <1>5, CentralAssumption

LEMMA FetchInv ==
  ASSUME IInv, NEW t \in Clients, FetchFromOneSpans(t)
  PROVE  IInv'
<1>0. PICK c \in Classes : c = th[t].c
  BY DEF FetchFromOneSpans, At, IInv, Controls, Control
<1>s. PICK s : s = Head(nonempty[c])
  OBVIOUS
<1> DEFINE L == th[t].list
           k == LeastOf(th[t].n - Cardinality(L), Cardinality(objects[s]))
           got == Some(objects[s], k)
           r == [th[t] EXCEPT !.list = L \cup got]
<1>1. /\ th[t].pc = "fetch" /\ c = th[t].c /\ th[t] \in Calls /\ th[t].drop = {} /\ th[t].span = {}
      /\ OwnList(th[t]) = L /\ L \subseteq Objects /\ th[t].n \in Nat
  BY <1>0 DEF FetchFromOneSpans, At, IInv, CentralTypes, Controls, Control, InRelease, OwnList, Calls
<1>2. /\ nonempty[c] # <<>> /\ Cardinality(L) < th[t].n
      /\ objects' = [objects EXCEPT ![s] = @ \ got]
      /\ refcount' = [refcount EXCEPT ![s] = @ + Cardinality(got)]
      /\ counter' = [counter EXCEPT ![c] = @ - Cardinality(got)]
      /\ nonempty' = [nonempty EXCEPT ![c] = IF got = objects[s] THEN Tail(@) ELSE @]
      /\ empty' = [empty EXCEPT ![c] = IF got = objects[s] THEN @ \union {s} ELSE @]
      /\ th' = [th EXCEPT ![t] = r]
      /\ UNCHANGED <<lock, cache, num_spans, class, held, ops>>
  BY <1>0, <1>s DEF FetchFromOneSpans
<1>3. nonempty[c] \in Seq(Spans) /\ empty[c] \subseteq Spans /\ counter[c] \in Int /\ IsInjective(nonempty[c])
  BY DEF IInv, CentralTypes, SpanInv
<1>4. s \in Range(nonempty[c]) /\ Tail(nonempty[c]) \in Seq(Spans) /\ IsInjective(Tail(nonempty[c])) /\ Range(Tail(nonempty[c])) = Range(nonempty[c]) \ {s}
  BY <1>2, <1>3, <1>s, TailIs
<1>5. s \in Mine(c)
  BY <1>4 DEF Mine
<1>6. /\ s \in Spans /\ OnList(s, c) /\ c # NoClass /\ (\A d \in Classes \ {c} : s \notin Mine(d))
      /\ objects[s] \subseteq ObjectsOf(s) /\ IsFiniteSet(objects[s]) /\ Cardinality(objects[s]) \in 0..SpanObjects
  BY <1>5, Listed
<1>7. class[s] = c /\ s \notin empty[c] /\ objects[s] # {} /\ (\A u \in Clients : s \notin th[u].span)
      /\ refcount[s] = SpanObjects - Cardinality(objects[s])
  BY <1>4, <1>6 DEF OnList
<1>8. k \in Nat /\ k <= Cardinality(objects[s])
  <2>1. IsFiniteSet(L)
    BY <1>1, ObjectsFinite, FS_Subset
  <2>2. Cardinality(L) \in Nat
    BY <2>1, FS_CardinalityType
  <2> QED
    BY <1>1, <1>2, <1>6, <2>2, CentralAssumption DEF LeastOf
<1> HIDE DEF k
<1>9. got \subseteq objects[s] /\ Cardinality(got) = k
  BY <1>6, <1>8, SomeIs
<1> HIDE DEF got
<1>10. objects[s] \subseteq Objects
  BY <1>6, ObjectsOfIs
<1>11. r \in Calls /\ r.pc = "fetch" /\ r.c = c /\ r.list = L \cup got /\ r.drop = {} /\ r.span = {} /\ r.from = th[t].from
  BY <1>1, <1>9, <1>10 DEF Calls
<1>12. Others(t) /\ th'[t] = r
  BY <1>2, <1>11, Becomes DEF IInv
<1> HIDE DEF r
<1>13. Control(r) /\ OwnList(r) = L \cup got /\ \A d \in Classes : HasLock(r, d) <=> HasLock(th[t], d)
  BY <1>1, <1>11 DEF Control, InRelease, OwnList, HasLock
<1>14. LockInv' /\ lock' \in [Classes -> Clients \cup {NoThread}] /\ CacheBounded' /\ cache_size' \in [Classes -> Nat]
  BY <1>2, <1>12, <1>13, LockUnchanged, CacheSame DEF IInv
<1>15. /\ objects'[s] = objects[s] \ got /\ refcount'[s] = refcount[s] + k /\ counter'[c] = counter[c] - k
       /\ objects' \in [Spans -> SUBSET Objects] /\ counter' \in [Classes -> Int]
       /\ \A q \in Spans \ {s} : objects'[q] = objects[q] /\ refcount'[q] = refcount[q]
       /\ \A d \in Classes \ {c} : counter'[d] = counter[d]
  BY <1>2, <1>3, <1>6, <1>8, <1>9, <1>10, SMTT(30) DEF IInv, CentralTypes
<1>16. Cardinality(objects[s] \ got) = Cardinality(objects[s]) - k
  <2>1. objects[s] \cap got = got
    BY <1>9
  <2> QED
    BY <1>6, <1>9, <2>1, FS_Difference
<1>17. refcount'[s] = SpanObjects - Cardinality(objects'[s]) /\ refcount'[s] \in 0..SpanObjects
  BY <1>6, <1>7, <1>8, <1>15, <1>16, CentralAssumption
<1>18. refcount' \in [Spans -> 0..SpanObjects]
  <2>1. refcount' = [refcount EXCEPT ![s] = refcount'[s]]
    BY <1>2, <1>6 DEF IInv, CentralTypes
  <2> QED
    BY <1>17, <2>1 DEF IInv, CentralTypes
<1>19. /\ nonempty' \in [Classes -> Seq(Spans)] /\ empty' \in [Classes -> SUBSET Spans]
       /\ \A d \in Classes \ {c} : nonempty'[d] = nonempty[d] /\ empty'[d] = empty[d]
  BY <1>2, <1>3, <1>4, <1>6 DEF IInv, CentralTypes
<1>21. /\ IsInjective(nonempty'[c]) /\ Range(nonempty'[c]) = IF got = objects[s] THEN Range(nonempty[c]) \ {s} ELSE Range(nonempty[c])
       /\ empty'[c] = IF got = objects[s] THEN empty[c] \cup {s} ELSE empty[c]
  <2>1. nonempty'[c] = IF got = objects[s] THEN Tail(nonempty[c]) ELSE nonempty[c]
    BY <1>2 DEF IInv, CentralTypes
  <2>2. empty'[c] = IF got = objects[s] THEN empty[c] \cup {s} ELSE empty[c]
    BY <1>2 DEF IInv, CentralTypes
  <2>3. CASE got = objects[s]
    BY <1>4, <2>1, <2>2, <2>3
  <2>4. CASE got # objects[s]
    BY <1>3, <2>1, <2>2, <2>4
  <2> QED
    BY <2>3, <2>4
<1>22. Mine(c)' = Mine(c)
  <2>1. CASE got = objects[s]
    BY <1>4, <1>21, <2>1 DEF Mine
  <2>2. CASE got # objects[s]
    BY <1>21, <2>2 DEF Mine
  <2> QED
    BY <2>1, <2>2
<1>23. SpanInv'
  <2>1. OnList(s, c)'
    <3>1. \A u \in Clients : s \notin th'[u].span
      BY <1>7, <1>11, <1>12 DEF Others
    <3>2. class'[s] = c
      BY <1>2, <1>7
    <3>3. s \in empty'[c] <=> objects'[s] = {}
      <4>1. got = objects[s] <=> objects'[s] = {}
        BY <1>9, <1>15
      <4> QED
        BY <1>7, <1>21, <4>1
    <3>4. s \in empty'[c] => s \notin Range(nonempty'[c])
      BY <1>7, <1>21
    <3> QED
      BY <1>17, <3>1, <3>2, <3>3, <3>4 DEF OnList
  <2>2. objects'[s] \subseteq ObjectsOf(s) /\ class'[s] = c /\ s \in Mine(c)'
    BY <1>2, <1>5, <1>6, <1>7, <1>15, <1>22
  <2>3. \A d \in Classes \ {c} : nonempty'[d] = nonempty[d] /\ empty'[d] = empty[d] /\ s \notin Mine(d)
    BY <1>6, <1>19
  <2>4. \A q \in Spans \ {s} : (q \in Range(nonempty'[c]) <=> q \in Range(nonempty[c])) /\ (q \in empty'[c] <=> q \in empty[c])
    BY <1>21
  <2>5. \A q \in Spans \ {s} : class'[q] = class[q] /\ objects'[q] = objects[q] /\ refcount'[q] = refcount[q]
    BY <1>2, <1>15
  <2>6. th[t].span = {} /\ th'[t].span = {}
    BY <1>1, <1>11, <1>12
  <2> QED
    BY <1>6, <1>7, <1>12, <1>21, <2>1, <2>2, <2>3, <2>4, <2>5, <2>6, OneSpan DEF IInv
<1>24. CountInv'
  <2>1. FreeOf(c)' = FreeOf(c) \ got
    <3>1. \A q \in Mine(c) : q \in Spans
      BY MineFinite DEF IInv
    <3>2. \A q \in Mine(c) \ {s} : objects[q] \cap got = {}
      BY <1>6, <1>9, <3>1 DEF IInv, SpanInv, ObjectsOf
    <3>3. \A q \in Mine(c) : objects'[q] = objects[q] \ got
      BY <1>15, <3>1, <3>2
    <3>4. FreeOf(c)' = UNION {objects'[q] : q \in Mine(c)}
      BY <1>22 DEF FreeOf
    <3> QED
      BY <3>3, <3>4 DEF FreeOf
  <2>2. FreeOf(c) \cap got = got
    BY <1>5, <1>9 DEF FreeOf
  <2>3. Cardinality(FreeOf(c) \ got) = Cardinality(FreeOf(c)) - k
    BY <1>9, <2>2, MineFinite, FS_Difference, ZenonT(60) DEF IInv
  <2>4. num_spans[c] = Cardinality(Mine(c)) /\ counter[c] = Cardinality(FreeOf(c))
    BY DEF IInv, CountInv
  <2>5. num_spans'[c] = Cardinality(Mine(c)') /\ counter'[c] = Cardinality(FreeOf(c)')
    BY <1>2, <1>15, <1>22, <2>1, <2>3, <2>4
  <2>6. \A d \in Classes \ {c} : nonempty'[d] = nonempty[d] /\ empty'[d] = empty[d] /\ s \notin Mine(d)
                                  /\ num_spans'[d] = num_spans[d] /\ counter'[d] = counter[d]
    BY <1>2, <1>6, <1>15, <1>19
  <2> QED
    BY <1>6, <1>15, <2>5, <2>6, CountStep DEF IInv
<1>25. ClassInv'
  <2>1. \A d \in Classes : \A i \in DOMAIN slots'[d] : \A o \in slots'[d][i] : class[o[1]] = d
    BY <1>2 DEF IInv, ClassInv, cache
  <2>2. \A o \in OwnList(th'[t]) : class[o[1]] = th'[t].c
    <3>1. \A o \in got : o[1] = s
      BY <1>6, <1>9, <1>10, ObjectsOfIs
    <3>2. \A o \in L : class[o[1]] = c
      BY <1>1 DEF IInv, ClassInv
    <3> QED
      BY <1>7, <1>11, <1>12, <1>13, <3>1, <3>2
  <2>3. \A o \in th'[t].drop : class[o[1]] = th'[t].from
    BY <1>11, <1>12
  <2> QED
    BY <1>2, <1>12, <2>1, <2>2, <2>3, ClassStep DEF IInv
<1>26. Conserved'
  <2>1. ASSUME NEW x \in Objects PROVE Places(x)' = Places(x) \/ (Places(x) # {} /\ \E q : Places(x)' = {q})
    <3>1. DropPlaces(x)' = DropPlaces(x)
      BY <1>1, <1>11, <1>12, DropStep
    <3>2. SlotPlaces(x)' = SlotPlaces(x) /\ HeldPlaces(x)' = HeldPlaces(x)
      BY <1>2 DEF SlotPlaces, HeldPlaces, cache
    <3>3. objects' = [objects EXCEPT ![s] = objects[s] \ got] /\ objects[s] \ got \in SUBSET Objects
      BY <1>2, <1>10
    <3>4. CASE x \in got
      <4>1. <<"span", s>> \in Places(x)
        BY <1>6, <1>9, <3>3, <3>4, SpanStep DEF Places, IInv
      <4>2. /\ Places(x) = {<<"span", s>>} /\ ListPlaces(x) = {} /\ SlotPlaces(x) = {}
            /\ HeldPlaces(x) = {} /\ DropPlaces(x) = {}
        BY <4>1, Alone DEF IInv
      <4>3. SpanPlaces(x)' = SpanPlaces(x) \ {<<"span", s>>}
        <5>1. x \notin objects[s] \ got
          BY <3>4
        <5> QED
          BY <1>6, <3>3, <5>1, SpanStep, Zenon DEF IInv
      <4>4. ListPlaces(x)' = ListPlaces(x) \cup {<<"list", t>>}
        <5>1. x \in OwnList(th'[t])
          BY <1>12, <1>13, <3>4
        <5> QED
          BY <1>12, <5>1, ListStep, Zenon
      <4>5. SpanPlaces(x)' = {} /\ ListPlaces(x)' = {<<"list", t>>}
        BY <4>2, <4>3, <4>4 DEF Places
      <4>6. Places(x)' = {<<"list", t>>}
        BY <3>1, <3>2, <4>2, <4>5 DEF Places
      <4> QED
        BY <4>2, <4>6
    <3>5. CASE x \notin got
      <4>1. SpanPlaces(x)' = SpanPlaces(x)
        <5>1. x \in objects[s] \ got <=> x \in objects[s]
          BY <3>5
        <5> QED
          BY <1>6, <3>3, <5>1, SpanStep DEF IInv
      <4>2. ListPlaces(x)' = ListPlaces(x)
        <5>1. x \in OwnList(th'[t]) <=> x \in OwnList(th[t])
          BY <1>1, <1>12, <1>13, <3>5
        <5> QED
          BY <1>12, <5>1, ListStep, Zenon
      <4> QED
        BY <3>1, <3>2, <4>1, <4>2 DEF Places
    <3> QED
      BY <3>4, <3>5
  <2>2. \A q \in Spans : leaving(q)' <=> leaving(q)
    BY <1>1, <1>11, <1>12, LeavingStep
  <2> QED
    BY <1>2, <2>1, <2>2, Moved DEF IInv
<1>27. CentralTypes'
  BY <1>2, <1>12, <1>14, <1>15, <1>18, <1>19 DEF IInv, CentralTypes, Others, cache
<1>28. Controls'
  BY <1>12, <1>13, ControlStep DEF IInv
<1> QED
  BY <1>14, <1>23, <1>24, <1>25, <1>26, <1>27, <1>28 DEF IInv

LEMMA CutAny ==
  ASSUME NEW S, NEW q \in Seq(S), IsInjective(q), NEW s
  PROVE  Cut(q, s) \in Seq(S) /\ IsInjective(Cut(q, s)) /\ Range(Cut(q, s)) = Range(q) \ {s}
<1>1. CASE s \in Range(q)
  BY <1>1, CutIs
<1>2. CASE s \notin Range(q)
  BY <1>2 DEF Cut
<1> QED
  BY <1>1, <1>2

\* An object that is being released is not on its span, and the span is on a list of its class.
LEMMA Released ==
  ASSUME IInv, NEW t \in Clients, th[t].pc = "release", NEW o \in th[t].drop, NEW c \in Classes, c = th[t].from, NEW s, s = o[1]
  PROVE  s \in Mine(c) /\ o \in Objects /\ o \in ObjectsOf(s) /\ o \notin objects[s] /\ class[s] = c /\ Places(o) = {<<"drop", t>>}
<1>1. o \in Objects /\ s \in Spans
  BY DEF IInv, CentralTypes, Calls, Objects
<1>2. <<"drop", t>> \in Places(o)
  BY DEF Places, DropPlaces
<1>3. Places(o) = {<<"drop", t>>} /\ class[s] # NoClass /\ ~leaving(s) /\ SpanPlaces(o) = {}
  BY <1>1, <1>2, Alone DEF IInv
<1>4. o \in ObjectsOf(s) /\ o \notin objects[s] /\ class[s] = c
  <2>1. o \in ObjectsOf(s)
    BY <1>1, ObjectsOfIs
  <2>2. o \notin objects[s]
    BY <1>1, <1>3 DEF SpanPlaces
  <2>3. class[s] = c
    BY DEF IInv, ClassInv
  <2> QED
    BY <2>1, <2>2, <2>3
<1>5. ASSUME NEW u \in Clients, s \in th[u].span PROVE FALSE
  <2>1. th[u].pc \in {"delete", "populated"} /\ OnTheWay(s, u)
    BY <1>1, <1>5 DEF IInv, SpanInv, Controls, Control
  <2>2. th[u].pc # "delete"
    BY <1>3, <1>5 DEF leaving
  <2> QED
    BY <1>4, <2>1, <2>2 DEF OnTheWay
<1> QED
  BY <1>1, <1>3, <1>4, <1>5 DEF IInv, SpanInv

\* An object goes back to its span, which stays.
LEMMA ReturnInv ==
  ASSUME IInv, NEW t \in Clients, th[t].pc = "release", NEW o \in th[t].drop, NEW c \in Classes, c = th[t].from,
         NEW s, s = o[1], refcount[s] # 1,
         refcount' = [refcount EXCEPT ![s] = @ - 1], objects' = [objects EXCEPT ![s] = @ \cup {o}],
         counter' = [counter EXCEPT ![c] = @ + 1],
         nonempty' = [nonempty EXCEPT ![c] = IF objects[s] = {} THEN <<s>> \o @ ELSE @],
         empty' = [empty EXCEPT ![c] = @ \ {s}], th' = [th EXCEPT ![t].drop = @ \ {o}],
         UNCHANGED <<lock, num_spans, cache, class, held>>
  PROVE  IInv'
<1> DEFINE D == th[t].drop \ {o}
           r == [th[t] EXCEPT !.drop = D]
<1>1. s \in Mine(c) /\ o \in Objects /\ o \in ObjectsOf(s) /\ o \notin objects[s] /\ class[s] = c /\ Places(o) = {<<"drop", t>>}
  BY Released
<1>2. /\ s \in Spans /\ OnList(s, c) /\ c # NoClass /\ (\A d \in Classes \ {c} : s \notin Mine(d))
      /\ objects[s] \subseteq ObjectsOf(s) /\ IsFiniteSet(objects[s]) /\ Cardinality(objects[s]) \in 0..SpanObjects
  BY <1>1, Listed
<1>3. /\ (s \in empty[c] <=> objects[s] = {}) /\ (s \in empty[c] => s \notin Range(nonempty[c]))
      /\ (\A u \in Clients : s \notin th[u].span) /\ refcount[s] = SpanObjects - Cardinality(objects[s])
  BY <1>2 DEF OnList
<1>4. th[t] \in Calls /\ th[t].c \in Classes /\ th[t].span = {} /\ th[t].drop \subseteq Objects
  BY DEF IInv, CentralTypes, Controls, Control, Calls
<1>5. /\ r \in Calls /\ r.pc = "release" /\ r.c = th[t].c /\ r.list = th[t].list /\ r.drop = D /\ r.span = {}
      /\ r.from = c /\ r.after = th[t].after
  BY <1>4 DEF Calls
<1>6. Others(t) /\ th'[t] = r
  BY <1>5, Becomes DEF IInv
<1> HIDE DEF r
<1>7. Control(r) /\ OwnList(r) = OwnList(th[t]) /\ \A d \in Classes : HasLock(r, d) <=> HasLock(th[t], d)
  BY <1>4, <1>5 DEF Control, InRelease, OwnList, HasLock
<1>8. LockInv' /\ lock' \in [Classes -> Clients \cup {NoThread}] /\ CacheBounded' /\ cache_size' \in [Classes -> Nat]
  BY <1>6, <1>7, LockUnchanged, CacheSame DEF IInv
<1>9. nonempty[c] \in Seq(Spans) /\ empty[c] \subseteq Spans /\ counter[c] \in Int /\ IsInjective(nonempty[c])
  BY DEF IInv, CentralTypes, SpanInv
<1>10. Cardinality(objects[s] \cup {o}) = Cardinality(objects[s]) + 1 /\ objects[s] \cup {o} \subseteq ObjectsOf(s)
       /\ objects[s] \cup {o} \subseteq Objects /\ Cardinality(objects[s] \cup {o}) <= SpanObjects
  <2>1. Cardinality(objects[s] \cup {o}) = Cardinality(objects[s]) + 1
    BY <1>1, <1>2, FS_AddElement
  <2>2. objects[s] \cup {o} \subseteq ObjectsOf(s) /\ objects[s] \cup {o} \subseteq Objects
    BY <1>1, <1>2, ObjectsOfIs
  <2>3. Cardinality(objects[s] \cup {o}) <= SpanObjects
    BY <1>2, <2>2, ObjectsOfIs, FS_Subset
  <2> QED
    BY <2>1, <2>2, <2>3
<1>11. /\ objects'[s] = objects[s] \cup {o} /\ refcount'[s] = refcount[s] - 1 /\ counter'[c] = counter[c] + 1
       /\ objects' \in [Spans -> SUBSET Objects] /\ counter' \in [Classes -> Int]
       /\ \A q \in Spans \ {s} : objects'[q] = objects[q] /\ refcount'[q] = refcount[q]
       /\ \A d \in Classes \ {c} : counter'[d] = counter[d]
  BY <1>2, <1>9, <1>10 DEF IInv, CentralTypes
<1>12. refcount'[s] = SpanObjects - Cardinality(objects'[s]) /\ refcount'[s] \in 0..SpanObjects
  <2> DEFINE n == Cardinality(objects[s])
  <2>1. n \in 0..SpanObjects /\ SpanObjects \in Nat /\ refcount'[s] = (SpanObjects - n) - 1
    BY <1>2, <1>3, <1>11, CentralAssumption
  <2>2. Cardinality(objects'[s]) = n + 1 /\ n + 1 <= SpanObjects
    BY <1>10, <1>11
  <2> HIDE DEF n
  <2> QED
    BY <2>1, <2>2
<1>13. refcount' \in [Spans -> 0..SpanObjects]
  <2>1. refcount' = [refcount EXCEPT ![s] = refcount'[s]]
    BY <1>2 DEF IInv, CentralTypes
  <2> QED
    BY <1>12, <2>1 DEF IInv, CentralTypes
<1>14. <<s>> \o nonempty[c] \in Seq(Spans) /\ Range(<<s>> \o nonempty[c]) = Range(nonempty[c]) \cup {s}
       /\ (s \notin Range(nonempty[c]) => IsInjective(<<s>> \o nonempty[c]))
  BY <1>2, <1>9, PushIs
<1>15. /\ nonempty' \in [Classes -> Seq(Spans)] /\ empty' \in [Classes -> SUBSET Spans]
       /\ \A d \in Classes \ {c} : nonempty'[d] = nonempty[d] /\ empty'[d] = empty[d]
  BY <1>9, <1>14 DEF IInv, CentralTypes
<1>16. IsInjective(nonempty'[c]) /\ Range(nonempty'[c]) = Range(nonempty[c]) \cup {s} /\ empty'[c] = empty[c] \ {s}
  <2>1. nonempty'[c] = IF objects[s] = {} THEN <<s>> \o nonempty[c] ELSE nonempty[c]
    BY DEF IInv, CentralTypes
  <2>2. empty'[c] = empty[c] \ {s}
    BY DEF IInv, CentralTypes
  <2>3. CASE objects[s] = {}
    BY <1>3, <1>14, <2>1, <2>2, <2>3
  <2>4. CASE objects[s] # {}
    BY <1>1, <1>3, <1>9, <2>1, <2>2, <2>4 DEF Mine
  <2> QED
    BY <2>3, <2>4
<1>17. Mine(c)' = Mine(c)
  BY <1>1, <1>16 DEF Mine
<1>18. SpanInv'
  <2>1. OnList(s, c)'
    <3>1. \A u \in Clients : s \notin th'[u].span
      BY <1>3, <1>5, <1>6 DEF Others
    <3> QED
      BY <1>1, <1>11, <1>12, <1>16, <3>1 DEF OnList
  <2>2. objects'[s] \subseteq ObjectsOf(s) /\ class'[s] = c /\ s \in Mine(c)'
    BY <1>1, <1>10, <1>11, <1>17
  <2>3. \A q \in Spans \ {s} : (q \in Range(nonempty'[c]) <=> q \in Range(nonempty[c])) /\ (q \in empty'[c] <=> q \in empty[c])
    BY <1>16
  <2>4. th[t].span = {} /\ th'[t].span = {}
    BY <1>4, <1>5, <1>6
  <2> QED
    BY <1>2, <1>3, <1>6, <1>11, <1>15, <1>16, <2>1, <2>2, <2>3, <2>4, OneSpan, ZenonT(60) DEF IInv
<1>19. CountInv'
  <2>1. FreeOf(c)' = FreeOf(c) \cup {o}
    <3>1. \A q \in Mine(c) : q \in Spans
      BY MineFinite DEF IInv
    <3>2. FreeOf(c)' = UNION {objects'[q] : q \in Mine(c)}
      BY <1>17 DEF FreeOf
    <3>3. \A q \in Mine(c) : objects'[q] = IF q = s THEN objects[q] \cup {o} ELSE objects[q]
      BY <1>11, <3>1
    <3> QED
      BY <1>1, <3>2, <3>3, SMTT(30) DEF FreeOf
  <2>2. o \notin FreeOf(c)
    <3>1. \A q \in Mine(c) : o \in objects[q] => q = s
      BY <1>1, ObjectsOfIs, MineFinite DEF IInv, SpanInv
    <3> QED
      BY <1>1, <3>1 DEF FreeOf
  <2>3. Cardinality(FreeOf(c) \cup {o}) = Cardinality(FreeOf(c)) + 1
    BY <2>2, MineFinite, FS_AddElement DEF IInv
  <2>4. num_spans[c] = Cardinality(Mine(c)) /\ counter[c] = Cardinality(FreeOf(c))
    BY DEF IInv, CountInv
  <2>5. num_spans'[c] = Cardinality(Mine(c)') /\ counter'[c] = Cardinality(FreeOf(c)')
    BY <1>11, <1>17, <2>1, <2>3, <2>4
  <2>6. \A d \in Classes \ {c} : nonempty'[d] = nonempty[d] /\ empty'[d] = empty[d] /\ s \notin Mine(d)
                                  /\ num_spans'[d] = num_spans[d] /\ counter'[d] = counter[d]
    BY <1>2, <1>11, <1>15
  <2> QED
    BY <1>2, <1>11, <2>5, <2>6, CountStep DEF IInv
<1>20. ClassInv'
  <2>1. \A d \in Classes : \A i \in DOMAIN slots'[d] : \A x \in slots'[d][i] : class[x[1]] = d
    BY DEF IInv, ClassInv, cache
  <2>2. \A x \in OwnList(th'[t]) : class[x[1]] = th'[t].c
    BY <1>5, <1>6, <1>7, ZenonT(60) DEF IInv, ClassInv
  <2>3. \A x \in th'[t].drop : class[x[1]] = th'[t].from
    BY <1>5, <1>6 DEF IInv, ClassInv
  <2> QED
    BY <1>6, <2>1, <2>2, <2>3, ClassStep DEF IInv
<1>21. Conserved'
  <2>1. ASSUME NEW x \in Objects PROVE Places(x)' = Places(x) \/ (Places(x) # {} /\ \E q : Places(x)' = {q})
    <3>1. ListPlaces(x)' = ListPlaces(x)
      BY <1>6, <1>7, ListStep
    <3>2. SlotPlaces(x)' = SlotPlaces(x) /\ HeldPlaces(x)' = HeldPlaces(x)
      BY DEF SlotPlaces, HeldPlaces, cache
    <3> DEFINE A == objects[s] \cup {o}
    <3>3. objects' = [objects EXCEPT ![s] = A] /\ A \in SUBSET Objects /\ o \in A /\ (x # o => (x \in A <=> x \in objects[s]))
      BY <1>10
    <3> HIDE DEF A
    <3>4. CASE x = o
      <4>1. /\ Places(x) = {<<"drop", t>>} /\ SpanPlaces(x) = {} /\ ListPlaces(x) = {} /\ SlotPlaces(x) = {}
            /\ HeldPlaces(x) = {}
        BY <1>1, <3>4, Alone DEF IInv
      <4>2. SpanPlaces(x)' = SpanPlaces(x) \cup {<<"span", s>>}
        BY <1>2, <3>3, <3>4, SpanStep DEF IInv
      <4>3. DropPlaces(x)' = DropPlaces(x) \ {<<"drop", t>>}
        <5>1. x \notin th'[t].drop
          BY <1>5, <1>6, <3>4
        <5> QED
          BY <1>6, <5>1, DropStep, Zenon
      <4>4. SpanPlaces(x)' = {<<"span", s>>} /\ DropPlaces(x)' = {}
        BY <4>1, <4>2, <4>3 DEF Places
      <4>5. Places(x)' = {<<"span", s>>}
        BY <3>1, <3>2, <4>1, <4>4 DEF Places
      <4> QED
        BY <4>1, <4>5
    <3>5. CASE x # o
      <4>1. SpanPlaces(x)' = SpanPlaces(x)
        <5>1. x \in A <=> x \in objects[s]
          BY <3>3, <3>5
        <5> QED
          BY <1>2, <3>3, <5>1, SpanStep DEF IInv
      <4>2. DropPlaces(x)' = DropPlaces(x)
        <5>1. x \in th'[t].drop <=> x \in th[t].drop
          BY <1>5, <1>6, <3>5
        <5> QED
          BY <1>6, <5>1, DropStep, Zenon
      <4> QED
        BY <3>1, <3>2, <4>1, <4>2 DEF Places
    <3> QED
      BY <3>4, <3>5
  <2>2. \A q \in Spans : leaving(q)' <=> leaving(q)
    BY <1>4, <1>5, <1>6, LeavingStep
  <2> QED
    BY <2>1, <2>2, Moved DEF IInv
<1>22. CentralTypes'
  BY <1>6, <1>8, <1>11, <1>13, <1>15 DEF IInv, CentralTypes, Others, cache
<1>23. Controls'
  BY <1>6, <1>7, ControlStep DEF IInv
<1> QED
  BY <1>8, <1>18, <1>19, <1>20, <1>21, <1>22, <1>23 DEF IInv

\* A span leaves its class, on the way to the page heap with the thread.
LEMMA SpanLeaves ==
  ASSUME CentralTypes, SpanInv, NEW t \in Clients, Others(t), NEW c \in Classes, NEW s \in Spans,
         \A d \in Classes \ {c} : nonempty'[d] = nonempty[d] /\ empty'[d] = empty[d] /\ s \notin Mine(d),
         \A r \in Spans \ {s} : (r \in Range(nonempty'[c]) <=> r \in Range(nonempty[c])) /\ (r \in empty'[c] <=> r \in empty[c]),
         \A r \in Spans \ {s} : class'[r] = class[r] /\ objects'[r] = objects[r] /\ refcount'[r] = refcount[r],
         th[t].span = {}, th'[t].span = {s}, th'[t].pc = "delete", \A u \in Clients \ {t} : s \notin th[u].span,
         IsInjective(nonempty'[c]), objects'[s] = {}, class'[s] # NoClass, s \notin Mine(c)'
  PROVE  SpanInv'
<1>1. \A u \in Clients : s \in th'[u].span => u = t
  BY DEF Others
<1>2. OnTheWay(s, t)'
  BY <1>1 DEF OnTheWay
<1>3. objects'[s] \subseteq ObjectsOf(s) /\ th[t].span \subseteq {s} /\ th'[t].span \subseteq {s} /\ s \in th'[t].span
  OBVIOUS
<1> QED
  BY <1>2, <1>3, OneSpan

\* The last object that was out comes back: the span leaves its class.
LastOne(t, o, c, s) ==
  /\ refcount[s] = 1 /\ refcount' = [refcount EXCEPT ![s] = @ - 1] /\ objects' = [objects EXCEPT ![s] = {}]
  /\ counter' = [counter EXCEPT ![c] = @ + 1 - SpanObjects] /\ num_spans' = [num_spans EXCEPT ![c] = @ - 1]
  /\ nonempty' = [nonempty EXCEPT ![c] = Cut(@, s)] /\ empty' = [empty EXCEPT ![c] = @ \ {s}]
  /\ th' = [th EXCEPT ![t].pc = "delete", ![t].drop = @ \ {o}, ![t].span = {s}]
  /\ Release(c) /\ UNCHANGED <<cache, class, held>>

LEMMA LastInv ==
  ASSUME IInv, NEW t \in Clients, th[t].pc = "release", NEW o \in th[t].drop, NEW c \in Classes, c = th[t].from,
         NEW s, s = o[1], LastOne(t, o, c, s)
  PROVE  IInv'
<1> DEFINE D == th[t].drop \ {o}
           r == [th[t] EXCEPT !.pc = "delete", !.drop = D, !.span = {s}]
<1>0. /\ refcount[s] = 1 /\ refcount' = [refcount EXCEPT ![s] = @ - 1] /\ objects' = [objects EXCEPT ![s] = {}]
      /\ nonempty' = [nonempty EXCEPT ![c] = Cut(@, s)] /\ empty' = [empty EXCEPT ![c] = @ \ {s}]
      /\ Release(c) /\ UNCHANGED <<cache, slots, class, held>>
  BY DEF LastOne, cache
<1>1. s \in Mine(c) /\ o \in Objects /\ o \in ObjectsOf(s) /\ o \notin objects[s] /\ class[s] = c /\ Places(o) = {<<"drop", t>>}
  BY Released
<1>2. /\ s \in Spans /\ OnList(s, c) /\ c # NoClass /\ (\A d \in Classes \ {c} : s \notin Mine(d))
      /\ objects[s] \subseteq ObjectsOf(s) /\ IsFiniteSet(objects[s]) /\ Cardinality(objects[s]) \in 0..SpanObjects
  BY <1>1, Listed
<1>3. (\A u \in Clients : s \notin th[u].span) /\ refcount[s] = SpanObjects - Cardinality(objects[s])
  BY <1>2 DEF OnList
<1>4. th[t] \in Calls /\ th[t].c \in Classes /\ th[t].span = {} /\ th[t].drop \subseteq Objects
  BY DEF IInv, CentralTypes, Controls, Control, Calls
<1>5. /\ r \in Calls /\ r.pc = "delete" /\ r.c = th[t].c /\ r.list = th[t].list /\ r.drop = D /\ r.span = {s}
      /\ r.from = c /\ r.after = th[t].after
  BY <1>2, <1>4 DEF Calls, Pcs
<1>6. Others(t) /\ th'[t] = r
  <2>1. th' = [th EXCEPT ![t] = r]
    BY <1>4 DEF IInv, CentralTypes, Calls, LastOne
  <2> QED
    BY <2>1, <1>5, Becomes DEF IInv
<1> HIDE DEF r
<1>7. Control(r) /\ OwnList(r) = OwnList(th[t]) /\ (\A d \in Classes : HasLock(th[t], d) <=> d = c) /\ \A d \in Classes : ~HasLock(r, d)
  BY <1>4, <1>5 DEF Control, InRelease, OwnList, HasLock
<1>8. LockInv' /\ lock' \in [Classes -> Clients \cup {NoThread}] /\ CacheBounded' /\ cache_size' \in [Classes -> Nat]
  BY <1>0, <1>6, <1>7, LockGiven, CacheSame DEF IInv
<1>9. /\ nonempty[c] \in Seq(Spans) /\ empty[c] \subseteq Spans /\ IsInjective(nonempty[c])
      /\ counter[c] \in Int /\ num_spans[c] \in Int /\ SpanObjects \in Nat
  BY CentralAssumption DEF IInv, CentralTypes, SpanInv
<1>10. objects[s] \cup {o} = ObjectsOf(s) /\ Cardinality(objects[s]) = SpanObjects - 1
  <2>1. Cardinality(objects[s]) = SpanObjects - 1
    BY <1>0, <1>2, <1>3, <1>9
  <2>2. Cardinality(objects[s] \cup {o}) = Cardinality(objects[s]) + 1
    BY <1>1, <1>2, FS_AddElement
  <2>3. Cardinality(objects[s] \cup {o}) = SpanObjects
    BY <1>9, <2>1, <2>2
  <2>4. objects[s] \cup {o} \in SUBSET ObjectsOf(s)
    BY <1>1, <1>2
  <2>5. IsFiniteSet(ObjectsOf(s)) /\ Cardinality(ObjectsOf(s)) = SpanObjects
    BY <1>2, ObjectsOfIs
  <2> QED
    BY <2>1, <2>3, <2>4, <2>5, FS_Subset
<1>11. /\ objects'[s] = {} /\ refcount'[s] = 0 /\ counter'[c] = counter[c] + 1 - SpanObjects /\ num_spans'[c] = num_spans[c] - 1
       /\ objects' \in [Spans -> SUBSET Objects] /\ counter' \in [Classes -> Int] /\ num_spans' \in [Classes -> Int]
       /\ \A q \in Spans \ {s} : objects'[q] = objects[q] /\ refcount'[q] = refcount[q]
       /\ \A d \in Classes \ {c} : counter'[d] = counter[d] /\ num_spans'[d] = num_spans[d]
  BY <1>2, <1>9, SMTT(30) DEF IInv, CentralTypes, LastOne
<1>12. refcount' \in [Spans -> 0..SpanObjects]
  BY <1>2, <1>9 DEF IInv, CentralTypes, LastOne
<1>13. Cut(nonempty[c], s) \in Seq(Spans) /\ IsInjective(Cut(nonempty[c], s)) /\ Range(Cut(nonempty[c], s)) = Range(nonempty[c]) \ {s}
  BY <1>9, CutAny
<1>14. /\ nonempty' \in [Classes -> Seq(Spans)] /\ empty' \in [Classes -> SUBSET Spans]
       /\ \A d \in Classes \ {c} : nonempty'[d] = nonempty[d] /\ empty'[d] = empty[d]
       /\ nonempty'[c] = Cut(nonempty[c], s) /\ empty'[c] = empty[c] \ {s}
  BY <1>0, <1>9, <1>13 DEF IInv, CentralTypes
<1>15. Mine(c)' = Mine(c) \ {s}
  BY <1>13, <1>14 DEF Mine
<1>16. SpanInv'
  <2>1. s \notin Mine(c)' /\ IsInjective(nonempty'[c]) /\ objects'[s] = {} /\ class'[s] # NoClass
    BY <1>0, <1>1, <1>2, <1>11, <1>13, <1>14, <1>15
  <2>2. \A q \in Spans \ {s} : (q \in Range(nonempty'[c]) <=> q \in Range(nonempty[c])) /\ (q \in empty'[c] <=> q \in empty[c])
    BY <1>13, <1>14
  <2>3. \A q \in Spans \ {s} : class'[q] = class[q] /\ objects'[q] = objects[q] /\ refcount'[q] = refcount[q]
    BY <1>0, <1>11
  <2>4. \A d \in Classes \ {c} : nonempty'[d] = nonempty[d] /\ empty'[d] = empty[d] /\ s \notin Mine(d)
    BY <1>2, <1>14
  <2>5. th[t].span = {} /\ th'[t].span = {s} /\ th'[t].pc = "delete"
    BY <1>4, <1>5, <1>6
  <2>6. CentralTypes /\ SpanInv /\ Others(t) /\ s \in Spans /\ t \in Clients /\ c \in Classes
    BY <1>2, <1>6 DEF IInv
  <2>7. \A u \in Clients \ {t} : s \notin th[u].span
    BY <1>3
  <2> QED
    BY <2>1, <2>2, <2>3, <2>4, <2>5, <2>6, <2>7, SpanLeaves
<1>17. CountInv'
  <2>1. FreeOf(c)' = FreeOf(c) \ objects[s]
    <3>1. \A q \in Mine(c) : q \in Spans
      BY MineFinite DEF IInv
    <3>2. \A q \in Mine(c) \ {s} : objects[q] \cap objects[s] = {} /\ objects'[q] = objects[q]
      BY <1>2, <1>11, <3>1 DEF IInv, SpanInv, ObjectsOf
    <3>3. FreeOf(c)' = UNION {objects'[q] : q \in Mine(c) \ {s}}
      BY <1>15 DEF FreeOf
    <3>4. \A x : x \in FreeOf(c)' <=> \E q \in Mine(c) \ {s} : x \in objects[q]
      BY <3>2, <3>3
    <3>5. \A x : x \in FreeOf(c) <=> \E q \in Mine(c) : x \in objects[q]
      BY DEF FreeOf
    <3>6. \A x : x \in FreeOf(c)' <=> x \in FreeOf(c) /\ x \notin objects[s]
      BY <1>1, <3>2, <3>4, <3>5
    <3> QED
      BY <3>6
  <2>2. FreeOf(c) \cap objects[s] = objects[s]
    BY <1>1 DEF FreeOf
  <2>3. Cardinality(FreeOf(c) \ objects[s]) = Cardinality(FreeOf(c)) - (SpanObjects - 1)
    <3>1. Cardinality(FreeOf(c) \ objects[s]) = Cardinality(FreeOf(c)) - Cardinality(FreeOf(c) \cap objects[s])
      BY MineFinite, FS_Difference DEF IInv
    <3> QED
      BY <1>10, <2>2, <3>1
  <2>4. Cardinality(Mine(c) \ {s}) = Cardinality(Mine(c)) - 1
    BY <1>1, MineFinite, FS_RemoveElement DEF IInv
  <2>5. num_spans[c] = Cardinality(Mine(c)) /\ counter[c] = Cardinality(FreeOf(c))
    BY DEF IInv, CountInv
  <2>6. num_spans'[c] = Cardinality(Mine(c)') /\ counter'[c] = Cardinality(FreeOf(c)')
    <3>1. counter[c] + 1 - SpanObjects = counter[c] - (SpanObjects - 1)
      BY <1>9
    <3> QED
      BY <1>11, <1>15, <2>1, <2>3, <2>4, <2>5, <3>1
  <2>7. \A d \in Classes \ {c} : nonempty'[d] = nonempty[d] /\ empty'[d] = empty[d] /\ s \notin Mine(d)
                                  /\ num_spans'[d] = num_spans[d] /\ counter'[d] = counter[d]
    BY <1>2, <1>11, <1>14
  <2> QED
    BY <1>2, <1>11, <2>6, <2>7, CountStep DEF IInv
<1>18. ClassInv'
  <2>1. \A d \in Classes : \A i \in DOMAIN slots'[d] : \A x \in slots'[d][i] : class[x[1]] = d
    BY <1>0 DEF IInv, ClassInv
  <2>2. \A x \in OwnList(th'[t]) : class[x[1]] = th'[t].c
    BY <1>5, <1>6, <1>7 DEF IInv, ClassInv
  <2>3. \A x \in th'[t].drop : class[x[1]] = th'[t].from
    BY <1>5, <1>6 DEF IInv, ClassInv
  <2> QED
    BY <1>0, <1>6, <2>1, <2>2, <2>3, ClassStep DEF IInv
<1>19. ASSUME NEW x \in Objects
       PROVE  /\ ListPlaces(x)' = ListPlaces(x) /\ SlotPlaces(x)' = SlotPlaces(x) /\ HeldPlaces(x)' = HeldPlaces(x)
              /\ SpanPlaces(x)' = SpanPlaces(x) \ {<<"span", s>>}
              /\ x # o => DropPlaces(x)' = DropPlaces(x)
              /\ x = o => DropPlaces(x)' = DropPlaces(x) \ {<<"drop", t>>}
  <2>1. ListPlaces(x)' = ListPlaces(x)
    BY <1>6, <1>7, ListStep
  <2>2. SlotPlaces(x)' = SlotPlaces(x) /\ HeldPlaces(x)' = HeldPlaces(x)
    BY <1>0 DEF SlotPlaces, HeldPlaces
  <2>3. SpanPlaces(x)' = SpanPlaces(x) \ {<<"span", s>>}
    <3>1. PICK A \in SUBSET Objects : A = {}
      OBVIOUS
    <3>2. objects' = [objects EXCEPT ![s] = A] /\ x \notin A /\ CentralTypes
      BY <1>0, <3>1 DEF IInv
    <3> QED
      BY <1>2, <3>2, SpanStep, Zenon
  <2>4. ASSUME x # o PROVE DropPlaces(x)' = DropPlaces(x)
    <3>1. x \in th'[t].drop <=> x \in th[t].drop
      BY <1>5, <1>6, <2>4
    <3> QED
      BY <1>6, <3>1, DropStep, Zenon
  <2>5. ASSUME x = o PROVE DropPlaces(x)' = DropPlaces(x) \ {<<"drop", t>>}
    <3>1. x \notin th'[t].drop
      BY <1>5, <1>6, <2>5
    <3> QED
      BY <1>6, <3>1, DropStep, Zenon
  <2> QED
    BY <2>1, <2>2, <2>3, <2>4, <2>5
<1>20. Conserved'
  <2>1. ASSUME NEW x \in Objects, x[1] = s PROVE leaving(x[1])' /\ Places(x)' = {}
    <3>1. leaving(x[1])'
      BY <1>5, <1>6, <2>1 DEF leaving
    <3>2. CASE x = o
      <4>1. /\ DropPlaces(x) \subseteq {<<"drop", t>>} /\ SpanPlaces(x) = {} /\ ListPlaces(x) = {} /\ SlotPlaces(x) = {}
            /\ HeldPlaces(x) = {}
        BY <1>1, <3>2, Alone DEF IInv, Places
      <4> QED
        BY <1>19, <3>1, <3>2, <4>1 DEF Places
    <3>3. CASE x # o
      <4>1. x \in objects[s]
        BY <1>2, <1>10, <2>1, <3>3, ObjectsOfIs
      <4>2. <<"span", s>> \in Places(x)
        BY <1>2, <4>1 DEF Places, SpanPlaces
      <4>3. /\ Places(x) = {<<"span", s>>} /\ ListPlaces(x) = {} /\ SlotPlaces(x) = {}
            /\ HeldPlaces(x) = {} /\ DropPlaces(x) = {}
        BY <4>2, Alone DEF IInv
      <4>4. SpanPlaces(x) \subseteq {<<"span", s>>}
        BY <4>3 DEF Places
      <4> QED
        BY <1>19, <3>1, <3>3, <4>3, <4>4 DEF Places
    <3> QED
      BY <3>2, <3>3
  <2>2. ASSUME NEW x \in Objects, x[1] # s PROVE (leaving(x[1])' <=> leaving(x[1])) /\ Places(x)' = Places(x)
    <3>1. leaving(x[1])' <=> leaving(x[1])
      BY <1>4, <1>5, <1>6, <2>2, LeavingStep
    <3>2. <<"span", s>> \notin SpanPlaces(x)
      <4>1. x \notin objects[s]
        BY <1>2, <2>2, ObjectsOfIs
      <4> QED
        BY <4>1 DEF SpanPlaces
    <3>3. SpanPlaces(x)' = SpanPlaces(x)
      BY <1>19, <3>2
    <3>4. Places(x)' = Places(x)
      BY <1>19, <2>2, <3>3 DEF Places
    <3> QED
      BY <3>1, <3>4
  <2>3. \A x \in Objects : class'[x[1]] = class[x[1]]
    BY <1>0
  <2> QED
    BY <2>1, <2>2, <2>3 DEF IInv, Conserved
<1>21. CentralTypes'
  BY <1>0, <1>6, <1>8, <1>11, <1>12, <1>14 DEF IInv, CentralTypes, Others
<1>22. Controls'
  BY <1>6, <1>7, ControlStep DEF IInv
<1> QED
  BY <1>8, <1>16, <1>17, <1>18, <1>20, <1>21, <1>22 DEF IInv

LEMMA ReleaseToSpansInv ==
  ASSUME IInv, NEW t \in Clients, ReleaseToSpans(t)
  PROVE  IInv'
<1>1. th[t].pc = "release" /\ th[t].drop # {} /\ UNCHANGED <<cache, class, held>>
  BY DEF ReleaseToSpans, At
<1>2. PICK c \in Classes : c = th[t].from
  BY <1>1 DEF IInv, Controls, Control, InRelease
<1>3. PICK o \in th[t].drop : o = CHOOSE x \in th[t].drop : TRUE
  BY <1>1
<1>4. PICK s : s = o[1]
  OBVIOUS
<1>5. CASE refcount[s] # 1
  <2>1. /\ refcount' = [refcount EXCEPT ![s] = @ - 1] /\ objects' = [objects EXCEPT ![s] = @ \cup {o}]
        /\ counter' = [counter EXCEPT ![c] = @ + 1]
        /\ nonempty' = [nonempty EXCEPT ![c] = IF objects[s] = {} THEN <<s>> \o @ ELSE @]
        /\ empty' = [empty EXCEPT ![c] = @ \ {s}] /\ th' = [th EXCEPT ![t].drop = @ \ {o}]
        /\ UNCHANGED <<lock, num_spans>>
    BY <1>2, <1>3, <1>4, <1>5 DEF ReleaseToSpans
  <2> QED
    BY <1>1, <1>2, <1>4, <1>5, <2>1, ReturnInv
<1>6. CASE refcount[s] = 1
  <2>1. LastOne(t, o, c, s)
    BY <1>1, <1>2, <1>3, <1>4, <1>6 DEF ReleaseToSpans, LastOne
  <2> QED
    BY <1>1, <1>2, <1>4, <2>1, LastInv
<1> QED
  BY <1>5, <1>6

-----------------------------------------------------------------------------
(* The invariant, and what it implies.                                      *)

LEMMA InitInv == CentralInit => IInv
<1> SUFFICES ASSUME CentralInit PROVE IInv
  OBVIOUS
<1> USE DEF CentralInit
<1>1. NoCall \in Calls /\ NoCall.pc = "idle" /\ NoCall.list = {} /\ NoCall.drop = {} /\ NoCall.span = {}
  BY DEF NoCall, Calls, Pcs, SomeClass
<1>2. \A c \in Classes : Range(nonempty[c]) = {} /\ empty[c] = {} /\ nonempty[c] \in Seq(Spans) /\ IsInjective(nonempty[c])
  BY EmptySeq DEF Range, IsInjective
<1>3. InitialSize \in Nat /\ 0 \in 0..SpanObjects
  BY CentralAssumption
<1>4. CentralTypes
  <2>1. \A c \in Classes : slots[c] \in Seq(SUBSET Objects)
    BY EmptySeq
  <2> QED
    BY <1>1, <1>3, <2>1 DEF CentralTypes, SomeClass
<1>5. Controls
  BY <1>1 DEF Controls, Control, InRelease
<1>6. LockInv
  BY <1>1, CentralAssumption DEF LockInv, HasLock
<1>7. CacheBounded
  BY <1>3, CentralAssumption DEF CacheBounded, used_slots
<1>8. \A c \in Classes : Mine(c) = {}
  BY <1>2 DEF Mine
<1>9. SpanInv
  <2>1. \A s \in Spans : objects[s] \subseteq ObjectsOf(s) /\ class[s] = NoClass
    OBVIOUS
  <2>2. \A t \in Clients : th[t].span = {}
    BY <1>1
  <2> QED
    BY <1>2, <1>8, <2>1, <2>2 DEF SpanInv
<1>10. \A t \in Clients : OwnList(th[t]) = {} /\ th[t].drop = {}
  BY <1>1 DEF OwnList
<1>11. ClassInv
  BY <1>10 DEF ClassInv
<1>12. Conserved
  <2>1. ASSUME NEW x \in Objects PROVE class[x[1]] = NoClass /\ Places(x) = {}
    <3>1. x[1] \in Spans
      BY DEF Objects
    <3>2. SpanPlaces(x) = {} /\ HeldPlaces(x) = {}
      BY DEF SpanPlaces, HeldPlaces
    <3>3. ListPlaces(x) = {} /\ DropPlaces(x) = {}
      BY <1>10 DEF ListPlaces, DropPlaces
    <3>4. SlotPlaces(x) = {}
      <4>1. \A p : p \notin SlotPlaces(x)
        BY InSlot
      <4> QED
        BY <4>1
    <3> QED
      BY <3>1, <3>2, <3>3, <3>4 DEF Places
  <2> QED
    BY <2>1 DEF Conserved
<1>13. CountInv
  <2>1. \A c \in Classes : FreeOf(c) = {}
    BY <1>8 DEF FreeOf
  <2> QED
    BY <1>8, <2>1, FS_EmptySet DEF CountInv
<1> QED
  BY <1>4, <1>5, <1>6, <1>7, <1>9, <1>11, <1>12, <1>13 DEF IInv

LEMMA NextInv == IInv /\ [CentralNext]_centralVars => IInv'
<1> SUFFICES ASSUME IInv, [CentralNext]_centralVars PROVE IInv'
  OBVIOUS
<1>1. CASE UNCHANGED centralVars
  <2>1. UNCHANGED <<lock, cache_size, slots, nonempty, empty, num_spans, counter, class, objects, refcount, held, th>>
    BY <1>1 DEF centralVars
  <2>2. CentralTypes' /\ Controls' /\ LockInv' /\ CacheBounded'
    BY <2>1 DEF IInv, CentralTypes, Controls, LockInv, CacheBounded, HasLock, used_slots
  <2>3. SpanInv'
    BY <2>1 DEF IInv, SpanInv, OnList, OnTheWay, Mine, ObjectsOf
  <2>4. ClassInv'
    BY <2>1 DEF IInv, ClassInv, OwnList
  <2>5. Conserved'
    BY <2>1 DEF IInv, Conserved, Places, SpanPlaces, SlotPlaces, HeldPlaces, ListPlaces, DropPlaces, OwnList, leaving
  <2>6. CountInv'
    <3>1. \A c \in Classes : Mine(c)' = Mine(c) /\ num_spans'[c] = num_spans[c] /\ counter'[c] = counter[c]
      BY <2>1 DEF Mine
    <3>2. \A c \in Classes : FreeOf(c)' = FreeOf(c)
      BY <2>1, <3>1 DEF FreeOf
    <3> QED
      BY <3>1, <3>2 DEF IInv, CountInv
  <2> QED
    BY <2>2, <2>3, <2>4, <2>5, <2>6 DEF IInv
<1>2. ASSUME NEW t \in Clients, CentralStep(t) PROVE IInv'
  BY <1>2, InsertLockedInv, EvictInv, ShrinkCacheInv, RevertInv, ReleaseToSpansInv, DeleteSpanInv, RelockInv,
     ReleaseDoneInv, RemoveLockedInv, FetchInv, RemoveDoneInv, StartPopulateInv, PopulateInv, PopulatedInv, Zenon
     DEF CentralStep
<1>3. ASSUME NEW t \in Clients, NEW c \in Classes, NEW n \in 1..Batch, RemoveRange(t, c, n) PROVE IInv'
  BY <1>3, RemoveRangeInv
<1>4. ASSUME NEW t \in Clients, NEW c \in Classes, NEW list \in SUBSET held[t], InsertRange(t, c, list) PROVE IInv'
  BY <1>4, InsertRangeInv
<1> QED
  BY <1>1, <1>2, <1>3, <1>4 DEF CentralNext

-----------------------------------------------------------------------------
(* The slots of the caches.                                                 *)

\* A thread that has taken a slot from another cache and not yet added it to its own.
Owes(x) == x.evicted /\ (x.pc = "revert" \/ (x.pc \in InRelease /\ x.after = "revert"))
Owing == {t \in Clients : Owes(th[t])}
SlotInv ==
  /\ IsFiniteSet(AllSlots) /\ IsFiniteSet(Owing)
  /\ Cardinality(AllSlots) + Cardinality(Owing) <= Cardinality(Classes) * InitialSize

\* A slot is of one class.
LEMMA InAllSlots == \A p : p \in AllSlots <=> \E c \in Classes : \E i \in 1..cache_size[c] : p = <<c, i>>
  BY DEF AllSlots

\* A step that keeps the sizes, and after which its thread owes a slot only if it did before.
LEMMA SlotsSame ==
  ASSUME SlotInv, CentralTypes, NEW t \in Clients, UNCHANGED cache_size, \A u \in Clients \ {t} : th'[u] = th[u],
         Owes(th'[t]) => Owes(th[t])
  PROVE  SlotInv'
<1>1. AllSlots' = AllSlots
  BY DEF AllSlots
<1>2. Owing' \subseteq Owing
  BY DEF Owing
<1>3. IsFiniteSet(Owing') /\ Cardinality(Owing') <= Cardinality(Owing)
  BY <1>2, FS_Subset DEF SlotInv
<1>4. Cardinality(AllSlots) \in Nat /\ Cardinality(Owing) \in Nat /\ Cardinality(Owing') \in Nat
  BY <1>3, FS_CardinalityType DEF SlotInv
<1>5. Cardinality(Classes) \in Nat /\ InitialSize \in Nat
  BY CentralAssumption, FS_CardinalityType
<1> DEFINE most == Cardinality(Classes) * InitialSize
<1>6. most \in Int
  BY <1>5
<1> HIDE DEF most
<1>7. Cardinality(AllSlots) + Cardinality(Owing') <= most
  BY <1>3, <1>4, <1>6 DEF SlotInv, most
<1> QED
  BY <1>1, <1>3, <1>7 DEF SlotInv, most

\* One slot less, which the thread now owes.
LEMMA SlotTaken ==
  ASSUME SlotInv, CentralTypes, NEW t \in Clients, NEW o \in Classes, cache_size[o] # 0,
         cache_size' = [cache_size EXCEPT ![o] = @ - 1], \A u \in Clients \ {t} : th'[u] = th[u], ~Owes(th[t])
  PROVE  SlotInv'
<1> DEFINE last == <<o, cache_size[o]>>
           most == Cardinality(Classes) * InitialSize
<1>1. cache_size[o] \in Nat \ {0} /\ cache_size'[o] = cache_size[o] - 1 /\ \A c \in Classes \ {o} : cache_size'[c] = cache_size[c]
  BY DEF CentralTypes
<1>2. AllSlots' = AllSlots \ {last}
  <2> DEFINE n == cache_size[o]
  <2>0. \A i : i \in 1..(n - 1) <=> i \in 1..n /\ i # n
    BY <1>1
  <2>1. \A c \in Classes : \A i : i \in 1..cache_size'[c] <=> i \in 1..cache_size[c] /\ ~(c = o /\ i = n)
    BY <1>1, <2>0
  <2> HIDE DEF n
  <2>2. ASSUME NEW p PROVE p \in AllSlots' <=> p \in AllSlots \ {last}
    <3>1. p \in AllSlots' <=> \E c \in Classes : \E i \in 1..cache_size'[c] : p = <<c, i>>
      BY DEF AllSlots
    <3>2. p \in AllSlots <=> \E c \in Classes : \E i \in 1..cache_size[c] : p = <<c, i>>
      BY InAllSlots
    <3>3. p \in AllSlots' <=> \E c \in Classes : \E i \in 1..cache_size[c] : p = <<c, i>> /\ ~(c = o /\ i = n)
      BY <2>1, <3>1, Zenon
    <3>4. \A c, i : <<c, i>> = <<o, n>> <=> c = o /\ i = n
      OBVIOUS
    <3> QED
      BY <3>2, <3>3, <3>4 DEF n
  <2> QED
    BY <2>2
<1>3. last \in AllSlots
  BY <1>1, InAllSlots
<1>4. IsFiniteSet(AllSlots') /\ Cardinality(AllSlots') = Cardinality(AllSlots) - 1
  BY <1>2, <1>3, FS_RemoveElement DEF SlotInv
<1>5. Owing' \subseteq Owing \cup {t} /\ t \notin Owing
  BY DEF Owing
<1>6. IsFiniteSet(Owing \cup {t}) /\ Cardinality(Owing \cup {t}) = Cardinality(Owing) + 1
  BY <1>5, FS_AddElement DEF SlotInv
<1>7. IsFiniteSet(Owing') /\ Cardinality(Owing') <= Cardinality(Owing \cup {t})
  BY <1>5, <1>6, FS_Subset
<1>8. Cardinality(AllSlots) \in Nat /\ Cardinality(Owing) \in Nat /\ Cardinality(Owing') \in Nat
  BY <1>7, FS_CardinalityType DEF SlotInv
<1>9. most \in Int
  BY CentralAssumption, FS_CardinalityType
<1> HIDE DEF most, last
<1>10. Cardinality(AllSlots') + Cardinality(Owing') <= most
  BY <1>4, <1>6, <1>7, <1>8, <1>9 DEF SlotInv, most
<1> QED
  BY <1>4, <1>7, <1>10 DEF SlotInv, most

\* The slot a thread owes is added to its own class.
LEMMA SlotAdded ==
  ASSUME SlotInv, CentralTypes, NEW t \in Clients, NEW c \in Classes,
         cache_size' = [cache_size EXCEPT ![c] = @ + 1], \A u \in Clients \ {t} : th'[u] = th[u], Owes(th[t]), ~Owes(th'[t])
  PROVE  SlotInv'
<1> DEFINE new == <<c, cache_size[c] + 1>>
           most == Cardinality(Classes) * InitialSize
<1>1. cache_size[c] \in Nat /\ cache_size'[c] = cache_size[c] + 1 /\ \A d \in Classes \ {c} : cache_size'[d] = cache_size[d]
  BY DEF CentralTypes
<1>2. AllSlots' = AllSlots \cup {new}
  <2> DEFINE n == cache_size[c] + 1
  <2>0. \A i : i \in 1..n <=> i \in 1..cache_size[c] \/ i = n
    BY <1>1
  <2>1. \A d \in Classes : \A i : i \in 1..cache_size'[d] <=> i \in 1..cache_size[d] \/ (d = c /\ i = n)
    BY <1>1, <2>0
  <2> HIDE DEF n
  <2>2. ASSUME NEW p PROVE p \in AllSlots' <=> p \in AllSlots \cup {new}
    <3>1. p \in AllSlots' <=> \E d \in Classes : \E i \in 1..cache_size'[d] : p = <<d, i>>
      BY DEF AllSlots
    <3>2. p \in AllSlots <=> \E d \in Classes : \E i \in 1..cache_size[d] : p = <<d, i>>
      BY InAllSlots
    <3>3. p \in AllSlots' <=> \E d \in Classes : \E i : (i \in 1..cache_size[d] \/ (d = c /\ i = n)) /\ p = <<d, i>>
      BY <2>1, <3>1, Zenon
    <3> QED
      BY <3>2, <3>3 DEF n
  <2> QED
    BY <2>2
<1>3. new \notin AllSlots
  <2>1. \A i \in 1..cache_size[c] : i # cache_size[c] + 1
    BY <1>1
  <2> QED
    BY <2>1, InAllSlots
<1>4. IsFiniteSet(AllSlots') /\ Cardinality(AllSlots') = Cardinality(AllSlots) + 1
  BY <1>2, <1>3, FS_AddElement DEF SlotInv
<1>5. Owing' = Owing \ {t} /\ t \in Owing
  BY DEF Owing
<1>6. IsFiniteSet(Owing') /\ Cardinality(Owing') = Cardinality(Owing) - 1
  BY <1>5, FS_RemoveElement DEF SlotInv
<1>7. Cardinality(AllSlots) \in Nat /\ Cardinality(Owing) \in Nat
  BY FS_CardinalityType DEF SlotInv
<1>8. most \in Int
  BY CentralAssumption, FS_CardinalityType
<1> HIDE DEF most, new
<1>9. Cardinality(AllSlots') + Cardinality(Owing') <= most
  BY <1>4, <1>6, <1>7, <1>8 DEF SlotInv, most
<1> QED
  BY <1>4, <1>6, <1>9 DEF SlotInv, most

LEMMA SlotInit == CentralInit => SlotInv
<1> SUFFICES ASSUME CentralInit PROVE SlotInv
  OBVIOUS
<1>1. AllSlots = Classes \X (1..InitialSize)
  <2>1. \A c \in Classes : cache_size[c] = InitialSize
    BY DEF CentralInit
  <2> QED
    BY <2>1 DEF AllSlots
<1>2. IsFiniteSet(1..InitialSize) /\ Cardinality(1..InitialSize) = InitialSize
  BY CentralAssumption, FS_Interval
<1>3. IsFiniteSet(AllSlots) /\ Cardinality(AllSlots) = Cardinality(Classes) * InitialSize
  BY <1>1, <1>2, CentralAssumption, FS_Product
<1>4. Owing = {}
  BY DEF Owing, Owes, CentralInit, NoCall
<1>5. IsFiniteSet(Owing) /\ Cardinality(Owing) = 0
  BY <1>4, FS_EmptySet
<1>6. Cardinality(Classes) * InitialSize \in Nat
  BY CentralAssumption, FS_CardinalityType
<1> QED
  BY <1>3, <1>5, <1>6 DEF SlotInv

\* A slot moves in ShrinkCache and Revert; at the other places a thread owes none,
\* or goes on to owe the one it has.
LEMMA SlotStep == ASSUME IInv, SlotInv, NEW t \in Clients, CentralStep(t) PROVE SlotInv'
<1> DEFINE x == th[t]
           Keeps == UNCHANGED cache_size /\ (\A u \in Clients \ {t} : th'[u] = th[u]) /\ (Owes(th'[t]) => Owes(x))
<1>0. th \in [Clients -> Calls] /\ x \in Calls /\ CentralTypes
  BY DEF IInv, CentralTypes
<1>k. ASSUME Keeps PROVE SlotInv'
  BY <1>0, <1>k, SlotsSame
<1> HIDE DEF x
<1>1. CASE ShrinkCache(t)
  <2>0. x.pc = "invert" /\ ~Owes(x) /\ th[t].other \in Classes
    BY <1>1 DEF ShrinkCache, At, Owes, InRelease, IInv, Controls, Control, x
  <2>1. \A u \in Clients \ {t} : th'[u] = th[u]
    BY <1>0, <1>1 DEF ShrinkCache
  <2>2. CASE UNCHANGED cache_size /\ th' = [th EXCEPT ![t].pc = "revert", ![t].evicted = FALSE]
    <3>1. ~Owes(th'[t])
      BY <1>0, <2>2 DEF Owes, Calls, x
    <3> QED
      BY <1>k, <2>1, <2>2, <3>1
  <2>3. CASE cache_size[th[t].other] # 0 /\ cache_size' = [cache_size EXCEPT ![th[t].other] = @ - 1]
    BY <1>0, <2>0, <2>1, <2>3, SlotTaken DEF x
  <2> QED
    BY <1>1, <2>2, <2>3 DEF ShrinkCache, cache
<1>2. CASE Revert(t)
  <2>0. x.pc = "revert" /\ th[t].c \in Classes
    BY <1>2 DEF Revert, At, IInv, Controls, Control, x
  <2>1. \A u \in Clients \ {t} : th'[u] = th[u]
    BY <1>0, <1>2 DEF Revert, StoreBatch, Releasing, Failed
  <2>2. CASE th[t].evicted /\ cache_size' = [cache_size EXCEPT ![th[t].c] = @ + 1] /\ StoreBatch(t, th[t].c)
    <3>1. Owes(th[t])
      BY <2>0, <2>2 DEF Owes, x
    <3>2. ~Owes(th'[t])
      BY <1>0, <2>2 DEF Owes, StoreBatch, NoCall, InRelease
    <3> QED
      BY <1>0, <2>0, <2>1, <2>2, <3>1, <3>2, SlotAdded
  <2>3. CASE UNCHANGED cache /\ Releasing(t, th[t].c, th[t].list, "idle")
    <3>1. th'[t].pc = "release" /\ th'[t].after = "idle"
      BY <1>0, <2>3 DEF Releasing, Calls
    <3>2. ~Owes(th'[t])
      BY <3>1 DEF Owes
    <3> QED
      BY <1>k, <2>1, <2>3, <3>2 DEF cache
  <2>4. CASE ~th[t].evicted /\ UNCHANGED cache /\ Failed(t)
    <3>1. th'[t].evicted = th[t].evicted
      BY <1>0, <2>4 DEF Failed, Releasing, Calls
    <3>2. ~Owes(th'[t])
      BY <2>4, <3>1 DEF Owes
    <3> QED
      BY <1>k, <2>1, <2>4, <3>2 DEF cache
  <2> QED
    BY <1>2, <2>2, <2>3, <2>4 DEF Revert
<1>3. CASE InsertLocked(t)
  <2>1. x.pc = "insert" /\ ~Owes(x) /\ UNCHANGED cache_size
    BY <1>3 DEF InsertLocked, At, Owes, InRelease, x
  <2>2. (\A u \in Clients \ {t} : th'[u] = th[u]) /\ (th'[t].pc \in {"idle", "evict"} \/ (th'[t].pc = "release" /\ th'[t].after = "idle"))
    BY <1>0, <1>3 DEF InsertLocked, StoreBatch, NoCall, Releasing, Calls
  <2> QED
    BY <1>k, <2>1, <2>2 DEF Owes, InRelease
<1>4. CASE Evict(t)
  <2>1. x.pc = "evict" /\ UNCHANGED cache_size
    BY <1>4 DEF Evict, At, x, cache
  <2>2. (\A u \in Clients \ {t} : th'[u] = th[u]) /\ (th'[t].pc \in {"invert", "evict"} \/ (th'[t].pc = "release" /\ th'[t].after = "idle"))
    BY <1>0, <1>4 DEF Evict, Failed, Releasing, Calls
  <2> QED
    BY <1>k, <2>1, <2>2 DEF Owes, InRelease
<1>5. CASE ReleaseToSpans(t) \/ DeleteSpan(t) \/ Relock(t)
  <2>1. x.pc \in InRelease /\ UNCHANGED cache_size
    <3>1. CASE ReleaseToSpans(t)
      BY <3>1 DEF ReleaseToSpans, At, x, cache, InRelease
    <3>2. CASE DeleteSpan(t)
      BY <3>2 DEF DeleteSpan, At, x, cache, InRelease
    <3>3. CASE Relock(t)
      BY <3>3 DEF Relock, At, x, cache, InRelease
    <3> QED
      BY <1>5, <3>1, <3>2, <3>3
  <2>2. /\ \A u \in Clients \ {t} : th'[u] = th[u]
        /\ th'[t].pc \in InRelease /\ th'[t].after = x.after /\ th'[t].evicted = x.evicted
    <3>1. CASE ReleaseToSpans(t)
      <4>1. \E o \in {CHOOSE y \in th[t].drop : TRUE} :
              \/ th' = [th EXCEPT ![t].drop = @ \ {o}]
              \/ th' = [th EXCEPT ![t].pc = "delete", ![t].drop = @ \ {o}, ![t].span = {o[1]}]
        <5>1. PICK o \in {CHOOSE y \in th[t].drop : TRUE} :
                \/ refcount[o[1]] # 1 /\ th' = [th EXCEPT ![t].drop = @ \ {o}]
                \/ refcount[o[1]] = 1 /\ th' = [th EXCEPT ![t].pc = "delete", ![t].drop = @ \ {o}, ![t].span = {o[1]}]
          BY <3>1, ZenonT(60) DEF ReleaseToSpans
        <5> QED
          BY <5>1, Zenon
      <4> QED
        BY <1>0, <2>1, <4>1 DEF Calls, InRelease, x
    <3>2. CASE DeleteSpan(t)
      BY <1>0, <3>2 DEF DeleteSpan, Calls, InRelease, x
    <3>3. CASE Relock(t)
      BY <1>0, <3>3 DEF Relock, Calls, InRelease, x
    <3> QED
      BY <1>5, <3>1, <3>2, <3>3
  <2>3. Owes(th'[t]) => Owes(x)
    BY <2>1, <2>2 DEF Owes, InRelease
  <2> QED
    BY <1>k, <2>1, <2>2, <2>3
<1>6. CASE ReleaseDone(t)
  <2>1. x.pc = "release" /\ UNCHANGED cache_size
    BY <1>6 DEF ReleaseDone, At, x, cache
  <2>2. \A u \in Clients \ {t} : th'[u] = th[u]
    BY <1>0, <1>6 DEF ReleaseDone
  <2>3. CASE th[t].after = "idle"
    <3>1. th'[t] = NoCall
      BY <1>0, <1>6, <2>3 DEF ReleaseDone
    <3> QED
      BY <1>k, <2>1, <2>2, <3>1 DEF Owes, NoCall, InRelease
  <2>4. CASE th[t].after # "idle"
    <3>1. th'[t].evicted = x.evicted
      BY <1>0, <1>6, <2>4 DEF ReleaseDone, Calls, x
    <3>2. x.after = "revert"
      BY <1>0, <2>4 DEF Calls, x
    <3>3. Owes(th'[t]) => Owes(x)
      BY <2>1, <3>1, <3>2 DEF Owes, InRelease
    <3> QED
      BY <1>k, <2>1, <2>2, <3>3
  <2> QED
    BY <2>3, <2>4
<1>7. CASE RemoveLocked(t) \/ FetchFromOneSpans(t) \/ RemoveDone(t) \/ StartPopulate(t) \/ Populate(t) \/ Populated(t)
  <2>1. UNCHANGED cache_size
    <3>1. CASE RemoveLocked(t)
      BY <3>1 DEF RemoveLocked
    <3>2. CASE FetchFromOneSpans(t)
      BY <3>2 DEF FetchFromOneSpans, cache
    <3>3. CASE RemoveDone(t) \/ StartPopulate(t)
      BY <3>3 DEF RemoveDone, StartPopulate, cache
    <3>4. CASE Populate(t) \/ Populated(t)
      BY <3>4 DEF Populate, Populated, cache
    <3> QED
      BY <1>7, <3>1, <3>2, <3>3, <3>4
  <2>2. (\A u \in Clients \ {t} : th'[u] = th[u]) /\ th'[t].pc \in {"idle", "fetch", "populate", "populated"}
    <3>1. CASE RemoveLocked(t)
      BY <1>0, <3>1 DEF RemoveLocked, NoCall, Calls
    <3>2. CASE FetchFromOneSpans(t)
      <4>1. \E l : th' = [th EXCEPT ![t].list = l]
        BY <3>2 DEF FetchFromOneSpans
      <4>2. th[t].pc = "fetch"
        BY <3>2 DEF FetchFromOneSpans, At
      <4> QED
        BY <1>0, <4>1, <4>2 DEF Calls, x
    <3>3. CASE RemoveDone(t)
      BY <1>0, <3>3 DEF RemoveDone, NoCall
    <3>4. CASE StartPopulate(t)
      BY <1>0, <3>4 DEF StartPopulate, Calls
    <3>5. CASE Populate(t)
      <4>1. th' = [th EXCEPT ![t].pc = "populated"] \/ \E s : th' = [th EXCEPT ![t].pc = "populated", ![t].span = s]
        BY <3>5 DEF Populate
      <4> QED
        BY <1>0, <4>1 DEF Calls, x
    <3>6. CASE Populated(t)
      BY <1>0, <3>6 DEF Populated, Calls
    <3> QED
      BY <1>7, <3>1, <3>2, <3>3, <3>4, <3>5, <3>6
  <2> QED
    BY <1>k, <2>1, <2>2 DEF Owes, InRelease
<1> QED
  BY <1>1, <1>2, <1>3, <1>4, <1>5, <1>6, <1>7 DEF CentralStep

LEMMA SlotNext == IInv /\ SlotInv /\ [CentralNext]_centralVars => SlotInv'
<1> SUFFICES ASSUME IInv, SlotInv, [CentralNext]_centralVars PROVE SlotInv'
  OBVIOUS
<1>1. CASE UNCHANGED centralVars
  BY <1>1 DEF centralVars, SlotInv, AllSlots, Owing
<1>0. CentralTypes /\ th \in [Clients -> Calls]
  BY DEF IInv, CentralTypes
<1>2. ASSUME NEW t \in Clients, th'[t].pc \in {"insert", "remove"}, \A u \in Clients \ {t} : th'[u] = th[u], UNCHANGED cache_size
      PROVE  SlotInv'
  <2>1. ~Owes(th'[t])
    BY <1>2 DEF Owes, InRelease
  <2> QED
    BY <1>0, <1>2, <2>1, SlotsSame
<1>3. ASSUME NEW t \in Clients, NEW c \in Classes, NEW n \in 1..Batch, RemoveRange(t, c, n) PROVE SlotInv'
  <2>1. [NoCall EXCEPT !.pc = "remove", !.c = c, !.n = n].pc = "remove"
    BY DEF NoCall
  <2> DEFINE r == [NoCall EXCEPT !.pc = "remove", !.c = c, !.n = n]
  <2>2. th' = [th EXCEPT ![t] = r] /\ UNCHANGED cache_size
    BY <1>3 DEF RemoveRange, cache
  <2>4. r.pc \in {"insert", "remove"}
    BY <2>1
  <2> HIDE DEF r
  <2>3. th'[t].pc \in {"insert", "remove"} /\ \A u \in Clients \ {t} : th'[u] = th[u]
    BY <1>0, <2>2, <2>4
  <2> QED
    BY <1>2, <2>2, <2>3
<1>4. ASSUME NEW t \in Clients, NEW c \in Classes, NEW list \in SUBSET held[t], InsertRange(t, c, list) PROVE SlotInv'
  <2>1. [NoCall EXCEPT !.pc = "insert", !.c = c, !.list = list].pc = "insert"
    BY DEF NoCall
  <2> DEFINE r == [NoCall EXCEPT !.pc = "insert", !.c = c, !.list = list]
  <2>2. th' = [th EXCEPT ![t] = r] /\ UNCHANGED cache_size
    BY <1>4 DEF InsertRange, cache
  <2>4. r.pc \in {"insert", "remove"}
    BY <2>1
  <2> HIDE DEF r
  <2>3. th'[t].pc \in {"insert", "remove"} /\ \A u \in Clients \ {t} : th'[u] = th[u]
    BY <1>0, <2>2, <2>4
  <2> QED
    BY <1>2, <2>2, <2>3
<1>5. ASSUME NEW t \in Clients, CentralStep(t) PROVE SlotInv'
  BY <1>5, SlotStep
<1> QED
  BY <1>1, <1>3, <1>4, <1>5 DEF CentralNext

LEMMA InvSlotsKept == SlotInv => SlotsKept
<1> SUFFICES ASSUME SlotInv PROVE SlotsKept
  OBVIOUS
<1> DEFINE most == Cardinality(Classes) * InitialSize
<1>1. most \in Int
  BY CentralAssumption, FS_CardinalityType
<1>2. Cardinality(AllSlots) \in Nat /\ Cardinality(Owing) \in Nat
  BY FS_CardinalityType DEF SlotInv
<1> HIDE DEF most
<1>3. Cardinality(AllSlots) <= most
  BY <1>1, <1>2 DEF SlotInv, most
<1> QED
  BY <1>3 DEF SlotsKept, most

LEMMA Implied == IInv /\ SlotInv => ObjectsConserved
<1> SUFFICES ASSUME IInv, SlotInv PROVE ObjectsConserved
  OBVIOUS
<1>1. CentralTypeOK
  <2>1. ASSUME NEW c \in Classes PROVE Range(slots[c]) \subseteq SUBSET Objects /\ Range(nonempty[c]) \subseteq Spans /\ empty[c] \subseteq Spans
    <3>1. slots[c] \in Seq(SUBSET Objects) /\ nonempty[c] \in Seq(Spans) /\ empty[c] \subseteq Spans
      BY DEF IInv, CentralTypes
    <3> QED
      BY <3>1, ElementOfSeq, LenProperties DEF Range
  <2>2. num_spans \in [Classes -> Nat] /\ counter \in [Classes -> Nat]
    <3>1. \A c \in Classes : num_spans[c] \in Nat /\ counter[c] \in Nat
      BY MineFinite, FS_CardinalityType DEF IInv, CountInv
    <3> QED
      BY <3>1 DEF IInv, CentralTypes
  <2>3. \A t \in Clients : th[t].pc \in Pcs /\ th[t].n \in Nat
    BY DEF IInv, CentralTypes, Calls
  <2> QED
    BY <2>1, <2>2, <2>3 DEF CentralTypeOK, IInv, CentralTypes, SomeClass
<1>2. OneLock
  <2>1. ASSUME NEW c \in Classes, NEW d \in Classes, lock[c] = lock[d], lock[c] # NoThread PROVE c = d
    <3>1. PICK t \in Clients : t = lock[c]
      BY <2>1 DEF IInv, CentralTypes
    <3>2. HasLock(th[t], c) /\ HasLock(th[t], d)
      BY <2>1, <3>1 DEF IInv, LockInv
    <3> QED
      BY <3>2 DEF HasLock
  <2>2. ASSUME NEW t \in Clients
        PROVE  /\ th[t].pc \in {"evict", "fetch"} => lock[th[t].c] = t
               /\ th[t].pc = "release" => lock[th[t].from] = t
               /\ th[t].pc \in {"idle", "insert", "invert", "revert", "delete", "relock",
                                "remove", "populate", "populated"} => \A c \in Classes : lock[c] # t
    BY DEF IInv, Controls, Control, InRelease, LockInv, HasLock
  <2> QED
    BY <2>1, <2>2 DEF OneLock
<1>3. Counted
  <2>1. ASSUME NEW s \in Spans, NEW c \in Classes, s \in Range(nonempty[c]) \cup empty[c]
        PROVE  /\ class[s] = c /\ refcount[s] = SpanObjects - Cardinality(objects[s])
               /\ s \in empty[c] <=> objects[s] = {}
               /\ s \in empty[c] => s \notin Range(nonempty[c])
    BY <2>1 DEF IInv, SpanInv, OnList, Mine
  <2>2. ASSUME NEW c \in Classes
        PROVE  /\ IsInjective(nonempty[c]) /\ num_spans[c] = Cardinality(Mine(c))
               /\ counter[c] = Cardinality(FreeOf(c))
    BY DEF IInv, SpanInv, CountInv
  <2> QED
    BY <2>1, <2>2 DEF Counted, Mine, FreeOf
<1> QED
  BY <1>1, <1>2, <1>3, InvSlotsKept DEF ObjectsConserved, IInv

\* What holds at every place of every call: who has which lock, where every
\* object is, and which spans each list counts.
THEOREM CentralInvariant == CentralSpec => []IInv
<1>1. IInv /\ [CentralNext]_centralVars => IInv'
  BY NextInv
<1> QED
  BY InitInv, <1>1, PTL DEF CentralSpec

\* The slots of all caches and those that threads owe are never more than there
\* were at first; one is lost when the class it was taken for has all it may have.
THEOREM SlotsInvariant == CentralSpec => []SlotInv
<1>1. IInv /\ SlotInv /\ [CentralNext]_centralVars => SlotInv'
  BY SlotNext
<1> QED
  BY SlotInit, <1>1, CentralInvariant, PTL DEF CentralSpec

\* InsertRange and RemoveRange of any number of threads, in any order of their
\* steps, lose no object and hand none out twice; no thread has two locks, no
\* cache outgrows its size nor all together what they were given, and refcount_,
\* num_spans_ and counter_ are true.
THEOREM CentralConserves == CentralSpec => []ObjectsConserved
  BY CentralInvariant, SlotsInvariant, Implied, PTL

------------------------------------------------------------------------------
(* The heap profiler.                                                       *)

Locking == {"add_new", "add_delete", "drop_new", "drop_delete", "drop_table"}
Handling == {"made", "record", "remove", "free"}

\* The lock is held between the steps of a start and of a stop; an object is in the
\* hands of one thread, from malloc to its record, and from free to the end.
ProfLockInv == \A t \in Actors : heap_lock = t <=> where[t].pc \in Locking
HandInv ==
  /\ \A t \in Actors : IF where[t].pc \in Handling THEN where[t].o \in heap ELSE where[t].o = Nobody
  /\ \A t, u \in Actors : where[t].o = where[u].o /\ where[t].o # Nobody => t = u

\* How far a start or a stop has come.
PhaseInv ==
  /\ heap_lock = Nobody => hooks = IF is_on THEN {"new", "delete"} ELSE {}
  /\ \A t \in Actors : where[t].pc \in Locking => is_on
  /\ \A t \in Actors :
       /\ where[t].pc = "add_new" => table = {} /\ hooks = {} /\ starts # 0 /\ \A o \in Blocks : born[o] # starts
       /\ where[t].pc = "add_delete" => table = {} /\ hooks = {"new"}
       /\ where[t].pc = "drop_new" => hooks = {"new", "delete"}
       /\ where[t].pc = "drop_delete" => hooks = {"delete"}
       /\ where[t].pc = "drop_table" => hooks = {}

\* The table counts what it shows; until the hook for frees is gone, it shows
\* only what is in use and nothing that has yet to be recorded or is free, and
\* while there is a hook for new objects, it has all those in nobody's hands.
SumInv == IF is_on THEN table \subseteq Blocks /\ IsFiniteSet(BytesOf(table)) /\ inuse(total) = Cardinality(BytesOf(table))
                   ELSE table = NULL
Dropping == \E t \in Actors : where[t].pc = "drop_table"
ShownInv == is_on /\ ~Dropping => /\ table \subseteq heap
                                  /\ \A t \in Actors : where[t].pc \in {"made", "record", "free"} => where[t].o \notin table
AllInv == is_on /\ "new" \in hooks =>
            \A o \in heap : born[o] = starts /\ (\A t \in Actors : where[t].o # o) => o \in table
BornInv == \A o \in Blocks : born[o] <= starts

ProfIInv == ProfilerTypeOK /\ ProfLockInv /\ HandInv /\ PhaseInv /\ SumInv /\ ShownInv /\ AllInv /\ BornInv /\ DumpsInTime

\* The bytes of one more object, and of one less.
LEMMA BytesAdded ==
  ASSUME NEW S \in SUBSET Blocks, NEW o \in Blocks, o \notin S, IsFiniteSet(BytesOf(S))
  PROVE  IsFiniteSet(BytesOf(S \cup {o})) /\ Cardinality(BytesOf(S \cup {o})) = Cardinality(BytesOf(S)) + Size[o]
<1>1. PICK n \in Nat : n = Size[o]
  BY ProfilerAssumption
<1> DEFINE B == {o} \X (1..n)
<1>2. IsFiniteSet(1..n) /\ Cardinality(1..n) = n
  BY FS_Interval
<1>3. IsFiniteSet({o}) /\ Cardinality({o}) = 1
  BY FS_Singleton
<1>4. IsFiniteSet(B) /\ Cardinality(B) = Cardinality({o}) * Cardinality(1..n)
  BY <1>2, <1>3, FS_Product, Zenon
<1>5. Cardinality(B) = 1 * n
  BY <1>2, <1>3, <1>4, Zenon
<1>6. Cardinality(B) = n
  BY <1>5
<1>7. BytesOf(S \cup {o}) = BytesOf(S) \cup B
  BY <1>1 DEF BytesOf
<1>8. BytesOf(S) \cap B = {}
  <2>1. \A p \in B : p[1] = o
    OBVIOUS
  <2>2. \A p \in BytesOf(S) : p[1] \in S
    BY DEF BytesOf
  <2> QED
    BY <2>1, <2>2
<1> HIDE DEF B
<1>9. /\ IsFiniteSet(BytesOf(S) \cup B)
      /\ Cardinality(BytesOf(S) \cup B) = Cardinality(BytesOf(S)) + Cardinality(B) - Cardinality(BytesOf(S) \cap B)
  BY <1>4, FS_Union, Zenon
<1>10. Cardinality(BytesOf(S) \cap B) = 0
  BY <1>8, FS_EmptySet
<1>11. Cardinality(BytesOf(S)) \in Nat
  BY FS_CardinalityType
<1>12. Cardinality(BytesOf(S) \cup B) = Cardinality(BytesOf(S)) + n - 0
  BY <1>6, <1>9, <1>10, Zenon
<1>13. Cardinality(BytesOf(S) \cup B) = Cardinality(BytesOf(S)) + n
  BY <1>11, <1>12
<1> QED
  BY <1>1, <1>7, <1>9, <1>13, Zenon

LEMMA BytesRemoved ==
  ASSUME NEW S \in SUBSET Blocks, NEW o \in S, IsFiniteSet(BytesOf(S))
  PROVE  IsFiniteSet(BytesOf(S \ {o})) /\ Cardinality(BytesOf(S \ {o})) = Cardinality(BytesOf(S)) - Size[o]
<1> DEFINE T == S \ {o}
<1>1. BytesOf(T) \subseteq BytesOf(S)
  BY DEF BytesOf
<1>2. IsFiniteSet(BytesOf(T))
  BY <1>1, FS_Subset
<1>3. T \in SUBSET Blocks /\ o \in Blocks /\ o \notin T /\ T \cup {o} = S
  OBVIOUS
<1> HIDE DEF T
<1>4. Cardinality(BytesOf(S)) = Cardinality(BytesOf(T)) + Size[o]
  BY <1>2, <1>3, BytesAdded
<1>5. Cardinality(BytesOf(T)) \in Nat /\ Size[o] \in Nat
  BY <1>2, <1>3, FS_CardinalityType, ProfilerAssumption
<1>6. Cardinality(BytesOf(T)) = Cardinality(BytesOf(S)) - Size[o]
  BY <1>4, <1>5
<1> QED
  BY <1>2, <1>6 DEF T

LEMMA MaxOfTwo == ASSUME NEW a \in Int, NEW b \in Int PROVE Max({a, b}) \in {a, b} /\ Max({a, b}) >= a /\ Max({a, b}) >= b
<1>1. \E m \in {a, b} : \A y \in {a, b} : m >= y
  OBVIOUS
<1> DEFINE m == CHOOSE x \in {a, b} : \A y \in {a, b} : x >= y
<1>2. m \in {a, b} /\ \A y \in {a, b} : m >= y
  BY <1>1, Zenon
<1>3. Max({a, b}) = m
  BY DEF Max
<1> HIDE DEF m
<1> QED
  BY <1>2, <1>3

\* When a dump is due.
InTime(s, m) ==
  /\ AllocationInterval > 0 => s.alloc < m.alloc + AllocationInterval
  /\ DeallocationInterval > 0 => s.free < m.free + DeallocationInterval
  /\ InuseInterval > 0 => inuse(s) <= m.high + InuseInterval
  /\ m.alloc <= s.alloc /\ m.free <= s.free /\ m.high <= s.alloc
Sums == [alloc : Nat, free : Nat]
Marks == [alloc : Nat, free : Nat, high : Nat]

LEMMA MarkStep ==
  ASSUME NEW s \in Sums, mark \in Marks, mark.alloc <= s.alloc, mark.free <= s.free, mark.high <= s.alloc,
         MaybeDumpProfileLocked(s)
  PROVE  mark' \in Marks /\ InTime(s, mark')
<1>1. s.alloc \in Nat /\ s.free \in Nat /\ mark.alloc \in Nat /\ mark.free \in Nat /\ mark.high \in Nat
  BY DEF Sums, Marks
<1>2. inuse(s) \in Int /\ inuse(s) <= s.alloc
  BY <1>1 DEF inuse
<1>3. AllocationInterval \in Nat /\ DeallocationInterval \in Nat /\ InuseInterval \in Nat
  BY ProfilerAssumption
<1>4. CASE mark' = [alloc |-> s.alloc, free |-> s.free, high |-> Max({inuse(s), mark.high})]
  <2>1. PICK m : m = Max({inuse(s), mark.high})
    OBVIOUS
  <2>2. m \in Nat /\ m >= inuse(s) /\ m <= s.alloc
    <3>1. PICK a \in Int : a = inuse(s)
      BY <1>2
    <3>2. PICK b \in Int : b = mark.high
      BY <1>1
    <3>3. Max({a, b}) \in {a, b} /\ Max({a, b}) >= a /\ Max({a, b}) >= b
      BY MaxOfTwo
    <3>4. m \in {a, b} /\ m >= a /\ m >= b
      BY <2>1, <3>1, <3>2, <3>3, Zenon
    <3> QED
      BY <1>1, <1>2, <3>1, <3>2, <3>4
  <2>3. mark' = [alloc |-> s.alloc, free |-> s.free, high |-> m]
    BY <1>4, <2>1
  <2> QED
    BY <1>1, <1>2, <1>3, <2>2, <2>3 DEF InTime, Marks
<1>5. CASE ~NeedToDump(s) /\ mark' = mark
  <2>1. /\ AllocationInterval > 0 => ~(s.alloc >= mark.alloc + AllocationInterval)
        /\ DeallocationInterval > 0 => ~(s.free >= mark.free + DeallocationInterval)
        /\ InuseInterval > 0 => ~(inuse(s) > mark.high + InuseInterval)
    BY <1>5 DEF NeedToDump
  <2> QED
    BY <1>1, <1>2, <1>3, <1>5, <2>1 DEF InTime
<1> QED
  BY <1>4, <1>5 DEF MaybeDumpProfileLocked

\* A step of t: where it is then, and with which object.
Stands(t, at, o) == /\ where' \in [Actors -> [pc : ProfilerPcs, o : Blocks \cup {Nobody}]]
                    /\ where'[t].pc = at /\ where'[t].o = o /\ \A u \in Actors \ {t} : where'[u] = where[u]

LEMMA GoStands ==
  ASSUME ProfilerTypeOK, NEW t \in Actors, NEW at \in ProfilerPcs, Go(t, at)
  PROVE  Stands(t, at, IF at = "idle" THEN Nobody ELSE where[t].o)
<1> DEFINE o == IF at = "idle" THEN Nobody ELSE where[t].o
<1>1. where[t].o \in Blocks \cup {Nobody}
  BY DEF ProfilerTypeOK
<1>2. o \in Blocks \cup {Nobody}
  BY <1>1
<1>3. where' = [where EXCEPT ![t] = [pc |-> at, o |-> o]]
  BY DEF Go
<1> HIDE DEF o
<1>4. Stands(t, at, o)
  BY <1>2, <1>3 DEF Stands, ProfilerTypeOK
<1> QED
  BY <1>4 DEF o

LEMMA PutStands ==
  ASSUME ProfilerTypeOK, NEW t \in Actors, NEW at \in ProfilerPcs, NEW o \in Blocks, where' = [where EXCEPT ![t] = [pc |-> at, o |-> o]]
  PROVE  Stands(t, at, o)
  BY DEF Stands, ProfilerTypeOK

\* A thread that does not come or go with the lock.
LEMMA LockKept ==
  ASSUME ProfLockInv, NEW t \in Actors, NEW at, NEW o, Stands(t, at, o), UNCHANGED heap_lock, at \in Locking <=> where[t].pc \in Locking
  PROVE  ProfLockInv'
  BY DEF ProfLockInv, Stands

\* Nobody else is at a place with the lock.
LEMMA OnlyHolder ==
  ASSUME ProfIInv
  PROVE  /\ \A t, u \in Actors : where[t].pc \in Locking /\ where[u].pc \in Locking => t = u
         /\ heap_lock = Nobody => \A t \in Actors : where[t].pc \notin Locking
<1>1. ProfLockInv
  BY DEF ProfIInv
<1> QED
  BY <1>1, ProfilerAssumption DEF ProfLockInv

\* The program: what threads hold changes, the profiler does not.
LEMMA MallocInv == ASSUME ProfIInv, NEW t \in Actors, Malloc(t) PROVE ProfIInv'
<1>1. PICK o \in Blocks \ heap : /\ heap' = heap \cup {o} /\ where' = [where EXCEPT ![t] = [pc |-> "made", o |-> o]]
                                 /\ born' = [born EXCEPT ![o] = IF "new" \in hooks THEN starts ELSE 0]
  BY DEF Malloc
<1>2. where[t].pc = "idle" /\ UNCHANGED <<heap_lock, hooks, is_on, table, total, mark, starts>>
  BY DEF Malloc, In, Profile
<1>3. Stands(t, "made", o)
  BY <1>1, PutStands DEF ProfIInv, ProfilerPcs
<1>4. born' \in [Blocks -> Nat] /\ born'[o] <= starts /\ (\A p \in Blocks \ {o} : born'[p] = born[p]) /\ ("new" \notin hooks => born'[o] = 0)
  BY <1>1 DEF ProfIInv, ProfilerTypeOK
<1>5. ProfilerTypeOK'
  BY <1>1, <1>2, <1>3, <1>4 DEF ProfIInv, ProfilerTypeOK, Stands
<1>6. ProfLockInv'
  BY <1>2, <1>3, LockKept DEF ProfIInv, Locking
<1>7. HandInv'
  BY <1>1, <1>2, <1>3, ProfilerAssumption DEF ProfIInv, HandInv, Handling, Stands
<1>8. PhaseInv'
  <2>1. \A u \in Actors : where'[u].pc \in Locking => where'[u] = where[u]
    BY <1>3 DEF Stands, Locking
  <2>2. (\E u \in Actors : where'[u].pc = "add_new") => hooks = {} /\ starts # 0 /\ \A p \in Blocks : born'[p] # starts
    BY <1>4, <2>1 DEF ProfIInv, PhaseInv, Locking
  <2> QED
    BY <1>2, <2>1, <2>2 DEF ProfIInv, PhaseInv, Locking
<1>9. SumInv'
  BY <1>2 DEF ProfIInv, SumInv, BytesOf
<1>10. ShownInv'
  BY <1>1, <1>2, <1>3 DEF ProfIInv, ShownInv, Dropping, Stands
<1>11. AllInv'
  <2>1. ASSUME is_on, "new" \in hooks, NEW p \in heap', born'[p] = starts, \A u \in Actors : where'[u].o # p PROVE p \in table
    <3>1. p \in heap /\ p # o
      BY <1>1, <1>3, <2>1 DEF Stands
    <3>2. \A u \in Actors : where[u].o # p
      BY <1>2, <1>3, <2>1, <3>1, ProfilerAssumption DEF Stands, ProfIInv, HandInv, Handling, ProfilerTypeOK
    <3> QED
      BY <1>4, <2>1, <3>1, <3>2 DEF ProfIInv, AllInv, ProfilerTypeOK
  <2> QED
    BY <1>2, <2>1 DEF AllInv
<1>12. BornInv'
  BY <1>2, <1>4 DEF ProfIInv, BornInv
<1>13. DumpsInTime'
  BY <1>2 DEF ProfIInv, DumpsInTime
<1> QED
  BY <1>5, <1>6, <1>7, <1>8, <1>9, <1>10, <1>11, <1>12, <1>13 DEF ProfIInv

\* Nobody is in a start or a stop, or what these rely on does not change.
LEMMA PhaseKept ==
  ASSUME PhaseInv, NEW t \in Actors, NEW at, NEW o, Stands(t, at, o), at \notin Locking, UNCHANGED <<heap_lock, hooks, is_on>>,
         UNCHANGED <<born, starts, table>> \/ \A u \in Actors : where[u].pc \notin Locking
  PROVE  PhaseInv'
<1>1. \A u \in Actors : where'[u].pc \in Locking => where'[u] = where[u]
  BY DEF Stands
<1>2. CASE UNCHANGED <<born, starts, table>>
  BY <1>1, <1>2 DEF PhaseInv, Locking
<1>3. CASE \A u \in Actors : where[u].pc \notin Locking
  <2>1. \A u \in Actors : where'[u].pc \notin Locking
    BY <1>1, <1>3
  <2> QED
    BY <2>1 DEF PhaseInv, Locking
<1> QED
  BY <1>2, <1>3

\* What a thread has in its hands stays there, or is given up.
LEMMA HandsKept ==
  ASSUME HandInv, NEW t \in Actors, NEW at, NEW o, Stands(t, at, o),
         \A u \in Actors \ {t} : where[u].o \in heap => where[u].o \in heap',
         \/ o = where[t].o /\ (at \in Handling <=> where[t].pc \in Handling) /\ UNCHANGED heap
         \/ o = Nobody /\ at \notin Handling
  PROVE  HandInv'
  BY DEF HandInv, Stands

LEMMA CallNewHookInv == ASSUME ProfIInv, NEW t \in Actors, CallNewHook(t) PROVE ProfIInv'
<1> DEFINE at == IF "new" \in hooks THEN "record" ELSE "idle"
           o == IF at = "idle" THEN Nobody ELSE where[t].o
<1>1. where[t].pc = "made" /\ UNCHANGED <<heap, born, heap_lock, hooks, is_on, table, total, mark, starts>>
  BY DEF CallNewHook, In, Profile, Program
<1>2. at \in ProfilerPcs /\ at \in {"record", "idle"} /\ Go(t, at)
  BY DEF CallNewHook, ProfilerPcs
<1> HIDE DEF at
<1>3. Stands(t, at, o)
  BY <1>2, GoStands DEF ProfIInv
<1>4. ProfilerTypeOK'
  BY <1>1, <1>3 DEF ProfIInv, ProfilerTypeOK, Stands
<1>5. ProfLockInv'
  BY <1>1, <1>2, <1>3, LockKept DEF ProfIInv, Locking
<1>6. HandInv'
  <2>1. \/ o = where[t].o /\ (at \in Handling <=> where[t].pc \in Handling)
        \/ o = Nobody /\ at \notin Handling
    BY <1>1, <1>2 DEF Handling
  <2> HIDE DEF o
  <2> QED
    BY <1>1, <1>3, <2>1, HandsKept DEF ProfIInv
<1>7. PhaseInv'
  BY <1>1, <1>2, <1>3, PhaseKept DEF ProfIInv, Locking
<1>8. SumInv' /\ BornInv' /\ DumpsInTime'
  BY <1>1 DEF ProfIInv, SumInv, BytesOf, BornInv, DumpsInTime
<1>9. ShownInv'
  BY <1>1, <1>2, <1>3 DEF ProfIInv, ShownInv, Dropping, Stands
<1>10. AllInv'
  <2>1. CASE "new" \notin hooks
    BY <1>1, <2>1 DEF AllInv
  <2>2. CASE "new" \in hooks
    <3>1. o = where[t].o
      BY <2>2 DEF at
    <3>2. \A u \in Actors : where'[u].o = where[u].o
      BY <1>3, <3>1 DEF Stands
    <3> QED
      BY <1>1, <3>2 DEF AllInv, ProfIInv
  <2> QED
    BY <2>1, <2>2
<1> QED
  BY <1>4, <1>5, <1>6, <1>7, <1>8, <1>9, <1>10 DEF ProfIInv

\* Without the hook for frees, the table shows nothing, or is about to be dropped.
LEMMA CallDeleteHookInv == ASSUME ProfIInv, NEW t \in Actors, CallDeleteHook(t) PROVE ProfIInv'
<1> DEFINE at == IF "delete" \in hooks THEN "remove" ELSE "free"
<1>1. where[t].pc = "idle" /\ UNCHANGED <<heap, born, heap_lock, hooks, is_on, table, total, mark, starts>>
  BY DEF CallDeleteHook, In, Profile, Program
<1>2. PICK o \in heap : Hands(o) = {} /\ where' = [where EXCEPT ![t] = [pc |-> at, o |-> o]]
  BY DEF CallDeleteHook
<1>3. at \in ProfilerPcs /\ at \in {"remove", "free"}
  BY DEF ProfilerPcs
<1>p. at = "free" => "delete" \notin hooks
  OBVIOUS
<1> HIDE DEF at
<1>4. o \in Blocks /\ o # Nobody /\ \A u \in Actors : where[u].o # o
  BY <1>2, ProfilerAssumption DEF ProfIInv, ProfilerTypeOK, Hands
<1>5. Stands(t, at, o)
  BY <1>2, <1>3, <1>4, PutStands DEF ProfIInv
<1>6. ProfilerTypeOK'
  BY <1>1, <1>5 DEF ProfIInv, ProfilerTypeOK, Stands
<1>7. ProfLockInv'
  BY <1>1, <1>3, <1>5, LockKept DEF ProfIInv, Locking
<1>8. HandInv'
  BY <1>1, <1>2, <1>3, <1>4, <1>5 DEF ProfIInv, HandInv, Handling, Stands
<1>9. PhaseInv'
  BY <1>1, <1>3, <1>5, PhaseKept DEF ProfIInv, Locking
<1>10. SumInv' /\ BornInv' /\ DumpsInTime'
  BY <1>1 DEF ProfIInv, SumInv, BytesOf, BornInv, DumpsInTime
<1>11. ShownInv'
  <2>1. ASSUME is_on, ~Dropping, "delete" \notin hooks PROVE table = {}
    <3>1. heap_lock # Nobody /\ heap_lock \in Actors
      BY <2>1 DEF ProfIInv, PhaseInv, ProfilerTypeOK
    <3>2. where[heap_lock].pc \in Locking
      BY <3>1 DEF ProfIInv, ProfLockInv
    <3>3. where[heap_lock].pc \in {"add_new", "add_delete"}
      BY <2>1, <3>1, <3>2 DEF ProfIInv, PhaseInv, Locking, Dropping
    <3> QED
      BY <3>1, <3>3 DEF ProfIInv, PhaseInv
  <2>2. is_on /\ ~Dropping' => ~Dropping
    BY <1>1, <1>3, <1>5 DEF Dropping, Stands
  <2>3. CASE "delete" \notin hooks
    BY <1>1, <2>1, <2>2, <2>3 DEF ShownInv
  <2>4. CASE "delete" \in hooks
    <3>1. at = "remove"
      BY <1>3, <1>p, <2>4
    <3> QED
      BY <1>1, <1>5, <2>2, <3>1 DEF ProfIInv, ShownInv, Stands
  <2> QED
    BY <2>3, <2>4
<1>12. AllInv'
  <2>1. \A p \in heap : (\A u \in Actors : where'[u].o # p) => \A u \in Actors : where[u].o # p
    <3>1. where[t].o = Nobody
      BY <1>1 DEF ProfIInv, HandInv, Handling
    <3>2. \A p \in heap : p # Nobody
      BY ProfilerAssumption DEF ProfIInv, ProfilerTypeOK
    <3> QED
      BY <1>5, <3>1, <3>2 DEF Stands
  <2> QED
    BY <1>1, <2>1 DEF ProfIInv, AllInv
<1> QED
  BY <1>6, <1>7, <1>8, <1>9, <1>10, <1>11, <1>12 DEF ProfIInv

LEMMA RealFreeInv == ASSUME ProfIInv, NEW t \in Actors, RealFree(t) PROVE ProfIInv'
<1> DEFINE o == where[t].o
<1>1. where[t].pc = "free" /\ UNCHANGED <<born, heap_lock, hooks, is_on, table, total, mark, starts>> /\ heap' = heap \ {o}
  BY DEF RealFree, In, Profile
<1>2. Go(t, "idle")
  BY DEF RealFree
<1>3. Stands(t, "idle", Nobody)
  <2>1. "idle" \in ProfilerPcs
    BY DEF ProfilerPcs
  <2> QED
    BY <1>2, <2>1, GoStands DEF ProfIInv
<1>4. o \in heap /\ o # Nobody
  BY <1>1, ProfilerAssumption DEF ProfIInv, HandInv, Handling, ProfilerTypeOK
<1>5. \A u \in Actors \ {t} : where[u].o # o
  BY <1>4 DEF ProfIInv, HandInv
<1> HIDE DEF o
<1>6. ProfilerTypeOK'
  BY <1>1, <1>3 DEF ProfIInv, ProfilerTypeOK, Stands
<1>7. ProfLockInv'
  BY <1>1, <1>3, LockKept DEF ProfIInv, Locking
<1>8. HandInv'
  BY <1>1, <1>3, <1>5, HandsKept DEF ProfIInv, Handling
<1>9. PhaseInv'
  BY <1>1, <1>3, PhaseKept DEF ProfIInv, Locking
<1>10. SumInv' /\ BornInv' /\ DumpsInTime'
  BY <1>1 DEF ProfIInv, SumInv, BytesOf, BornInv, DumpsInTime
<1>11. ShownInv'
  <2>1. is_on /\ ~Dropping' => ~Dropping
    BY <1>1, <1>3 DEF Dropping, Stands
  <2>2. is_on /\ ~Dropping => table \subseteq heap /\ o \notin table /\ \A u \in Actors : where[u].pc \in {"made", "record", "free"} => where[u].o \notin table
    BY <1>1 DEF ProfIInv, ShownInv, o
  <2> QED
    BY <1>1, <1>3, <2>1, <2>2 DEF ShownInv, Stands
<1>12. AllInv'
  <2>1. \A p \in heap' : (\A u \in Actors : where'[u].o # p) => p \in heap /\ \A u \in Actors : where[u].o # p
    BY <1>1, <1>3 DEF Stands, o
  <2> QED
    BY <1>1, <2>1 DEF ProfIInv, AllInv
<1> QED
  BY <1>6, <1>7, <1>8, <1>9, <1>10, <1>11, <1>12 DEF ProfIInv

\* With the lock, the object goes from the hands of a thread to the table.
LEMMA RecordAllocInv == ASSUME ProfIInv, NEW t \in Actors, RecordAlloc(t) PROVE ProfIInv'
<1> DEFINE o == where[t].o
<1>1. where[t].pc = "record" /\ heap_lock = Nobody /\ UNCHANGED <<heap, born, heap_lock, hooks, is_on, starts>>
  BY DEF RecordAlloc, In, Program, Unlocked
<1>2. Stands(t, "idle", Nobody)
  <2>1. "idle" \in ProfilerPcs /\ Go(t, "idle")
    BY DEF ProfilerPcs, RecordAlloc
  <2> QED
    BY <2>1, GoStands DEF ProfIInv
<1>3. o \in heap /\ o \in Blocks /\ o # Nobody /\ \A u \in Actors \ {t} : where[u].o # o
  BY <1>1, ProfilerAssumption DEF ProfIInv, HandInv, Handling, ProfilerTypeOK
<1>4. (\A u \in Actors : where[u].pc \notin Locking) /\ ~Dropping
  BY <1>1, OnlyHolder DEF Dropping, Locking
<1>5. ProfLockInv' /\ PhaseInv' /\ BornInv'
  BY <1>1, <1>2, <1>4, LockKept, PhaseKept DEF ProfIInv, Locking, BornInv
<1>6. HandInv'
  BY <1>1, <1>2, HandsKept DEF ProfIInv, Handling
<1>7. CASE ~is_on
  <2>1. UNCHANGED <<table, total, mark>>
    BY <1>7 DEF RecordAlloc
  <2>2. "new" \notin hooks
    BY <1>1, <1>7 DEF ProfIInv, PhaseInv
  <2>3. ProfilerTypeOK'
    BY <1>1, <1>2, <2>1 DEF ProfIInv, ProfilerTypeOK, Stands
  <2>4. SumInv' /\ ShownInv' /\ AllInv' /\ DumpsInTime'
    BY <1>1, <1>7, <2>1, <2>2 DEF ProfIInv, SumInv, ShownInv, AllInv, DumpsInTime
  <2> QED
    BY <1>5, <1>6, <2>3, <2>4 DEF ProfIInv
<1>8. CASE is_on
  <2>1. table' = table \cup {o} /\ total' = [total EXCEPT !.alloc = @ + Size[o]] /\ MaybeDumpProfileLocked(total')
    BY <1>8 DEF RecordAlloc
  <2>2. table \subseteq Blocks /\ o \notin table /\ table \subseteq heap /\ IsFiniteSet(BytesOf(table)) /\ inuse(total) = Cardinality(BytesOf(table))
    BY <1>1, <1>4, <1>8 DEF ProfIInv, SumInv, ShownInv
  <2>3. Size[o] \in Nat /\ total \in Sums /\ total.alloc \in Nat /\ total.free \in Nat
    BY <1>3, ProfilerAssumption DEF ProfIInv, ProfilerTypeOK, Sums
  <2>4. total' \in Sums /\ total'.alloc = total.alloc + Size[o] /\ total'.free = total.free
    BY <2>1, <2>3 DEF Sums
  <2>5. mark \in Marks /\ InTime(total, mark)
    BY <1>8 DEF ProfIInv, ProfilerTypeOK, DumpsInTime, InTime, Marks
  <2>6. mark' \in Marks /\ InTime(total', mark')
    <3>1. mark.alloc \in Nat /\ mark.free \in Nat /\ mark.high \in Nat
      BY <2>5 DEF Marks
    <3>2. mark.alloc <= total'.alloc /\ mark.free <= total'.free /\ mark.high <= total'.alloc
      BY <2>3, <2>4, <2>5, <3>1 DEF InTime
    <3> QED
      BY <2>1, <2>4, <2>5, <3>2, MarkStep
  <2> HIDE DEF o
  <2>7. ProfilerTypeOK'
    BY <1>1, <1>2, <1>3, <2>1, <2>2, <2>4, <2>6 DEF ProfIInv, ProfilerTypeOK, Stands, Sums, Marks
  <2>8. DumpsInTime'
    BY <2>6 DEF DumpsInTime, InTime
  <2>9. SumInv'
    <3>1. IsFiniteSet(BytesOf(table \cup {o})) /\ Cardinality(BytesOf(table \cup {o})) = Cardinality(BytesOf(table)) + Size[o]
      BY <1>3, <2>2, BytesAdded
    <3>2. inuse(total') = inuse(total) + Size[o]
      BY <2>3, <2>4 DEF inuse
    <3>3. IsFiniteSet(BytesOf(table')) /\ inuse(total') = Cardinality(BytesOf(table'))
      BY <2>1, <2>2, <3>1, <3>2
    <3>4. table' \subseteq Blocks /\ is_on'
      BY <1>1, <1>3, <1>8, <2>1, <2>2
    <3>5. BytesOf(table)' = BytesOf(table')
      BY DEF BytesOf
    <3> QED
      BY <3>3, <3>4, <3>5 DEF SumInv, inuse
  <2>10. ShownInv'
    <3>1. table' \subseteq heap'
      BY <1>1, <1>3, <2>1, <2>2
    <3>2. ASSUME NEW u \in Actors, where'[u].pc \in {"made", "record", "free"} PROVE where'[u].o \notin table'
      <4>1. u # t /\ where'[u] = where[u]
        BY <1>2, <3>2 DEF Stands
      <4>2. where[u].o \notin table
        BY <1>4, <1>8, <3>2, <4>1 DEF ProfIInv, ShownInv
      <4> QED
        BY <1>3, <2>1, <4>1, <4>2
    <3> QED
      BY <3>1, <3>2 DEF ShownInv
  <2>11. AllInv'
    <3>1. \A p \in heap : (\A u \in Actors : where'[u].o # p) => p = o \/ \A u \in Actors : where[u].o # p
      BY <1>2 DEF Stands, o
    <3> QED
      BY <1>1, <2>1, <3>1 DEF ProfIInv, AllInv
  <2> QED
    BY <1>5, <1>6, <2>7, <2>8, <2>9, <2>10, <2>11 DEF ProfIInv
<1> QED
  BY <1>7, <1>8

\* With the lock, the object leaves the table, if it is there.
LEMMA RecordFreeInv == ASSUME ProfIInv, NEW t \in Actors, RecordFree(t) PROVE ProfIInv'
<1> DEFINE o == where[t].o
<1>1. where[t].pc = "remove" /\ heap_lock = Nobody /\ UNCHANGED <<heap, born, heap_lock, hooks, is_on, starts>>
  BY DEF RecordFree, In, Program, Unlocked
<1>2. Stands(t, "free", o)
  <2>1. "free" \in ProfilerPcs /\ Go(t, "free")
    BY DEF ProfilerPcs, RecordFree
  <2> QED
    BY <2>1, GoStands DEF ProfIInv
<1>3. o \in heap /\ o \in Blocks /\ o # Nobody
  BY <1>1, ProfilerAssumption DEF ProfIInv, HandInv, Handling, ProfilerTypeOK
<1>4. (\A u \in Actors : where[u].pc \notin Locking) /\ ~Dropping
  BY <1>1, OnlyHolder DEF Dropping, Locking
<1>5. ProfLockInv' /\ PhaseInv' /\ BornInv'
  BY <1>1, <1>2, <1>4, LockKept, PhaseKept DEF ProfIInv, Locking, BornInv
<1>6. HandInv'
  BY <1>1, <1>2, HandsKept DEF ProfIInv, Handling
<1>s. \A u \in Actors : where'[u].o = where[u].o
  BY <1>2 DEF Stands
<1>7. CASE ~is_on
  <2>1. UNCHANGED <<table, total, mark>>
    BY <1>7 DEF RecordFree
  <2>2. "new" \notin hooks
    BY <1>1, <1>7 DEF ProfIInv, PhaseInv
  <2>3. ProfilerTypeOK'
    BY <1>1, <1>2, <2>1 DEF ProfIInv, ProfilerTypeOK, Stands
  <2>4. SumInv' /\ ShownInv' /\ AllInv' /\ DumpsInTime'
    BY <1>1, <1>7, <2>1, <2>2 DEF ProfIInv, SumInv, ShownInv, AllInv, DumpsInTime
  <2> QED
    BY <1>5, <1>6, <2>3, <2>4 DEF ProfIInv
<1>8. CASE is_on
  <2>1. table' = table \ {o} /\ total' = (IF o \in table THEN [total EXCEPT !.free = @ + Size[o]] ELSE total) /\ MaybeDumpProfileLocked(total')
    BY <1>8 DEF RecordFree
  <2>2. table \subseteq Blocks /\ table \subseteq heap /\ IsFiniteSet(BytesOf(table)) /\ inuse(total) = Cardinality(BytesOf(table))
    BY <1>1, <1>4, <1>8 DEF ProfIInv, SumInv, ShownInv
  <2>3. Size[o] \in Nat /\ total \in Sums /\ total.alloc \in Nat /\ total.free \in Nat
    BY <1>3, ProfilerAssumption DEF ProfIInv, ProfilerTypeOK, Sums
  <2>4. total' \in Sums /\ total'.alloc = total.alloc /\ total'.free = (IF o \in table THEN total.free + Size[o] ELSE total.free)
    BY <2>1, <2>3 DEF Sums
  <2>5. mark \in Marks /\ InTime(total, mark)
    BY <1>8 DEF ProfIInv, ProfilerTypeOK, DumpsInTime, InTime, Marks
  <2>6. mark' \in Marks /\ InTime(total', mark')
    <3>1. mark.alloc \in Nat /\ mark.free \in Nat /\ mark.high \in Nat
      BY <2>5 DEF Marks
    <3>2. mark.alloc <= total'.alloc /\ mark.free <= total'.free /\ mark.high <= total'.alloc
      BY <2>3, <2>4, <2>5, <3>1 DEF InTime
    <3> QED
      BY <2>1, <2>4, <2>5, <3>2, MarkStep
  <2> HIDE DEF o
  <2>7. ProfilerTypeOK'
    BY <1>1, <1>2, <1>3, <2>1, <2>2, <2>4, <2>6 DEF ProfIInv, ProfilerTypeOK, Stands, Sums, Marks
  <2>8. DumpsInTime'
    BY <2>6 DEF DumpsInTime, InTime
  <2>9. SumInv'
    <3>1. CASE o \in table
      <4>1. IsFiniteSet(BytesOf(table \ {o})) /\ Cardinality(BytesOf(table \ {o})) = Cardinality(BytesOf(table)) - Size[o]
        BY <2>2, <3>1, BytesRemoved
      <4>2. inuse(total') = inuse(total) - Size[o]
        BY <2>3, <2>4, <3>1 DEF inuse
      <4>3. IsFiniteSet(BytesOf(table')) /\ inuse(total') = Cardinality(BytesOf(table'))
        BY <2>1, <2>2, <4>1, <4>2
      <4>4. table' \subseteq Blocks /\ is_on'
        BY <1>1, <1>8, <2>1, <2>2
      <4>5. BytesOf(table)' = BytesOf(table')
        BY DEF BytesOf
      <4> QED
        BY <4>3, <4>4, <4>5 DEF SumInv, inuse
    <3>2. CASE o \notin table
      <4>1. table' = table /\ total' = total
        BY <2>1, <3>2
      <4> QED
        BY <1>1, <4>1 DEF ProfIInv, SumInv, BytesOf
    <3> QED
      BY <3>1, <3>2
  <2>10. ShownInv'
    <3>1. table' \subseteq heap'
      BY <1>1, <2>1, <2>2
    <3>2. ASSUME NEW u \in Actors, where'[u].pc \in {"made", "record", "free"} PROVE where'[u].o \notin table'
      <4>1. CASE u = t
        BY <1>2, <2>1, <4>1 DEF Stands
      <4>2. CASE u # t
        BY <1>2, <1>4, <1>8, <2>1, <3>2, <4>2 DEF ProfIInv, ShownInv, Stands
      <4> QED
        BY <4>1, <4>2
    <3> QED
      BY <3>1, <3>2 DEF ShownInv
  <2>11. AllInv'
    <3>1. \A p \in heap : (\A u \in Actors : where'[u].o # p) => p # o /\ \A u \in Actors : where[u].o # p
      BY <1>s DEF o
    <3> QED
      BY <1>1, <2>1, <3>1 DEF ProfIInv, AllInv
  <2> QED
    BY <1>5, <1>6, <2>7, <2>8, <2>9, <2>10, <2>11 DEF ProfIInv
<1> QED
  BY <1>7, <1>8

------------------------------------------------------------------------------
\* A start or a stop takes the lock, goes on with it, or gives it back.
LEMMA HolderHands ==
  ASSUME ProfIInv, NEW t \in Actors, NEW at, at \notin Handling, where[t].pc \notin Handling, Stands(t, at, Nobody), UNCHANGED heap
  PROVE  HandInv' /\ \A u \in Actors : where'[u].o = where[u].o
<1>1. where[t].o = Nobody
  BY DEF ProfIInv, HandInv
<1>2. HandInv'
  BY HandsKept DEF ProfIInv
<1> QED
  BY <1>1, <1>2 DEF Stands

LEMMA HolderStands ==
  ASSUME ProfIInv, NEW t \in Actors, NEW at \in ProfilerPcs, where[t].pc \notin Handling, Go(t, at)
  PROVE  Stands(t, at, Nobody)
<1>1. where[t].o = Nobody
  BY DEF ProfIInv, HandInv
<1>2. (IF at = "idle" THEN Nobody ELSE where[t].o) = Nobody
  BY <1>1
<1>3. Stands(t, at, IF at = "idle" THEN Nobody ELSE where[t].o)
  BY GoStands DEF ProfIInv
<1> QED
  BY <1>2, <1>3

LEMMA ProfStartInv == ASSUME ProfIInv, NEW t \in Actors, HeapProfilerStart(t) PROVE ProfIInv'
<1>1. /\ where[t].pc = "idle" /\ heap_lock = Nobody /\ heap_lock' = t /\ ~is_on /\ is_on' = TRUE /\ table' = {}
      /\ total' = Zero /\ mark' = [alloc |-> 0, free |-> 0, high |-> 0] /\ starts' = starts + 1 /\ UNCHANGED <<heap, born, hooks>>
  BY DEF HeapProfilerStart, Takes, In, Unlocked, Program
<1>2. Stands(t, "add_new", Nobody)
  BY <1>1, HolderStands DEF HeapProfilerStart, Takes, ProfilerPcs, Handling
<1>3. HandInv' /\ \A u \in Actors : where'[u].o = where[u].o
  BY <1>1, <1>2, HolderHands DEF Handling
<1>4. \A u \in Actors : where[u].pc \notin Locking
  BY <1>1, OnlyHolder
<1>5. starts \in Nat /\ hooks = {}
  BY <1>1 DEF ProfIInv, ProfilerTypeOK, PhaseInv
<1>6. ProfilerTypeOK'
  BY <1>1, <1>2, <1>5 DEF ProfIInv, ProfilerTypeOK, Stands, Zero
<1>7. ProfLockInv'
  BY <1>1, <1>2, <1>4, ProfilerAssumption DEF ProfLockInv, Stands, Locking
<1>8. BornInv' /\ \A o \in Blocks : born[o] # starts + 1
  BY <1>1, <1>5 DEF ProfIInv, ProfilerTypeOK, BornInv
<1>9. PhaseInv'
  <2>1. \A u \in Actors : where'[u].pc \in Locking => u = t /\ where'[u].pc = "add_new"
    BY <1>2, <1>4 DEF Stands
  <2>2. heap_lock' # Nobody
    BY <1>1, ProfilerAssumption
  <2>3. starts + 1 # 0
    BY <1>5
  <2> QED
    BY <1>1, <1>5, <1>8, <2>1, <2>2, <2>3 DEF PhaseInv, Locking
<1>10. SumInv'
  <2>1. BytesOf({}) = {} /\ IsFiniteSet({}) /\ Cardinality({}) = 0
    BY FS_EmptySet DEF BytesOf
  <2>2. BytesOf(table)' = {}
    BY <1>1 DEF BytesOf
  <2> QED
    BY <1>1, <2>1, <2>2 DEF SumInv, inuse, Zero
<1>11. ShownInv' /\ AllInv'
  BY <1>1, <1>5 DEF ShownInv, AllInv
<1>12. DumpsInTime'
  BY <1>1, ProfilerAssumption DEF DumpsInTime, inuse, Zero
<1> QED
  BY <1>3, <1>6, <1>7, <1>8, <1>9, <1>10, <1>11, <1>12 DEF ProfIInv

\* Between two steps of the holder, other threads do not have the lock.
LEMMA HolderAlone ==
  ASSUME ProfIInv, NEW t \in Actors, where[t].pc \in Locking
  PROVE  heap_lock = t /\ t # Nobody /\ is_on /\ \A u \in Actors \ {t} : where[u].pc \notin Locking
  BY OnlyHolder, ProfilerAssumption DEF ProfIInv, ProfLockInv, PhaseInv

\* The holder goes on to at.
LEMMA HolderStep ==
  ASSUME ProfIInv, NEW t \in Actors, where[t].pc \in Locking, NEW at \in Locking, Go(t, at),
         UNCHANGED <<heap, born, heap_lock, is_on, table, total, mark, starts>>, hooks' \subseteq {"new", "delete"}
  PROVE  /\ ProfilerTypeOK' /\ ProfLockInv' /\ HandInv' /\ SumInv' /\ BornInv' /\ DumpsInTime'
         /\ Stands(t, at, Nobody) /\ \A u \in Actors : where'[u].o = where[u].o
         /\ \A u \in Actors \ {t} : where'[u].pc \notin Locking
<1>1. Stands(t, at, Nobody)
  BY HolderStands DEF Locking, ProfilerPcs, Handling
<1>2. HandInv' /\ \A u \in Actors : where'[u].o = where[u].o
  BY <1>1, HolderHands DEF Locking, Handling
<1>3. ProfilerTypeOK'
  BY <1>1 DEF ProfIInv, ProfilerTypeOK, Stands
<1>4. ProfLockInv'
  BY <1>1, LockKept DEF ProfIInv
<1>5. SumInv' /\ BornInv' /\ DumpsInTime'
  BY DEF ProfIInv, SumInv, BytesOf, BornInv, DumpsInTime
<1>6. \A u \in Actors \ {t} : where'[u].pc \notin Locking
  BY <1>1, HolderAlone DEF Stands
<1> QED
  BY <1>1, <1>2, <1>3, <1>4, <1>5, <1>6

LEMMA AddNewHookInv == ASSUME ProfIInv, NEW t \in Actors, AddNewHook(t) PROVE ProfIInv'
<1>1. where[t].pc = "add_new" /\ hooks' = hooks \cup {"new"} /\ Go(t, "add_delete") /\ UNCHANGED <<heap, born, heap_lock, is_on, table, total, mark, starts>>
  BY DEF AddNewHook, In, Program, Profile
<1>2. table = {} /\ hooks = {} /\ (\A o \in Blocks : born[o] # starts) /\ heap \subseteq Blocks
  BY <1>1 DEF ProfIInv, PhaseInv, ProfilerTypeOK
<1>3. heap_lock = t /\ t # Nobody /\ is_on
  BY <1>1, HolderAlone DEF Locking
<1>4. /\ ProfilerTypeOK' /\ ProfLockInv' /\ HandInv' /\ SumInv' /\ BornInv' /\ DumpsInTime'
      /\ Stands(t, "add_delete", Nobody) /\ \A u \in Actors \ {t} : where'[u].pc \notin Locking
  BY <1>1, <1>2, HolderStep DEF Locking
<1>5. PhaseInv'
  BY <1>1, <1>2, <1>3, <1>4 DEF PhaseInv, Locking, Stands
<1>6. ShownInv' /\ AllInv'
  BY <1>1, <1>2 DEF ShownInv, AllInv
<1> QED
  BY <1>4, <1>5, <1>6 DEF ProfIInv

LEMMA HeapProfilerStopInv == ASSUME ProfIInv, NEW t \in Actors, HeapProfilerStop(t) PROVE ProfIInv'
<1>1. /\ where[t].pc = "idle" /\ heap_lock = Nobody /\ heap_lock' = t /\ is_on /\ Go(t, "drop_new")
      /\ UNCHANGED <<heap, born, hooks, is_on, table, total, mark, starts>>
  BY DEF HeapProfilerStop, Takes, In, Unlocked, Program, Profile
<1>2. Stands(t, "drop_new", Nobody)
  BY <1>1, HolderStands DEF ProfilerPcs, Handling
<1>3. HandInv' /\ \A u \in Actors : where'[u].o = where[u].o
  BY <1>1, <1>2, HolderHands DEF Handling
<1>4. (\A u \in Actors : where[u].pc \notin Locking) /\ ~Dropping
  BY <1>1, OnlyHolder DEF Dropping, Locking
<1>5. hooks = {"new", "delete"} /\ t # Nobody
  BY <1>1, ProfilerAssumption DEF ProfIInv, PhaseInv
<1>6. ProfilerTypeOK'
  BY <1>1, <1>2 DEF ProfIInv, ProfilerTypeOK, Stands
<1>7. ProfLockInv'
  BY <1>1, <1>2, <1>4, ProfilerAssumption DEF ProfLockInv, Stands, Locking
<1>8. PhaseInv'
  <2>1. \A u \in Actors : where'[u].pc \in Locking => u = t /\ where'[u].pc = "drop_new"
    BY <1>2, <1>4 DEF Stands
  <2> QED
    BY <1>1, <1>5, <2>1 DEF PhaseInv, Locking
<1>9. SumInv' /\ BornInv' /\ DumpsInTime'
  BY <1>1 DEF ProfIInv, SumInv, BytesOf, BornInv, DumpsInTime
<1>10. ShownInv'
  BY <1>1, <1>2, <1>4 DEF ProfIInv, ShownInv, Stands
<1>11. AllInv'
  BY <1>1, <1>3 DEF ProfIInv, AllInv
<1> QED
  BY <1>3, <1>6, <1>7, <1>8, <1>9, <1>10, <1>11 DEF ProfIInv

LEMMA RemoveNewHookInv == ASSUME ProfIInv, NEW t \in Actors, RemoveNewHook(t) PROVE ProfIInv'
<1>1. where[t].pc = "drop_new" /\ hooks' = hooks \ {"new"} /\ Go(t, "drop_delete") /\ UNCHANGED <<heap, born, heap_lock, is_on, table, total, mark, starts>>
  BY DEF RemoveNewHook, In, Program, Profile
<1>2. hooks = {"new", "delete"}
  BY <1>1 DEF ProfIInv, PhaseInv
<1>3. heap_lock = t /\ t # Nobody /\ is_on /\ \A u \in Actors \ {t} : where[u].pc \notin Locking
  BY <1>1, HolderAlone DEF Locking
<1>4. /\ ProfilerTypeOK' /\ ProfLockInv' /\ HandInv' /\ SumInv' /\ BornInv' /\ DumpsInTime'
      /\ Stands(t, "drop_delete", Nobody) /\ \A u \in Actors \ {t} : where'[u].pc \notin Locking
  BY <1>1, <1>2, HolderStep DEF Locking
<1>5. PhaseInv'
  BY <1>1, <1>2, <1>3, <1>4 DEF PhaseInv, Locking, Stands
<1>6. ~Dropping
  BY <1>1, <1>3 DEF Dropping, Locking
<1>7. ShownInv'
  BY <1>1, <1>4, <1>6 DEF ProfIInv, ShownInv, Stands
<1>8. AllInv'
  BY <1>1, <1>2 DEF AllInv
<1> QED
  BY <1>4, <1>5, <1>7, <1>8 DEF ProfIInv

LEMMA RemoveDeleteHookInv == ASSUME ProfIInv, NEW t \in Actors, RemoveDeleteHook(t) PROVE ProfIInv'
<1>1. where[t].pc = "drop_delete" /\ hooks' = hooks \ {"delete"} /\ Go(t, "drop_table") /\ UNCHANGED <<heap, born, heap_lock, is_on, table, total, mark, starts>>
  BY DEF RemoveDeleteHook, In, Program, Profile
<1>2. hooks = {"delete"}
  BY <1>1 DEF ProfIInv, PhaseInv
<1>3. heap_lock = t /\ t # Nobody /\ is_on
  BY <1>1, HolderAlone DEF Locking
<1>4. /\ ProfilerTypeOK' /\ ProfLockInv' /\ HandInv' /\ SumInv' /\ BornInv' /\ DumpsInTime'
      /\ Stands(t, "drop_table", Nobody) /\ \A u \in Actors \ {t} : where'[u].pc \notin Locking
  BY <1>1, <1>2, HolderStep DEF Locking
<1>5. PhaseInv'
  BY <1>1, <1>2, <1>3, <1>4 DEF PhaseInv, Locking, Stands
<1>6. ShownInv'
  BY <1>4 DEF ShownInv, Dropping, Stands
<1>7. AllInv'
  BY <1>1, <1>2 DEF AllInv
<1> QED
  BY <1>4, <1>5, <1>6, <1>7 DEF ProfIInv

\* The last step of a start: the hooks may record from now on.
LEMMA AddDeleteHookInv == ASSUME ProfIInv, NEW t \in Actors, AddDeleteHook(t) PROVE ProfIInv'
<1>1. /\ where[t].pc = "add_delete" /\ hooks' = hooks \cup {"delete"} /\ heap_lock' = Nobody /\ Go(t, "idle")
      /\ UNCHANGED <<heap, born, is_on, table, total, mark, starts>>
  BY DEF AddDeleteHook, In, Program, Profile
<1>2. table = {} /\ hooks = {"new"}
  BY <1>1 DEF ProfIInv, PhaseInv
<1>3. heap_lock = t /\ t # Nobody /\ is_on /\ \A u \in Actors \ {t} : where[u].pc \notin Locking
  BY <1>1, HolderAlone DEF Locking
<1>4. Stands(t, "idle", Nobody)
  BY <1>1, HolderStands DEF ProfilerPcs, Handling
<1>5. HandInv' /\ \A u \in Actors : where'[u].o = where[u].o
  BY <1>1, <1>4, HolderHands DEF Handling
<1>6. \A u \in Actors : where'[u].pc \notin Locking
  BY <1>3, <1>4 DEF Stands, Locking
<1>7. ProfilerTypeOK'
  BY <1>1, <1>2, <1>4 DEF ProfIInv, ProfilerTypeOK, Stands
<1>8. ProfLockInv'
  BY <1>1, <1>6, ProfilerAssumption DEF ProfLockInv
<1>9. PhaseInv'
  BY <1>1, <1>2, <1>3, <1>6 DEF PhaseInv, Locking
<1>10. SumInv' /\ BornInv' /\ DumpsInTime'
  BY <1>1 DEF ProfIInv, SumInv, BytesOf, BornInv, DumpsInTime
<1>11. ShownInv'
  BY <1>1, <1>2 DEF ShownInv
<1>12. AllInv'
  BY <1>1, <1>2, <1>3, <1>5 DEF ProfIInv, AllInv
<1> QED
  BY <1>5, <1>7, <1>8, <1>9, <1>10, <1>11, <1>12 DEF ProfIInv

\* The last step of a stop.
LEMMA DropTableInv == ASSUME ProfIInv, NEW t \in Actors, DropTable(t) PROVE ProfIInv'
<1>1. /\ where[t].pc = "drop_table" /\ table' = NULL /\ is_on' = FALSE /\ heap_lock' = Nobody /\ Go(t, "idle")
      /\ UNCHANGED <<heap, born, hooks, total, mark, starts>>
  BY DEF DropTable, In, Program
<1>2. hooks = {}
  BY <1>1 DEF ProfIInv, PhaseInv
<1>3. \A u \in Actors \ {t} : where[u].pc \notin Locking
  BY <1>1, HolderAlone DEF Locking
<1>4. Stands(t, "idle", Nobody)
  BY <1>1, HolderStands DEF ProfilerPcs, Handling
<1>5. HandInv'
  BY <1>1, <1>4, HolderHands DEF Handling
<1>6. \A u \in Actors : where'[u].pc \notin Locking
  BY <1>3, <1>4 DEF Stands, Locking
<1>7. ProfilerTypeOK'
  BY <1>1, <1>4 DEF ProfIInv, ProfilerTypeOK, Stands, NULL
<1>8. ProfLockInv'
  BY <1>1, <1>6, ProfilerAssumption DEF ProfLockInv
<1>9. PhaseInv'
  BY <1>1, <1>2, <1>6 DEF PhaseInv, Locking
<1>10. SumInv' /\ BornInv' /\ DumpsInTime' /\ ShownInv' /\ AllInv'
  BY <1>1 DEF ProfIInv, SumInv, BornInv, DumpsInTime, ShownInv, AllInv, NULL
<1> QED
  BY <1>5, <1>7, <1>8, <1>9, <1>10 DEF ProfIInv

\* The end of the program changes nothing.
LEMMA EndWriterInv == ASSUME ProfIInv, NEW t \in Actors, EndWriter(t) \/ ReadTotal(t) PROVE ProfIInv'
<1>1. where[t].pc \in {"idle", "end"} /\ UNCHANGED <<heap, born, heap_lock, hooks, is_on, table, total, mark, starts>>
  BY DEF EndWriter, ReadTotal, In, Program, Profile
<1>2. PICK at \in {"end", "exited", "crashed"} : Go(t, at)
  <2>1. CASE EndWriter(t)
    BY <2>1 DEF EndWriter
  <2>2. CASE ReadTotal(t)
    BY <2>2 DEF ReadTotal
  <2> QED
    BY <2>1, <2>2
<1>3. Stands(t, at, Nobody)
  BY <1>1, <1>2, HolderStands DEF ProfilerPcs, Handling
<1>4. HandInv' /\ \A u \in Actors : where'[u].o = where[u].o
  BY <1>1, <1>3, HolderHands DEF Handling
<1>5. ProfilerTypeOK'
  BY <1>1, <1>3 DEF ProfIInv, ProfilerTypeOK, Stands
<1>6. ProfLockInv' /\ PhaseInv'
  BY <1>1, <1>3, LockKept, PhaseKept DEF ProfIInv, Locking
<1>7. SumInv' /\ BornInv' /\ DumpsInTime'
  BY <1>1 DEF ProfIInv, SumInv, BytesOf, BornInv, DumpsInTime
<1>8. ShownInv'
  BY <1>1, <1>3 DEF ProfIInv, ShownInv, Dropping, Stands
<1>9. AllInv'
  BY <1>1, <1>4 DEF ProfIInv, AllInv
<1> QED
  BY <1>4, <1>5, <1>6, <1>7, <1>8, <1>9 DEF ProfIInv

LEMMA ProfInitInv == ProfilerInit => ProfIInv
<1> SUFFICES ASSUME ProfilerInit PROVE ProfIInv
  OBVIOUS
<1> USE DEF ProfilerInit
<1>1. \A t \in Actors : where[t].pc = "idle" /\ where[t].o = Nobody
  OBVIOUS
<1>2. ProfilerTypeOK
  BY DEF ProfilerTypeOK, ProfilerPcs, Zero, NULL
<1>3. ProfLockInv /\ HandInv /\ PhaseInv
  BY <1>1, ProfilerAssumption DEF ProfLockInv, HandInv, PhaseInv, Locking, Handling
<1>4. SumInv /\ ShownInv /\ AllInv /\ BornInv /\ DumpsInTime
  BY DEF SumInv, ShownInv, AllInv, BornInv, DumpsInTime
<1> QED
  BY <1>2, <1>3, <1>4 DEF ProfIInv

\* What holds at every place of a start, a stop and the hooks.
THEOREM ProfilerInvariant == ProfilerSpec => []ProfIInv
<1>1. ASSUME ProfIInv, [ProfilerNext]_profilerVars PROVE ProfIInv'
  <2>1. CASE UNCHANGED profilerVars
    BY <1>1, <2>1 DEF profilerVars, ProfIInv, ProfilerTypeOK, ProfLockInv, HandInv, PhaseInv, SumInv, BytesOf, ShownInv, Dropping, AllInv, BornInv, DumpsInTime
  <2>2. ASSUME NEW t \in Actors, Malloc(t) \/ CallNewHook(t) \/ RecordAlloc(t) \/ CallDeleteHook(t) \/ RecordFree(t) \/ RealFree(t)
        PROVE  ProfIInv'
    BY <1>1, <2>2, MallocInv, CallNewHookInv, RecordAllocInv, CallDeleteHookInv, RecordFreeInv, RealFreeInv, ZenonT(60)
  <2>3. ASSUME NEW t \in Actors, HeapProfilerStart(t) \/ AddNewHook(t) \/ AddDeleteHook(t) \/ HeapProfilerStop(t) \/ RemoveNewHook(t)
        PROVE  ProfIInv'
    BY <1>1, <2>3, ProfStartInv, AddNewHookInv, AddDeleteHookInv, HeapProfilerStopInv, RemoveNewHookInv, ZenonT(60)
  <2>4. ASSUME NEW t \in Actors, RemoveDeleteHook(t) \/ DropTable(t) \/ EndWriter(t) \/ ReadTotal(t)
        PROVE  ProfIInv'
    BY <1>1, <2>4, RemoveDeleteHookInv, DropTableInv, EndWriterInv, ZenonT(60)
  <2>5. ASSUME ProfilerNext PROVE ProfIInv'
    BY <2>2, <2>3, <2>4, <2>5, ZenonT(60) DEF ProfilerNext
  <2> QED
    BY <1>1, <2>1, <2>5
<1> QED
  BY ProfInitInv, <1>1, PTL DEF ProfilerSpec

LEMMA ProfKept == ProfIInv => ProfileKept
<1> SUFFICES ASSUME ProfIInv PROVE ProfileKept
  OBVIOUS
<1>1. ProfileTrue
  <2> SUFFICES ASSUME is_on, Unlocked PROVE table \subseteq heap /\ {o \in heap : born[o] = starts /\ Hands(o) = {}} \subseteq table /\ inuse(total) = Cardinality(BytesOf(table))
    BY DEF ProfileTrue
  <2>1. ~Dropping /\ "new" \in hooks
    BY OnlyHolder DEF Dropping, Locking, Unlocked, ProfIInv, PhaseInv
  <2>2. table \subseteq heap /\ inuse(total) = Cardinality(BytesOf(table))
    BY <2>1 DEF ProfIInv, ShownInv, SumInv
  <2>3. ASSUME NEW o \in heap, born[o] = starts, Hands(o) = {} PROVE o \in table
    <3>1. \A u \in Actors : where[u].o # o
      BY <2>3 DEF Hands
    <3> QED
      BY <2>1, <2>3, <3>1 DEF ProfIInv, AllInv
  <2> QED
    BY <2>2, <2>3
<1>2. HooksMatch
  <2>1. is_on => table # NULL
    BY ProfilerAssumption DEF ProfIInv, SumInv, NULL
  <2> QED
    BY <2>1 DEF HooksMatch, Unlocked, ProfIInv, PhaseInv, SumInv
<1> QED
  BY <1>1, <1>2 DEF ProfileKept, ProfIInv

\* Whoever starts and stops the profiler while threads are in its hooks, a profile
\* shows what is in use, with its size; dumps come when due; the hooks are there
\* when the profiler is on, and gone, with the table, when it is off.
THEOREM ProfilerKeeps == ProfilerSpec => []ProfileKept
  BY ProfilerInvariant, ProfKept, PTL
=============================================================================
