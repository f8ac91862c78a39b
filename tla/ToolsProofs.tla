---------------------------- MODULE ToolsProofs -----------------------------
(***************************************************************************)
(* The life of the heap checker, for every set of modes and any number of    *)
(* checkers of the program; what a check reads as live, for every layout of  *)
(* memory; and the samples of the CPU profiler, for any number of threads    *)
(* and stacks and every size of its table and buffer.                       *)
(***************************************************************************)
EXTENDS HeapCheckerLife, LiveRanges, CpuProfiler, FiniteSetTheorems, SequenceTheorems, WellFoundedInduction, TLAPS

Early == stage \in {"start", "constructors"}

Types ==
  /\ stage \in {"start", "constructors", "main", "atexit", "checking", "destructors", "end", "dead"}
  /\ setuid \in BOOLEAN /\ gone \in BOOLEAN /\ after_destructors \in BOOLEAN
  /\ profiling \in BOOLEAN /\ on \in BOOLEAN /\ heap_profile \in BOOLEAN /\ hooks \in BOOLEAN
  /\ prefix \in BOOLEAN /\ main_checker \in BOOLEAN /\ do_main \in BOOLEAN /\ symbolized \in BOOLEAN
  /\ cancelled \in BOOLEAN /\ checkers \in Nat /\ checks \in Nat

\* Before main() the table and the hooks are there exactly if the first
\* allocation asked for them; nothing else has begun.
BeforeMain ==
  Early => /\ on = profiling /\ heap_profile = profiling /\ hooks = profiling
           /\ ~prefix /\ ~main_checker /\ ~do_main /\ checkers = 0

\* A checker has a prefix to name its profile, and needs the checker on.
Prefixed == (checkers > 0 \/ main_checker => prefix) /\ (prefix => on)

\* The main checker is never one of mode local.
MainNotLocal == main_checker => flag # "local"

Due == IF main_checker /\ ~cancelled /\ ~gone THEN 1 ELSE 0

\* Until the exit nothing was reported; the check is yet to do as long as do_main
\* says so, and no later stage takes up what an earlier one has left.
CheckPending ==
  /\ stage \in {"start", "constructors", "main", "atexit"} =>
       /\ ~symbolized /\ checks = 0 /\ (do_main <=> main_checker /\ ~cancelled)
  /\ Early => ~cancelled /\ ~gone
  /\ stage = "checking" => /\ main_checker /\ ~cancelled /\ ~gone /\ ~do_main
                           /\ checks = (IF symbolized THEN 1 ELSE 0)
  /\ stage = "destructors" =>
       /\ ~symbolized
       /\ IF do_main THEN /\ checks = 0 /\ main_checker /\ ~cancelled /\ (gone \/ after_destructors)
                     ELSE checks = Due

IInv == Types /\ BeforeMain /\ OnIffHooked /\ Prefixed /\ MainNotLocal /\ CheckPending /\ CheckedWhenDue

\* HeapCheckerLife's initial states satisfy the invariant (heap-checker.cc:2203-2226).
LEMMA InitInv == Init => IInv
<1> SUFFICES ASSUME Init PROVE IInv
  OBVIOUS
<1> USE DEF Init
<1>1. Types
  BY DEF Types
<1>2. BeforeMain
  BY DEF BeforeMain
<1>3. OnIffHooked
  BY DEF OnIffHooked
<1>4. Prefixed
  BY DEF Prefixed
<1>5. MainNotLocal
  BY DEF MainNotLocal
<1>6. CheckPending
  BY DEF CheckPending
<1>7. CheckedWhenDue
  BY DEF CheckedWhenDue
<1> QED
  BY <1>1, <1>2, <1>3, <1>4, <1>5, <1>6, <1>7 DEF IInv

\* Every action of the heap checker's life preserves the invariant
\* (heap-checker.cc:1788-2226).
LEMMA StepInv == IInv /\ [Next]_vars => IInv'
<1> SUFFICES ASSUME IInv, [Next]_vars PROVE IInv'
  OBVIOUS
<1> USE DEF IInv, env, core
<1>1. CASE BeforeConstructors
  <2>1. Types'
    BY <1>1 DEF BeforeConstructors, Types
  <2>2. BeforeMain'
    BY <1>1 DEF BeforeConstructors, BeforeMain, Early, Types, OnIffHooked
  <2>3. Prefixed'
    BY <1>1 DEF BeforeConstructors, Prefixed, BeforeMain, Early, Types
  <2>4. MainNotLocal'
    BY <1>1 DEF BeforeConstructors, MainNotLocal, BeforeMain, Early, Types, CheckPending
  <2>5. OnIffHooked'
    BY <1>1 DEF BeforeConstructors, OnIffHooked, BeforeMain, Early, Types, CheckPending
  <2>6. CheckPending'
    BY <1>1 DEF BeforeConstructors, CheckPending, Due, Types, BeforeMain, Early, MainNotLocal
  <2>7. CheckedWhenDue'
    BY <1>1 DEF BeforeConstructors, CheckedWhenDue, CheckPending, Due, Types
  <2> QED
    BY <2>1, <2>2, <2>3, <2>4, <2>5, <2>6, <2>7
<1>2. CASE ClearFlag
  <2>1. Types'
    BY <1>2, ZenonT(60) DEF ClearFlag, Types
  <2>2. BeforeMain'
    BY <1>2 DEF ClearFlag, BeforeMain, Early, Types, OnIffHooked
  <2>3. Prefixed'
    BY <1>2 DEF ClearFlag, Prefixed, BeforeMain, Early, Types
  <2>4. MainNotLocal'
    BY <1>2 DEF ClearFlag, MainNotLocal, BeforeMain, Early, Types, CheckPending
  <2>5. OnIffHooked'
    BY <1>2 DEF ClearFlag, OnIffHooked, BeforeMain, Early, Types, CheckPending
  <2>6. CheckPending'
    BY <1>2 DEF ClearFlag, CheckPending, Due, Types, BeforeMain, Early, MainNotLocal
  <2>7. CheckedWhenDue'
    BY <1>2 DEF ClearFlag, CheckedWhenDue, CheckPending, Due, Types
  <2> QED
    BY <2>1, <2>2, <2>3, <2>4, <2>5, <2>6, <2>7
<1>3. CASE InternalInitStart
  <2>0. /\ stage = "constructors"
        /\ UNCHANGED <<env, gone, symbolized, checkers, cancelled, checks, cleaned, exit_code>>
    BY <1>3 DEF InternalInitStart
  <2>1. CASE InitTurnsOff(FALSE) \/ InitTurnsOff(TRUE)
    <3>0. /\ flag' = "" /\ TurnItselfOffLocked /\ after_destructors' \in BOOLEAN
          /\ stage' = "main" /\ UNCHANGED <<profiling, prefix, main_checker, do_main>>
      BY <2>1 DEF InitTurnsOff, Types
    <3>1. Types'
      BY <2>0, <3>0 DEF TurnItselfOffLocked, Types
    <3>2. BeforeMain'
      BY <2>0, <3>0 DEF TurnItselfOffLocked, BeforeMain, Early, Types, OnIffHooked
    <3>3. Prefixed'
      BY <2>0, <3>0 DEF TurnItselfOffLocked, Prefixed, BeforeMain, Early, Types
    <3>4. MainNotLocal'
      BY <2>0, <3>0 DEF TurnItselfOffLocked, MainNotLocal, BeforeMain, Early, Types, CheckPending
    <3>5. OnIffHooked'
      BY <2>0, <3>0 DEF TurnItselfOffLocked, OnIffHooked, BeforeMain, Early, Types, CheckPending
    <3>6. CheckPending'
      BY <2>0, <3>0 DEF TurnItselfOffLocked, CheckPending, Due, Types, BeforeMain, Early, MainNotLocal
    <3>7. CheckedWhenDue'
      BY <2>0, <3>0 DEF TurnItselfOffLocked, CheckedWhenDue, CheckPending, Due, Types
    <3> QED
      BY <3>1, <3>2, <3>3, <3>4, <3>5, <3>6, <3>7
  <2>2. CASE InitTooLate /\ flag # "" /\ ~profiling
    <3>1. Types'
      BY <2>0, <2>2 DEF InitTooLate, Types
    <3>2. BeforeMain'
      BY <2>0, <2>2 DEF InitTooLate, BeforeMain, Early, Types, OnIffHooked
    <3>3. Prefixed'
      BY <2>0, <2>2 DEF InitTooLate, Prefixed, BeforeMain, Early, Types
    <3>4. MainNotLocal'
      BY <2>0, <2>2 DEF InitTooLate, MainNotLocal, BeforeMain, Early, Types, CheckPending
    <3>5. OnIffHooked'
      BY <2>0, <2>2 DEF InitTooLate, OnIffHooked, BeforeMain, Early, Types, CheckPending
    <3>6. CheckPending'
      BY <2>0, <2>2 DEF InitTooLate, CheckPending, Due, Types, BeforeMain, Early, MainNotLocal
    <3>7. CheckedWhenDue'
      BY <2>0, <2>2 DEF InitTooLate, CheckedWhenDue, CheckPending, Due, Types
    <3> QED
      BY <3>1, <3>2, <3>3, <3>4, <3>5, <3>6, <3>7
  <2>3. CASE InitStarts /\ flag # "" /\ profiling
    <3>1. Types'
      BY <2>0, <2>3 DEF InitStarts, Types
    <3>2. BeforeMain'
      BY <2>0, <2>3 DEF InitStarts, BeforeMain, Early, Types, OnIffHooked
    <3>3. Prefixed'
      BY <2>0, <2>3 DEF InitStarts, Prefixed, BeforeMain, Early, Types
    <3>4. MainNotLocal'
      BY <2>0, <2>3 DEF InitStarts, MainNotLocal, BeforeMain, Early, Types, CheckPending
    <3>5. OnIffHooked'
      BY <2>0, <2>3 DEF InitStarts, OnIffHooked, BeforeMain, Early, Types, CheckPending
    <3>6. CheckPending'
      BY <2>0, <2>3 DEF InitStarts, CheckPending, Due, Types, BeforeMain, Early, MainNotLocal
    <3>7. CheckedWhenDue'
      BY <2>0, <2>3 DEF InitStarts, CheckedWhenDue, CheckPending, Due, Types
    <3> QED
      BY <3>1, <3>2, <3>3, <3>4, <3>5, <3>6, <3>7
  <2> QED
    BY <1>3, <2>1, <2>2, <2>3 DEF InternalInitStart
<1>4. CASE Create
  <2>1. Types'
    BY <1>4 DEF Create, Types
  <2>2. BeforeMain'
    BY <1>4 DEF Create, BeforeMain, Early, Types, OnIffHooked
  <2>3. Prefixed'
    BY <1>4 DEF Create, Prefixed, BeforeMain, Early, Types
  <2>4. MainNotLocal'
    BY <1>4 DEF Create, MainNotLocal, BeforeMain, Early, Types, CheckPending
  <2>5. OnIffHooked'
    BY <1>4 DEF Create, OnIffHooked, BeforeMain, Early, Types, CheckPending
  <2>6. CheckPending'
    BY <1>4 DEF Create, CheckPending, Due, Types, BeforeMain, Early, MainNotLocal
  <2>7. CheckedWhenDue'
    BY <1>4 DEF Create, CheckedWhenDue, CheckPending, Due, Types
  <2> QED
    BY <2>1, <2>2, <2>3, <2>4, <2>5, <2>6, <2>7
<1>5. CASE Destroy
  <2>1. Types'
    BY <1>5 DEF Destroy, Types
  <2>2. BeforeMain'
    BY <1>5 DEF Destroy, BeforeMain, Early, Types, OnIffHooked
  <2>3. Prefixed'
    BY <1>5 DEF Destroy, Prefixed, BeforeMain, Early, Types
  <2>4. MainNotLocal'
    BY <1>5 DEF Destroy, MainNotLocal, BeforeMain, Early, Types, CheckPending
  <2>5. OnIffHooked'
    BY <1>5 DEF Destroy, OnIffHooked, BeforeMain, Early, Types, CheckPending
  <2>6. CheckPending'
    BY <1>5 DEF Destroy, CheckPending, Due, Types, BeforeMain, Early, MainNotLocal
  <2>7. CheckedWhenDue'
    BY <1>5 DEF Destroy, CheckedWhenDue, CheckPending, Due, Types
  <2> QED
    BY <2>1, <2>2, <2>3, <2>4, <2>5, <2>6, <2>7
<1>6. CASE NoLeaks
  <2>1. Types'
    BY <1>6 DEF NoLeaks, Types
  <2>2. BeforeMain'
    BY <1>6 DEF NoLeaks, BeforeMain, Early, Types, OnIffHooked
  <2>3. Prefixed'
    BY <1>6 DEF NoLeaks, Prefixed, BeforeMain, Early, Types
  <2>4. MainNotLocal'
    BY <1>6 DEF NoLeaks, MainNotLocal, BeforeMain, Early, Types, CheckPending
  <2>5. OnIffHooked'
    BY <1>6 DEF NoLeaks, OnIffHooked, BeforeMain, Early, Types, CheckPending
  <2>6. CheckPending'
    BY <1>6 DEF NoLeaks, CheckPending, Due, Types, BeforeMain, Early, MainNotLocal
  <2>7. CheckedWhenDue'
    BY <1>6 DEF NoLeaks, CheckedWhenDue, CheckPending, Due, Types
  <2> QED
    BY <2>1, <2>2, <2>3, <2>4, <2>5, <2>6, <2>7
<1>7. CASE CancelGlobalCheck
  <2>1. Types'
    BY <1>7, ZenonT(60) DEF CancelGlobalCheck, Types
  <2>2. BeforeMain'
    BY <1>7 DEF CancelGlobalCheck, BeforeMain, Early, Types, OnIffHooked
  <2>3. Prefixed'
    BY <1>7 DEF CancelGlobalCheck, Prefixed, BeforeMain, Early, Types
  <2>4. MainNotLocal'
    BY <1>7 DEF CancelGlobalCheck, MainNotLocal, BeforeMain, Early, Types, CheckPending
  <2>5. OnIffHooked'
    BY <1>7 DEF CancelGlobalCheck, OnIffHooked, BeforeMain, Early, Types, CheckPending
  <2>6. CheckPending'
    BY <1>7 DEF CancelGlobalCheck, CheckPending, Due, Types, BeforeMain, Early, MainNotLocal
  <2>7. CheckedWhenDue'
    BY <1>7 DEF CancelGlobalCheck, CheckedWhenDue, CheckPending, Due, Types
  <2> QED
    BY <2>1, <2>2, <2>3, <2>4, <2>5, <2>6, <2>7
<1>8. CASE Fork
  <2>1. Types'
    BY <1>8 DEF Fork, Types
  <2>2. BeforeMain'
    BY <1>8 DEF Fork, BeforeMain, Early, Types, OnIffHooked
  <2>3. Prefixed'
    BY <1>8 DEF Fork, Prefixed, BeforeMain, Early, Types
  <2>4. MainNotLocal'
    BY <1>8 DEF Fork, MainNotLocal, BeforeMain, Early, Types, CheckPending
  <2>5. OnIffHooked'
    BY <1>8 DEF Fork, OnIffHooked, BeforeMain, Early, Types, CheckPending
  <2>6. CheckPending'
    BY <1>8 DEF Fork, CheckPending, Due, Types, BeforeMain, Early, MainNotLocal
  <2>7. CheckedWhenDue'
    BY <1>8 DEF Fork, CheckedWhenDue, CheckPending, Due, Types
  <2> QED
    BY <2>1, <2>2, <2>3, <2>4, <2>5, <2>6, <2>7
<1>9. CASE Exit
  <2>1. Types'
    BY <1>9 DEF Exit, Types
  <2>2. BeforeMain'
    BY <1>9 DEF Exit, BeforeMain, Early, Types, OnIffHooked
  <2>3. Prefixed'
    BY <1>9 DEF Exit, Prefixed, BeforeMain, Early, Types
  <2>4. MainNotLocal'
    BY <1>9 DEF Exit, MainNotLocal, BeforeMain, Early, Types, CheckPending
  <2>5. OnIffHooked'
    BY <1>9 DEF Exit, OnIffHooked, BeforeMain, Early, Types, CheckPending
  <2>6. CheckPending'
    BY <1>9 DEF Exit, CheckPending, Due, Types, BeforeMain, Early, MainNotLocal
  <2>7. CheckedWhenDue'
    BY <1>9 DEF Exit, CheckedWhenDue, CheckPending, Due, Types
  <2> QED
    BY <2>1, <2>2, <2>3, <2>4, <2>5, <2>6, <2>7
<1>10. CASE RunHeapCleanups
  <2>1. Types'
    BY <1>10, ZenonT(60) DEF RunHeapCleanups, StartMainCheck, Types
  <2>2. BeforeMain'
    BY <1>10 DEF RunHeapCleanups, StartMainCheck, BeforeMain, Early, Types, OnIffHooked
  <2>3. Prefixed'
    BY <1>10 DEF RunHeapCleanups, StartMainCheck, Prefixed, BeforeMain, Early, Types
  <2>4. MainNotLocal'
    BY <1>10 DEF RunHeapCleanups, StartMainCheck, MainNotLocal, BeforeMain, Early, Types, CheckPending
  <2>5. OnIffHooked'
    BY <1>10 DEF RunHeapCleanups, StartMainCheck, OnIffHooked, BeforeMain, Early, Types, CheckPending
  <2>6. CheckPending'
    BY <1>10 DEF RunHeapCleanups, StartMainCheck, CheckPending, Due, Types, BeforeMain, Early, MainNotLocal
  <2>7. CheckedWhenDue'
    BY <1>10 DEF RunHeapCleanups, StartMainCheck, CheckedWhenDue, CheckPending, Due, Types
  <2> QED
    BY <2>1, <2>2, <2>3, <2>4, <2>5, <2>6, <2>7
<1>11. CASE AfterDestructors
  <2>1. Types'
    BY <1>11, ZenonT(60) DEF AfterDestructors, StartMainCheck, Types
  <2>2. BeforeMain'
    BY <1>11 DEF AfterDestructors, StartMainCheck, BeforeMain, Early, Types, OnIffHooked
  <2>3. Prefixed'
    BY <1>11 DEF AfterDestructors, StartMainCheck, Prefixed, BeforeMain, Early, Types
  <2>4. MainNotLocal'
    BY <1>11 DEF AfterDestructors, StartMainCheck, MainNotLocal, BeforeMain, Early, Types, CheckPending
  <2>5. OnIffHooked'
    BY <1>11 DEF AfterDestructors, StartMainCheck, OnIffHooked, BeforeMain, Early, Types, CheckPending
  <2>6. CheckPending'
    BY <1>11 DEF AfterDestructors, StartMainCheck, CheckPending, Due, Types, BeforeMain, Early, MainNotLocal
  <2>7. CheckedWhenDue'
    BY <1>11 DEF AfterDestructors, StartMainCheck, CheckedWhenDue, CheckPending, Due, Types
  <2> QED
    BY <2>1, <2>2, <2>3, <2>4, <2>5, <2>6, <2>7
<1>12. CASE MainCheckClean
  <2>1. Types'
    BY <1>12 DEF MainCheckClean, Types
  <2>2. BeforeMain'
    BY <1>12 DEF MainCheckClean, BeforeMain, Early, Types, OnIffHooked
  <2>3. Prefixed'
    BY <1>12 DEF MainCheckClean, Prefixed, BeforeMain, Early, Types
  <2>4. MainNotLocal'
    BY <1>12 DEF MainCheckClean, MainNotLocal, BeforeMain, Early, Types, CheckPending
  <2>5. OnIffHooked'
    BY <1>12 DEF MainCheckClean, OnIffHooked, BeforeMain, Early, Types, CheckPending
  <2>6. CheckPending'
    BY <1>12 DEF MainCheckClean, CheckPending, Due, Types, BeforeMain, Early, MainNotLocal
  <2>7. CheckedWhenDue'
    BY <1>12 DEF MainCheckClean, CheckedWhenDue, CheckPending, Due, Types
  <2> QED
    BY <2>1, <2>2, <2>3, <2>4, <2>5, <2>6, <2>7
<1>13. CASE MainCheckLeaks
  <2>1. Types'
    <3>1. checks' \in Nat
      BY <1>13 DEF MainCheckLeaks, Types
    <3> QED
      BY <1>13, <3>1 DEF MainCheckLeaks, Types
  <2>2. BeforeMain'
    BY <1>13 DEF MainCheckLeaks, BeforeMain, Early
  <2>3. Prefixed'
    BY <1>13 DEF MainCheckLeaks, Prefixed, BeforeMain, Early, Types
  <2>4. MainNotLocal'
    BY <1>13 DEF MainCheckLeaks, MainNotLocal, BeforeMain, Early, Types, CheckPending
  <2>5. OnIffHooked'
    BY <1>13 DEF MainCheckLeaks, OnIffHooked, BeforeMain, Early, Types, CheckPending
  <2>6. CheckPending'
    BY <1>13 DEF MainCheckLeaks, CheckPending, Due, Types, BeforeMain, Early, MainNotLocal
  <2>7. CheckedWhenDue'
    BY <1>13 DEF MainCheckLeaks, CheckedWhenDue, CheckPending, Due, Types
  <2> QED
    BY <2>1, <2>2, <2>3, <2>4, <2>5, <2>6, <2>7
<1>14. CASE MainCheckExits
  <2>1. Types'
    BY <1>14 DEF MainCheckExits, Types
  <2>2. BeforeMain'
    BY <1>14 DEF MainCheckExits, BeforeMain, Early, Types, OnIffHooked
  <2>3. Prefixed'
    BY <1>14 DEF MainCheckExits, Prefixed, BeforeMain, Early, Types
  <2>4. MainNotLocal'
    BY <1>14 DEF MainCheckExits, MainNotLocal, BeforeMain, Early, Types, CheckPending
  <2>5. OnIffHooked'
    BY <1>14 DEF MainCheckExits, OnIffHooked, BeforeMain, Early, Types, CheckPending
  <2>6. CheckPending'
    BY <1>14 DEF MainCheckExits, CheckPending, Due, Types, BeforeMain, Early, MainNotLocal
  <2>7. CheckedWhenDue'
    BY <1>14 DEF MainCheckExits, CheckedWhenDue, CheckPending, Due, Types
  <2> QED
    BY <2>1, <2>2, <2>3, <2>4, <2>5, <2>6, <2>7
<1>15. CASE UNCHANGED vars
  BY <1>15 DEF vars, Types, BeforeMain, Early, OnIffHooked, Prefixed, MainNotLocal, CheckPending, Due, CheckedWhenDue
<1> QED
  BY <1>1, <1>2, <1>3, <1>4, <1>5, <1>6, <1>7, <1>8, <1>9, <1>10, <1>11, <1>12, <1>13, <1>14, <1>15 DEF Next

\* HeapCheckerLife's types, for any modes and any number of checkers
\* (heap-checker.cc:186-262).
THEOREM TypesCorrect == Spec => []Types
<1>1. Init => IInv
  BY InitInv
<1>2. IInv /\ [Next]_vars => IInv'
  BY StepInv
<1>3. IInv => Types
  BY DEF IInv
<1> QED
  BY <1>1, <1>2, <1>3, PTL DEF Spec

\* CheckedOnce: the automatic check is done exactly once if it is due, in no child
\* and not after it was cancelled; the heap checker is never off under a checker,
\* and its hooks never there without its table (heap-checker.cc:1788-2226).
THEOREM CheckedExactlyOnce == Spec => []CheckedOnce
<1>1. IInv => CheckedOnce
  <2> SUFFICES ASSUME IInv PROVE CheckedOnce
    OBVIOUS
  <2>1. NotTurnedOffUnderChecker
    BY DEF IInv, Prefixed, NotTurnedOffUnderChecker
  <2> QED
    BY <2>1 DEF IInv, CheckedOnce
<1>2. Init => IInv
  BY InitInv
<1>3. IInv /\ [Next]_vars => IInv'
  BY StepInv
<1> QED
  BY <1>1, <1>2, <1>3, PTL DEF Spec

-----------------------------------------------------------------------------
(* What a check reads as live (LiveRanges): while stacks are met, rows are   *)
(* cut only where regions begin and end; after that regions are subtracted.  *)

LEMMA Smaller == \A a, b \in Nat : a < b => <<a, b>> \in OpToRel(<, Nat)
  BY DEF OpToRel

\* A set of natural numbers that is not empty has a least element.
LEMMA HasLeast == ASSUME NEW T \in SUBSET Nat, T # {} PROVE \E x \in T : \A y \in T : x <= y
<1>1. PICK x \in T : \A y \in T : ~ (<<y, x>> \in OpToRel(<, Nat))
  BY NatLessThanWellFounded, WFMin, Zenon
<1>2. \A y \in T : ~(y < x)
  BY <1>1, Smaller, Zenon
<1> QED
  BY <1>2

\* A bounded set of natural numbers has a greatest element.
LEMMA HasGreatest == ASSUME NEW n \in Nat, NEW T \in SUBSET (0..n), T # {} PROVE \E x \in T : \A y \in T : x >= y
<1> DEFINE U == {n - x : x \in T}
<1>1. U \in SUBSET Nat
  OBVIOUS
<1>2. U # {}
  <2>1. PICK x \in T : TRUE
    OBVIOUS
  <2>2. n - x \in U
    OBVIOUS
  <2> QED
    BY <2>2
<1>3. PICK u \in U : \A v \in U : u <= v
  <2> HIDE DEF U
  <2> QED
    BY <1>1, <1>2, HasLeast
<1>4. PICK x \in T : u = n - x
  OBVIOUS
<1>5. ASSUME NEW y \in T PROVE x >= y
  <2>1. n - y \in U
    OBVIOUS
  <2>2. u <= n - y
    BY <1>3, <2>1
  <2> QED
    BY <1>4, <2>2
<1> QED
  BY <1>5

Contains(s, a) == s.start <= a /\ a < s.end
Placed == rows \in RowChoices /\ regions \in RegionChoices

\* What a run of rows and regions is.
LEMMA PlacedFacts ==
  ASSUME Placed
  PROVE /\ \A r \in rows : r = [start |-> r.start, end |-> r.end] /\ r.start \in Nat /\ r.end \in Nat /\ r.start < r.end /\ r.start <= MaxAddress /\ r.end <= MaxAddress + 1
        /\ \A r \in regions : r.start \in Nat /\ r.end \in Nat /\ r.start < r.end /\ r.start <= MaxAddress /\ r.end <= MaxAddress + 1
        /\ \A r, s \in rows : r = s \/ r.end <= s.start \/ s.end <= r.start
        /\ \A r, s \in regions : r = s \/ r.end <= s.start \/ s.end <= r.start
<1>1. Laid(rows) /\ Laid(regions) /\ rows \subseteq [start : Nat, end : Nat] /\ regions \subseteq [start : Nat, end : Nat, special : BOOLEAN]
  BY RangesAssumption DEF Placed
<1>2. Apart(rows) /\ Apart(regions)
  BY <1>1 DEF Laid
<1>3. \A r \in rows : r.start \in 0..MaxAddress /\ r.end \in 1..(MaxAddress + 1) /\ r.start < r.end
  BY <1>1 DEF Laid, Addresses
<1>4. \A r \in regions : r.start \in 0..MaxAddress /\ r.end \in 1..(MaxAddress + 1) /\ r.start < r.end
  BY <1>1 DEF Laid, Addresses
<1>5. \A r \in rows : r = [start |-> r.start, end |-> r.end]
  BY <1>1
<1>6. MaxAddress \in Nat
  BY RangesAssumption
<1> QED
  BY <1>2, <1>3, <1>4, <1>5, <1>6 DEF Apart

LEMMA CellsOf == ASSUME NEW spans PROVE \A a : a \in Cells(spans) <=> a \in 0..MaxAddress /\ \E s \in spans : s.start <= a /\ a < s.end
BY DEF Cells, Addresses

LEMMA AddressesAre == MaxAddress \in Nat /\ \A t \in Stacks : t \in 0..MaxAddress
BY RangesAssumption DEF Addresses

\* A piece of a row: it begins where the row or a region does, and ends where
\* the row or a region does.
Piece(p) == /\ p = [start |-> p.start, end |-> p.end] /\ p.start \in Nat /\ p.end \in Nat
            /\ \E row \in rows : /\ row.start <= p.start /\ p.end <= row.end
                                 /\ p.start = row.start \/ \E r \in regions : p.start = r.start
                                 /\ p.end = row.end \/ \E r \in regions : p.end = r.end

\* The end of the stack in a piece of a row.
LEMMA StackEndIs ==
  ASSUME Placed, NEW top \in 0..MaxAddress, NEW p, p.end \in Nat, top < p.end
  PROVE LET e == StackEnd(top, p) IN
        /\ e \in Nat /\ top < e /\ e <= p.end
        /\ e = p.end \/ \E r \in regions : e = r.start
        /\ \A r \in regions : top < r.start => e <= r.start \/ p.end <= r.start
<1> DEFINE above == {r.start : r \in {r \in regions : top < r.start /\ r.start < p.end}}
<1>1. \A r \in regions : r.start \in Nat
  BY PlacedFacts
<1>2. CASE above = {}
  <2>1. StackEnd(top, p) = p.end
    BY <1>2 DEF StackEnd
  <2>2. \A r \in regions : ~(top < r.start /\ r.start < p.end)
    BY <1>2
  <2> QED
    BY <2>1, <2>2, <1>1
<1>3. CASE above # {}
  <2>1. above \in SUBSET Nat
    BY <1>1
  <2>2. \E a \in above : \A b \in above : a <= b
    <3> HIDE DEF above
    <3> QED
      BY <2>1, <1>3, HasLeast
  <2>3. StackEnd(top, p) = CHOOSE a \in above : \A b \in above : a <= b
    BY <1>3 DEF StackEnd
  <2>4. StackEnd(top, p) \in above /\ \A b \in above : StackEnd(top, p) <= b
    <3> HIDE DEF above
    <3> QED
      BY <2>2, <2>3
  <2>5. PICK r \in regions : top < r.start /\ r.start < p.end /\ StackEnd(top, p) = r.start
    BY <2>4
  <2>6. \A q \in regions : top < q.start /\ q.start < p.end => StackEnd(top, p) <= q.start
    BY <2>4
  <2> QED
    BY <2>5, <2>6, <1>1
<1> QED
  BY <1>2, <1>3

LEMMA StackStartIs ==
  ASSUME Placed, NEW top \in 0..MaxAddress, NEW p, p.start \in Nat, p.start <= top
  PROVE LET s == StackStart(top, p) IN
        /\ s \in Nat /\ s <= top /\ p.start <= s
        /\ s = p.start \/ \E r \in regions : s = r.end
        /\ \A r \in regions : r.end <= top => r.end <= s \/ r.end <= p.start
<1> DEFINE below == {r.end : r \in {r \in regions : p.start < r.end /\ r.end <= top}}
<1>1. \A r \in regions : r.end \in Nat
  BY PlacedFacts
<1>2. CASE below = {}
  <2>1. StackStart(top, p) = p.start
    BY <1>2 DEF StackStart
  <2>2. \A r \in regions : ~(p.start < r.end /\ r.end <= top)
    BY <1>2
  <2> QED
    BY <2>1, <2>2, <1>1
<1>3. CASE below # {}
  <2>1. below \in SUBSET (0..top)
    BY <1>1
  <2>2. \E a \in below : \A b \in below : a >= b
    <3> HIDE DEF below
    <3>1. top \in Nat
      BY AddressesAre
    <3> QED
      BY <2>1, <3>1, <1>3, HasGreatest
  <2>3. StackStart(top, p) = CHOOSE a \in below : \A b \in below : a >= b
    BY <1>3 DEF StackStart
  <2>4. StackStart(top, p) \in below /\ \A b \in below : StackStart(top, p) >= b
    <3> HIDE DEF below
    <3> QED
      BY <2>2, <2>3
  <2>5. PICK r \in regions : p.start < r.end /\ r.end <= top /\ StackStart(top, p) = r.end
    BY <2>4
  <2>6. \A q \in regions : p.start < q.end /\ q.end <= top => StackStart(top, p) >= q.end
    BY <2>4
  <2> QED
    BY <2>5, <2>6, <1>1
<1> QED
  BY <1>2, <1>3

\* What is cut out of a piece around a stack pointer is as far as row and regions let.
LEMMA AroundIs ==
  ASSUME Placed, NEW top \in 0..MaxAddress, InRegion(top) = {}, NEW p, Piece(p), p.start <= top, top < p.end
  PROVE \A a \in 0..MaxAddress : StackStart(top, p) <= a /\ a < StackEnd(top, p) <=> a \in Around(top)
<1> DEFINE s == StackStart(top, p)
           e == StackEnd(top, p)
<1>0. MaxAddress \in Nat /\ p.start \in Nat /\ p.end \in Nat
  BY AddressesAre DEF Piece
<1>1. /\ s \in Nat /\ s <= top /\ p.start <= s
      /\ s = p.start \/ \E r \in regions : s = r.end
      /\ \A r \in regions : r.end <= top => r.end <= s \/ r.end <= p.start
  BY <1>0, StackStartIs
<1>2. /\ e \in Nat /\ top < e /\ e <= p.end
      /\ e = p.end \/ \E r \in regions : e = r.start
      /\ \A r \in regions : top < r.start => e <= r.start \/ p.end <= r.start
  BY <1>0, StackEndIs
<1> HIDE DEF s, e
<1>3. PICK row \in rows : /\ row.start <= p.start /\ p.end <= row.end
                          /\ p.start = row.start \/ \E r \in regions : p.start = r.start
                          /\ p.end = row.end \/ \E r \in regions : p.end = r.end
  BY DEF Piece
<1>4. \A r \in regions : r.start \in Nat /\ r.end \in Nat /\ r.start < r.end /\ r.start <= MaxAddress /\ r.end <= MaxAddress + 1
  BY PlacedFacts
<1>5. row.start \in Nat /\ row.end \in Nat /\ row.end <= MaxAddress + 1
  BY PlacedFacts
<1>6. \A r \in regions : ~(r.start <= top /\ top < r.end)
  BY DEF InRegion
<1>7. \A r \in regions, a \in 0..MaxAddress : r.start <= a /\ a < r.end => a \in Cells(regions)
  BY CellsOf
<1>8. \A a \in 0..MaxAddress : a \in Cells({row}) <=> row.start <= a /\ a < row.end
  BY CellsOf
<1>9. ASSUME NEW a \in 0..MaxAddress, s <= a, a < e PROVE a \in Around(top)
  <2>1. {a, top} \subseteq Cells({row})
    <3>1. row.start <= a /\ a < row.end
      BY <1>0, <1>1, <1>2, <1>3, <1>5, <1>9
    <3>2. row.start <= top /\ top < row.end
      BY <1>0, <1>1, <1>2, <1>3, <1>5
    <3> QED
      BY <3>1, <3>2, <1>8
  <2>2. ASSUME NEW b \in 0..MaxAddress, NEW r \in regions, r.start <= b, b < r.end,
               (a <= b /\ b <= top) \/ (top <= b /\ b <= a)
        PROVE FALSE
    <3>1. CASE top <= b /\ b <= a
      <4>1. top < r.start
        BY <1>0, <1>4, <1>6, <2>2, <3>1
      <4>2. e <= r.start \/ p.end <= r.start
        BY <1>2, <4>1
      <4> QED
        BY <1>0, <1>2, <1>4, <1>9, <2>2, <3>1, <4>2
    <3>2. CASE a <= b /\ b <= top
      <4>1. r.end <= top
        BY <1>0, <1>4, <1>6, <2>2, <3>2
      <4>2. r.end <= s \/ r.end <= p.start
        BY <1>1, <4>1
      <4> QED
        BY <1>0, <1>1, <1>4, <1>9, <2>2, <3>2, <4>2
    <3> QED
      BY <2>2, <3>1, <3>2
  <2>3. \A b \in Addresses : (a <= b /\ b <= top) \/ (top <= b /\ b <= a) => b \notin Cells(regions)
    BY <2>2, CellsOf DEF Addresses
  <2>4. a \in Cells(rows)
    BY <2>1, <1>8, CellsOf
  <2> QED
    BY <2>1, <2>3, <2>4 DEF Around
<1>10. ASSUME NEW a \in 0..MaxAddress, a \in Around(top) PROVE s <= a /\ a < e
  <2>1. PICK own \in rows : /\ {a, top} \subseteq Cells({own})
                            /\ \A b \in Addresses : (a <= b /\ b <= top) \/ (top <= b /\ b <= a) => b \notin Cells(regions)
    BY <1>10 DEF Around
  <2>2. \A c \in {a, top} : own.start <= c /\ c < own.end
    BY <2>1, CellsOf
  <2>3. own.start \in Nat /\ own.end \in Nat
    BY PlacedFacts
  <2>4. own = row
    <3>1. own = row \/ own.end <= row.start \/ row.end <= own.start
      BY PlacedFacts
    <3> QED
      BY <1>0, <1>3, <1>5, <2>2, <2>3, <3>1
  <2>5. row.start <= a /\ a < row.end
    BY <2>2, <2>4
  <2>6. \A r \in regions, b \in 0..MaxAddress : (a <= b /\ b <= top) \/ (top <= b /\ b <= a) => ~(r.start <= b /\ b < r.end)
    BY <2>1, <1>7 DEF Addresses
  <2>7. a < e
    <3> SUFFICES ASSUME e <= a PROVE FALSE
      BY <1>0, <1>2
    <3>1. CASE \E r \in regions : e = r.start
      <4>1. PICK r \in regions : e = r.start
        BY <3>1
      <4> QED
        BY <1>0, <1>2, <1>4, <2>6, <4>1
    <3>2. CASE e = p.end /\ \E r \in regions : p.end = r.end
      <4>1. PICK r \in regions : p.end = r.end
        BY <3>2
      <4>2. r.end - 1 \in 0..MaxAddress /\ r.start <= r.end - 1 /\ r.end - 1 < r.end
        BY <1>0, <1>4
      <4>3. top <= r.end - 1 /\ r.end - 1 <= a
        BY <1>0, <1>2, <1>4, <3>2, <4>1
      <4> QED
        BY <2>6, <4>2, <4>3
    <3>3. CASE e = p.end /\ p.end = row.end
      BY <1>0, <1>5, <2>5, <3>3
    <3> QED
      BY <1>2, <1>3, <3>1, <3>2, <3>3
  <2>8. s <= a
    <3> SUFFICES ASSUME a < s PROVE FALSE
      BY <1>0, <1>1
    <3>1. CASE \E r \in regions : s = r.end
      <4>1. PICK r \in regions : s = r.end
        BY <3>1
      <4>2. r.end - 1 \in 0..MaxAddress /\ r.start <= r.end - 1 /\ r.end - 1 < r.end
        BY <1>0, <1>4
      <4>3. a <= r.end - 1 /\ r.end - 1 <= top
        BY <1>0, <1>1, <1>4, <4>1
      <4> QED
        BY <2>6, <4>2, <4>3
    <3>2. CASE s = p.start /\ \E r \in regions : p.start = r.start
      <4>1. PICK r \in regions : p.start = r.start
        BY <3>2
      <4> QED
        BY <1>0, <1>1, <1>4, <2>6, <3>2, <4>1
    <3>3. CASE s = p.start /\ p.start = row.start
      BY <1>0, <1>5, <2>5, <3>3
    <3> QED
      BY <1>1, <1>3, <3>1, <3>2, <3>3
  <2> QED
    BY <2>7, <2>8
<1> QED
  BY <1>9, <1>10 DEF s, e

\* Around a stack pointer there is memory of rows and none of regions.
LEMMA AroundFacts ==
  ASSUME NEW top \in 0..MaxAddress
  PROVE \A a \in Around(top) : a \in 0..MaxAddress /\ a \in Cells(rows) /\ a \notin Cells(regions)
<1>1. MaxAddress \in Nat
  BY AddressesAre
<1>2. \A a \in Around(top) : a \in Cells(rows)
  BY DEF Around
<1>3. \A a \in Around(top) : a \in 0..MaxAddress
  BY <1>2, CellsOf
<1>4. ASSUME NEW a \in Around(top) PROVE a \notin Cells(regions)
  <2>1. a \in Addresses /\ top \in Addresses
    BY <1>3 DEF Addresses
  <2>2. (a <= a /\ a <= top) \/ (top <= a /\ a <= a)
    BY <1>1, <1>3
  <2> QED
    BY <2>1, <2>2 DEF Around
<1> QED
  BY <1>2, <1>3, <1>4

\* Two stacks outside of the regions have no memory in common.
LEMMA AroundsApart ==
  ASSUME Placed, OwnStacks, NEW t \in Stacks, NEW u \in Stacks, t # u
  PROVE Around(t) \cap Around(u) = {}
<1> SUFFICES ASSUME NEW a, a \in Around(t), a \in Around(u) PROVE FALSE
  OBVIOUS
<1>0. MaxAddress \in Nat /\ t \in 0..MaxAddress /\ u \in 0..MaxAddress
  BY AddressesAre
<1>0a. a \in 0..MaxAddress
  BY <1>0, AroundFacts
<1>1. PICK row \in rows : /\ {a, t} \subseteq Cells({row})
                          /\ \A b \in Addresses : (a <= b /\ b <= t) \/ (t <= b /\ b <= a) => b \notin Cells(regions)
  BY DEF Around
<1>2. PICK own \in rows : /\ {a, u} \subseteq Cells({own})
                          /\ \A b \in Addresses : (a <= b /\ b <= u) \/ (u <= b /\ b <= a) => b \notin Cells(regions)
  BY DEF Around
<1>3. own = row
  <2>1. row.start <= a /\ a < row.end
    BY <1>1, CellsOf
  <2>2. own.start <= a /\ a < own.end
    BY <1>2, CellsOf
  <2>3. own = row \/ own.end <= row.start \/ row.end <= own.start
    BY PlacedFacts
  <2>4. own.start \in Nat /\ own.end \in Nat /\ row.start \in Nat /\ row.end \in Nat
    BY PlacedFacts
  <2> QED
    BY <1>0a, <2>1, <2>2, <2>3, <2>4
<1>4. {u, t} \subseteq Cells({row})
  BY <1>1, <1>2, <1>3
<1>5. \A b \in Addresses : (u <= b /\ b <= t) \/ (t <= b /\ b <= u) => b \notin Cells(regions)
  BY <1>0, <1>0a, <1>1, <1>2 DEF Addresses
<1>6. u \in Cells(rows)
  BY <1>4, CellsOf
<1>7. u \in Around(t)
  BY <1>4, <1>5, <1>6 DEF Around
<1> QED
  BY <1>7 DEF OwnStacks

\* Subtract leaves of a span exactly what the region does not have.
LEMMA SubtractIs ==
  ASSUME NEW span, span = [start |-> span.start, end |-> span.end], span.start \in Nat, span.end \in Nat,
         NEW r, r.start \in Nat, r.end \in Nat, r.start < r.end
  PROVE /\ \A q \in Subtract(span, r) : q = [start |-> q.start, end |-> q.end] /\ q.start \in Nat /\ q.end \in Nat
        /\ \A a \in Nat : (\E q \in Subtract(span, r) : q.start <= a /\ a < q.end)
                          <=> (span.start <= a /\ a < span.end) /\ ~(r.start <= a /\ a < r.end)
<1> DEFINE covers == r.start <= span.start /\ span.end <= r.end
           within == span.start < r.start /\ r.end < span.end
           lower == r.end > span.start /\ r.start <= span.start /\ r.end < span.end
           upper == r.start > span.start /\ r.start < span.end /\ r.end >= span.end
<1>1. CASE covers
  <2>1. Subtract(span, r) = {}
    BY <1>1 DEF Subtract
  <2> QED
    BY <1>1, <2>1
<1>2. CASE ~covers /\ within
  <2>1. Subtract(span, r) = {Span(span.start, r.start), Span(r.end, span.end)}
    BY <1>2 DEF Subtract
  <2> QED
    BY <1>2, <2>1 DEF Span
<1>3. CASE ~covers /\ ~within /\ lower
  <2>1. Subtract(span, r) = {Span(r.end, span.end)}
    BY <1>3 DEF Subtract
  <2> QED
    BY <1>3, <2>1 DEF Span
<1>4. CASE ~covers /\ ~within /\ ~lower /\ upper
  <2>1. Subtract(span, r) = {Span(span.start, r.start)}
    BY <1>4 DEF Subtract
  <2> QED
    BY <1>4, <2>1 DEF Span
<1>5. CASE ~covers /\ ~within /\ ~lower /\ ~upper
  <2>1. Subtract(span, r) = {span}
    BY <1>5 DEF Subtract
  <2> QED
    BY <1>5, <2>1
<1> QED
  BY <1>1, <1>2, <1>3, <1>4, <1>5

-----------------------------------------------------------------------------
\* The memory of a stack, and the part of it in use.
Own(t) == IF InRegion(t) # {} THEN Cells(InRegion(t)) ELSE Around(t)
Used(t, a) == IF stack_direction = "low" THEN a >= t ELSE a < t
Met == Stacks \ stacks

Typed == /\ stack_direction \in {"low", "high"} /\ stacks \subseteq Stacks /\ left \subseteq regions
         /\ stacks # {} => left = regions
\* The regions of the stacks met so far are marked.
Marked == stack_regions = {r \in regions : \E t \in Met : r \in InRegion(t)}
\* Of the stacks met so far the part in use is read.
PartsRead == \A a \in 0..MaxAddress : a \in Cells(live) <=> \E t \in Met : a \in Own(t) /\ Used(t, a)
Bounded == \A p \in library_live_objects : p = [start |-> p.start, end |-> p.end] /\ p.start \in Nat /\ p.end \in Nat
\* What is left of the rows: all but the stacks met so far and the regions subtracted.
RowsLeft == \A a \in 0..MaxAddress : a \in Cells(library_live_objects) <=>
  /\ a \in Cells(rows)
  /\ \A t \in Met : InRegion(t) = {} => a \notin Around(t)
  /\ \A r \in regions \ left : Subtracted(r) => ~Contains(r, a)
\* While stacks are met, rows are cut only where regions begin and end.
InPieces == stacks # {} => Apart(library_live_objects) /\ \A p \in library_live_objects : Piece(p)

RangesInv == Placed /\ OwnStacks /\ Typed /\ Marked /\ PartsRead /\ Bounded /\ RowsLeft /\ InPieces

\* The rows as recorded satisfy the invariant (heap-checker.cc:800-973).
LEMMA RangesInitInv == RangesInit => RangesInv
<1> SUFFICES ASSUME RangesInit PROVE RangesInv
  OBVIOUS
<1> USE DEF RangesInit
<1>1. Placed /\ OwnStacks /\ Typed /\ Met = {}
  BY DEF Placed, Typed, Met
<1>2. Marked
  BY <1>1 DEF Marked
<1>3. PartsRead
  BY <1>1 DEF PartsRead, Cells
<1>4. Bounded
  BY <1>1, PlacedFacts DEF Bounded
<1>5. RowsLeft
  BY <1>1 DEF RowsLeft
<1>6. InPieces
  <2>1. Apart(library_live_objects)
    BY <1>1, PlacedFacts DEF Apart
  <2>2. ASSUME NEW p \in library_live_objects PROVE Piece(p)
    <3>1. p \in rows /\ p = [start |-> p.start, end |-> p.end] /\ p.start \in Nat /\ p.end \in Nat
      BY <1>1, PlacedFacts
    <3> QED
      BY <3>1 DEF Piece
  <2> QED
    BY <2>1, <2>2 DEF InPieces
<1> QED
  BY <1>1, <1>2, <1>3, <1>4, <1>5, <1>6 DEF RangesInv

\* No step changes the rows and the regions, nor what they are around a stack.
LEMMA SameGround ==
  ASSUME UNCHANGED <<rows, regions>>
  PROVE /\ \A t : InRegion(t)' = InRegion(t) /\ Around(t)' = Around(t) /\ Own(t)' = Own(t)
        /\ \A p : Piece(p)' <=> Piece(p)
        /\ OwnStacks' <=> OwnStacks
        /\ Placed' <=> Placed
<1>1. \A t : InRegion(t)' = InRegion(t)
  BY DEF InRegion
<1>2. \A spans : Cells(spans)' = Cells(spans)
  BY DEF Cells, Addresses
<1>3. \A t : Around(t)' = Around(t)
  BY <1>2 DEF Around, Cells, Addresses
<1>4. \A t : Own(t)' = Own(t)
  BY <1>1, <1>2, <1>3 DEF Own, Cells, Addresses
<1>5. \A p : Piece(p)' <=> Piece(p)
  BY DEF Piece
<1>6. (OwnStacks' <=> OwnStacks) /\ (Placed' <=> Placed)
  BY <1>1, <1>3 DEF OwnStacks, Placed
<1> QED
  BY <1>1, <1>3, <1>4, <1>5, <1>6

\* What a region and what a row has of one cell.
LEMMA OwnOfRegion ==
  ASSUME Placed, NEW top \in 0..MaxAddress, NEW r \in regions, Contains(r, top)
  PROVE InRegion(top) = {r} /\ \A a : a \in Own(top) <=> a \in 0..MaxAddress /\ Contains(r, a)
<1>1. ASSUME NEW q \in regions, q.start <= top, top < q.end PROVE q = r
  <2>1. q = r \/ q.end <= r.start \/ r.end <= q.start
    BY PlacedFacts
  <2>2. q.start \in Nat /\ q.end \in Nat /\ r.start \in Nat /\ r.end \in Nat
    BY PlacedFacts
  <2> QED
    BY <1>1, <2>1, <2>2, AddressesAre DEF Contains
<1>2. InRegion(top) = {r}
  BY <1>1 DEF InRegion, Contains
<1>3. \A a : a \in Own(top) <=> a \in Cells({r})
  BY <1>2 DEF Own
<1>4. \A a : a \in Cells({r}) <=> a \in 0..MaxAddress /\ r.start <= a /\ a < r.end
  BY CellsOf
<1> QED
  BY <1>2, <1>3, <1>4 DEF Contains

\* The stacks of different threads have no memory in common.
LEMMA OwnsApart ==
  ASSUME Placed, OwnStacks, NEW t \in Stacks, NEW u \in Stacks, t # u
  PROVE Own(t) \cap Own(u) = {}
<1> SUFFICES ASSUME NEW a, a \in Own(t), a \in Own(u) PROVE FALSE
  OBVIOUS
<1>0. t \in 0..MaxAddress /\ u \in 0..MaxAddress /\ MaxAddress \in Nat
  BY AddressesAre
<1>1. \A v \in {t, u}, q \in regions : q \in InRegion(v) => a \in 0..MaxAddress /\ Contains(q, a) /\ InRegion(v) = {q}
  <2> SUFFICES ASSUME NEW v \in {t, u}, NEW q \in regions, q \in InRegion(v)
               PROVE a \in 0..MaxAddress /\ Contains(q, a) /\ InRegion(v) = {q}
    OBVIOUS
  <2>1. Contains(q, v)
    BY DEF InRegion, Contains
  <2>2. a \in Own(v)
    OBVIOUS
  <2> QED
    BY <1>0, <2>1, <2>2, OwnOfRegion
<1>2. \A v \in {t, u} : InRegion(v) = {} => a \in Around(v)
  BY DEF Own
<1>3. \A v \in {t, u}, q \in regions : InRegion(v) = {} => ~(a \in 0..MaxAddress /\ Contains(q, a))
  BY <1>0, <1>2, AroundFacts, CellsOf DEF Contains
<1>4. CASE InRegion(t) = {} /\ InRegion(u) = {}
  BY <1>2, <1>4, AroundsApart
<1>5. CASE InRegion(t) # {} \/ InRegion(u) # {}
  <2>1. PICK v \in {t, u}, w \in {t, u} : v # w /\ InRegion(v) # {}
    BY <1>5
  <2>2. PICK q \in regions : q \in InRegion(v)
    BY <2>1 DEF InRegion
  <2>3. a \in 0..MaxAddress /\ Contains(q, a) /\ InRegion(v) = {q}
    BY <1>1, <2>2
  <2>4. InRegion(w) # {}
    BY <1>3, <2>3
  <2>5. PICK p \in regions : p \in InRegion(w)
    BY <2>4 DEF InRegion
  <2>6. Contains(p, a) /\ InRegion(w) = {p}
    BY <1>1, <2>5
  <2>7. p = q
    <3>1. p = q \/ p.end <= q.start \/ q.end <= p.start
      BY PlacedFacts
    <3>2. p.start \in Nat /\ p.end \in Nat /\ q.start \in Nat /\ q.end \in Nat
      BY PlacedFacts
    <3> QED
      BY <2>3, <2>6, <3>1, <3>2 DEF Contains
  <2>8. InRegion(t) \cap InRegion(u) = {q}
    BY <2>1, <2>3, <2>6, <2>7
  <2> QED
    BY <2>8 DEF OwnStacks
<1> QED
  BY <1>4, <1>5

\* What a stack takes out of a piece leaves the rest of it, in pieces.
LEMMA CutIs ==
  ASSUME Placed, Bounded, InPieces, stacks # {}, NEW top \in 0..MaxAddress, InRegion(top) = {},
         NEW row \in library_live_objects, row.start <= top, top < row.end,
         NEW s, s = StackStart(top, row), NEW e, e = StackEnd(top, row), NEW cut,
         cut = (library_live_objects \ {row}) \cup (IF s # row.start THEN {Span(row.start, s)} ELSE {})
                                              \cup (IF e # row.end THEN {Span(e, row.end)} ELSE {})
  PROVE /\ s \in Nat /\ e \in Nat /\ s <= top /\ top < e
        /\ Apart(cut) /\ \A p \in cut : Piece(p)
        /\ \A a \in 0..MaxAddress : a \in Cells(cut) <=> a \in Cells(library_live_objects) /\ a \notin Around(top)
<1>0. MaxAddress \in Nat /\ top \in Nat
  BY AddressesAre
<1>1. /\ Piece(row) /\ row.start \in Nat /\ row.end \in Nat
      /\ \A p \in library_live_objects : Piece(p) /\ p.start \in Nat /\ p.end \in Nat
  BY DEF Bounded, InPieces
<1>2. /\ s \in Nat /\ s <= top /\ row.start <= s
      /\ s = row.start \/ \E r \in regions : s = r.end
  BY <1>1, StackStartIs
<1>3. /\ e \in Nat /\ top < e /\ e <= row.end
      /\ e = row.end \/ \E r \in regions : e = r.start
  BY <1>1, StackEndIs
<1>4. \A a \in 0..MaxAddress : s <= a /\ a < e <=> a \in Around(top)
  BY <1>1, AroundIs
<1>5. \A p, q \in library_live_objects : p = q \/ p.end <= q.start \/ q.end <= p.start
  BY DEF InPieces, Apart
<1> DEFINE A == Span(row.start, s)
           B == Span(e, row.end)
<1>6. A = [start |-> row.start, end |-> s] /\ A.start = row.start /\ A.end = s
  BY DEF Span
<1>7. B = [start |-> e, end |-> row.end] /\ B.start = e /\ B.end = row.end
  BY DEF Span
<1> HIDE DEF A, B
<1>8. \A p : p \in cut <=> \/ p \in library_live_objects /\ p # row
                           \/ s # row.start /\ p = A
                           \/ e # row.end /\ p = B
  BY DEF A, B
<1>9. Apart(cut)
  <2> SUFFICES ASSUME NEW p \in cut, NEW q \in cut, p # q PROVE p.end <= q.start \/ q.end <= p.start
    BY DEF Apart
  <2>1. CASE p \in library_live_objects /\ p # row
    <3>1. p.end <= row.start \/ row.end <= p.start
      BY <1>5, <2>1
    <3>2. CASE q \in library_live_objects
      BY <1>5, <2>1, <3>2
    <3>3. CASE q = A
      BY <1>0, <1>1, <1>2, <1>3, <1>6, <2>1, <3>1, <3>3
    <3>4. CASE q = B
      BY <1>0, <1>1, <1>2, <1>3, <1>7, <2>1, <3>1, <3>4
    <3> QED
      BY <1>8, <3>2, <3>3, <3>4
  <2>2. CASE q \in library_live_objects /\ q # row
    <3>1. q.end <= row.start \/ row.end <= q.start
      BY <1>5, <2>2
    <3>2. CASE p = A
      BY <1>0, <1>1, <1>2, <1>3, <1>6, <2>2, <3>1, <3>2
    <3>3. CASE p = B
      BY <1>0, <1>1, <1>2, <1>3, <1>7, <2>2, <3>1, <3>3
    <3> QED
      BY <1>8, <2>1, <3>2, <3>3
  <2>3. CASE (p = A /\ q = B) \/ (p = B /\ q = A)
    BY <1>0, <1>2, <1>3, <1>6, <1>7, <2>3
  <2> QED
    BY <1>8, <2>1, <2>2, <2>3
<1>10. ASSUME NEW p \in cut PROVE Piece(p)
  <2>1. PICK own \in rows : /\ own.start <= row.start /\ row.end <= own.end
                            /\ row.start = own.start \/ \E r \in regions : row.start = r.start
                            /\ row.end = own.end \/ \E r \in regions : row.end = r.end
    BY <1>1 DEF Piece
  <2>2. own.start \in Nat /\ own.end \in Nat
    BY PlacedFacts
  <2>3. CASE s # row.start /\ p = A
    <3>1. A.end <= own.end
      BY <1>0, <1>1, <1>2, <1>3, <1>6, <2>1, <2>2
    <3> QED
      BY <1>1, <1>2, <1>6, <2>1, <2>3, <3>1 DEF Piece
  <2>4. CASE e # row.end /\ p = B
    <3>1. own.start <= B.start
      BY <1>0, <1>1, <1>2, <1>3, <1>7, <2>1, <2>2
    <3> QED
      BY <1>1, <1>3, <1>7, <2>1, <2>4, <3>1 DEF Piece
  <2> QED
    BY <1>1, <1>8, <2>3, <2>4
<1>11. ASSUME NEW a \in 0..MaxAddress PROVE a \in Cells(cut) <=> a \in Cells(library_live_objects) /\ a \notin Around(top)
  <2>1. a \in Cells(cut) <=> \E p \in cut : p.start <= a /\ a < p.end
    BY CellsOf
  <2>2. a \in Cells(library_live_objects) <=> \E p \in library_live_objects : p.start <= a /\ a < p.end
    BY CellsOf
  <2>3. ASSUME NEW p \in cut, p.start <= a, a < p.end PROVE (\E q \in library_live_objects : q.start <= a /\ a < q.end) /\ ~(s <= a /\ a < e)
    <3>1. CASE p \in library_live_objects /\ p # row
      <4>1. p.end <= row.start \/ row.end <= p.start
        BY <1>5, <3>1
      <4> QED
        BY <1>0, <1>1, <1>2, <1>3, <2>3, <3>1, <4>1
    <3>2. CASE p = A
      BY <1>0, <1>1, <1>2, <1>3, <1>6, <2>3, <3>2
    <3>3. CASE p = B
      BY <1>0, <1>1, <1>2, <1>3, <1>7, <2>3, <3>3
    <3> QED
      BY <1>8, <3>1, <3>2, <3>3
  <2>4. ASSUME NEW q \in library_live_objects, q.start <= a, a < q.end, ~(s <= a /\ a < e) PROVE \E p \in cut : p.start <= a /\ a < p.end
    <3>1. CASE q # row
      BY <1>8, <2>4, <3>1
    <3>2. CASE q = row /\ a < s
      <4>1. s # row.start /\ A \in cut
        BY <1>0, <1>1, <1>2, <1>8, <2>4, <3>2
      <4> QED
        BY <1>6, <2>4, <3>2, <4>1
    <3>3. CASE q = row /\ e <= a
      <4>1. e # row.end /\ B \in cut
        BY <1>0, <1>1, <1>3, <1>8, <2>4, <3>3
      <4> QED
        BY <1>7, <2>4, <3>3, <4>1
    <3> QED
      BY <1>0, <1>2, <1>3, <2>4, <3>1, <3>2, <3>3
  <2> QED
    BY <1>4, <2>1, <2>2, <2>3, <2>4
<1> QED
  BY <1>2, <1>3, <1>9, <1>10, <1>11

\* What registering one stack does: it is marked if it is a region, its part in
\* use is read, and what is around it is cut out of the rows.
Registered(top) ==
  /\ stack_regions' = stack_regions \cup InRegion(top)
  /\ \A a \in 0..MaxAddress : a \in Cells(live)' <=> a \in Cells(live) \/ (a \in Own(top) /\ Used(top, a))
  /\ \A a \in 0..MaxAddress : a \in Cells(library_live_objects)' <=>
       a \in Cells(library_live_objects) /\ (InRegion(top) = {} => a \notin Around(top))
  /\ Apart(library_live_objects') /\ \A p \in library_live_objects' : Piece(p)

\* A stack pointer in a region (heap-checker.cc:643-660).
LEMMA RegisteredInRegion ==
  ASSUME RangesInv, NEW top \in stacks, RegisterStackInRegion(top) PROVE Registered(top)
<1>0. Placed /\ top \in 0..MaxAddress /\ MaxAddress \in Nat /\ stacks # {}
  BY AddressesAre DEF RangesInv, Typed
<1>1. PICK r \in regions : /\ r.start <= top /\ top < r.end
                           /\ stack_regions' = stack_regions \cup {r} /\ live' = live \cup {InUse(top, r.start, r.end)}
                           /\ library_live_objects' = library_live_objects
  BY DEF RegisterStackInRegion
<1>2. InRegion(top) = {r} /\ \A a : a \in Own(top) <=> a \in 0..MaxAddress /\ Contains(r, a)
  BY <1>0, <1>1, OwnOfRegion DEF Contains
<1>3. ASSUME NEW a \in 0..MaxAddress PROVE a \in Cells(live)' <=> a \in Cells(live) \/ (a \in Own(top) /\ Used(top, a))
  <2>1. a \in Cells(live') <=> a \in Cells(live) \/ (InUse(top, r.start, r.end).start <= a /\ a < InUse(top, r.start, r.end).end)
    BY <1>1, CellsOf
  <2>2. r.start \in Nat /\ r.end \in Nat
    BY <1>0, PlacedFacts
  <2>3. InUse(top, r.start, r.end).start <= a /\ a < InUse(top, r.start, r.end).end <=> Contains(r, a) /\ Used(top, a)
    BY <1>0, <1>1, <2>2 DEF InUse, Span, Contains, Used
  <2>4. Cells(live)' = Cells(live')
    BY DEF Cells, Addresses
  <2> QED
    BY <1>2, <2>1, <2>3, <2>4
<1>4. Cells(library_live_objects)' = Cells(library_live_objects)
  BY <1>1 DEF Cells, Addresses
<1>5. Apart(library_live_objects) /\ \A p \in library_live_objects : Piece(p)
  BY <1>0 DEF RangesInv, InPieces
<1> QED
  BY <1>1, <1>2, <1>3, <1>4, <1>5 DEF Registered

\* A stack pointer in a row (heap-checker.cc:662-716).
LEMMA RegisteredInRow ==
  ASSUME RangesInv, NEW top \in stacks, RegisterStackInRow(top) PROVE Registered(top)
<1>0. Placed /\ top \in 0..MaxAddress /\ MaxAddress \in Nat /\ stacks # {} /\ Bounded /\ InPieces
  BY AddressesAre DEF RangesInv, Typed
<1> DEFINE s(row) == StackStart(top, row)
           e(row) == StackEnd(top, row)
<1>1. PICK row \in library_live_objects :
        /\ \A r \in regions : ~(r.start <= top /\ top < r.end)
        /\ row.start <= top /\ top < row.end
        /\ live' = live \cup {InUse(top, s(row), e(row))}
        /\ library_live_objects' = (library_live_objects \ {row}) \cup (IF s(row) # row.start THEN {Span(row.start, s(row))} ELSE {})
                                                              \cup (IF e(row) # row.end THEN {Span(e(row), row.end)} ELSE {})
        /\ stack_regions' = stack_regions
  BY DEF RegisterStackInRow
<1>2. InRegion(top) = {}
  BY <1>1 DEF InRegion
<1>3. /\ s(row) \in Nat /\ e(row) \in Nat /\ s(row) <= top /\ top < e(row)
      /\ Apart(library_live_objects') /\ \A p \in library_live_objects' : Piece(p)
      /\ \A a \in 0..MaxAddress : a \in Cells(library_live_objects') <=> a \in Cells(library_live_objects) /\ a \notin Around(top)
  <2> HIDE DEF s, e
  <2>1. s(row) = StackStart(top, row) /\ e(row) = StackEnd(top, row)
    BY DEF s, e
  <2> QED
    BY <1>0, <1>1, <1>2, <2>1, CutIs
<1>4. Piece(row)
  BY <1>0 DEF InPieces
<1>5. \A a \in 0..MaxAddress : s(row) <= a /\ a < e(row) <=> a \in Around(top)
  BY <1>0, <1>1, <1>2, <1>4, AroundIs
<1> HIDE DEF s, e
<1>6. \A a : a \in Own(top) <=> a \in 0..MaxAddress /\ a \in Around(top)
  <2>1. \A a : a \in Own(top) <=> a \in Around(top)
    BY <1>2 DEF Own
  <2> QED
    BY <1>0, <2>1, AroundFacts
<1>7. ASSUME NEW a \in 0..MaxAddress PROVE a \in Cells(live)' <=> a \in Cells(live) \/ (a \in Own(top) /\ Used(top, a))
  <2>1. a \in Cells(live') <=> a \in Cells(live) \/ (InUse(top, s(row), e(row)).start <= a /\ a < InUse(top, s(row), e(row)).end)
    BY <1>1, CellsOf
  <2>2. InUse(top, s(row), e(row)).start <= a /\ a < InUse(top, s(row), e(row)).end <=> (s(row) <= a /\ a < e(row)) /\ Used(top, a)
    BY <1>0, <1>3 DEF InUse, Span, Used
  <2>3. Cells(live)' = Cells(live')
    BY DEF Cells, Addresses
  <2> QED
    BY <1>5, <1>6, <2>1, <2>2, <2>3
<1>8. Cells(library_live_objects)' = Cells(library_live_objects')
  BY DEF Cells, Addresses
<1> QED
  BY <1>1, <1>2, <1>3, <1>7, <1>8 DEF Registered

\* A stack pointer that is nowhere (heap-checker.cc:717-723).
LEMMA RegisteredLost ==
  ASSUME RangesInv, NEW top \in stacks, RegisterStackLost(top) PROVE Registered(top)
<1>0. Placed /\ top \in 0..MaxAddress /\ top \in Stacks /\ MaxAddress \in Nat /\ stacks # {} /\ RowsLeft /\ OwnStacks
  BY AddressesAre DEF RangesInv, Typed
<1>1. /\ top \notin Cells(regions) /\ top \notin Cells(library_live_objects)
      /\ UNCHANGED <<library_live_objects, stack_regions, live>>
  BY DEF RegisterStackLost
<1>2. InRegion(top) = {}
  BY <1>0, <1>1, CellsOf DEF InRegion
<1>3. \A t \in Met : InRegion(t) = {} => top \notin Around(t)
  <2> SUFFICES ASSUME NEW t \in Met, InRegion(t) = {} PROVE top \notin Around(t)
    OBVIOUS
  <2>1. t # top /\ t \in Stacks
    BY DEF Met
  <2> QED
    BY <1>0, <2>1 DEF OwnStacks
<1>4. top \notin Cells(rows)
  <2>1. regions \ left = {}
    BY <1>0 DEF RangesInv, Typed
  <2> QED
    BY <1>0, <1>1, <1>3, <2>1 DEF RowsLeft
<1>5. Around(top) = {}
  <2> SUFFICES ASSUME NEW a \in Around(top) PROVE FALSE
    OBVIOUS
  <2>1. PICK row \in rows : top \in Cells({row})
    BY DEF Around
  <2> QED
    BY <1>4, <2>1, CellsOf
<1>6. Own(top) = {}
  BY <1>2, <1>5 DEF Own
<1>7. Cells(live)' = Cells(live) /\ Cells(library_live_objects)' = Cells(library_live_objects)
  BY <1>1 DEF Cells, Addresses
<1>8. Apart(library_live_objects) /\ \A p \in library_live_objects : Piece(p)
  BY <1>0 DEF RangesInv, InPieces
<1> QED
  BY <1>1, <1>2, <1>5, <1>6, <1>7, <1>8 DEF Registered

\* Registering a stack keeps the invariant.
LEMMA RegisterInv == ASSUME RangesInv, RegisterStackLocked PROVE RangesInv'
<1>1. PICK top \in stacks : /\ RegisterStackInRegion(top) \/ RegisterStackInRow(top) \/ RegisterStackLost(top)
                            /\ stacks' = stacks \ {top} /\ UNCHANGED <<stack_direction, rows, regions, left>>
  BY DEF RegisterStackLocked
<1>2. Registered(top)
  BY <1>1, RegisteredInRegion, RegisteredInRow, RegisteredLost
<1>3. /\ \A t : InRegion(t)' = InRegion(t) /\ Around(t)' = Around(t) /\ Own(t)' = Own(t)
      /\ \A p : Piece(p)' <=> Piece(p)
      /\ OwnStacks' <=> OwnStacks
      /\ Placed' <=> Placed
  BY <1>1, SameGround
<1>4. Met' = Met \cup {top} /\ top \in Stacks /\ left = regions
  BY <1>1 DEF RangesInv, Typed, Met
<1>5. Placed' /\ OwnStacks'
  BY <1>3 DEF RangesInv
<1>6. Typed'
  BY <1>1, <1>4 DEF RangesInv, Typed
<1>7. Marked'
  <2>1. stack_regions = {r \in regions : \E t \in Met : r \in InRegion(t)}
    BY DEF RangesInv, Marked
  <2>2. stack_regions' = stack_regions \cup InRegion(top)
    BY <1>2 DEF Registered
  <2>3. InRegion(top) \subseteq regions
    BY DEF InRegion
  <2>4. stack_regions' = {r \in regions : \E t \in Met \cup {top} : r \in InRegion(t)}
    BY <2>1, <2>2, <2>3
  <2> QED
    BY <1>1, <1>3, <1>4, <2>4 DEF Marked
<1>8. PartsRead'
  <2> SUFFICES ASSUME NEW a \in 0..MaxAddress
               PROVE a \in Cells(live)' <=> \E t \in Met' : a \in Own(t)' /\ Used(t, a)'
    BY DEF PartsRead
  <2>1. a \in Cells(live) <=> \E t \in Met : a \in Own(t) /\ Used(t, a)
    BY DEF RangesInv, PartsRead
  <2>2. a \in Cells(live)' <=> a \in Cells(live) \/ (a \in Own(top) /\ Used(top, a))
    BY <1>2 DEF Registered
  <2>3. \A t : Used(t, a)' = Used(t, a)
    BY <1>1 DEF Used
  <2> QED
    BY <1>3, <1>4, <2>1, <2>2, <2>3
<1>9. Bounded'
  BY <1>2 DEF Registered, Piece, Bounded
<1>10. RowsLeft'
  <2> SUFFICES ASSUME NEW a \in 0..MaxAddress
               PROVE a \in Cells(library_live_objects)' <=>
                       /\ a \in Cells(rows)'
                       /\ \A t \in Met' : InRegion(t)' = {} => a \notin Around(t)'
                       /\ \A r \in (regions \ left)' : Subtracted(r)' => ~Contains(r, a)
    BY DEF RowsLeft, Contains
  <2>1. Cells(rows)' = Cells(rows)
    BY <1>1 DEF Cells, Addresses
  <2>2. (regions \ left)' = {} /\ regions \ left = {}
    BY <1>1, <1>4
  <2>3. a \in Cells(library_live_objects) <=>
          a \in Cells(rows) /\ \A t \in Met : InRegion(t) = {} => a \notin Around(t)
    BY <2>2 DEF RangesInv, RowsLeft
  <2>4. a \in Cells(library_live_objects)' <=> a \in Cells(library_live_objects) /\ (InRegion(top) = {} => a \notin Around(top))
    BY <1>2 DEF Registered
  <2> QED
    BY <1>3, <1>4, <2>1, <2>2, <2>3, <2>4
<1>11. InPieces'
  BY <1>2, <1>3 DEF Registered, InPieces, Apart
<1> QED
  BY <1>5, <1>6, <1>7, <1>8, <1>9, <1>10, <1>11 DEF RangesInv

\* Subtracting a region keeps the invariant (heap-checker.cc:1158-1232).
LEMMA SubtractInv == ASSUME RangesInv, SubtractRegion PROVE RangesInv'
<1>1. PICK r \in left :
        /\ stacks = {} /\ left' = left \ {r}
        /\ library_live_objects' = IF Subtracted(r) THEN UNION {Subtract(span, r) : span \in library_live_objects}
                                   ELSE library_live_objects
        /\ UNCHANGED <<stack_direction, rows, regions, stack_regions, live, stacks>>
  BY DEF SubtractRegion
<1>3. /\ \A t : InRegion(t)' = InRegion(t) /\ Around(t)' = Around(t) /\ Own(t)' = Own(t)
      /\ \A p : Piece(p)' <=> Piece(p)
      /\ OwnStacks' <=> OwnStacks
      /\ Placed' <=> Placed
  BY <1>1, SameGround
<1>4. Met' = Met /\ r \in regions /\ (regions \ left)' = (regions \ left) \cup {r} /\ Placed
  BY <1>1 DEF RangesInv, Typed, Met
<1>5. Placed' /\ OwnStacks'
  BY <1>3 DEF RangesInv
<1>6. Typed'
  BY <1>1, <1>4 DEF RangesInv, Typed
<1>7. Marked'
  BY <1>1, <1>3, <1>4 DEF RangesInv, Marked
<1>8. PartsRead'
  <2>1. Cells(live)' = Cells(live)
    BY <1>1 DEF Cells, Addresses
  <2>2. \A t, a : Used(t, a)' = Used(t, a)
    BY <1>1 DEF Used
  <2> QED
    BY <1>3, <1>4, <2>1, <2>2 DEF RangesInv, PartsRead
<1>9. r.start \in Nat /\ r.end \in Nat /\ r.start < r.end
  BY <1>4, PlacedFacts
<1>10. \A span \in library_live_objects : span = [start |-> span.start, end |-> span.end] /\ span.start \in Nat /\ span.end \in Nat
  BY DEF RangesInv, Bounded
<1>11. \A span \in library_live_objects :
         /\ \A q \in Subtract(span, r) : q = [start |-> q.start, end |-> q.end] /\ q.start \in Nat /\ q.end \in Nat
         /\ \A a \in Nat : (\E q \in Subtract(span, r) : q.start <= a /\ a < q.end)
                           <=> (span.start <= a /\ a < span.end) /\ ~(r.start <= a /\ a < r.end)
  BY <1>9, <1>10, SubtractIs
<1>12. Bounded'
  <2>1. CASE Subtracted(r)
    BY <1>1, <1>11, <2>1 DEF Bounded
  <2>2. CASE ~Subtracted(r)
    BY <1>1, <1>10, <2>2 DEF Bounded
  <2> QED
    BY <2>1, <2>2
<1>13. RowsLeft'
  <2> SUFFICES ASSUME NEW a \in 0..MaxAddress
               PROVE a \in Cells(library_live_objects)' <=>
                       /\ a \in Cells(rows)'
                       /\ \A t \in Met' : InRegion(t)' = {} => a \notin Around(t)'
                       /\ \A q \in (regions \ left)' : Subtracted(q)' => ~Contains(q, a)
    BY DEF RowsLeft, Contains
  <2>1. Cells(rows)' = Cells(rows)
    BY <1>1 DEF Cells, Addresses
  <2>2. \A q : Subtracted(q)' = Subtracted(q)
    BY <1>1 DEF Subtracted
  <2>3. a \in Cells(library_live_objects) <=>
          /\ a \in Cells(rows)
          /\ \A t \in Met : InRegion(t) = {} => a \notin Around(t)
          /\ \A q \in regions \ left : Subtracted(q) => ~Contains(q, a)
    BY DEF RangesInv, RowsLeft
  <2>4. a \in Nat
    BY AddressesAre
  <2>5. a \in Cells(library_live_objects') <=> a \in Cells(library_live_objects) /\ (Subtracted(r) => ~Contains(r, a))
    <3>1. a \in Cells(library_live_objects') <=> \E q \in library_live_objects' : q.start <= a /\ a < q.end
      BY CellsOf
    <3>2. a \in Cells(library_live_objects) <=> \E q \in library_live_objects : q.start <= a /\ a < q.end
      BY CellsOf
    <3>3. CASE Subtracted(r)
      <4>1. \A q : q \in library_live_objects' <=> \E span \in library_live_objects : q \in Subtract(span, r)
        BY <1>1, <3>3
      <4> QED
        BY <1>11, <2>4, <3>1, <3>2, <3>3, <4>1 DEF Contains
    <3>4. CASE ~Subtracted(r)
      BY <1>1, <3>4
    <3> QED
      BY <3>3, <3>4
  <2>6. Cells(library_live_objects)' = Cells(library_live_objects')
    BY DEF Cells, Addresses
  <2> QED
    BY <1>3, <1>4, <2>1, <2>2, <2>3, <2>5, <2>6
<1>14. InPieces'
  BY <1>1 DEF InPieces
<1> QED
  BY <1>5, <1>6, <1>7, <1>8, <1>12, <1>13, <1>14 DEF RangesInv

\* Nothing changes at the end, nor when other parts of the checker move.
LEMMA RangesStutter == ASSUME RangesInv, UNCHANGED rangesVars PROVE RangesInv'
<1>1. UNCHANGED <<stack_direction, rows, regions, library_live_objects, stack_regions, live, stacks, left>>
  BY DEF rangesVars
<1>2. Placed' /\ OwnStacks' /\ \A t : InRegion(t)' = InRegion(t) /\ Around(t)' = Around(t) /\ Own(t)' = Own(t)
  BY <1>1, SameGround DEF RangesInv
<1>3. \A p : Piece(p)' <=> Piece(p)
  BY <1>1, SameGround
<1>4. Met' = Met /\ \A t, a : Used(t, a)' = Used(t, a)
  BY <1>1 DEF Met, Used
<1>5. Cells(live)' = Cells(live) /\ Cells(rows)' = Cells(rows) /\ Cells(library_live_objects)' = Cells(library_live_objects)
  BY <1>1 DEF Cells, Addresses
<1>6. \A r : Subtracted(r)' = Subtracted(r)
  BY <1>1 DEF Subtracted
<1>7. Typed' /\ Bounded'
  BY <1>1 DEF RangesInv, Typed, Bounded
<1>8. Marked' /\ PartsRead'
  BY <1>1, <1>2, <1>4, <1>5 DEF RangesInv, Marked, PartsRead
<1>9. RowsLeft'
  BY <1>1, <1>2, <1>4, <1>5, <1>6 DEF RangesInv, RowsLeft, Contains
<1>10. InPieces'
  BY <1>1, <1>3 DEF RangesInv, InPieces, Apart
<1> QED
  BY <1>2, <1>7, <1>8, <1>9, <1>10 DEF RangesInv

\* What the invariant says when all is done.
LEMMA RangesRight == RangesInv => RangesRead
<1> SUFFICES ASSUME RangesInv PROVE RangesRead
  OBVIOUS
<1>0. Placed /\ OwnStacks /\ MaxAddress \in Nat /\ \A t \in Stacks : t \in 0..MaxAddress
  BY AddressesAre DEF RangesInv
<1>1. Finished => Met = Stacks /\ regions \ left = regions
  BY DEF Finished, Met
<1>2. GlobalsRead
  <2> SUFFICES ASSUME Finished, NEW a \in Cells(rows)
               PROVE ( /\ \A r \in regions : Contains(r, a) => r.special /\ InRegion(a) \cap UNION {InRegion(t) : t \in Stacks} = {}
                       /\ \A t \in Stacks : InRegion(t) = {} => a \notin Around(t) )
                     <=> a \in Cells(library_live_objects)
    BY DEF GlobalsRead, Contains
  <2>0. a \in 0..MaxAddress
    BY CellsOf
  <2>1. a \in Cells(library_live_objects) <=>
          /\ \A t \in Stacks : InRegion(t) = {} => a \notin Around(t)
          /\ \A r \in regions : Subtracted(r) => ~Contains(r, a)
    BY <1>1, <2>0 DEF RangesInv, RowsLeft
  <2>2. ASSUME NEW r \in regions, Contains(r, a)
        PROVE Subtracted(r) <=> ~(r.special /\ InRegion(a) \cap UNION {InRegion(t) : t \in Stacks} = {})
    <3>1. InRegion(a) = {r}
      BY <1>0, <2>0, <2>2, OwnOfRegion
    <3>2. r \in stack_regions <=> \E t \in Stacks : r \in InRegion(t)
      BY <1>1 DEF RangesInv, Marked
    <3>3. InRegion(a) \cap UNION {InRegion(t) : t \in Stacks} = {} <=> ~\E t \in Stacks : r \in InRegion(t)
      BY <3>1
    <3> QED
      BY <3>2, <3>3 DEF Subtracted
  <2> QED
    BY <2>1, <2>2
<1>3. StacksRead
  <2> SUFFICES ASSUME Finished, NEW t \in Stacks, NEW a \in Addresses, a \in Own(t)
               PROVE a \in Cells(live) \cup Cells(library_live_objects) <=> Used(t, a)
    BY DEF StacksRead, Own, Used
  <2>0. a \in 0..MaxAddress
    BY DEF Addresses
  <2>1. a \in Cells(live) <=> \E u \in Stacks : a \in Own(u) /\ Used(u, a)
    BY <1>1, <2>0 DEF RangesInv, PartsRead
  <2>2. \A u \in Stacks : a \in Own(u) => u = t
    BY <1>0, OwnsApart
  <2>3. a \notin Cells(library_live_objects)
    <3>1. CASE InRegion(t) = {}
      <4>1. a \in Around(t)
        BY <3>1 DEF Own
      <4> QED
        BY <1>1, <2>0, <3>1, <4>1 DEF RangesInv, RowsLeft
    <3>2. CASE InRegion(t) # {}
      <4>1. PICK r \in regions : r \in InRegion(t) /\ Contains(r, t)
        BY <3>2 DEF InRegion, Contains
      <4>2. Contains(r, a)
        BY <1>0, <4>1, OwnOfRegion
      <4>3. Subtracted(r)
        BY <1>1, <4>1 DEF RangesInv, Marked, Subtracted
      <4> QED
        BY <1>1, <2>0, <4>2, <4>3 DEF RangesInv, RowsLeft
    <3> QED
      BY <3>1, <3>2
  <2> QED
    BY <2>1, <2>2, <2>3
<1> QED
  BY <1>2, <1>3 DEF RangesRead

\* For any layout of rows and regions and any stacks: what a leak check reads as
\* live is all global data outside of the mapped regions, and of each stack
\* exactly the part in use (IgnoreLiveThreadsLocked, IgnoreNonThreadLiveObjectsLocked).
THEOREM LiveRangesRead == RangesSpec => []RangesRead
<1>1. ASSUME RangesInv, [RangesNext]_rangesVars PROVE RangesInv'
  BY <1>1, RegisterInv, SubtractInv, RangesStutter DEF RangesNext, Done
<1> QED
  BY <1>1, RangesInitInv, RangesRight, PTL DEF RangesSpec

-----------------------------------------------------------------------------
(* The CPU profiler.                                                        *)

\* Places of a call: registering and unregistering is done in four steps.
Ctl == {"control", "block", "signal", "update"}
Calls == {"none", "Start", "Stop", "Flush", "Other", "Thread"}
Pcs == {"idle", "lock", "unlock", "open", "flush", "close"} \cup Ctl
Standing(x) ==
  /\ x \in [call : Calls, pc : Pcs, op : {"none", "register", "unregister", "thread"}, cb : {"prof", "other"},
            blocked : BOOLEAN, a : 1..(kAssociativity + 1)]
  /\ x.blocked <=> x.pc \in {"signal", "update"}
  /\ x.pc \in {"flush", "close"} \/ x.a = 1
  /\ x.pc = "idle" => x.call = "none"
  /\ x.pc \in {"lock", "unlock"} => x.call \in {"Start", "Stop", "Flush"}
  /\ (x.pc = "open" => x.call = "Start") /\ (x.pc = "flush" => x.call = "Flush") /\ (x.pc = "close" => x.call = "Stop")
  /\ x.pc \notin Ctl => x.op = "none" /\ x.cb = "prof"
  /\ x.pc \in Ctl => \/ x.call = "Start" /\ x.op = "register" /\ x.cb = "prof"
                     \/ x.call = "Stop" /\ x.op = "unregister" /\ x.cb = "prof"
                     \/ x.call = "Flush" /\ x.op \in {"register", "unregister"} /\ x.cb = "prof"
                     \/ x.call = "Other" /\ x.op \in {"register", "unregister"} /\ x.cb = "other"
                     \/ x.call = "Thread" /\ x.op = "thread" /\ x.cb = "prof"

Entry == [stack : Traces \cup {"none"}, count : Nat]
Record == [stack : Traces \cup {"header", "trailer"}, count : Nat]
Handlers == {"none", "wait", "add", "leave"} \cup Traces
CpuTypes ==
  /\ lock \in Callers \cup {None} /\ control_lock \in Callers \cup {None} /\ signal_lock \in Callers \cup {None}
  /\ callbacks \subseteq {"prof", "other"} /\ out \in BOOLEAN
  /\ hash \in [1..kAssociativity -> Entry] /\ evict \in Seq(Record) /\ file \in Seq(Record)
  /\ num_evicted_ \in Nat /\ count \in Nat
  /\ DOMAIN th = Callers /\ th = [t \in Callers |-> th[t]] /\ handler \in [Callers -> Handlers]
  /\ \A t \in Callers : Standing(th[t])

\* Who holds which lock; a thread that blocks the signal runs no handler.
LocksHeld == \A t \in Callers :
  /\ lock = t <=> th[t].call \in {"Start", "Stop", "Flush"} /\ th[t].pc # "lock"
  /\ control_lock = t <=> th[t].pc \in {"block", "signal", "update"}
  /\ signal_lock = t <=> th[t].pc = "update" \/ handler[t] \notin {"none", "wait"}
  /\ th[t].blocked => handler[t] = "none"

\* The profiler's callback is there while the file is open, but for the end of a
\* start, a flush and a stop.
Away(x) == x.pc \in {"flush", "close"} \/ (x.op = "register" /\ x.cb = "prof")
Samples(t) == handler[t] = "add" \/ handler[t] \in Traces
CallbackThere ==
  /\ "prof" \in callbacks <=> out /\ \A t \in Callers : ~Away(th[t])
  /\ \A t \in Callers : /\ Away(th[t]) => out
                        /\ th[t].op = "unregister" /\ th[t].cb = "prof" => out
                        /\ th[t].pc = "open" => ~out
                        /\ Samples(t) => "prof" \in callbacks
\* The other client registers what is not there and unregisters what is.
OtherThere == \A t \in Callers : th[t].call = "Other" =>
  /\ th[t].op = "register" <=> "other" \notin callbacks
  /\ \A u \in Callers : th[u].call = "Other" => u = t

\* An entry with a count has a stack; a closed profile has nothing in memory, and
\* what a flush is past is cleared.
TableKept ==
  /\ \A i \in 1..kAssociativity : hash[i].count > 0 => hash[i].stack \in Traces
  /\ IF out THEN file \o evict # <<>> ELSE evict = <<>> /\ hash = EmptyTable
  /\ num_evicted_ = SlotsUsed(evict) /\ num_evicted_ <= kBufferLength
  /\ \A t \in Callers, i \in 1..kAssociativity : th[t].pc = "flush" /\ i < th[t].a => hash[i] = Free

\* The counts of the entries that no loop has evicted yet.
Waiting == [i \in 1..kAssociativity |-> IF \E t \in Callers : i < th[t].a THEN 0 ELSE hash[i].count]
\* A handler that is about to store its sample has counted it, and has evicted what it takes the place of.
CountsKept ==
  IF \E t \in Callers : handler[t] \in Traces
    THEN Sum(Waiting) + Counts(file \o evict) + 1 = count + hash[Lowest].count
    ELSE Sum(Waiting) + Counts(file \o evict) = count

CpuInv == CpuTypes /\ LocksHeld /\ CallbackThere /\ OtherThere /\ TimerTrue /\ TableKept /\ FileWhole /\ CountsKept

-----------------------------------------------------------------------------
(* Sums, as sizes of sets of pairs.                                         *)

Pairs(f, D) == UNION {{i} \X (1..f[i]) : i \in D}

LEMMA PairsAdded ==
  ASSUME NEW f, NEW D, NEW j, j \notin D, f[j] \in Nat, IsFiniteSet(Pairs(f, D))
  PROVE  IsFiniteSet(Pairs(f, D \cup {j})) /\ Cardinality(Pairs(f, D \cup {j})) = Cardinality(Pairs(f, D)) + f[j]
<1>1. PICK n \in Nat : n = f[j]
  OBVIOUS
<1> DEFINE B == {j} \X (1..n)
           P == Pairs(f, D)
<1>2. IsFiniteSet(1..n) /\ Cardinality(1..n) = n
  BY FS_Interval
<1>3. IsFiniteSet({j}) /\ Cardinality({j}) = 1
  BY FS_Singleton
<1>4. IsFiniteSet(B) /\ Cardinality(B) = Cardinality({j}) * Cardinality(1..n)
  BY <1>2, <1>3, FS_Product, Zenon
<1>5. Cardinality(B) = 1 * n
  BY <1>2, <1>3, <1>4, Zenon
<1>6. Cardinality(B) = n
  BY <1>5
<1>7. Pairs(f, D \cup {j}) = P \cup B
  BY <1>1 DEF Pairs
<1>8. P \cap B = {}
  <2>1. \A p \in B : p[1] = j
    OBVIOUS
  <2>2. \A p \in P : p[1] \in D
    BY DEF Pairs
  <2> QED
    BY <2>1, <2>2
<1>9. IsFiniteSet(P)
  OBVIOUS
<1> HIDE DEF B, P
<1>10. /\ IsFiniteSet(P \cup B)
       /\ Cardinality(P \cup B) = Cardinality(P) + Cardinality(B) - Cardinality(P \cap B)
  BY <1>4, <1>9, FS_Union, Zenon
<1>11. Cardinality(P \cap B) = 0
  BY <1>8, FS_EmptySet
<1>12. Cardinality(P) \in Nat
  BY <1>9, FS_CardinalityType
<1>13. Cardinality(P \cup B) = Cardinality(P) + n
  BY <1>6, <1>10, <1>11, <1>12
<1> QED
  BY <1>1, <1>7, <1>10, <1>13 DEF P

LEMMA PairsFinite ==
  ASSUME NEW N \in Nat, NEW f, \A i \in 1..N : f[i] \in Nat
  PROVE  IsFiniteSet(Pairs(f, 1..N))
<1> DEFINE T == {n \in 0..N : ~IsFiniteSet(Pairs(f, 1..n))}
<1>1. SUFFICES ASSUME T # {} PROVE FALSE
  OBVIOUS
<1>2. T \in SUBSET Nat
  OBVIOUS
<1>3. PICK m \in T : \A y \in T : m <= y
  <2> HIDE DEF T
  <2> QED
    BY <1>1, <1>2, HasLeast
<1>4. m \in 0..N /\ ~IsFiniteSet(Pairs(f, 1..m))
  OBVIOUS
<1>5. m # 0
  <2>1. Pairs(f, 1..0) = {}
    BY DEF Pairs
  <2> QED
    BY <1>4, <2>1, FS_EmptySet
<1>6. m - 1 \in 0..N /\ m - 1 \notin T
  BY <1>3, <1>4, <1>5
<1>7. IsFiniteSet(Pairs(f, 1..(m - 1)))
  BY <1>6
<1>8. f[m] \in Nat /\ m \notin 1..(m - 1) /\ (1..(m - 1)) \cup {m} = 1..m
  BY <1>4, <1>5
<1> QED
  BY <1>4, <1>7, <1>8, PairsAdded

LEMMA PairsSame ==
  ASSUME NEW f, NEW g, NEW D, \A i \in D : f[i] = g[i] PROVE Pairs(f, D) = Pairs(g, D)
BY DEF Pairs

LEMMA SumIs == ASSUME NEW f, NEW N \in Nat, DOMAIN f = 1..N PROVE Sum(f) = Cardinality(Pairs(f, 1..N))
BY DEF Sum, Pairs

Numbers(f, N, j) == N \in Nat /\ j \in 1..N /\ \A i \in 1..N : f[i] \in Nat
LEMMA PairsWithout ==
  ASSUME NEW N, NEW f, NEW j, Numbers(f, N, j)
  PROVE  /\ Cardinality(Pairs(f, (1..N) \ {j})) \in Nat /\ Cardinality(Pairs(f, 1..N)) \in Nat
         /\ Cardinality(Pairs(f, 1..N)) = Cardinality(Pairs(f, (1..N) \ {j})) + f[j]
<1>0. N \in Nat /\ j \in 1..N /\ \A i \in 1..N : f[i] \in Nat
  BY DEF Numbers
<1> DEFINE D == (1..N) \ {j}
<1>1. IsFiniteSet(Pairs(f, 1..N))
  BY <1>0, PairsFinite
<1>2. Pairs(f, D) \subseteq Pairs(f, 1..N)
  BY DEF Pairs
<1>3. IsFiniteSet(Pairs(f, D))
  BY <1>1, <1>2, FS_Subset
<1>4. j \notin D /\ D \cup {j} = 1..N /\ f[j] \in Nat
  BY <1>0
<1> HIDE DEF D
<1>5. Cardinality(Pairs(f, 1..N)) = Cardinality(Pairs(f, D)) + f[j]
  BY <1>3, <1>4, PairsAdded
<1>6. Cardinality(Pairs(f, D)) \in Nat /\ Cardinality(Pairs(f, 1..N)) \in Nat
  BY <1>1, <1>3, FS_CardinalityType
<1> QED
  BY <1>5, <1>6 DEF D

\* A sum of which one number changes.
ButOne(f, g, N, j) ==
  /\ N \in Nat /\ j \in 1..N /\ DOMAIN f = 1..N /\ DOMAIN g = 1..N
  /\ \A i \in 1..N : f[i] \in Nat /\ g[i] \in Nat
  /\ \A i \in (1..N) \ {j} : g[i] = f[i]
LEMMA SumChanged ==
  ASSUME NEW N, NEW f, NEW g, NEW j, ButOne(f, g, N, j)
  PROVE  Sum(f) \in Nat /\ Sum(g) \in Nat /\ Sum(g) + f[j] = Sum(f) + g[j]
<1>0. /\ N \in Nat /\ j \in 1..N /\ DOMAIN f = 1..N /\ DOMAIN g = 1..N
      /\ \A i \in 1..N : f[i] \in Nat /\ g[i] \in Nat
      /\ \A i \in (1..N) \ {j} : g[i] = f[i]
  BY DEF ButOne
<1>1. /\ Cardinality(Pairs(f, (1..N) \ {j})) \in Nat /\ Cardinality(Pairs(f, 1..N)) \in Nat
      /\ Cardinality(Pairs(f, 1..N)) = Cardinality(Pairs(f, (1..N) \ {j})) + f[j]
  <2>1. Numbers(f, N, j)
    BY <1>0 DEF Numbers
  <2> QED
    BY <2>1, PairsWithout
<1>2. /\ Cardinality(Pairs(g, (1..N) \ {j})) \in Nat /\ Cardinality(Pairs(g, 1..N)) \in Nat
      /\ Cardinality(Pairs(g, 1..N)) = Cardinality(Pairs(g, (1..N) \ {j})) + g[j]
  <2>1. Numbers(g, N, j)
    BY <1>0 DEF Numbers
  <2> QED
    BY <2>1, PairsWithout
<1>3. Pairs(f, (1..N) \ {j}) = Pairs(g, (1..N) \ {j})
  BY <1>0, PairsSame
<1>4. Sum(f) = Cardinality(Pairs(f, 1..N)) /\ Sum(g) = Cardinality(Pairs(g, 1..N))
  BY <1>0, SumIs
<1>5. f[j] \in Nat /\ g[j] \in Nat
  BY <1>0
<1> QED
  BY <1>1, <1>2, <1>3, <1>4, <1>5

\* A sum of zeros.
LEMMA SumZero ==
  ASSUME NEW N \in Nat, NEW f, DOMAIN f = 1..N, \A i \in 1..N : f[i] = 0 PROVE Sum(f) = 0
<1>1. Pairs(f, 1..N) = {}
  BY DEF Pairs
<1>2. Sum(f) = Cardinality({})
  BY <1>1, SumIs
<1> QED
  BY <1>2, FS_EmptySet

\* A sum with one number more.
OneMore(f, g, N, m) ==
  /\ N \in Nat /\ m = N + 1 /\ DOMAIN f = 1..N /\ DOMAIN g = 1..m /\ g[m] \in Nat
  /\ \A i \in 1..N : f[i] \in Nat /\ g[i] = f[i]
LEMMA SumAppended ==
  ASSUME NEW N, NEW f, NEW g, NEW m, OneMore(f, g, N, m)
  PROVE  Sum(f) \in Nat /\ Sum(g) = Sum(f) + g[m]
<1>0. /\ N \in Nat /\ m = N + 1 /\ DOMAIN f = 1..N /\ DOMAIN g = 1..m /\ g[m] \in Nat
      /\ \A i \in 1..N : f[i] \in Nat /\ g[i] = f[i]
  BY DEF OneMore
<1>1. IsFiniteSet(Pairs(f, 1..N)) /\ Sum(f) = Cardinality(Pairs(f, 1..N)) /\ Sum(f) \in Nat
  BY <1>0, PairsFinite, SumIs, FS_CardinalityType
<1>2. Pairs(g, 1..N) = Pairs(f, 1..N)
  BY <1>0, PairsSame
<1>3. m \notin 1..N /\ (1..N) \cup {m} = 1..m /\ m \in Nat
  BY <1>0
<1>4. Cardinality(Pairs(g, 1..m)) = Cardinality(Pairs(g, 1..N)) + g[m]
  <2>1. IsFiniteSet(Pairs(g, 1..N))
    BY <1>0, <1>1, <1>2
  <2>2. Cardinality(Pairs(g, (1..N) \cup {m})) = Cardinality(Pairs(g, 1..N)) + g[m]
    BY <1>0, <1>3, <2>1, PairsAdded
  <2> QED
    BY <1>3, <2>2
<1>5. Sum(g) = Cardinality(Pairs(g, 1..m))
  BY <1>0, <1>3, SumIs
<1> QED
  BY <1>1, <1>2, <1>4, <1>5

LEMMA CountsAppended ==
  ASSUME NEW q \in Seq(Record), NEW e \in Record
  PROVE  Counts(q) \in Nat /\ Counts(Append(q, e)) = Counts(q) + e.count
<1> DEFINE N == Len(q)
           f == [i \in DOMAIN q |-> q[i].count]
           p == Append(q, e)
           g == [i \in DOMAIN p |-> p[i].count]
<1>1. N \in Nat /\ DOMAIN f = 1..N /\ DOMAIN g = 1..(N + 1)
  OBVIOUS
<1>2. \A i \in 1..N : f[i] \in Nat /\ g[i] = f[i]
  <2> SUFFICES ASSUME NEW i \in 1..N PROVE f[i] \in Nat /\ g[i] = f[i]
    OBVIOUS
  <2>1. q[i] \in Record
    OBVIOUS
  <2>2. p[i] = q[i] /\ i \in DOMAIN p /\ i \in DOMAIN q
    OBVIOUS
  <2> QED
    BY <2>1, <2>2 DEF Record
<1>3. g[N + 1] = e.count /\ e.count \in Nat
  BY DEF Record
<1>4. Counts(q) = Sum(f) /\ Counts(Append(q, e)) = Sum(g)
  BY DEF Counts
<1> HIDE DEF N, f, g, p
<1>5. PICK m : m = N + 1
  OBVIOUS
<1>6. Sum(f) \in Nat /\ Sum(g) = Sum(f) + g[m]
  <2>1. OneMore(f, g, N, m)
    BY <1>1, <1>2, <1>3, <1>5 DEF OneMore
  <2> QED
    BY <2>1, SumAppended
<1> QED
  BY <1>3, <1>4, <1>5, <1>6

LEMMA SlotsType == \A e \in Record : SlotsOf(e) \in Nat /\ (e.stack \in Traces => SlotsOf(e) = Depth[e.stack] + 2)
<1> SUFFICES ASSUME NEW e \in Record PROVE SlotsOf(e) \in Nat /\ (e.stack \in Traces => SlotsOf(e) = Depth[e.stack] + 2)
  OBVIOUS
<1>1. CASE e.stack \in Traces
  BY <1>1, CpuAssumption DEF SlotsOf
<1>2. CASE e.stack = "header" \/ e.stack = "trailer"
  BY <1>2, CpuAssumption DEF SlotsOf
<1> QED
  BY <1>1, <1>2 DEF Record

LEMMA SlotsAppended ==
  ASSUME NEW q \in Seq(Record), NEW e \in Record
  PROVE  SlotsUsed(q) \in Nat /\ SlotsUsed(Append(q, e)) = SlotsUsed(q) + SlotsOf(e)
<1> DEFINE N == Len(q)
           f == [i \in DOMAIN q |-> SlotsOf(q[i])]
           p == Append(q, e)
           g == [i \in DOMAIN p |-> SlotsOf(p[i])]
<1>1. N \in Nat /\ DOMAIN f = 1..N /\ DOMAIN g = 1..(N + 1)
  OBVIOUS
<1>2. \A i \in 1..N : f[i] \in Nat /\ g[i] = f[i]
  <2> SUFFICES ASSUME NEW i \in 1..N PROVE f[i] \in Nat /\ g[i] = f[i]
    OBVIOUS
  <2>1. SlotsOf(q[i]) \in Nat
    BY SlotsType
  <2>2. p[i] = q[i] /\ i \in DOMAIN p /\ i \in DOMAIN q
    OBVIOUS
  <2> QED
    BY <2>1, <2>2
<1>3. g[N + 1] = SlotsOf(e) /\ SlotsOf(e) \in Nat
  BY SlotsType
<1>4. SlotsUsed(q) = Sum(f) /\ SlotsUsed(Append(q, e)) = Sum(g)
  BY DEF SlotsUsed
<1> HIDE DEF N, f, g, p
<1>5. PICK m : m = N + 1
  OBVIOUS
<1>6. Sum(f) \in Nat /\ Sum(g) = Sum(f) + g[m]
  <2>1. OneMore(f, g, N, m)
    BY <1>1, <1>2, <1>3, <1>5 DEF OneMore
  <2> QED
    BY <2>1, SumAppended
<1> QED
  BY <1>3, <1>4, <1>5, <1>6

LEMMA SlotsEmpty == SlotsUsed(<<>>) = 0
<1> DEFINE f == [i \in DOMAIN <<>> |-> SlotsOf((<<>>)[i])]
<1>1. DOMAIN f = 1..0
  OBVIOUS
<1>2. SlotsUsed(<<>>) = Sum(f)
  BY DEF SlotsUsed
<1> HIDE DEF f
<1>3. Sum(f) = 0
  BY <1>1, SumZero
<1> QED
  BY <1>2, <1>3

LEMMA CountsEmpty == Counts(<<>>) = 0
<1> DEFINE f == [i \in DOMAIN <<>> |-> (<<>>)[i].count]
<1>1. DOMAIN f = 1..0
  OBVIOUS
<1>2. Counts(<<>>) = Sum(f)
  BY DEF Counts
<1> HIDE DEF f
<1>3. Sum(f) = 0
  BY <1>1, SumZero
<1> QED
  BY <1>2, <1>3

-----------------------------------------------------------------------------
(* What was written and is to be written, as one sequence.                  *)

Whole(f, open) ==
  f # <<>> => /\ \A i \in DOMAIN f : (f[i].stack = "header") = (i = 1)
              /\ \A i \in DOMAIN f : (f[i].stack = "trailer") = (i = Len(f) /\ ~open)

LEMMA Joined ==
  ASSUME NEW s \in Seq(Record), NEW q \in Seq(Record), NEW e \in Record
  PROVE  /\ s \o q \in Seq(Record) /\ (s \o q) \o <<>> = s \o q /\ s \o Append(q, e) = Append(s \o q, e)
         /\ (s \o q) \o <<e>> = Append(s \o q, e) /\ Append(q, e) \in Seq(Record) /\ <<e>> \in Seq(Record)
         /\ Append(q, e) # <<>>
OBVIOUS

LEMMA RecordAppended ==
  ASSUME NEW q \in Seq(Record), q # <<>>, Whole(q, TRUE), NEW e \in Record, e.stack \in Traces
  PROVE  Whole(Append(q, e), TRUE)
<1> DEFINE p == Append(q, e)
<1>1. Len(q) \in Nat \ {0} /\ DOMAIN p = 1..(Len(q) + 1) /\ p[Len(q) + 1] = e /\ \A i \in 1..Len(q) : p[i] = q[i]
  OBVIOUS
<1>2. e.stack # "header" /\ e.stack # "trailer"
  BY CpuAssumption
<1>3. \A i \in 1..Len(q) : (q[i].stack = "header") = (i = 1) /\ (q[i].stack = "trailer") = FALSE
  BY DEF Whole
<1> HIDE DEF p
<1> QED
  BY <1>1, <1>2, <1>3 DEF Whole, p

LEMMA TrailerAppended ==
  ASSUME NEW q \in Seq(Record), q # <<>>, Whole(q, TRUE) PROVE Whole(Append(q, Trailer), FALSE)
<1> DEFINE p == Append(q, Trailer)
<1>1. /\ Len(q) \in Nat \ {0} /\ Len(p) = Len(q) + 1 /\ DOMAIN p = 1..(Len(q) + 1) /\ p[Len(q) + 1] = Trailer
      /\ \A i \in 1..Len(q) : p[i] = q[i]
  OBVIOUS
<1>2. Trailer.stack = "trailer"
  BY DEF Trailer
<1>3. \A i \in 1..Len(q) : (q[i].stack = "header") = (i = 1) /\ (q[i].stack = "trailer") = FALSE
  BY DEF Whole
<1> HIDE DEF p
<1> QED
  BY <1>1, <1>2, <1>3 DEF Whole, p

LEMMA HeaderWhole == Whole(<<Header>>, TRUE) /\ Counts(<<Header>>) = 0 /\ SlotsUsed(<<Header>>) = 5
<1>1. Header \in Record /\ Header.count = 0 /\ Header.stack = "header"
  BY DEF Header, Record
<1>2. <<>> \in Seq(Record) /\ Append(<<>>, Header) = <<Header>>
  BY <1>1
<1>3. Counts(<<Header>>) = 0
  <2>1. Counts(Append(<<>>, Header)) = Counts(<<>>) + Header.count
    BY <1>1, <1>2, CountsAppended
  <2> QED
    BY <1>1, <1>2, <2>1, CountsEmpty
<1>4. Whole(<<Header>>, TRUE)
  BY <1>1 DEF Whole
<1>5. SlotsUsed(<<Header>>) = 5
  <2>1. SlotsUsed(Append(<<>>, Header)) = SlotsUsed(<<>>) + SlotsOf(Header)
    BY <1>1, <1>2, SlotsAppended
  <2>2. SlotsOf(Header) = 5
    BY <1>1 DEF SlotsOf
  <2> QED
    BY <1>2, <2>1, <2>2, SlotsEmpty
<1> QED
  BY <1>3, <1>4, <1>5

LEMMA FileWholeIs == FileWhole <=> Whole(file \o evict, out)
BY DEF FileWhole, Whole

\* What evicting one entry does (profiledata.cc:66-78).
LEMMA Evicted ==
  ASSUME CpuTypes, TableKept, FileWhole, out, NEW e \in Entry, e.count > 0 => e.stack \in Traces, EvictUsed(e)
  PROVE  /\ evict' \in Seq(Record) /\ file' \in Seq(Record) /\ num_evicted_' \in Nat /\ num_evicted_' <= kBufferLength
         /\ num_evicted_' = SlotsUsed(evict') /\ file' \o evict' # <<>> /\ Whole(file' \o evict', TRUE)
         /\ Counts(file' \o evict') = Counts(file \o evict) + e.count
         /\ Counts(file \o evict) \in Nat
<1>0. /\ evict \in Seq(Record) /\ file \in Seq(Record) /\ num_evicted_ \in Nat /\ num_evicted_ <= kBufferLength
      /\ file \o evict \in Seq(Record) /\ file \o evict # <<>> /\ Whole(file \o evict, TRUE) /\ e.count \in Nat
      /\ kBufferLength \in Nat /\ num_evicted_ = SlotsUsed(evict)
  <2>1. /\ evict \in Seq(Record) /\ file \in Seq(Record) /\ num_evicted_ \in Nat /\ num_evicted_ <= kBufferLength
        /\ file \o evict # <<>> /\ num_evicted_ = SlotsUsed(evict)
    BY DEF CpuTypes, TableKept
  <2>2. Whole(file \o evict, TRUE)
    BY FileWholeIs
  <2>3. file \o evict \in Seq(Record)
    BY <2>1
  <2>4. e.count \in Nat
    BY DEF Entry
  <2>5. kBufferLength \in Nat
    BY CpuAssumption
  <2> QED
    BY <2>1, <2>2, <2>3, <2>4, <2>5
<1>1. Counts(file \o evict) \in Nat
  <2>1. Header \in Record
    BY DEF Header, Record
  <2> QED
    BY <1>0, <2>1, CountsAppended
<1>2. CASE e.count > 0
  <2>1. e \in Record /\ e.stack \in Traces
    BY <1>2 DEF Entry, Record
  <2>2. Depth[e.stack] \in Nat /\ Depth[e.stack] + 2 <= kBufferLength
    BY <2>1, CpuAssumption
  <2>3. Evict(e)
    BY <1>2 DEF EvictUsed
  <2>4. file' \o evict' = Append(file \o evict, e) /\ evict' \in Seq(Record) /\ file' \in Seq(Record)
    <3>1. CASE file' = file \o evict /\ evict' = <<e>>
      BY <1>0, <2>1, <3>1, Joined
    <3>2. CASE file' = file /\ evict' = Append(evict, e)
      BY <1>0, <2>1, <3>2, Joined
    <3> QED
      BY <2>3, <3>1, <3>2 DEF Evict
  <2>5. num_evicted_' \in Nat /\ num_evicted_' <= kBufferLength /\ num_evicted_' = SlotsUsed(evict')
    <3>1. PICK n \in Nat : n = Depth[e.stack] + 2 /\ n <= kBufferLength /\ n = SlotsOf(e)
      BY <2>1, <2>2, SlotsType
    <3>2. IF num_evicted_ + n > kBufferLength THEN num_evicted_' = n /\ evict' = <<e>>
                                              ELSE num_evicted_' = num_evicted_ + n /\ evict' = Append(evict, e)
      BY <2>3, <3>1 DEF Evict
    <3>3. num_evicted_ \in Nat /\ kBufferLength \in Nat
      BY <1>0
    <3>4. SlotsUsed(<<e>>) = n
      <4>1. <<>> \in Seq(Record) /\ Append(<<>>, e) = <<e>>
        BY <2>1
      <4>2. SlotsUsed(Append(<<>>, e)) = SlotsUsed(<<>>) + SlotsOf(e)
        BY <2>1, <4>1, SlotsAppended
      <4> QED
        BY <3>1, <4>1, <4>2, SlotsEmpty
    <3>5. SlotsUsed(Append(evict, e)) = num_evicted_ + n
      BY <1>0, <2>1, <3>1, SlotsAppended
    <3>6. CASE num_evicted_ + n > kBufferLength
      <4>1. num_evicted_' = n /\ SlotsUsed(evict') = n
        BY <3>2, <3>4, <3>6
      <4> QED
        BY <3>1, <4>1
    <3>7. CASE ~(num_evicted_ + n > kBufferLength)
      <4>1. num_evicted_' = num_evicted_ + n /\ SlotsUsed(evict') = num_evicted_ + n
        BY <3>2, <3>5, <3>7
      <4> QED
        BY <3>1, <3>3, <3>7, <4>1
    <3> QED
      BY <3>6, <3>7
  <2>6. Whole(Append(file \o evict, e), TRUE) /\ Append(file \o evict, e) # <<>>
    BY <1>0, <2>1, RecordAppended, Joined
  <2>7. Counts(Append(file \o evict, e)) = Counts(file \o evict) + e.count
    BY <1>0, <2>1, CountsAppended
  <2> QED
    BY <1>1, <2>4, <2>5, <2>6, <2>7
<1>3. CASE ~(e.count > 0)
  <2>1. UNCHANGED <<evict, num_evicted_, file>> /\ e.count = 0
    BY <1>0, <1>3 DEF EvictUsed, Buffer
  <2>2. file' \o evict' = file \o evict
    BY <2>1
  <2>3. Counts(file' \o evict') = Counts(file \o evict) + e.count
    BY <1>1, <2>1, <2>2
  <2> QED
    BY <1>0, <1>1, <2>1, <2>2, <2>3
<1> QED
  BY <1>2, <1>3

\* The entry with the lowest count is one of the table.
LEMMA LowestIn == CpuTypes => Lowest \in 1..kAssociativity
<1> SUFFICES ASSUME CpuTypes PROVE Lowest \in 1..kAssociativity
  OBVIOUS
<1>1. \A a \in 1..kAssociativity : hash[a].count \in Nat
  BY DEF CpuTypes, Entry
<1> DEFINE C == {hash[a].count : a \in 1..kAssociativity}
<1>2. C \in SUBSET Nat /\ C # {}
  <2>1. 1 \in 1..kAssociativity
    BY CpuAssumption
  <2>2. hash[1].count \in C
    BY <2>1
  <2> QED
    BY <1>1, <2>2
<1>3. PICK n \in C : \A m \in C : n <= m
  <2> HIDE DEF C
  <2> QED
    BY <1>2, HasLeast
<1> DEFINE A == {a \in 1..kAssociativity : hash[a].count = n}
<1>4. A \in SUBSET Nat /\ A # {}
  OBVIOUS
<1>5. PICK a \in A : \A b \in A : a <= b
  <2> HIDE DEF A
  <2> QED
    BY <1>4, HasLeast
<1>6. a \in 1..kAssociativity /\ hash[a].count = n
  OBVIOUS
<1>7. \A b \in 1..kAssociativity : hash[a].count < hash[b].count \/ (hash[a].count = hash[b].count /\ a <= b)
  <2> SUFFICES ASSUME NEW b \in 1..kAssociativity PROVE hash[a].count < hash[b].count \/ (hash[a].count = hash[b].count /\ a <= b)
    OBVIOUS
  <2>1. n <= hash[b].count
    BY <1>3
  <2>2. hash[b].count = n => a <= b
    BY <1>5
  <2> QED
    BY <1>1, <1>6, <2>1, <2>2
<1> HIDE DEF A, C
<1> QED
  BY <1>6, <1>7 DEF Lowest

-----------------------------------------------------------------------------
(* Steps.                                                                   *)

\* The profiler before the first call (profile-handler.cc:320-384).
LEMMA CpuInitInv == CpuInit => CpuInv
<1> SUFFICES ASSUME CpuInit PROVE CpuInv
  OBVIOUS
<1>0. kAssociativity \in Nat \ {0} /\ kBufferLength \in Nat /\ None \notin Callers
  BY CpuAssumption
<1>1. /\ \A t \in Callers : th[t] = Idle /\ handler[t] = "none"
      /\ DOMAIN th = Callers /\ th = [t \in Callers |-> th[t]] /\ handler \in [Callers -> Handlers]
  BY DEF CpuInit, Handlers
<1>2. Standing(Idle)
  BY <1>0 DEF Standing, Idle, Calls, Pcs, Ctl
<1>3. Idle.call = "none" /\ Idle.pc = "idle" /\ Idle.op = "none" /\ Idle.cb = "prof" /\ ~Idle.blocked /\ Idle.a = 1
  BY DEF Idle
<1>4. EmptyTable \in [1..kAssociativity -> Entry] /\ \A i \in 1..kAssociativity : EmptyTable[i] = Free /\ EmptyTable[i].count = 0
  BY DEF EmptyTable, Free, Entry
<1>5. CpuTypes
  <2>1. /\ lock \in Callers \cup {None} /\ control_lock \in Callers \cup {None} /\ signal_lock \in Callers \cup {None}
        /\ callbacks \subseteq {"prof", "other"} /\ out \in BOOLEAN /\ num_evicted_ \in Nat /\ count \in Nat
    BY DEF CpuInit
  <2>2. hash \in [1..kAssociativity -> Entry]
    BY <1>4 DEF CpuInit
  <2>3. evict \in Seq(Record) /\ file \in Seq(Record)
    BY DEF CpuInit
  <2>4. \A t \in Callers : Standing(th[t])
    BY <1>1, <1>2
  <2> QED
    BY <1>1, <2>1, <2>2, <2>3, <2>4 DEF CpuTypes
<1>6. LocksHeld
  BY <1>0, <1>1, <1>3 DEF CpuInit, LocksHeld
<1>7. "none" \notin Traces
  BY CpuAssumption
<1>8. CallbackThere /\ OtherThere
  BY <1>1, <1>3, <1>7 DEF CpuInit, CallbackThere, OtherThere, Away, Samples
<1>9. TimerTrue
  BY FS_EmptySet DEF CpuInit, TimerTrue
<1>10. TableKept
  BY <1>0, <1>1, <1>3, <1>4, SlotsEmpty DEF CpuInit, TableKept
<1>11. file \o evict = <<>>
  BY DEF CpuInit
<1>12. FileWhole
  BY <1>11 DEF FileWhole
<1>13. CountsKept
  <2>1. \A i \in 1..kAssociativity : Waiting[i] = 0
    BY <1>0, <1>1, <1>3, <1>4 DEF Waiting, CpuInit
  <2>2. DOMAIN Waiting = 1..kAssociativity
    BY DEF Waiting
  <2>3. Sum(Waiting) = 0
    BY <1>0, <2>1, <2>2, SumZero
  <2>4. Counts(file \o evict) = 0
    BY <1>11, CountsEmpty
  <2>5. count = 0
    BY DEF CpuInit
  <2>6. ~\E t \in Callers : handler[t] \in Traces
    BY <1>1, <1>7
  <2> QED
    BY <2>3, <2>4, <2>5, <2>6 DEF CountsKept
<1> QED
  BY <1>5, <1>6, <1>8, <1>9, <1>10, <1>12, <1>13 DEF CpuInv

\* A thread goes to another place.
LEMMA Goes ==
  ASSUME CpuTypes, NEW t \in Callers, NEW y, Go(t, y)
  PROVE  /\ DOMAIN th' = Callers /\ th' = [u \in Callers |-> th'[u]] /\ th'[t] = y
         /\ \A u \in Callers \ {t} : th'[u] = th[u]
BY DEF CpuTypes, Go

\* A step of a call that leaves the data alone.
LEMMA DataSame ==
  ASSUME CpuInv, UNCHANGED DataVars, UNCHANGED handler,
         \A t \in Callers : th'[t].a = th[t].a /\ (th'[t].pc = "flush" => th[t].pc = "flush" \/ th[t].a = 1)
  PROVE  TableKept' /\ FileWhole' /\ CountsKept'
<1>0. UNCHANGED <<out, hash, evict, num_evicted_, file, count, handler>>
  BY DEF DataVars, Buffer
<1>1. \A t \in Callers : th[t].a = 1 \/ th[t].pc = "flush" \/ th[t].pc = "close"
  BY DEF CpuInv, CpuTypes, Standing
<1>2. TableKept'
  BY <1>0, <1>1 DEF CpuInv, TableKept, EmptyTable
<1>3. FileWhole'
  BY <1>0 DEF CpuInv, FileWhole
<1>4. Waiting' = Waiting
  BY <1>0 DEF Waiting
<1>5. Lowest' = Lowest
  BY <1>0 DEF Lowest
<1>6. CountsKept'
  BY <1>0, <1>4, <1>5 DEF CpuInv, CountsKept, Sum, Counts
<1> QED
  BY <1>2, <1>3, <1>6

\* The types after a step of a call that leaves the data and the handlers alone.
LEMMA TypesSame ==
  ASSUME CpuTypes, NEW t \in Callers, NEW y, Go(t, y), Standing(y), UNCHANGED <<DataVars, handler>>,
         lock' \in Callers \cup {None}, control_lock' \in Callers \cup {None}, signal_lock' \in Callers \cup {None},
         callbacks' \subseteq {"prof", "other"}
  PROVE  CpuTypes'
<1>1. /\ DOMAIN th' = Callers /\ th' = [u \in Callers |-> th'[u]] /\ th'[t] = y
      /\ \A u \in Callers \ {t} : th'[u] = th[u]
  BY Goes
<1>2. \A u \in Callers : Standing(th[u])
  BY DEF CpuTypes
<1>3. \A u \in Callers : Standing(th'[u])
  BY <1>1, <1>2
<1>4. /\ out' \in BOOLEAN /\ hash' \in [1..kAssociativity -> Entry] /\ evict' \in Seq(Record) /\ file' \in Seq(Record)
      /\ num_evicted_' \in Nat /\ count' \in Nat /\ handler' \in [Callers -> Handlers]
  <2>1. UNCHANGED <<out, hash, evict, num_evicted_, file, count, handler>>
    BY DEF DataVars, Buffer
  <2> QED
    BY <2>1 DEF CpuTypes
<1> HIDE DEF Standing
<1> QED
  BY <1>1, <1>3, <1>4 DEF CpuTypes

\* A call begins.
LEMMA CallKeeps == ASSUME CpuInv, NEW t \in Callers, Call(t) PROVE CpuInv'
<1>0. CpuTypes /\ LocksHeld /\ CallbackThere /\ OtherThere /\ TimerTrue /\ None \notin Callers
  BY CpuAssumption DEF CpuInv
<1>1. /\ th[t].pc = "idle" /\ handler[t] = "none" /\ Standing(th[t])
      /\ UNCHANGED <<lock, control_lock, signal_lock, callbacks, callback_count, timer_running, handler>> /\ UNCHANGED DataVars
  BY <1>0 DEF Call, At, CpuTypes, Locks, HandlerVars
<1>2. PICK y : Go(t, y) /\ Standing(y) /\ ~y.blocked /\ y.a = 1 /\
        \/ y.pc = "lock" /\ y.call \in {"Start", "Stop", "Flush"} /\ y.op = "none" /\ y.cb = "prof"
        \/ /\ y.pc = "control" /\ y.call = "Other" /\ y.cb = "other" /\ \A u \in Callers : th[u].call # "Other"
           /\ y.op = IF "other" \in callbacks THEN "unregister" ELSE "register"
        \/ y.pc = "control" /\ y.call = "Thread" /\ y.op = "thread" /\ y.cb = "prof"
  <2>1. CASE \E c \in {"Start", "Stop", "Flush"} : Go(t, [th[t] EXCEPT !.call = c, !.pc = "lock"])
    <3>1. PICK c \in {"Start", "Stop", "Flush"} : Go(t, [th[t] EXCEPT !.call = c, !.pc = "lock"])
      BY <2>1
    <3> WITNESS [th[t] EXCEPT !.call = c, !.pc = "lock"]
    <3> QED
      BY <1>1, <3>1 DEF Standing, Calls, Pcs, Ctl
  <2>2. CASE /\ \A u \in Callers : th[u].call # "Other"
             /\ Go(t, [th[t] EXCEPT !.call = "Other", !.pc = "control", !.cb = "other",
                                    !.op = IF "other" \in callbacks THEN "unregister" ELSE "register"])
    <3> WITNESS [th[t] EXCEPT !.call = "Other", !.pc = "control", !.cb = "other",
                              !.op = IF "other" \in callbacks THEN "unregister" ELSE "register"]
    <3> QED
      BY <1>1, <2>2 DEF Standing, Calls, Pcs, Ctl
  <2>3. CASE Go(t, [th[t] EXCEPT !.call = "Thread", !.pc = "control", !.op = "thread"])
    <3> WITNESS [th[t] EXCEPT !.call = "Thread", !.pc = "control", !.op = "thread"]
    <3> QED
      BY <1>1, <2>3 DEF Standing, Calls, Pcs, Ctl
  <2> QED
    BY <2>1, <2>2, <2>3 DEF Call
<1>3. th'[t] = y /\ \A u \in Callers \ {t} : th'[u] = th[u]
  BY <1>0, <1>2, Goes
<1>4. CpuTypes'
  BY <1>0, <1>1, <1>2, TypesSame DEF CpuTypes
<1>5. th[t].call = "none" /\ th[t].op = "none" /\ ~th[t].blocked /\ th[t].a = 1
  BY <1>1 DEF Standing, Ctl
<1>6. LocksHeld'
  BY <1>0, <1>1, <1>2, <1>3, <1>5 DEF LocksHeld
<1>7. CallbackThere'
  BY <1>0, <1>1, <1>2, <1>3, <1>5 DEF CallbackThere, Away, Samples, DataVars
<1>8. OtherThere'
  BY <1>0, <1>1, <1>2, <1>3, <1>5 DEF OtherThere
<1>9. TimerTrue'
  BY <1>0, <1>1 DEF TimerTrue
<1>10. TableKept' /\ FileWhole' /\ CountsKept'
  BY <1>1, <1>2, <1>3, <1>5, DataSame
<1> QED
  BY <1>4, <1>6, <1>7, <1>8, <1>9, <1>10 DEF CpuInv

\* What holds of a thread at a place of its call.
LEMMA AtPlace ==
  ASSUME CpuInv, NEW t \in Callers, NEW p, At(t, p)
  PROVE  /\ th[t].pc = p /\ handler[t] = "none" /\ Standing(th[t])
         /\ CpuTypes /\ LocksHeld /\ CallbackThere /\ OtherThere /\ TimerTrue /\ None \notin Callers
BY CpuAssumption DEF CpuInv, CpuTypes, At

\* lock_ is taken, if the call has something to do.
LEMMA LockKeeps == ASSUME CpuInv, NEW t \in Callers, Lock(t) PROVE CpuInv'
<1>1. /\ th[t].pc = "lock" /\ handler[t] = "none" /\ Standing(th[t])
      /\ CpuTypes /\ LocksHeld /\ CallbackThere /\ OtherThere /\ TimerTrue /\ None \notin Callers
  BY AtPlace DEF Lock
<1>2. /\ UNCHANGED <<control_lock, signal_lock, callbacks, callback_count, timer_running, handler>> /\ UNCHANGED DataVars
      /\ lock = None /\ lock' = t
  BY DEF Lock, HandlerVars
<1>3. PICK y : Go(t, y) /\ Standing(y) /\ ~y.blocked /\ y.a = 1 /\ y.call = th[t].call /\ y.cb = "prof" /\
        \/ y.pc = "unlock" /\ y.op = "none"
        \/ y.pc = "open" /\ y.op = "none" /\ ~out
        \/ y.pc = "control" /\ y.op = "unregister" /\ out
  <2>1. CASE Go(t, [th[t] EXCEPT !.pc = "unlock"])
    <3> WITNESS [th[t] EXCEPT !.pc = "unlock"]
    <3> QED
      BY <1>1, <2>1 DEF Standing, Calls, Pcs, Ctl
  <2>2. CASE th[t].call = "Start" /\ ~out /\ Go(t, [th[t] EXCEPT !.pc = "open"])
    <3> WITNESS [th[t] EXCEPT !.pc = "open"]
    <3> QED
      BY <1>1, <2>2 DEF Standing, Calls, Pcs, Ctl
  <2>3. CASE th[t].call # "Start" /\ out /\ Go(t, [th[t] EXCEPT !.pc = "control", !.op = "unregister"])
    <3> WITNESS [th[t] EXCEPT !.pc = "control", !.op = "unregister"]
    <3> QED
      BY <1>1, <2>3 DEF Standing, Calls, Pcs, Ctl
  <2> QED
    BY <2>1, <2>2, <2>3 DEF Lock
<1>4. th'[t] = y /\ \A u \in Callers \ {t} : th'[u] = th[u]
  BY <1>1, <1>3, Goes
<1>5. th[t].call \in {"Start", "Stop", "Flush"} /\ th[t].op = "none" /\ ~th[t].blocked /\ th[t].a = 1
  BY <1>1 DEF Standing, Ctl
<1>6. CpuTypes'
  BY <1>1, <1>2, <1>3, TypesSame DEF CpuTypes
<1>7. LocksHeld'
  BY <1>1, <1>2, <1>3, <1>4, <1>5 DEF LocksHeld
<1>8. CallbackThere'
  BY <1>1, <1>2, <1>3, <1>4, <1>5 DEF CallbackThere, Away, Samples, DataVars
<1>9. OtherThere'
  BY <1>1, <1>2, <1>3, <1>4, <1>5 DEF OtherThere
<1>10. TimerTrue'
  BY <1>1, <1>2 DEF TimerTrue
<1>11. TableKept' /\ FileWhole' /\ CountsKept'
  BY <1>1, <1>2, <1>3, <1>4, <1>5, DataSame
<1> QED
  BY <1>6, <1>7, <1>8, <1>9, <1>10, <1>11 DEF CpuInv

\* Locks of the handler are taken and the signal is blocked.
LEMMA LocksKeep ==
  ASSUME CpuInv, NEW t \in Callers, Control(t) \/ Block(t) \/ SignalLock(t)
  PROVE  CpuInv'
<1>1. /\ handler[t] = "none" /\ Standing(th[t]) /\ None \notin Callers
      /\ CpuTypes /\ LocksHeld /\ CallbackThere /\ OtherThere /\ TimerTrue
  BY AtPlace DEF Control, Block, SignalLock
<1>2. /\ UNCHANGED <<lock, callbacks, callback_count, timer_running, handler>> /\ UNCHANGED DataVars
  BY DEF Control, Block, SignalLock, HandlerVars, Locks
<1>3. PICK y : Go(t, y) /\ Standing(y) /\ y.a = 1 /\ y.call = th[t].call /\ y.cb = th[t].cb /\ y.op = th[t].op /\
        \/ /\ th[t].pc = "control" /\ y.pc = "block" /\ ~y.blocked
           /\ control_lock = None /\ control_lock' = t /\ signal_lock' = signal_lock
        \/ /\ th[t].pc = "block" /\ y.pc = "signal" /\ UNCHANGED <<control_lock, signal_lock>>
        \/ /\ th[t].pc = "signal" /\ y.pc = "update"
           /\ signal_lock = None /\ signal_lock' = t /\ control_lock' = control_lock
  <2>1. CASE Control(t)
    <3> WITNESS [th[t] EXCEPT !.pc = "block"]
    <3> QED
      BY <1>1, <2>1 DEF Control, At, Standing, Calls, Pcs, Ctl
  <2>2. CASE Block(t)
    <3> WITNESS [th[t] EXCEPT !.pc = "signal", !.blocked = TRUE]
    <3> QED
      BY <1>1, <2>2 DEF Block, At, Locks, Standing, Calls, Pcs, Ctl
  <2>3. CASE SignalLock(t)
    <3> WITNESS [th[t] EXCEPT !.pc = "update"]
    <3> QED
      BY <1>1, <2>3 DEF SignalLock, At, Standing, Calls, Pcs, Ctl
  <2> QED
    BY <2>1, <2>2, <2>3
<1>4. th'[t] = y /\ \A u \in Callers \ {t} : th'[u] = th[u]
  BY <1>1, <1>3, Goes
<1>5. th[t].a = 1
  BY <1>1, <1>3 DEF Standing
<1>6. CpuTypes'
  BY <1>1, <1>2, <1>3, TypesSame DEF CpuTypes
<1>7. LocksHeld'
  BY <1>1, <1>2, <1>3, <1>4, <1>5 DEF LocksHeld
<1>8. CallbackThere'
  BY <1>1, <1>2, <1>3, <1>4, <1>5 DEF CallbackThere, Away, Samples, DataVars
<1>9. OtherThere'
  BY <1>1, <1>2, <1>3, <1>4, <1>5 DEF OtherThere
<1>10. TimerTrue'
  BY <1>1, <1>2 DEF TimerTrue
<1>11. TableKept' /\ FileWhole' /\ CountsKept'
  BY <1>1, <1>2, <1>3, <1>4, <1>5, DataSame
<1> QED
  BY <1>6, <1>7, <1>8, <1>9, <1>10, <1>11 DEF CpuInv

\* lock_ is released.
LEMMA UnlockKeeps == ASSUME CpuInv, NEW t \in Callers, Unlock(t) PROVE CpuInv'
<1>1. /\ th[t].pc = "unlock" /\ handler[t] = "none" /\ Standing(th[t])
      /\ CpuTypes /\ LocksHeld /\ CallbackThere /\ OtherThere /\ TimerTrue /\ None \notin Callers
  BY AtPlace DEF Unlock
<1>2. /\ UNCHANGED <<control_lock, signal_lock, callbacks, callback_count, timer_running, handler>> /\ UNCHANGED DataVars
      /\ lock' = None /\ Go(t, Idle)
  BY DEF Unlock, HandlerVars
<1>3. /\ Idle.call = "none" /\ Idle.pc = "idle" /\ Idle.op = "none" /\ Idle.cb = "prof" /\ ~Idle.blocked /\ Idle.a = 1
      /\ Standing(Idle)
  BY CpuAssumption DEF Idle, Standing, Calls, Pcs, Ctl
<1>4. th'[t] = Idle /\ \A u \in Callers \ {t} : th'[u] = th[u]
  BY <1>1, <1>2, Goes
<1>5. th[t].call \in {"Start", "Stop", "Flush"} /\ th[t].op = "none" /\ ~th[t].blocked /\ th[t].a = 1
  BY <1>1 DEF Standing, Ctl
<1>6. CpuTypes'
  BY <1>1, <1>2, <1>3, TypesSame DEF CpuTypes
<1>7. LocksHeld'
  BY <1>1, <1>2, <1>3, <1>4, <1>5 DEF LocksHeld
<1>8. CallbackThere'
  BY <1>1, <1>2, <1>3, <1>4, <1>5 DEF CallbackThere, Away, Samples, DataVars
<1>9. OtherThere'
  BY <1>1, <1>2, <1>3, <1>4, <1>5 DEF OtherThere
<1>10. TimerTrue'
  BY <1>1, <1>2 DEF TimerTrue
<1>11. TableKept' /\ FileWhole' /\ CountsKept'
  BY <1>1, <1>2, <1>3, <1>4, <1>5, DataSame
<1> QED
  BY <1>6, <1>7, <1>8, <1>9, <1>10, <1>11 DEF CpuInv

\* Open: GetState, and the file is opened or not (profiler.cc:214-237).
LEMMA OpenKeeps == ASSUME CpuInv, NEW t \in Callers, Open(t) PROVE CpuInv'
<1>1. /\ th[t].pc = "open" /\ handler[t] = "none" /\ Standing(th[t])
      /\ CpuTypes /\ LocksHeld /\ CallbackThere /\ OtherThere /\ TimerTrue /\ None \notin Callers
  BY AtPlace DEF Open
<1>2. UNCHANGED <<lock, control_lock, signal_lock, callbacks, callback_count, timer_running, handler>>
  BY DEF Open, Locks, HandlerVars
<1>3. th[t].call = "Start" /\ th[t].op = "none" /\ th[t].cb = "prof" /\ ~th[t].blocked /\ th[t].a = 1 /\ ~out
  BY <1>1 DEF Standing, Ctl, CallbackThere
<1>4. PICK y : Go(t, y) /\ Standing(y) /\ ~y.blocked /\ y.a = 1 /\ y.call = "Start" /\ y.cb = "prof" /\
        \/ y.pc = "control" /\ y.op = "register" /\ StartData
        \/ y.pc = "unlock" /\ y.op = "none" /\ UNCHANGED DataVars
  <2>1. CASE StartData /\ Go(t, [th[t] EXCEPT !.pc = "control", !.op = "register"])
    <3> WITNESS [th[t] EXCEPT !.pc = "control", !.op = "register"]
    <3> QED
      BY <1>1, <1>3, <2>1 DEF Standing, Calls, Pcs, Ctl
  <2>2. CASE UNCHANGED DataVars /\ Go(t, [th[t] EXCEPT !.pc = "unlock"])
    <3> WITNESS [th[t] EXCEPT !.pc = "unlock"]
    <3> QED
      BY <1>1, <1>3, <2>2 DEF Standing, Calls, Pcs, Ctl
  <2> QED
    BY <2>1, <2>2 DEF Open
<1>5. /\ th'[t] = y /\ (\A u \in Callers \ {t} : th'[u] = th[u]) /\ DOMAIN th' = Callers
      /\ th' = [u \in Callers |-> th'[u]]
  BY <1>1, <1>4, Goes
<1>6. LocksHeld'
  BY <1>1, <1>2, <1>3, <1>4, <1>5 DEF LocksHeld
<1>7. CallbackThere'
  <2>1. \A u \in Callers : th[u].pc = "open" => u = t
    <3>1. \A u \in Callers : th[u].pc = "open" => th[u].call = "Start"
      BY <1>1 DEF CpuTypes, Standing
    <3> QED
      BY <1>1, <1>3, <3>1 DEF LocksHeld
  <2>2. \/ out' = TRUE /\ y.op = "register" /\ y.pc = "control"
        \/ out' = out /\ y.op = "none" /\ y.pc = "unlock"
    BY <1>4 DEF StartData, DataVars
  <2>3. /\ ("prof" \in callbacks <=> out /\ \A u \in Callers : ~Away(th[u]))
        /\ \A u \in Callers : /\ Away(th[u]) => out
                              /\ th[u].op = "unregister" /\ th[u].cb = "prof" => out
                              /\ Samples(u) => "prof" \in callbacks
    BY <1>1 DEF CallbackThere
  <2>4. \A u \in Callers \ {t} : ~Away(th'[u])
    BY <1>3, <1>5, <2>3
  <2>5. Away(th'[t]) <=> out'
    BY <1>3, <1>4, <1>5, <2>2 DEF Away
  <2>6. ("prof" \in callbacks')  <=> out' /\ \A u \in Callers : ~Away(th'[u])
    BY <1>2, <1>3, <2>3, <2>5
  <2>7. \A u \in Callers : ~Samples(u)'
    BY <1>2, <1>3, <2>3 DEF Samples
  <2>8. \A u \in Callers : /\ Away(th'[u]) => out'
                           /\ th'[u].op = "unregister" /\ th'[u].cb = "prof" => out'
                           /\ th'[u].pc = "open" => ~out'
    <3> SUFFICES ASSUME NEW u \in Callers
                 PROVE  /\ Away(th'[u]) => out'
                        /\ th'[u].op = "unregister" /\ th'[u].cb = "prof" => out'
                        /\ th'[u].pc = "open" => ~out'
      OBVIOUS
    <3>1. CASE u = t
      BY <1>5, <2>2, <2>5, <3>1
    <3>2. CASE u # t
      BY <1>3, <1>5, <2>1, <2>3, <2>4, <3>2
    <3> QED
      BY <3>1, <3>2
  <2> QED
    BY <2>6, <2>7, <2>8 DEF CallbackThere
<1>8. OtherThere'
  BY <1>1, <1>2, <1>3, <1>4, <1>5 DEF OtherThere
<1>9. TimerTrue'
  BY <1>1, <1>2 DEF TimerTrue
<1>10. CASE UNCHANGED DataVars
  <2>1. CpuTypes'
    BY <1>1, <1>2, <1>4, <1>10, TypesSame DEF CpuTypes
  <2>2. TableKept' /\ FileWhole' /\ CountsKept'
    BY <1>2, <1>3, <1>4, <1>5, <1>10, DataSame
  <2> QED
    BY <1>6, <1>7, <1>8, <1>9, <2>1, <2>2 DEF CpuInv
<1>11. CASE StartData
  <2>1. /\ out' = TRUE /\ hash' = EmptyTable /\ file' = <<>> /\ count' = 0
        /\ evict' = <<Header>> /\ num_evicted_' = 5
    BY <1>11 DEF StartData
  <2>2. /\ EmptyTable \in [1..kAssociativity -> Entry]
        /\ \A i \in 1..kAssociativity : EmptyTable[i] = Free /\ EmptyTable[i].count = 0
    BY DEF EmptyTable, Free, Entry
  <2>3. Header \in Record /\ <<>> \in Seq(Record) /\ <<Header>> \in Seq(Record)
    BY DEF Header, Record
  <2>4. file' \o evict' = <<Header>> /\ <<Header>> # <<>>
    BY <2>1, <2>3
  <2>5. CpuTypes'
    <3>1. \A u \in Callers : Standing(th'[u])
      BY <1>1, <1>4, <1>5 DEF CpuTypes
    <3>2. /\ out' \in BOOLEAN /\ hash' \in [1..kAssociativity -> Entry] /\ evict' \in Seq(Record) /\ file' \in Seq(Record)
          /\ num_evicted_' \in Nat /\ count' \in Nat
      BY <2>1, <2>2, <2>3
    <3> HIDE DEF Standing
    <3> QED
      BY <1>1, <1>2, <1>5, <3>1, <3>2 DEF CpuTypes
  <2>6. TableKept'
    <3>1. kBufferLength \in Nat /\ kBufferLength >= 5
      BY CpuAssumption
    <3> QED
      BY <2>1, <2>2, <2>4, <3>1, HeaderWhole DEF TableKept
  <2>7. FileWhole'
    <3>1. Whole(<<Header>>, TRUE)
      BY HeaderWhole
    <3> QED
      BY <2>1, <2>4, <3>1 DEF FileWhole, Whole
  <2>8. CountsKept'
    <3>1. kAssociativity \in Nat /\ \A i \in 1..kAssociativity : Waiting'[i] = 0
      BY <2>1, <2>2, CpuAssumption DEF Waiting
    <3>2. DOMAIN Waiting' = 1..kAssociativity
      BY DEF Waiting
    <3>3. Sum(Waiting') = 0
      BY <3>1, <3>2, SumZero
    <3>4. Counts(file' \o evict') = 0
      BY <2>4, HeaderWhole
    <3>5. ~\E u \in Callers : handler'[u] \in Traces
      BY <1>1, <1>2, <1>3 DEF CallbackThere, Samples
    <3> QED
      BY <2>1, <3>3, <3>4, <3>5 DEF CountsKept
  <2> QED
    BY <1>6, <1>7, <1>8, <1>9, <2>5, <2>6, <2>7, <2>8 DEF CpuInv
<1> QED
  BY <1>4, <1>10, <1>11

\* The thread that holds lock_.
LEMMA Holders ==
  ASSUME CpuTypes, LocksHeld, None \notin Callers
  PROVE  \A u \in Callers : th[u].pc \in {"flush", "close"} \/ Away(th[u]) \/ (th[u].op = "unregister" /\ th[u].cb = "prof") \/ th[u].a # 1
                              => lock = u
<1> SUFFICES ASSUME NEW u \in Callers,
                    th[u].pc \in {"flush", "close"} \/ Away(th[u]) \/ (th[u].op = "unregister" /\ th[u].cb = "prof") \/ th[u].a # 1
             PROVE  lock = u
  OBVIOUS
<1>1. Standing(th[u])
  BY DEF CpuTypes
<1>2. th[u].call \in {"Start", "Stop", "Flush"} /\ th[u].pc # "lock"
  BY <1>1 DEF Standing, Away, Ctl
<1> QED
  BY <1>2 DEF LocksHeld

\* Callbacks come and go and the timer with them (profile-handler.cc:386-471).
LEMMA UpdateKeeps == ASSUME CpuInv, NEW t \in Callers, Update(t) PROVE CpuInv'
<1>1. /\ th[t].pc = "update" /\ handler[t] = "none" /\ Standing(th[t])
      /\ CpuTypes /\ LocksHeld /\ CallbackThere /\ OtherThere /\ TimerTrue /\ None \notin Callers
  BY AtPlace DEF Update
<1>2. /\ UNCHANGED <<lock, handler>> /\ UNCHANGED DataVars /\ signal_lock' = None /\ control_lock' = None /\ Callbacks(th[t])
  BY DEF Update
<1>3. PICK y : Go(t, y) /\ Standing(y) /\ ~y.blocked /\ y.a = 1 /\ y.op = "none" /\ y.cb = "prof" /\
        \/ th[t].call \in {"Other", "Thread"} /\ y.call = "none" /\ y.pc = "idle"
        \/ /\ th[t].call \in {"Start", "Stop", "Flush"} /\ y.call = th[t].call /\ th[t].cb = "prof"
           /\ \/ th[t].call \in {"Stop", "Flush"} /\ th[t].op = "unregister" /\ y.pc \in {"flush", "close"}
              \/ th[t].call \in {"Start", "Flush"} /\ th[t].op = "register" /\ y.pc = "unlock"
  <2>1. CASE th[t].call \in {"Other", "Thread"}
    <3>1. Go(t, Idle)
      BY <2>1 DEF Update
    <3> WITNESS Idle
    <3> QED
      BY <2>1, <3>1, CpuAssumption DEF Idle, Standing, Calls, Pcs, Ctl
  <2>2. CASE th[t].call \notin {"Other", "Thread"}
    <3>1. Go(t, [th[t] EXCEPT !.blocked = FALSE, !.op = "none", !.pc = Then(th[t])])
      BY <2>2 DEF Update
    <3>2. /\ th[t].call \in {"Start", "Stop", "Flush"} /\ th[t].cb = "prof"
          /\ \/ th[t].call = "Stop" /\ th[t].op = "unregister" /\ Then(th[t]) = "close"
             \/ th[t].call = "Flush" /\ th[t].op = "unregister" /\ Then(th[t]) = "flush"
             \/ th[t].call \in {"Start", "Flush"} /\ th[t].op = "register" /\ Then(th[t]) = "unlock"
      BY <1>1, <2>2 DEF Standing, Ctl, Then
    <3>3. th[t].a = 1
      BY <1>1 DEF Standing
    <3> WITNESS [th[t] EXCEPT !.blocked = FALSE, !.op = "none", !.pc = Then(th[t])]
    <3> QED
      BY <1>1, <2>2, <3>1, <3>2, <3>3 DEF Standing, Calls, Pcs, Ctl
  <2> QED
    BY <2>1, <2>2
<1>4. th'[t] = y /\ \A u \in Callers \ {t} : th'[u] = th[u]
  BY <1>1, <1>3, Goes
<1>5. /\ th[t].a = 1 /\ th[t].blocked /\ signal_lock = t /\ control_lock = t
      /\ th[t].call \in {"Start", "Stop", "Flush", "Other", "Thread"}
      /\ th[t].call \in {"Start", "Stop", "Flush"} => th[t].cb = "prof" /\ lock = t
      /\ th[t].call = "Other" => th[t].cb = "other" /\ th[t].op \in {"register", "unregister"}
      /\ th[t].call = "Thread" => th[t].op = "thread"
      /\ th[t].op = "register" => th[t].cb = "prof" \/ th[t].call = "Other"
  BY <1>1 DEF Standing, Ctl, LocksHeld
<1>6. \A u \in Callers : ~Samples(u)
  <2>1. \A u \in Callers : Samples(u) => handler[u] \notin {"none", "wait"}
    BY CpuAssumption DEF Samples
  <2> QED
    BY <1>1, <1>5, <2>1 DEF LocksHeld
<1>7. /\ th[t].op = "register" => th[t].cb \notin callbacks /\ th[t].cb \in {"prof", "other"}
      /\ th[t].op = "unregister" => th[t].cb \in callbacks
  <2>1. CASE th[t].call = "Other"
    BY <1>1, <1>5, <2>1 DEF OtherThere
  <2>2. CASE th[t].call = "Thread"
    BY <1>5, <2>2
  <2>3. CASE th[t].call \in {"Start", "Stop", "Flush"}
    <3>1. th[t].cb = "prof" /\ lock = t
      BY <1>5, <2>3
    <3>2. th[t].op = "register" => Away(th[t])
      BY <3>1 DEF Away
    <3>3. th[t].op = "unregister" => out /\ ~Away(th[t])
      BY <1>1, <3>1 DEF Away, CallbackThere
    <3>4. \A u \in Callers : Away(th[u]) => u = t
      BY <1>1, <3>1, Holders
    <3> QED
      BY <1>1, <3>1, <3>2, <3>3, <3>4 DEF CallbackThere
  <2> QED
    BY <1>5, <2>1, <2>2, <2>3
<1>8. \/ th[t].op = "register" /\ callbacks' = callbacks \cup {th[t].cb}
      \/ th[t].op = "unregister" /\ callbacks' = callbacks \ {th[t].cb}
      \/ th[t].op = "thread" /\ callbacks' = callbacks
  BY <1>2 DEF Callbacks
<1>9. callbacks \subseteq {"prof", "other"} /\ callbacks' \subseteq {"prof", "other"}
  BY <1>1, <1>7, <1>8 DEF CpuTypes
<1>10. CpuTypes'
  BY <1>1, <1>2, <1>3, <1>9, TypesSame DEF CpuTypes
<1>11. LocksHeld'
  BY <1>1, <1>2, <1>3, <1>4, <1>5 DEF LocksHeld
<1>12. CallbackThere'
  <2>1. /\ ("prof" \in callbacks <=> out /\ \A u \in Callers : ~Away(th[u]))
        /\ \A u \in Callers : /\ Away(th[u]) => out
                              /\ th[u].op = "unregister" /\ th[u].cb = "prof" => out
                              /\ th[u].pc = "open" => ~out
    BY <1>1 DEF CallbackThere
  <2>2. out' = out /\ handler' = handler
    BY <1>2 DEF DataVars
  <2>3. \A u \in Callers : ~Samples(u)'
    BY <1>6, <2>2 DEF Samples
  <2>4. Away(y) <=> y.pc \in {"flush", "close"}
    BY <1>3 DEF Away
  <2>5. CASE th[t].call \in {"Other", "Thread"}
    <3>1. ~Away(th[t]) /\ ~Away(y) /\ y.pc = "idle"
      BY <1>1, <1>3, <1>5, <2>4, <2>5 DEF Away
    <3>2. "prof" \in callbacks' <=> "prof" \in callbacks
      BY <1>5, <1>8, <2>5
    <3>3. \A u \in Callers : Away(th'[u]) <=> Away(th[u])
      BY <1>4, <3>1
    <3>4. \A u \in Callers : /\ th'[u].op = "unregister" /\ th'[u].cb = "prof" => out
                             /\ th'[u].pc = "open" => ~out
      BY <1>3, <1>4, <2>1, <3>1
    <3> QED
      BY <2>1, <2>2, <2>3, <3>2, <3>3, <3>4 DEF CallbackThere
  <2>6. CASE th[t].call \in {"Start", "Stop", "Flush"}
    <3>1. th[t].cb = "prof" /\ lock = t
      BY <1>5, <2>6
    <3>2. \A u \in Callers \ {t} : ~Away(th[u])
      BY <1>1, <3>1, Holders
    <3>3. out
      BY <1>3, <2>1, <2>6, <3>1 DEF Away
    <3>4. "prof" \in callbacks' <=> ~Away(y)
      BY <1>3, <1>8, <2>4, <2>6, <3>1
    <3>5. \A u \in Callers : th'[u].pc # "open"
      BY <1>3, <1>4, <2>1, <2>6, <3>3
    <3> QED
      BY <1>4, <2>2, <2>3, <3>2, <3>3, <3>4, <3>5 DEF CallbackThere
  <2> QED
    BY <1>5, <2>5, <2>6
<1>13. OtherThere'
  <2>1. \A u \in Callers \ {t} : th[u].call = "Other" => ("other" \in callbacks' <=> "other" \in callbacks)
    BY <1>1, <1>3, <1>5, <1>8 DEF OtherThere
  <2>2. y.call # "Other"
    BY <1>3
  <2> QED
    BY <1>1, <1>4, <2>1, <2>2 DEF OtherThere
<1>14. TimerTrue'
  <2>1. IsFiniteSet(callbacks) /\ callback_count = Cardinality(callbacks) /\ Cardinality(callbacks) \in Nat
        /\ timer_running = (callbacks # {})
    <3>1. IsFiniteSet({"prof"}) /\ {"prof", "other"} = {"prof"} \cup {"other"}
      BY FS_Singleton
    <3>2. IsFiniteSet({"prof", "other"})
      BY <3>1, FS_AddElement
    <3>3. IsFiniteSet(callbacks)
      BY <1>9, <3>2, FS_Subset
    <3> QED
      BY <1>1, <3>3, FS_CardinalityType DEF TimerTrue
  <2>2. CASE th[t].op = "register"
    <3>1. Cardinality(callbacks \cup {th[t].cb}) = Cardinality(callbacks) + 1
      BY <1>7, <2>1, <2>2, FS_AddElement
    <3>2. callbacks' = callbacks \cup {th[t].cb} /\ callback_count' = callback_count + 1 /\ timer_running' = TRUE
      BY <1>2, <2>2 DEF Callbacks
    <3> QED
      BY <2>1, <3>1, <3>2 DEF TimerTrue
  <2>3. CASE th[t].op = "unregister"
    <3>1. /\ IsFiniteSet(callbacks \ {th[t].cb})
          /\ Cardinality(callbacks \ {th[t].cb}) = Cardinality(callbacks) - 1
      BY <1>7, <2>1, <2>3, FS_RemoveElement
    <3>2. /\ callbacks' = callbacks \ {th[t].cb} /\ callback_count' = callback_count - 1
          /\ timer_running' = (timer_running /\ callback_count' > 0)
      BY <1>2, <2>3 DEF Callbacks
    <3>3. callback_count' = Cardinality(callbacks')
      BY <2>1, <3>1, <3>2
    <3>4. Cardinality(callbacks') \in Nat /\ (Cardinality(callbacks') = 0 <=> callbacks' = {})
      BY <3>1, <3>2, FS_EmptySet, FS_CardinalityType
    <3>5. timer_running = TRUE
      BY <1>7, <2>1, <2>3
    <3>6. timer_running' = (callback_count' > 0)
      BY <3>2, <3>5
    <3>7. (callback_count' > 0) <=> callbacks' # {}
      BY <3>3, <3>4
    <3>8. timer_running' = (callbacks' # {})
      BY <3>6, <3>7
    <3> QED
      BY <3>3, <3>8 DEF TimerTrue
  <2>4. CASE th[t].op = "thread"
    <3>1. /\ callbacks' = callbacks /\ callback_count' = callback_count /\ timer_running' = (callback_count > 0)
      BY <1>2, <2>4 DEF Callbacks
    <3>2. Cardinality(callbacks) = 0 <=> callbacks = {}
      BY <2>1, FS_EmptySet
    <3>3. (callback_count > 0) <=> callbacks # {}
      BY <2>1, <3>2
    <3> QED
      BY <2>1, <3>1, <3>3 DEF TimerTrue
  <2> QED
    BY <1>8, <2>2, <2>3, <2>4
<1>15. TableKept' /\ FileWhole' /\ CountsKept'
  BY <1>2, <1>3, <1>4, <1>5, DataSame
<1> QED
  BY <1>10, <1>11, <1>12, <1>13, <1>14, <1>15 DEF CpuInv

\* While a call empties the table, no handler samples and no other call does.
LEMMA Emptying ==
  ASSUME CpuInv, NEW t \in Callers, At(t, "flush") \/ At(t, "close")
  PROVE  /\ out /\ lock = t /\ "prof" \notin callbacks /\ handler[t] = "none" /\ Standing(th[t])
         /\ CpuTypes /\ LocksHeld /\ CallbackThere /\ OtherThere /\ TimerTrue /\ TableKept /\ FileWhole /\ None \notin Callers
         /\ ~th[t].blocked /\ th[t].op = "none" /\ th[t].cb = "prof"
         /\ \A u \in Callers : handler[u] \notin Traces /\ (u # t => th[u].a = 1 /\ ~Away(th[u]) /\ th[u].pc # "open")
         /\ \A u \in Callers \ {t} : ~(th[u].op = "unregister" /\ th[u].cb = "prof")
         /\ Sum(Waiting) + Counts(file \o evict) = count
<1>1. /\ CpuTypes /\ LocksHeld /\ CallbackThere /\ OtherThere /\ TimerTrue /\ TableKept /\ FileWhole /\ None \notin Callers
      /\ CountsKept /\ handler[t] = "none" /\ th[t].pc \in {"flush", "close"} /\ Standing(th[t])
  BY CpuAssumption DEF CpuInv, At, CpuTypes
<1>2. Away(th[t])
  BY <1>1 DEF Away
<1>3. out /\ "prof" \notin callbacks
  BY <1>1, <1>2 DEF CallbackThere
<1>4. \A u \in Callers : handler[u] \notin Traces /\ th[u].pc # "open"
  BY <1>1, <1>3 DEF CallbackThere, Samples
<1>5. lock = t
  BY <1>1, Holders
<1>6. \A u \in Callers : u # t => th[u].a = 1 /\ ~Away(th[u]) /\ ~(th[u].op = "unregister" /\ th[u].cb = "prof")
  BY <1>1, <1>5, Holders
<1>7. Sum(Waiting) + Counts(file \o evict) = count
  BY <1>1, <1>4 DEF CountsKept
<1>8. ~th[t].blocked /\ th[t].op = "none" /\ th[t].cb = "prof"
  BY <1>1 DEF Standing, Ctl
<1> QED
  BY <1>1, <1>3, <1>4, <1>5, <1>6, <1>7, <1>8

\* One entry is evicted (profiledata.cc:202-224, 249-266).
LEMMA MoveKeeps == ASSUME CpuInv, NEW t \in Callers, Move(t) PROVE CpuInv'
<1>0. th[t].pc \in {"flush", "close"} /\ (At(t, "flush") \/ At(t, "close"))
  BY DEF Move, At
<1>1. /\ out /\ lock = t /\ "prof" \notin callbacks /\ handler[t] = "none" /\ Standing(th[t])
      /\ CpuTypes /\ LocksHeld /\ CallbackThere /\ OtherThere /\ TimerTrue /\ TableKept /\ FileWhole /\ None \notin Callers
      /\ ~th[t].blocked /\ th[t].op = "none" /\ th[t].cb = "prof"
  BY <1>0, Emptying
<1>2. /\ \A u \in Callers : handler[u] \notin Traces /\ (u # t => th[u].a = 1 /\ ~Away(th[u]) /\ th[u].pc # "open")
      /\ \A u \in Callers \ {t} : ~(th[u].op = "unregister" /\ th[u].cb = "prof")
  BY <1>0, Emptying
<1>3. /\ UNCHANGED <<lock, control_lock, signal_lock, callbacks, callback_count, timer_running, handler>>
      /\ out' = out /\ count' = count /\ hash' = Cleared(t) /\ EvictUsed(hash[th[t].a])
  BY DEF Move, Locks, HandlerVars
<1>4. kAssociativity \in Nat \ {0}
  BY CpuAssumption
<1>5. PICK a \in 1..kAssociativity : th[t].a = a
  BY <1>1, <1>4 DEF Move, Standing
<1>6. PICK y : /\ Go(t, y) /\ Standing(y) /\ y.pc = th[t].pc /\ y.call = th[t].call /\ y.op = th[t].op /\ y.cb = th[t].cb
               /\ y.blocked = th[t].blocked /\ y.a = a + 1
  <2>1. Go(t, [th[t] EXCEPT !.a = a + 1]) /\ a + 1 \in 1..(kAssociativity + 1)
    BY <1>4, <1>5 DEF Move
  <2> WITNESS [th[t] EXCEPT !.a = a + 1]
  <2> QED
    BY <1>0, <1>1, <2>1 DEF Standing, Ctl, Calls, Pcs
<1>7. /\ th'[t] = y /\ (\A u \in Callers \ {t} : th'[u] = th[u]) /\ DOMAIN th' = Callers
      /\ th' = [u \in Callers |-> th'[u]]
  BY <1>1, <1>6, Goes
<1>8. LocksHeld'
  BY <1>1, <1>3, <1>6, <1>7 DEF LocksHeld
<1>9. CallbackThere'
  BY <1>0, <1>1, <1>3, <1>6, <1>7 DEF CallbackThere, Away, Samples
<1>10. OtherThere'
  BY <1>1, <1>3, <1>6, <1>7 DEF OtherThere
<1>11. TimerTrue'
  BY <1>1, <1>3 DEF TimerTrue
<1>12. PICK e \in Entry : e = hash[a] /\ e.count \in Nat /\ (e.count > 0 => e.stack \in Traces) /\ EvictUsed(e)
  BY <1>1, <1>3, <1>5 DEF CpuTypes, TableKept, Entry
<1>13. /\ evict' \in Seq(Record) /\ file' \in Seq(Record) /\ num_evicted_' \in Nat /\ num_evicted_' <= kBufferLength
       /\ num_evicted_' = SlotsUsed(evict')
       /\ file' \o evict' # <<>> /\ Whole(file' \o evict', TRUE)
       /\ Counts(file' \o evict') = Counts(file \o evict) + e.count
       /\ Counts(file \o evict) \in Nat
  BY <1>1, <1>12, Evicted
<1>14. /\ hash' \in [1..kAssociativity -> Entry] /\ Free \in Entry /\ Free.count = 0
       /\ \A i \in 1..kAssociativity : hash'[i] = IF i = a /\ th[t].pc = "flush" THEN Free ELSE hash[i]
  <2>1. Free \in Entry /\ Free.count = 0
    BY DEF Free, Entry
  <2>2. hash \in [1..kAssociativity -> Entry]
    BY <1>1 DEF CpuTypes
  <2>3. hash' = IF th[t].pc = "flush" THEN [hash EXCEPT ![a] = Free] ELSE hash
    BY <1>3, <1>5 DEF Cleared
  <2> QED
    BY <2>1, <2>2, <2>3
<1>15. CpuTypes'
  <2>1. \A u \in Callers : Standing(th'[u])
    BY <1>1, <1>6, <1>7 DEF CpuTypes
  <2> HIDE DEF Standing
  <2> QED
    BY <1>1, <1>3, <1>7, <1>13, <1>14, <2>1 DEF CpuTypes
<1>16. TableKept'
  <2>1. \A i \in 1..kAssociativity : hash'[i].count > 0 => hash'[i].stack \in Traces
    BY <1>1, <1>14 DEF TableKept
  <2>2. \A u \in Callers, i \in 1..kAssociativity : th'[u].pc = "flush" /\ i < th'[u].a => hash'[i] = Free
    <3> SUFFICES ASSUME NEW u \in Callers, NEW i \in 1..kAssociativity, th'[u].pc = "flush", i < th'[u].a
                 PROVE  hash'[i] = Free
      OBVIOUS
    <3>1. CASE u = t
      BY <1>1, <1>5, <1>6, <1>7, <1>14, <3>1 DEF TableKept
    <3>2. CASE u # t
      BY <1>1, <1>2, <1>7, <3>2
    <3> QED
      BY <3>1, <3>2
  <2> QED
    BY <1>1, <1>3, <1>13, <2>1, <2>2 DEF TableKept
<1>17. FileWhole'
  BY <1>1, <1>3, <1>13 DEF FileWhole, Whole
<1>18. CountsKept'
  <2>1. \A i \in 1..kAssociativity : Waiting[i] = IF i < a THEN 0 ELSE hash[i].count
    BY <1>2, <1>5 DEF Waiting
  <2>2. \A i \in 1..kAssociativity : Waiting'[i] = IF i < a + 1 THEN 0 ELSE hash[i].count
    BY <1>2, <1>6, <1>7, <1>14 DEF Waiting
  <2>3. \A i \in 1..kAssociativity : hash[i].count \in Nat
    BY <1>1 DEF CpuTypes, Entry
  <2>4. DOMAIN Waiting = 1..kAssociativity /\ DOMAIN Waiting' = 1..kAssociativity
    BY DEF Waiting
  <2>5. \A i \in 1..kAssociativity : Waiting[i] \in Nat /\ Waiting'[i] \in Nat
    BY <2>1, <2>2, <2>3
  <2>6. \A i \in (1..kAssociativity) \ {a} : Waiting'[i] = Waiting[i]
    BY <2>1, <2>2
  <2>7. Waiting[a] = e.count /\ Waiting'[a] = 0
    BY <1>12, <2>1, <2>2
  <2>8. Sum(Waiting) \in Nat /\ Sum(Waiting') \in Nat /\ Sum(Waiting') + Waiting[a] = Sum(Waiting) + Waiting'[a]
    <3>1. ButOne(Waiting, Waiting', kAssociativity, a)
      BY <1>4, <1>5, <2>4, <2>5, <2>6 DEF ButOne
    <3> QED
      BY <3>1, SumChanged
  <2>9. Sum(Waiting) + Counts(file \o evict) = count
    BY <1>0, Emptying
  <2>10. Sum(Waiting') + Counts(file' \o evict') = count'
    <3>1. PICK n \in Nat, m \in Nat, k \in Nat, c \in Nat :
            n = Sum(Waiting) /\ m = Sum(Waiting') /\ k = Counts(file \o evict) /\ c = e.count
      BY <1>12, <1>13, <2>8
    <3>2. m + c = n + 0
      BY <2>7, <2>8, <3>1
    <3>3. Counts(file' \o evict') = k + c
      BY <1>13, <3>1
    <3>4. n + k = count'
      BY <1>3, <2>9, <3>1
    <3>5. m + (k + c) = count'
      BY <3>2, <3>4
    <3> QED
      BY <3>1, <3>3, <3>5
  <2> QED
    BY <1>2, <1>3, <2>10 DEF CountsKept
<1> QED
  BY <1>8, <1>9, <1>10, <1>11, <1>15, <1>16, <1>17, <1>18 DEF CpuInv

\* The end of a flush and of a stop (profiledata.cc:105-140, 226-247).
LEMMA EndKeeps == ASSUME CpuInv, NEW t \in Callers, Flush(t) \/ Close(t) PROVE CpuInv'
<1>0. th[t].pc \in {"flush", "close"} /\ (At(t, "flush") \/ At(t, "close"))
  BY DEF Flush, Close, At
<1>1. /\ out /\ lock = t /\ "prof" \notin callbacks /\ handler[t] = "none" /\ Standing(th[t])
      /\ CpuTypes /\ LocksHeld /\ CallbackThere /\ OtherThere /\ TimerTrue /\ TableKept /\ FileWhole /\ None \notin Callers
      /\ ~th[t].blocked /\ th[t].op = "none" /\ th[t].cb = "prof"
  BY <1>0, Emptying
<1>2. /\ \A u \in Callers : handler[u] \notin Traces /\ (u # t => th[u].a = 1 /\ ~Away(th[u]) /\ th[u].pc # "open")
      /\ \A u \in Callers \ {t} : ~(th[u].op = "unregister" /\ th[u].cb = "prof")
  BY <1>0, Emptying
<1>3. UNCHANGED <<lock, control_lock, signal_lock, callbacks, callback_count, timer_running, handler>>
  BY DEF Flush, Close, Locks, HandlerVars
<1>4. kAssociativity \in Nat \ {0} /\ kBufferLength \in Nat
  BY CpuAssumption
<1>5. th[t].a = kAssociativity + 1
  BY <1>1, <1>4 DEF Flush, Close, Standing
<1>6. PICK y : /\ Go(t, y) /\ Standing(y) /\ y.call = th[t].call /\ y.cb = "prof" /\ ~y.blocked /\ y.a = 1
               /\ \/ th[t].pc = "flush" /\ y.pc = "control" /\ y.op = "register" /\ FlushEvicted
                  \/ th[t].pc = "close" /\ y.pc = "unlock" /\ y.op = "none" /\ StopData
  <2>1. CASE Flush(t)
    <3> DEFINE y == [th[t] EXCEPT !.pc = "control", !.op = "register", !.a = 1]
    <3>1. Go(t, y) /\ FlushEvicted /\ th[t].pc = "flush"
      BY <2>1 DEF Flush, At
    <3>2. 1 \in 1..(kAssociativity + 1)
      BY <1>4
    <3>3. th[t].call = "Flush"
      BY <1>1, <3>1 DEF Standing
    <3>4. th[t] \in [call : Calls, pc : Pcs, op : {"none", "register", "unregister", "thread"}, cb : {"prof", "other"},
                     blocked : BOOLEAN, a : 1..(kAssociativity + 1)]
      BY <1>1 DEF Standing
    <3>5. /\ y \in [call : Calls, pc : Pcs, op : {"none", "register", "unregister", "thread"}, cb : {"prof", "other"},
                     blocked : BOOLEAN, a : 1..(kAssociativity + 1)]
          /\ y.call = th[t].call /\ y.cb = "prof" /\ ~y.blocked /\ y.a = 1 /\ y.pc = "control" /\ y.op = "register"
      BY <1>1, <3>2, <3>4 DEF Pcs, Ctl
    <3> HIDE DEF y
    <3>6. Standing(y)
      BY <3>3, <3>5 DEF Standing, Ctl
    <3> QED
      BY <3>1, <3>5, <3>6
  <2>2. CASE Close(t)
    <3> DEFINE y == [th[t] EXCEPT !.pc = "unlock", !.a = 1]
    <3>1. Go(t, y) /\ StopData /\ th[t].pc = "close"
      BY <2>2 DEF Close, At
    <3>2. 1 \in 1..(kAssociativity + 1)
      BY <1>4
    <3>3. th[t].call = "Stop"
      BY <1>1, <3>1 DEF Standing
    <3>4. th[t] \in [call : Calls, pc : Pcs, op : {"none", "register", "unregister", "thread"}, cb : {"prof", "other"},
                     blocked : BOOLEAN, a : 1..(kAssociativity + 1)]
      BY <1>1 DEF Standing
    <3>5. /\ y \in [call : Calls, pc : Pcs, op : {"none", "register", "unregister", "thread"}, cb : {"prof", "other"},
                     blocked : BOOLEAN, a : 1..(kAssociativity + 1)]
          /\ y.call = th[t].call /\ y.cb = "prof" /\ ~y.blocked /\ y.a = 1 /\ y.pc = "unlock" /\ y.op = "none"
      BY <1>1, <3>2, <3>4 DEF Pcs, Ctl
    <3> HIDE DEF y
    <3>6. Standing(y)
      BY <3>3, <3>5 DEF Standing, Ctl
    <3> QED
      BY <3>1, <3>5, <3>6
  <2> QED
    BY <2>1, <2>2
<1>7. /\ th'[t] = y /\ (\A u \in Callers \ {t} : th'[u] = th[u]) /\ DOMAIN th' = Callers
      /\ th' = [u \in Callers |-> th'[u]]
  BY <1>1, <1>6, Goes
<1>7a. th[t].call \in {"Start", "Stop", "Flush"}
  BY <1>1, <1>0 DEF Standing
<1>8. LocksHeld'
  BY <1>0, <1>1, <1>3, <1>6, <1>7, <1>7a DEF LocksHeld
<1>9. CallbackThere'
  <2>1. Away(y) <=> y.op = "register"
    BY <1>6 DEF Away
  <2>2. \/ y.op = "register" /\ y.pc = "control" /\ out' = TRUE
        \/ y.op = "none" /\ y.pc = "unlock" /\ out' = FALSE
    BY <1>1, <1>6 DEF FlushEvicted, StopData
  <2>3. \A u \in Callers : ~Samples(u)
    BY <1>1 DEF CallbackThere
  <2>4. \A u \in Callers : ~Samples(u)'
    BY <1>3, <2>3 DEF Samples
  <2> QED
    BY <1>1, <1>2, <1>3, <1>6, <1>7, <2>1, <2>2, <2>4 DEF CallbackThere
<1>10. OtherThere'
  BY <1>1, <1>3, <1>6, <1>7, <1>7a DEF OtherThere
<1>11. TimerTrue'
  BY <1>1, <1>3 DEF TimerTrue
<1>12. /\ file \in Seq(Record) /\ evict \in Seq(Record) /\ file \o evict # <<>> /\ Whole(file \o evict, TRUE)
       /\ file \o evict \in Seq(Record) /\ Counts(file \o evict) \in Nat /\ Trailer \in Record /\ Trailer.count = 0
       /\ <<>> \in Seq(Record)
  <2>1. file \in Seq(Record) /\ evict \in Seq(Record) /\ file \o evict # <<>> /\ Whole(file \o evict, TRUE)
    BY <1>1, FileWholeIs DEF CpuTypes, TableKept
  <2>2. file \o evict \in Seq(Record) /\ <<>> \in Seq(Record)
    BY <2>1
  <2>3. Trailer \in Record /\ Trailer.count = 0
    BY DEF Trailer, Record
  <2> QED
    BY <2>1, <2>2, <2>3, CountsAppended
<1>13. /\ evict' = <<>> /\ num_evicted_' = 0 /\ file' \in Seq(Record) /\ count' = count
       /\ Whole(file' \o evict', out') /\ file' \o evict' # <<>> /\ Counts(file' \o evict') = Counts(file \o evict)
  <2>1. CASE FlushEvicted
    <3>1. evict' = <<>> /\ num_evicted_' = 0 /\ file' = file \o evict /\ count' = count /\ out' = TRUE
      BY <1>1, <2>1 DEF FlushEvicted
    <3>2. file' \o evict' = file \o evict
      BY <1>12, <3>1, Joined
    <3> QED
      BY <1>12, <3>1, <3>2
  <2>2. CASE StopData
    <3>1. evict' = <<>> /\ num_evicted_' = 0 /\ file' = (file \o evict) \o <<Trailer>> /\ count' = count /\ out' = FALSE
      BY <2>2 DEF StopData
    <3>2. file' = Append(file \o evict, Trailer)
      BY <1>12, <3>1, Joined
    <3>3. file' \in Seq(Record) /\ file' # <<>>
      BY <1>12, <3>2, Joined
    <3>4. file' \o evict' = file'
      BY <3>1, <3>3
    <3>5. Whole(file', FALSE)
      BY <1>12, <3>2, TrailerAppended
    <3>6. Counts(file') = Counts(file \o evict)
      <4>1. Counts(Append(file \o evict, Trailer)) = Counts(file \o evict) + Trailer.count
        BY <1>12, CountsAppended
      <4> QED
        BY <1>12, <3>2, <4>1
    <3> QED
      BY <3>1, <3>3, <3>4, <3>5, <3>6
  <2> QED
    BY <1>6, <2>1, <2>2
<1>14. /\ hash' \in [1..kAssociativity -> Entry] /\ \A i \in 1..kAssociativity : hash'[i] = Free /\ hash'[i].count = 0
       /\ ~out' => hash' = EmptyTable
  <2>1. Free \in Entry /\ Free.count = 0 /\ EmptyTable = [i \in 1..kAssociativity |-> Free]
    BY DEF Free, Entry, EmptyTable
  <2>2. CASE FlushEvicted /\ th[t].pc = "flush"
    <3>1. hash' = hash /\ out' = TRUE
      BY <1>1, <2>2 DEF FlushEvicted
    <3>2. \A i \in 1..kAssociativity : hash[i] = Free
      BY <1>1, <1>4, <1>5, <2>2 DEF TableKept
    <3> QED
      BY <1>1, <2>1, <3>1, <3>2 DEF CpuTypes
  <2>3. CASE StopData
    <3>1. hash' = EmptyTable
      BY <2>3 DEF StopData
    <3> QED
      BY <2>1, <3>1
  <2> QED
    BY <1>6, <2>2, <2>3
<1>15. CpuTypes'
  <2>1. \A u \in Callers : Standing(th'[u])
    BY <1>1, <1>6, <1>7 DEF CpuTypes
  <2>2. out' \in BOOLEAN /\ count' \in Nat /\ num_evicted_' \in Nat /\ evict' \in Seq(Record)
    BY <1>1, <1>6, <1>12, <1>13 DEF CpuTypes, FlushEvicted, StopData
  <2> HIDE DEF Standing
  <2> QED
    BY <1>1, <1>3, <1>7, <1>13, <1>14, <2>1, <2>2 DEF CpuTypes
<1>16. TableKept'
  <2>1. num_evicted_' = SlotsUsed(evict')
    BY <1>13, SlotsEmpty
  <2> QED
    BY <1>4, <1>13, <1>14, <2>1 DEF TableKept, EmptyTable
<1>17. FileWhole'
  BY <1>13 DEF FileWhole, Whole
<1>18. CountsKept'
  <2>1. \A i \in 1..kAssociativity : Waiting[i] = 0
    BY <1>4, <1>5 DEF Waiting
  <2>2. \A i \in 1..kAssociativity : Waiting'[i] = 0
    BY <1>14 DEF Waiting
  <2>3. DOMAIN Waiting = 1..kAssociativity /\ DOMAIN Waiting' = 1..kAssociativity /\ kAssociativity \in Nat
    BY <1>4 DEF Waiting
  <2>4. Sum(Waiting) = 0 /\ Sum(Waiting') = 0
    BY <2>1, <2>2, <2>3, SumZero
  <2>5. Sum(Waiting) + Counts(file \o evict) = count
    BY <1>0, Emptying
  <2>6. Sum(Waiting') + Counts(file' \o evict') = count'
    BY <1>13, <2>4, <2>5
  <2> QED
    BY <1>2, <1>3, <2>6 DEF CountsKept
<1> QED
  BY <1>8, <1>9, <1>10, <1>11, <1>15, <1>16, <1>17, <1>18 DEF CpuInv

-----------------------------------------------------------------------------
(* Steps of the timer and of handlers.                                      *)

\* A step after which the calls and the callbacks are as before, and no lock but signal_lock.
LEMMA CallsSame ==
  ASSUME CpuInv, UNCHANGED <<lock, control_lock, callbacks, callback_count, timer_running, th, out>>
  PROVE  /\ OtherThere' /\ TimerTrue'
         /\ ("prof" \in callbacks' <=> out' /\ \A u \in Callers : ~Away(th'[u]))
         /\ \A u \in Callers : /\ Away(th'[u]) => out'
                               /\ th'[u].op = "unregister" /\ th'[u].cb = "prof" => out'
                               /\ th'[u].pc = "open" => ~out'
<1>1. OtherThere' /\ TimerTrue'
  BY DEF CpuInv, OtherThere, TimerTrue
<1> QED
  BY <1>1 DEF CpuInv, CallbackThere

\* A signal comes, waits, takes the handler's lock, or leaves.
LEMMA SignalsKeep ==
  ASSUME CpuInv, UNCHANGED DataVars, UNCHANGED <<lock, control_lock, callbacks, callback_count, timer_running, th>>,
         NEW t \in Callers, NEW h \in {"none", "wait", "add", "leave"}, handler[t] \notin Traces,
         handler' = [handler EXCEPT ![t] = h],
         h = "wait" => handler[t] = "none" /\ ~th[t].blocked /\ signal_lock' = signal_lock,
         h = "add" => handler[t] = "wait" /\ "prof" \in callbacks /\ signal_lock = None /\ signal_lock' = t,
         h = "leave" => \/ handler[t] = "wait" /\ signal_lock = None /\ signal_lock' = t
                        \/ handler[t] = "add" /\ signal_lock' = signal_lock,
         h = "none" => handler[t] = "leave" /\ signal_lock' = None
  PROVE  CpuInv'
<1>1. CpuTypes /\ LocksHeld /\ CallbackThere /\ None \notin Callers /\ {"none", "wait", "add", "leave"} \cap Traces = {}
  BY CpuAssumption DEF CpuInv
<1>2. UNCHANGED <<out, hash, evict, num_evicted_, file, count>>
  BY DEF DataVars, Buffer
<1>3. handler \in [Callers -> Handlers] /\ handler' \in [Callers -> Handlers] /\ \A u \in Callers \ {t} : handler'[u] = handler[u]
  BY <1>1 DEF CpuTypes, Handlers
<1>4. handler'[t] = h
  BY <1>3
<1>5. Standing(th[t]) /\ (th[t].pc = "update" => th[t].blocked)
  BY <1>1 DEF CpuTypes, Standing
<1>6. h = "add" \/ h = "leave" \/ h = "wait" \/ h = "none"
  OBVIOUS
<1>7. CpuTypes'
  <2>1. signal_lock' \in Callers \cup {None}
    BY <1>1, <1>6 DEF CpuTypes
  <2> QED
    BY <1>1, <1>2, <1>3, <2>1 DEF CpuTypes
<1>8. LocksHeld'
  BY <1>1, <1>3, <1>4, <1>5, <1>6 DEF LocksHeld
<1>9. \A u \in Callers : Samples(u)' => "prof" \in callbacks'
  BY <1>1, <1>3, <1>4, <1>6 DEF CallbackThere, Samples
<1>10. OtherThere' /\ TimerTrue' /\ CallbackThere'
  BY <1>2, <1>9, CallsSame DEF CallbackThere
<1>11. TableKept'
  BY <1>2 DEF CpuInv, TableKept, EmptyTable
<1>12. FileWhole'
  BY <1>2 DEF CpuInv, FileWhole
<1>13. CountsKept'
  <2>1. Waiting' = Waiting /\ Lowest' = Lowest
    BY <1>2 DEF Waiting, Lowest
  <2>2. (\E u \in Callers : handler'[u] \in Traces) <=> (\E u \in Callers : handler[u] \in Traces)
    BY <1>1, <1>3, <1>4
  <2> QED
    BY <1>2, <2>1, <2>2 DEF CpuInv, CountsKept, Sum, Counts
<1> QED
  BY <1>7, <1>8, <1>10, <1>11, <1>12, <1>13 DEF CpuInv

LEMMA HandlerKeeps ==
  ASSUME CpuInv, NEW t \in Callers, Deliver(t) \/ SignalHandler(t) \/ Filtered(t) \/ Leave(t) PROVE CpuInv'
<1>1. LocksHeld /\ {"none", "wait", "add", "leave"} \cap Traces = {} /\ None \notin Callers
  BY CpuAssumption DEF CpuInv
<1>2. /\ UNCHANGED DataVars /\ UNCHANGED <<lock, control_lock, callbacks, callback_count, timer_running, th>>
      /\ handler[t] \notin Traces
  BY <1>1, CpuAssumption DEF Deliver, SignalHandler, Filtered, Leave, In, HandlerVars, Locks
<1>3. CASE Deliver(t)
  BY <1>2, <1>3, SignalsKeep DEF Deliver, In, Locks
<1>4. CASE SignalHandler(t)
  <2>1. CASE "prof" \in callbacks
    BY <1>2, <1>4, <2>1, SignalsKeep DEF SignalHandler, In
  <2>2. CASE "prof" \notin callbacks
    BY <1>2, <1>4, <2>2, SignalsKeep DEF SignalHandler, In
  <2> QED
    BY <2>1, <2>2
<1>5. CASE Filtered(t)
  BY <1>2, <1>5, SignalsKeep DEF Filtered, In, Locks
<1>6. CASE Leave(t)
  BY <1>2, <1>6, SignalsKeep DEF Leave, In
<1> QED
  BY <1>3, <1>4, <1>5, <1>6

\* While a handler adds a sample, the profile is open, no other one does, and no call empties the table.
LEMMA Sampling ==
  ASSUME CpuInv, NEW t \in Callers, Samples(t)
  PROVE  /\ out /\ "prof" \in callbacks /\ signal_lock = t /\ ~th[t].blocked
         /\ CpuTypes /\ LocksHeld /\ CallbackThere /\ TableKept /\ FileWhole /\ CountsKept
         /\ \A u \in Callers : (u # t => handler[u] \in {"none", "wait"}) /\ th[u].a = 1 /\ th[u].pc # "flush"
         /\ \A u \in Callers \ {t} : handler[u] \notin Traces
         /\ \A i \in 1..kAssociativity : Waiting[i] = hash[i].count /\ hash[i].count \in Nat
         /\ {"none", "wait", "add", "leave"} \cap Traces = {}
<1>1. /\ CpuTypes /\ LocksHeld /\ CallbackThere /\ TableKept /\ FileWhole /\ CountsKept
      /\ {"none", "wait", "add", "leave"} \cap Traces = {}
  BY CpuAssumption DEF CpuInv
<1>2. "prof" \in callbacks /\ out /\ \A u \in Callers : ~Away(th[u])
  BY <1>1 DEF CallbackThere
<1>3. \A u \in Callers : th[u].a = 1 /\ th[u].pc # "flush"
  BY <1>1, <1>2 DEF CpuTypes, Standing, Away
<1>4. handler[t] \notin {"none", "wait"} /\ signal_lock = t /\ ~th[t].blocked
  BY <1>1 DEF Samples, LocksHeld
<1>5. \A u \in Callers : u # t => handler[u] \in {"none", "wait"}
  BY <1>1, <1>4 DEF LocksHeld
<1>6. \A i \in 1..kAssociativity : Waiting[i] = hash[i].count /\ hash[i].count \in Nat
  <2>1. \A i \in 1..kAssociativity : ~\E u \in Callers : i < th[u].a
    BY <1>3
  <2>2. \A i \in 1..kAssociativity : hash[i].count \in Nat
    BY <1>1 DEF CpuTypes, Entry
  <2> QED
    BY <2>1, <2>2 DEF Waiting
<1>7. \A u \in Callers \ {t} : handler[u] \notin Traces
  BY <1>1, <1>5
<1> QED
  BY <1>1, <1>2, <1>3, <1>4, <1>5, <1>6, <1>7

\* Steps that add a sample: what they keep, the counts aside.
LEMMA SampleStep ==
  ASSUME CpuInv, NEW t \in Callers, Samples(t), NEW h \in {"leave"} \cup Traces, handler' = [handler EXCEPT ![t] = h],
         UNCHANGED <<lock, control_lock, signal_lock, callbacks, callback_count, timer_running, th, out>>,
         hash' \in [1..kAssociativity -> Entry], \A i \in 1..kAssociativity : hash'[i].count > 0 => hash'[i].stack \in Traces,
         evict' \in Seq(Record), file' \in Seq(Record), num_evicted_' \in Nat, num_evicted_' <= kBufferLength,
         num_evicted_' = SlotsUsed(evict'),
         file' \o evict' # <<>>, Whole(file' \o evict', TRUE), count' \in Nat, CountsKept'
  PROVE  CpuInv'
<1>1. /\ out /\ "prof" \in callbacks /\ signal_lock = t /\ ~th[t].blocked /\ CpuTypes /\ LocksHeld /\ CallbackThere
      /\ \A u \in Callers : (u # t => handler[u] \in {"none", "wait"}) /\ th[u].a = 1 /\ th[u].pc # "flush"
      /\ {"none", "wait", "add", "leave"} \cap Traces = {}
  BY Sampling
<1>2. /\ handler' \in [Callers -> Handlers] /\ handler'[t] = h /\ h \notin {"none", "wait"}
      /\ \A u \in Callers \ {t} : handler'[u] = handler[u]
  BY <1>1 DEF CpuTypes, Handlers
<1>3. CpuTypes'
  BY <1>1, <1>2 DEF CpuTypes
<1>4. LocksHeld'
  <2>1. handler[t] \notin {"none", "wait"}
    BY <1>1 DEF Samples
  <2> QED
    BY <1>1, <1>2, <2>1 DEF LocksHeld
<1>5. OtherThere' /\ TimerTrue' /\ CallbackThere'
  BY <1>1, CallsSame DEF CallbackThere
<1>6. TableKept'
  BY <1>1 DEF TableKept
<1>7. FileWhole'
  BY <1>1 DEF FileWhole, Whole
<1> QED
  BY <1>3, <1>4, <1>5, <1>6, <1>7 DEF CpuInv

\* A stack in the table is counted (profiledata.cc:283-293).
LEMMA AddKnownKeeps == ASSUME CpuInv, NEW t \in Callers, AddKnown(t) PROVE CpuInv'
<1>0. Samples(t)
  BY DEF AddKnown, In, Samples
<1>1. /\ out /\ CpuTypes /\ TableKept /\ FileWhole /\ CountsKept
      /\ \A u \in Callers : th[u].a = 1 /\ (u # t => handler[u] \notin Traces)
      /\ \A i \in 1..kAssociativity : Waiting[i] = hash[i].count /\ hash[i].count \in Nat
      /\ {"none", "wait", "add", "leave"} \cap Traces = {}
  BY <1>0, Sampling
<1>2. PICK a \in 1..kAssociativity : hash[a].stack \in Traces /\ hash' = [hash EXCEPT ![a].count = @ + 1]
  BY DEF AddKnown, Matches
<1>3. /\ UNCHANGED <<lock, control_lock, signal_lock, callbacks, callback_count, timer_running, th, out, evict, num_evicted_, file>>
      /\ count' = count + 1 /\ handler[t] = "add" /\ handler' = [handler EXCEPT ![t] = "leave"]
  BY DEF AddKnown, In, Locks, HandlerVars, Buffer
<1>4. /\ hash \in [1..kAssociativity -> Entry] /\ file \in Seq(Record) /\ evict \in Seq(Record)
      /\ num_evicted_ \in Nat /\ count \in Nat /\ handler \in [Callers -> Handlers]
  BY <1>1 DEF CpuTypes
<1>5. /\ hash' \in [1..kAssociativity -> Entry] /\ \A i \in (1..kAssociativity) \ {a} : hash'[i] = hash[i]
      /\ hash'[a].stack = hash[a].stack /\ hash'[a].count = hash[a].count + 1
  BY <1>2, <1>4 DEF Entry
<1>6. \A i \in 1..kAssociativity : hash'[i].count > 0 => hash'[i].stack \in Traces
  BY <1>1, <1>2, <1>5 DEF TableKept
<1>7. file \o evict # <<>> /\ num_evicted_ <= kBufferLength /\ num_evicted_ = SlotsUsed(evict) /\ Whole(file \o evict, TRUE)
  BY <1>1, FileWholeIs DEF TableKept
<1>8. CountsKept'
  <2>1. \A i \in 1..kAssociativity : Waiting'[i] = hash'[i].count /\ hash'[i].count \in Nat
    <3>1. \A i \in 1..kAssociativity : ~\E u \in Callers : i < th'[u].a
      BY <1>1, <1>3
    <3>2. \A i \in 1..kAssociativity : hash'[i].count \in Nat
      BY <1>5 DEF Entry
    <3> QED
      BY <3>1, <3>2 DEF Waiting
  <2>2. ButOne(Waiting, Waiting', kAssociativity, a)
    <3>1. DOMAIN Waiting = 1..kAssociativity /\ DOMAIN Waiting' = 1..kAssociativity /\ kAssociativity \in Nat
      BY CpuAssumption DEF Waiting
    <3> QED
      BY <1>1, <1>5, <2>1, <3>1 DEF ButOne
  <2>3. Sum(Waiting) \in Nat /\ Sum(Waiting') \in Nat /\ Sum(Waiting') + Waiting[a] = Sum(Waiting) + Waiting'[a]
    BY <2>2, SumChanged
  <2>4. Waiting'[a] = Waiting[a] + 1 /\ Waiting[a] \in Nat
    BY <1>1, <1>5, <2>1
  <2>5. Sum(Waiting') = Sum(Waiting) + 1
    BY <2>3, <2>4
  <2>6. Counts(file' \o evict') = Counts(file \o evict) /\ Counts(file \o evict) \in Nat
    <3>1. Header \in Record
      BY DEF Header, Record
    <3>2. file \o evict \in Seq(Record)
      BY <1>4
    <3> QED
      BY <1>3, <3>1, <3>2, CountsAppended
  <2>7. ~\E u \in Callers : handler[u] \in Traces
    BY <1>1, <1>3
  <2>8. ~\E u \in Callers : handler'[u] \in Traces
    BY <1>1, <1>3, <1>4
  <2>9. Sum(Waiting) + Counts(file \o evict) = count
    BY <1>1, <2>7 DEF CountsKept
  <2>10. Sum(Waiting') + Counts(file' \o evict') = count'
    BY <1>3, <2>3, <2>5, <2>6, <2>9
  <2> QED
    BY <2>8, <2>10 DEF CountsKept
<1>9. file' \o evict' = file \o evict /\ evict' \in Seq(Record) /\ file' \in Seq(Record) /\ num_evicted_' \in Nat
      /\ num_evicted_' <= kBufferLength /\ num_evicted_' = SlotsUsed(evict') /\ count' \in Nat
  BY <1>3, <1>4, <1>7
<1> QED
  BY <1>0, <1>3, <1>5, <1>6, <1>7, <1>8, <1>9, SampleStep

\* The entry with the lowest count is evicted (profiledata.cc:295-310).
LEMMA AddNewKeeps == ASSUME CpuInv, NEW t \in Callers, AddNew(t) PROVE CpuInv'
<1>0. Samples(t)
  BY DEF AddNew, In, Samples
<1>1. /\ out /\ CpuTypes /\ TableKept /\ FileWhole /\ CountsKept
      /\ \A u \in Callers : u # t => handler[u] \notin Traces
      /\ {"none", "wait", "add", "leave"} \cap Traces = {}
  BY <1>0, Sampling
<1>2. PICK s \in Traces : handler[t] = "add" /\ handler' = [handler EXCEPT ![t] = s]
  BY DEF AddNew, In
<1>3. /\ UNCHANGED <<lock, control_lock, signal_lock, callbacks, callback_count, timer_running, th, out, hash>>
      /\ count' = count + 1 /\ EvictUsed(hash[Lowest])
  BY DEF AddNew, In, Locks, HandlerVars
<1>4. /\ hash \in [1..kAssociativity -> Entry] /\ count \in Nat /\ handler \in [Callers -> Handlers]
      /\ Lowest \in 1..kAssociativity
  BY <1>1, LowestIn DEF CpuTypes
<1>5. PICK e \in Entry : e = hash[Lowest] /\ e.count \in Nat /\ (e.count > 0 => e.stack \in Traces) /\ EvictUsed(e)
  BY <1>1, <1>3, <1>4 DEF TableKept, Entry
<1>6. /\ evict' \in Seq(Record) /\ file' \in Seq(Record) /\ num_evicted_' \in Nat /\ num_evicted_' <= kBufferLength
      /\ num_evicted_' = SlotsUsed(evict')
      /\ file' \o evict' # <<>> /\ Whole(file' \o evict', TRUE)
      /\ Counts(file' \o evict') = Counts(file \o evict) + e.count
      /\ Counts(file \o evict) \in Nat
  BY <1>1, <1>5, Evicted
<1>7. CountsKept'
  <2>1. Waiting' = Waiting /\ Lowest' = Lowest
    BY <1>3 DEF Waiting, Lowest
  <2>2. ~\E u \in Callers : handler[u] \in Traces
    BY <1>1, <1>2
  <2>3. \E u \in Callers : handler'[u] \in Traces
    BY <1>2, <1>4
  <2>4. Sum(Waiting) + Counts(file \o evict) = count
    BY <1>1, <2>2 DEF CountsKept
  <2>5. Sum(Waiting) \in Nat
    <3>1. ButOne(Waiting, Waiting, kAssociativity, Lowest)
      <4>1. DOMAIN Waiting = 1..kAssociativity /\ kAssociativity \in Nat
        BY CpuAssumption DEF Waiting
      <4>2. \A i \in 1..kAssociativity : Waiting[i] \in Nat
        BY <1>0, Sampling
      <4> QED
        BY <1>4, <4>1, <4>2 DEF ButOne
    <3> QED
      BY <3>1, SumChanged
  <2>6. hash'[Lowest'].count = e.count
    BY <1>3, <1>5, <2>1
  <2>7. Sum(Waiting') = Sum(Waiting)
    BY <2>1
  <2>8. Sum(Waiting') + Counts(file' \o evict') + 1 = count' + e.count
    <3>1. PICK n \in Nat, k \in Nat, c \in Nat : n = Sum(Waiting) /\ k = Counts(file \o evict) /\ c = e.count
      BY <1>5, <1>6, <2>5
    <3>2. Counts(file' \o evict') = k + c /\ n + k = count /\ count' = count + 1 /\ Sum(Waiting') = n
      BY <1>3, <1>6, <2>4, <2>7, <3>1
    <3>3. n + (k + c) + 1 = (n + k + 1) + c
      OBVIOUS
    <3> QED
      BY <1>4, <3>1, <3>2, <3>3
  <2> QED
    BY <2>3, <2>6, <2>8 DEF CountsKept
<1>8. hash' \in [1..kAssociativity -> Entry] /\ \A i \in 1..kAssociativity : hash'[i].count > 0 => hash'[i].stack \in Traces
  BY <1>1, <1>3, <1>4 DEF TableKept
<1>9. count' \in Nat
  BY <1>3, <1>4
<1> QED
  BY <1>0, <1>2, <1>3, <1>6, <1>7, <1>8, <1>9, SampleStep

\* The sample is stored in its place (profiledata.cc:312-318).
LEMMA StoreKeeps == ASSUME CpuInv, NEW t \in Callers, Store(t) PROVE CpuInv'
<1>0. Samples(t)
  BY DEF Store, In, Samples
<1>1. /\ out /\ CpuTypes /\ TableKept /\ FileWhole /\ CountsKept
      /\ \A u \in Callers : th[u].a = 1 /\ (u # t => handler[u] \notin Traces)
      /\ \A i \in 1..kAssociativity : Waiting[i] = hash[i].count /\ hash[i].count \in Nat
      /\ {"none", "wait", "add", "leave"} \cap Traces = {}
  BY <1>0, Sampling
<1>2. PICK a \in 1..kAssociativity : a = Lowest
  BY <1>1, LowestIn
<1>3. /\ UNCHANGED <<lock, control_lock, signal_lock, callbacks, callback_count, timer_running, th, out, evict, num_evicted_, file, count>>
      /\ handler[t] \in Traces /\ handler' = [handler EXCEPT ![t] = "leave"]
      /\ hash' = [hash EXCEPT ![a] = [stack |-> handler[t], count |-> 1]]
  BY <1>2 DEF Store, In, Locks, HandlerVars, Buffer
<1>4. /\ hash \in [1..kAssociativity -> Entry] /\ file \in Seq(Record) /\ evict \in Seq(Record)
      /\ num_evicted_ \in Nat /\ count \in Nat /\ handler \in [Callers -> Handlers]
  BY <1>1 DEF CpuTypes
<1>5. /\ hash' \in [1..kAssociativity -> Entry] /\ \A i \in (1..kAssociativity) \ {a} : hash'[i] = hash[i]
      /\ hash'[a].stack = handler[t] /\ hash'[a].count = 1
  <2>1. [stack |-> handler[t], count |-> 1] \in Entry
    BY <1>3 DEF Entry
  <2> QED
    BY <1>3, <1>4, <2>1
<1>6. \A i \in 1..kAssociativity : hash'[i].count > 0 => hash'[i].stack \in Traces
  BY <1>1, <1>3, <1>5 DEF TableKept
<1>7. file \o evict # <<>> /\ num_evicted_ <= kBufferLength /\ num_evicted_ = SlotsUsed(evict) /\ Whole(file \o evict, TRUE)
  BY <1>1, FileWholeIs DEF TableKept
<1>8. CountsKept'
  <2>1. \A i \in 1..kAssociativity : Waiting'[i] = hash'[i].count /\ hash'[i].count \in Nat
    <3>1. \A i \in 1..kAssociativity : ~\E u \in Callers : i < th'[u].a
      BY <1>1, <1>3
    <3>2. \A i \in 1..kAssociativity : hash'[i].count \in Nat
      BY <1>5 DEF Entry
    <3> QED
      BY <3>1, <3>2 DEF Waiting
  <2>2. ButOne(Waiting, Waiting', kAssociativity, a)
    <3>1. DOMAIN Waiting = 1..kAssociativity /\ DOMAIN Waiting' = 1..kAssociativity /\ kAssociativity \in Nat
      BY CpuAssumption DEF Waiting
    <3> QED
      BY <1>1, <1>5, <2>1, <3>1 DEF ButOne
  <2>3. Sum(Waiting) \in Nat /\ Sum(Waiting') \in Nat /\ Sum(Waiting') + Waiting[a] = Sum(Waiting) + Waiting'[a]
    BY <2>2, SumChanged
  <2>4. Waiting'[a] = 1 /\ Waiting[a] = hash[a].count /\ hash[a].count \in Nat
    BY <1>1, <1>5, <2>1
  <2>5. Counts(file' \o evict') = Counts(file \o evict) /\ Counts(file \o evict) \in Nat
    <3>1. Header \in Record
      BY DEF Header, Record
    <3>2. file \o evict \in Seq(Record)
      BY <1>4
    <3> QED
      BY <1>3, <3>1, <3>2, CountsAppended
  <2>6. ~\E u \in Callers : handler'[u] \in Traces
    BY <1>1, <1>3, <1>4
  <2>7. Sum(Waiting) + Counts(file \o evict) + 1 = count + hash[a].count
    BY <1>1, <1>2, <1>3 DEF CountsKept
  <2>8. Sum(Waiting') + Counts(file' \o evict') = count'
    <3>1. PICK n \in Nat, m \in Nat, k \in Nat, c \in Nat :
            n = Sum(Waiting) /\ m = Sum(Waiting') /\ k = Counts(file \o evict) /\ c = hash[a].count
      BY <2>3, <2>4, <2>5
    <3>2. m + c = n + 1 /\ n + k + 1 = count + c
      BY <2>3, <2>4, <2>7, <3>1
    <3>3. m + k = count
      BY <1>4, <3>2
    <3> QED
      BY <1>3, <2>5, <3>1, <3>3
  <2> QED
    BY <2>6, <2>8 DEF CountsKept
<1>9. file' \o evict' = file \o evict /\ evict' \in Seq(Record) /\ file' \in Seq(Record) /\ num_evicted_' \in Nat
      /\ num_evicted_' <= kBufferLength /\ num_evicted_' = SlotsUsed(evict') /\ count' \in Nat
  BY <1>3, <1>4, <1>7
<1> QED
  BY <1>0, <1>3, <1>5, <1>6, <1>7, <1>8, <1>9, SampleStep

\* The timer ticks, or nothing happens.
LEMMA TickKeeps ==
  ASSUME CpuInv, UNCHANGED <<Locks, HandlerVars, DataVars, th, handler>> PROVE CpuInv'
<1>1. UNCHANGED <<lock, control_lock, signal_lock, callbacks, callback_count, timer_running, out, hash, evict, num_evicted_, file, count, th, handler>>
  BY DEF Locks, HandlerVars, DataVars, Buffer
<1>2. CpuTypes' /\ LocksHeld'
  BY <1>1 DEF CpuInv, CpuTypes, LocksHeld
<1>3. CallbackThere' /\ OtherThere' /\ TimerTrue'
  BY <1>1 DEF CpuInv, CallbackThere, Samples, OtherThere, TimerTrue
<1>4. TableKept' /\ FileWhole'
  BY <1>1 DEF CpuInv, TableKept, EmptyTable, FileWhole
<1>5. Waiting' = Waiting /\ Lowest' = Lowest
  BY <1>1 DEF Waiting, Lowest
<1>6. CountsKept'
  BY <1>1, <1>5 DEF CpuInv, CountsKept, Sum, Counts
<1> QED
  BY <1>2, <1>3, <1>4, <1>6 DEF CpuInv

LEMMA CpuInvKept == CpuInv /\ [CpuNext]_cpuVars => CpuInv'
<1> SUFFICES ASSUME CpuInv, [CpuNext]_cpuVars PROVE CpuInv'
  OBVIOUS
<1>1. CASE Tick
  BY <1>1, TickKeeps DEF Tick
<1>2. CASE UNCHANGED cpuVars
  BY <1>2, TickKeeps DEF cpuVars
<1>3. ASSUME NEW t \in Callers, Step(t) PROVE CpuInv'
  <2>1. CASE Call(t)
    BY <2>1, CallKeeps
  <2>2. CASE Lock(t)
    BY <2>2, LockKeeps
  <2>3. CASE Open(t)
    BY <2>3, OpenKeeps
  <2>4. CASE Control(t) \/ Block(t) \/ SignalLock(t)
    BY <2>4, LocksKeep
  <2>5. CASE Update(t)
    BY <2>5, UpdateKeeps
  <2>6. CASE Move(t)
    BY <2>6, MoveKeeps
  <2>7. CASE Flush(t) \/ Close(t)
    BY <2>7, EndKeeps
  <2>8. CASE Unlock(t)
    BY <2>8, UnlockKeeps
  <2>9. CASE Deliver(t) \/ SignalHandler(t) \/ Filtered(t) \/ Leave(t)
    BY <2>9, HandlerKeeps
  <2>10. CASE AddKnown(t)
    BY <2>10, AddKnownKeeps
  <2>11. CASE AddNew(t)
    BY <2>11, AddNewKeeps
  <2>12. CASE Store(t)
    BY <2>12, StoreKeeps
  <2> QED
    BY <1>3, <2>1, <2>2, <2>3, <2>4, <2>5, <2>6, <2>7, <2>8, <2>9, <2>10, <2>11, <2>12 DEF Step
<1> QED
  BY <1>1, <1>2, <1>3 DEF CpuNext

LEMMA CpuInvCounts == CpuInv => SamplesCounted
<1> SUFFICES ASSUME CpuInv PROVE SamplesCounted
  OBVIOUS
<1>1. CpuTypes /\ LocksHeld /\ CallbackThere /\ TableKept /\ CountsKept
  BY DEF CpuInv
<1>2. (\A t \in Callers : handler[t] \notin Traces /\ th[t].a = 1) => Counts(hash) + Counts(file \o evict) = count
  <2> SUFFICES ASSUME \A t \in Callers : handler[t] \notin Traces /\ th[t].a = 1
               PROVE  Counts(hash) + Counts(file \o evict) = count
    OBVIOUS
  <2>1. Waiting = [i \in DOMAIN hash |-> hash[i].count]
    <3>1. DOMAIN hash = 1..kAssociativity
      BY <1>1 DEF CpuTypes
    <3>2. \A i \in 1..kAssociativity : ~\E t \in Callers : i < th[t].a
      OBVIOUS
    <3> QED
      BY <3>1, <3>2 DEF Waiting
  <2>2. Counts(hash) = Sum(Waiting)
    BY <2>1 DEF Counts
  <2>3. Sum(Waiting) + Counts(file \o evict) = count
    BY <1>1 DEF CountsKept
  <2> QED
    BY <2>2, <2>3
<1>3. SamplesConserved
  BY <1>1, <1>2 DEF SamplesConserved, TableKept
<1>4. HandlerSafe
  <2> SUFFICES ASSUME NEW t \in Callers
               PROVE  /\ handler[t] = "wait" => signal_lock # t
                      /\ handler[t] = "add" \/ handler[t] \in Traces => out
    BY DEF HandlerSafe
  <2>1. th[t].pc = "update" => th[t].blocked
    BY <1>1 DEF CpuTypes, Standing
  <2>2. handler[t] = "wait" => signal_lock # t
    BY <1>1, <2>1 DEF LocksHeld
  <2>3. Samples(t) => out
    BY <1>1 DEF CallbackThere
  <2> QED
    BY <2>2, <2>3 DEF Samples
<1> QED
  BY <1>3, <1>4 DEF CpuInv, SamplesCounted

\* Whatever the threads start, stop and flush, wherever signals interrupt them, and
\* whatever the sizes of the table and the buffer: no sample is lost or counted twice,
\* and the files are well formed (SamplesCounted, profiledata.cc, profiler.cc).
THEOREM ProfileWhole == CpuSpec => []SamplesCounted
<1>1. CpuInit => CpuInv
  BY CpuInitInv
<1>2. CpuInv /\ [CpuNext]_cpuVars => CpuInv'
  BY CpuInvKept
<1>3. CpuInv => SamplesCounted
  BY CpuInvCounts
<1> QED
  BY <1>1, <1>2, <1>3, PTL DEF CpuSpec
=============================================================================
