-------------------------- MODULE AllocTestProofs --------------------------
(***************************************************************************)
(* AllocTest is safe for every number of threads, array length, number of  *)
(* cycles and set of addresses.                                            *)
(***************************************************************************)
EXTENDS AllocTest, TLAPS

\* fastrand() % buffersCount is an index of the array (test_alloc.h:63).
LEMMA RandomIndex ==
  ASSUME NEW d \in Nat, NEW c \in Nat, c > 0
  PROVE  d % c \in 0..(c - 1)
OBVIOUS

\* The initial state satisfies the inductive invariant (constructors and
\* locals of RunLoop, test_alloc.h:26-42).
LEMMA InitIInv == Init => IInv
<1> SUFFICES ASSUME Init PROVE IInv
  OBVIOUS
<1> USE ConstantsAssumption
<1>1. TypeOK
  BY DEF Init, TypeOK, Threads, Runners
<1>2. \A r \in Runners : HeldSlots(r) = {}
  BY DEF Init, HeldSlots
<1>3. FreedOnce /\ NothingLeaks
  BY <1>2 DEF Init, FreedOnce, NothingLeaks
<1>4. \A r \in Runners : Progress(r)
  BY DEF Init, Progress
<1>5. Joined /\ Unstarted
  BY DEF Init, Joined, Unstarted, Threads, Runners
<1> QED
  BY <1>1, <1>3, <1>4, <1>5 DEF IInv

-----------------------------------------------------------------------------
(* The steps of RunLoop.                                                   *)

\* A step of one runner that leaves the main thread alone keeps what is known
\* of the main thread's progress: it neither starts a worker nor revives one.
LEMMA MainKept ==
  ASSUME Joined, Unstarted, NEW r \in Runners, TypeOK,
         UNCHANGED mainVars, pc[r] \notin {"idle", "exit"},
         \E l \in {"idle", "cycle", "alloc", "maybeFree", "purge", "exit"} :
           pc' = [pc EXCEPT ![r] = l]
  PROVE  Joined' /\ Unstarted'
<1>1. WaitFails' = WaitFails
  BY DEF WaitFails, mainVars
<1>2. \A t \in Threads : pc[t] \in {"idle", "exit"} => pc'[t] = pc[t]
  BY DEF TypeOK, Runners
<1>3. Joined'
  BY <1>1, <1>2 DEF Joined, mainVars
<1>4. Unstarted'
  <2> SUFFICES ASSUME NEW t \in Threads,
                      mpc \in {"single", "duplicate"} \/ (mpc = "create" /\ t >= mi)
               PROVE  pc'[t] = "idle"
    BY DEF Unstarted, mainVars
  <2> QED
    BY <1>2 DEF Unstarted
<1> QED
  BY <1>3, <1>4

\* Entering or leaving a cycle (test_alloc.h:47 and 79) keeps the invariant.
LEMMA NextCycleIInv ==
  ASSUME IInv, NEW r \in Runners, NextCycle(r)
  PROVE  IInv'
<1> USE ConstantsAssumption
<1>1. TypeOK'
  BY DEF IInv, TypeOK, NextCycle, mainVars
<1>2. FreedOnce' /\ NothingLeaks'
  BY DEF IInv, FreedOnce, NothingLeaks, HeldSlots, NextCycle, mainVars
<1>3. \A q \in Runners : Progress(q)'
  BY DEF IInv, TypeOK, Progress, NextCycle, mainVars
<1>4. Joined' /\ Unstarted'
  BY MainKept DEF IInv, NextCycle
<1> QED
  BY <1>1, <1>2, <1>3, <1>4 DEF IInv

\* An allocation (test_alloc.h:54-58) stores a fresh address in a slot that no
\* buffer occupies.
LEMMA AllocOneIInv ==
  ASSUME IInv, NEW r \in Runners, AllocOne(r)
  PROVE  IInv'
<1> USE ConstantsAssumption
<1>0. /\ cnt[r] \in 0..(Count - 1) /\ cnt[r] \in Slots
      /\ pc[r] = "alloc" /\ purged[r] = 0 /\ iter[r] < Count
      /\ UNCHANGED <<mpc, mi, test, handle, cycle, iter, purged>>
  BY DEF IInv, TypeOK, Progress, AllocOne, Slots, mainVars
<1>1. CASE \E a \in Addr \ live :
             /\ buffers' = [buffers EXCEPT ![r][cnt[r]] = a]
             /\ cnt' = [cnt EXCEPT ![r] = @ + 1]
             /\ live' = live \cup {a}
             /\ pc' = [pc EXCEPT ![r] = "maybeFree"]
             /\ UNCHANGED fault
  <2> PICK a \in Addr \ live :
             /\ buffers' = [buffers EXCEPT ![r][cnt[r]] = a]
             /\ cnt' = [cnt EXCEPT ![r] = @ + 1]
             /\ live' = live \cup {a}
             /\ pc' = [pc EXCEPT ![r] = "maybeFree"]
             /\ UNCHANGED fault
    BY <1>1
  <2>1. TypeOK'
    BY <1>0 DEF IInv, TypeOK
  <2>2. \A q \in Runners : \A s \in HeldSlots(q)' :
          \/ q = r /\ s = cnt[r] /\ buffers'[q][s] = a
          \/ s \in HeldSlots(q) /\ buffers'[q][s] = buffers[q][s]
             /\ ~(q = r /\ s = cnt[r])
    BY <1>0 DEF IInv, TypeOK, HeldSlots, Slots
  <2>3. FreedOnce'
    BY <2>2 DEF IInv, FreedOnce
  <2>4. \A q \in Runners : \A s \in HeldSlots(q) :
          s \in HeldSlots(q)' /\ buffers'[q][s] = buffers[q][s]
    BY <1>0 DEF IInv, TypeOK, HeldSlots, Slots
  <2>5. cnt[r] \in HeldSlots(r)' /\ buffers'[r][cnt[r]] = a
    BY <1>0 DEF IInv, TypeOK, HeldSlots, Slots
  <2>6. NothingLeaks'
    BY <2>4, <2>5 DEF IInv, NothingLeaks
  <2>7. \A q \in Runners : Progress(q)'
    BY <1>0 DEF IInv, TypeOK, Progress
  <2>8. Joined' /\ Unstarted'
    BY <1>0, MainKept DEF IInv, mainVars
  <2> QED
    BY <2>1, <2>3, <2>6, <2>7, <2>8 DEF IInv
<1>2. CASE /\ buffers' = [buffers EXCEPT ![r][cnt[r]] = NULL]
           /\ fault' = "memset"
           /\ UNCHANGED <<pc, cnt, live>>
  <2>1. TypeOK'
    BY <1>0, <1>2 DEF IInv, TypeOK
  <2>2. \A q \in Runners : HeldSlots(q)' = HeldSlots(q)
    BY <1>0, <1>2 DEF HeldSlots
  <2>3. \A q \in Runners : \A s \in HeldSlots(q) : buffers'[q][s] = buffers[q][s]
    BY <1>0, <1>2 DEF IInv, TypeOK, HeldSlots, Slots
  <2>4. FreedOnce' /\ NothingLeaks'
    BY <1>2, <2>2, <2>3 DEF IInv, FreedOnce, NothingLeaks
  <2>5. (\A q \in Runners : Progress(q)') /\ Joined' /\ Unstarted'
    BY <1>0, <1>2 DEF IInv, Progress, Joined, Unstarted, WaitFails
  <2> QED
    BY <2>1, <2>4, <2>5 DEF IInv
<1> QED
  BY <1>1, <1>2 DEF AllocOne

\* Freeing a random buffer (test_alloc.h:61-69): the slots that remain hold
\* the buffers they held, the freed one's slot holds the last one.
LEMMA FreeRandomIInv ==
  ASSUME IInv, NEW r \in Runners, FreeRandom(r)
  PROVE  IInv'
<1> USE ConstantsAssumption
<1>1. PICK d \in 0..RandMax :
        /\ live' = live \ {buffers[r][d % cnt[r]]}
        /\ buffers' = [buffers EXCEPT ![r][d % cnt[r]] = buffers[r][cnt[r] - 1]]
        /\ cnt' = [cnt EXCEPT ![r] = @ - 1]
  BY DEF FreeRandom
<1> DEFINE i == d % cnt[r]
<1>2. /\ cnt[r] \in Nat /\ cnt[r] > 0 /\ cnt[r] <= Count
      /\ pc[r] = "maybeFree" /\ purged[r] = 0
      /\ iter[r] < Count /\ cnt[r] <= iter[r] + 1
      /\ UNCHANGED <<mpc, mi, test, handle, cycle, purged, fault>>
      /\ iter' = [iter EXCEPT ![r] = @ + 1]
      /\ pc' = [pc EXCEPT ![r] = "alloc"]
  BY DEF IInv, TypeOK, Progress, FreeRandom, mainVars
<1>3. i \in 0..(cnt[r] - 1)
  BY <1>2, RandomIndex
<1> HIDE DEF i
<1>4. i \in Slots /\ cnt[r] - 1 \in Slots
  BY <1>2, <1>3 DEF Slots
<1>5. /\ live' = live \ {buffers[r][i]}
      /\ buffers' = [buffers EXCEPT ![r][i] = buffers[r][cnt[r] - 1]]
      /\ cnt' = [cnt EXCEPT ![r] = @ - 1]
  BY <1>1 DEF i
<1>6. TypeOK'
  BY <1>2, <1>4, <1>5 DEF IInv, TypeOK
<1>7. HeldSlots(r)' = 0..(cnt[r] - 2) /\ HeldSlots(r) = 0..(cnt[r] - 1)
  BY <1>2, <1>5 DEF IInv, TypeOK, HeldSlots
<1>8. \A q \in Runners : q # r => HeldSlots(q)' = HeldSlots(q) /\ buffers'[q] = buffers[q]
  BY <1>2, <1>5 DEF IInv, TypeOK, HeldSlots
<1>9. \A s \in HeldSlots(r)' :
        buffers'[r][s] = IF s = i THEN buffers[r][cnt[r] - 1] ELSE buffers[r][s]
  BY <1>2, <1>4, <1>5, <1>7 DEF IInv, TypeOK, Slots
<1> DEFINE old(q, s) == IF q = r /\ s = i THEN cnt[r] - 1 ELSE s
<1>10. \A q \in Runners : \A s \in HeldSlots(q)' :
         /\ old(q, s) \in HeldSlots(q)
         /\ buffers'[q][s] = buffers[q][old(q, s)]
         /\ ~(q = r /\ old(q, s) = i)
  BY <1>2, <1>3, <1>7, <1>8, <1>9
<1>11. \A q \in Runners : \A s, u \in HeldSlots(q)' : old(q, s) = old(q, u) => s = u
  BY <1>2, <1>3, <1>7
<1>12. i \in HeldSlots(r)
  BY <1>3, <1>7
<1> HIDE DEF old
<1>13. FreedOnce'
  BY <1>5, <1>10, <1>11, <1>12 DEF IInv, FreedOnce
<1>14. NothingLeaks'
  <2> SUFFICES ASSUME NEW a \in live, a # buffers[r][i]
               PROVE  \E q \in Runners : \E s \in HeldSlots(q)' : buffers'[q][s] = a
    BY <1>5 DEF NothingLeaks
  <2> PICK q \in Runners : \E s \in HeldSlots(q) : buffers[q][s] = a
    BY DEF IInv, NothingLeaks
  <2> PICK s \in HeldSlots(q) : buffers[q][s] = a
    OBVIOUS
  <2>1. CASE q # r
    BY <2>1, <1>8
  <2>2. CASE q = r /\ s = cnt[r] - 1
    BY <2>2, <1>2, <1>3, <1>7, <1>9, SMTT(30)
  <2>3. CASE q = r /\ s # cnt[r] - 1
    BY <2>3, <1>2, <1>3, <1>7, <1>9
  <2> QED
    BY <2>1, <2>2, <2>3
<1>15. \A q \in Runners : Progress(q)'
  BY <1>2, <1>5 DEF IInv, TypeOK, Progress
<1>16. Joined' /\ Unstarted'
  BY <1>2, MainKept DEF IInv, mainVars
<1> QED
  BY <1>6, <1>13, <1>14, <1>15, <1>16 DEF IInv

\* Going on without a free (test_alloc.h:60-69).
LEMMA KeepAllIInv ==
  ASSUME IInv, NEW r \in Runners, KeepAll(r)
  PROVE  IInv'
<1> USE ConstantsAssumption
<1>0. /\ UNCHANGED <<mpc, mi, test, handle, cycle, cnt, purged, buffers, live, fault>>
      /\ iter' = [iter EXCEPT ![r] = @ + 1]
      /\ pc' = [pc EXCEPT ![r] = "alloc"]
      /\ pc[r] = "maybeFree"
  BY DEF KeepAll, mainVars
<1>1. TypeOK'
  BY <1>0 DEF IInv, TypeOK
<1>2. FreedOnce' /\ NothingLeaks'
  BY <1>0 DEF IInv, FreedOnce, NothingLeaks, HeldSlots
<1>3. \A q \in Runners : Progress(q)'
  BY <1>0 DEF IInv, TypeOK, Progress
<1>4. Joined' /\ Unstarted'
  BY <1>0, MainKept DEF IInv, mainVars
<1> QED
  BY <1>1, <1>2, <1>3, <1>4 DEF IInv

\* Entering the purge loop (test_alloc.h:73).
LEMMA StartPurgeIInv ==
  ASSUME IInv, NEW r \in Runners, StartPurge(r)
  PROVE  IInv'
<1> USE ConstantsAssumption
<1>0. /\ UNCHANGED <<mpc, mi, test, handle, cycle, iter, cnt, buffers, live, fault>>
      /\ pc' = [pc EXCEPT ![r] = "purge"]
      /\ pc[r] = "alloc" /\ ~(iter[r] < Count)
      /\ purged' = [purged EXCEPT ![r] = 0]
  BY DEF StartPurge, mainVars
<1>1. purged' = purged
  BY <1>0 DEF IInv, TypeOK, Progress
<1>2. TypeOK'
  BY <1>0, <1>1 DEF IInv, TypeOK
<1>3. FreedOnce' /\ NothingLeaks'
  BY <1>0, <1>1 DEF IInv, FreedOnce, NothingLeaks, HeldSlots
<1>4. \A q \in Runners : Progress(q)'
  BY <1>0, <1>1 DEF IInv, TypeOK, Progress
<1>5. Joined' /\ Unstarted'
  BY <1>0, MainKept DEF IInv, mainVars
<1> QED
  BY <1>2, <1>3, <1>4, <1>5 DEF IInv

\* The purge loop (test_alloc.h:73-76) frees the held buffers in order.
LEMMA PurgeIInv ==
  ASSUME IInv, NEW r \in Runners, PurgeOne(r)
  PROVE  IInv'
<1> USE ConstantsAssumption
<1>0. /\ UNCHANGED <<mpc, mi, test, handle, pc, cycle, iter, cnt, buffers, fault>>
      /\ purged' = [purged EXCEPT ![r] = @ + 1]
      /\ live' = live \ {buffers[r][purged[r]]}
      /\ pc[r] = "purge" /\ purged[r] < cnt[r]
  BY DEF PurgeOne, mainVars
<1>1. purged[r] \in HeldSlots(r) /\ HeldSlots(r)' = HeldSlots(r) \ {purged[r]}
  <2>1. /\ purged[r] \in Nat /\ cnt[r] \in Nat /\ purged[r] < cnt[r]
        /\ purged'[r] = purged[r] + 1 /\ cnt'[r] = cnt[r]
    BY <1>0 DEF IInv, TypeOK
  <2> QED
    BY <2>1 DEF HeldSlots
<1>2. \A q \in Runners \ {r} : HeldSlots(q)' = HeldSlots(q)
  BY <1>0 DEF IInv, TypeOK, HeldSlots
<1>3. TypeOK'
  BY <1>0 DEF IInv, TypeOK
<1>4. FreedOnce'
  BY <1>0, <1>1, <1>2 DEF IInv, FreedOnce
<1>5. NothingLeaks'
  BY <1>0, <1>1, <1>2 DEF IInv, NothingLeaks
<1>6. \A q \in Runners : Progress(q)'
  BY <1>0 DEF IInv, TypeOK, Progress
<1>7. Joined' /\ Unstarted'
  BY <1>0 DEF IInv, Joined, Unstarted, WaitFails
<1> QED
  BY <1>3, <1>4, <1>5, <1>6, <1>7 DEF IInv

\* buffersCount = 0 after the purge (test_alloc.h:76) drops no held buffer.
LEMMA EndPurgeIInv ==
  ASSUME IInv, NEW r \in Runners, EndPurge(r)
  PROVE  IInv'
<1> USE ConstantsAssumption
<1>1. \A q \in Runners : HeldSlots(q)' = HeldSlots(q)
  BY DEF IInv, TypeOK, Progress, HeldSlots, EndPurge
<1>2. TypeOK'
  BY DEF IInv, TypeOK, EndPurge, mainVars
<1>3. FreedOnce' /\ NothingLeaks'
  BY <1>1 DEF IInv, FreedOnce, NothingLeaks, EndPurge
<1>4. \A q \in Runners : Progress(q)'
  BY DEF IInv, TypeOK, Progress, EndPurge
<1>5. Joined' /\ Unstarted'
  BY MainKept DEF IInv, EndPurge
<1> QED
  BY <1>2, <1>3, <1>4, <1>5 DEF IInv

-----------------------------------------------------------------------------
(* The steps of the main thread and the theorems.                          *)

\* The main thread (test_alloc.h:85-111) touches no buffer and deletes the
\* copies only after the wait.
LEMMA MainStepIInv ==
  ASSUME IInv, MainStep
  PROVE  IInv'
<1> USE ConstantsAssumption
<1>0. UNCHANGED <<cycle, iter, cnt, purged, buffers, live, fault>>
  BY DEF MainStep, SingleDone, DuplicateTest, DuplicateDone,
     CreateThread, CreateDone, WaitReturns, CollectOne, CollectDone, loopVars
<1>1. FreedOnce' /\ NothingLeaks'
  BY <1>0 DEF IInv, FreedOnce, NothingLeaks, HeldSlots
<1>2. ASSUME UNCHANGED <<pc, handle>>,
             mpc' \in {"single", "duplicate", "create", "wait", "collect", "done"},
             mi' \in 1..(NumThread + 1),
             test' \in [Threads -> {"none", "ready", "deleted"}],
             Joined', Unstarted'
      PROVE  IInv'
  <2>1. TypeOK'
    BY <1>0, <1>2 DEF IInv, TypeOK
  <2>2. \A q \in Runners : Progress(q)'
    BY <1>0, <1>2 DEF IInv, Progress
  <2> QED
    BY <1>1, <1>2, <2>1, <2>2 DEF IInv
<1>3. CASE SingleDone
  BY <1>2, <1>3 DEF SingleDone, IInv, TypeOK, Joined, Unstarted, WaitFails, Threads
<1>4. CASE DuplicateTest
  BY <1>2, <1>4 DEF DuplicateTest, IInv, TypeOK, Joined, Unstarted, WaitFails, Threads
<1>5. CASE DuplicateDone
  BY <1>2, <1>5 DEF DuplicateDone, IInv, TypeOK, Joined, Unstarted, WaitFails, Threads
<1>6. CASE CreateDone
  BY <1>2, <1>6 DEF CreateDone, IInv, TypeOK, Joined, Unstarted, WaitFails, Threads
<1>7. CASE WaitReturns
  BY <1>2, <1>7 DEF WaitReturns, IInv, TypeOK, Joined, Unstarted, WaitFails, Threads
<1>8. CASE CollectOne
  BY <1>2, <1>8 DEF CollectOne, IInv, TypeOK, Joined, Unstarted, WaitFails, Threads
<1>9. CASE CollectDone
  BY <1>2, <1>9 DEF CollectDone, IInv, TypeOK, Joined, Unstarted, WaitFails, Threads
<1>10. CASE CreateThread
  <2>1. /\ mpc = "create" /\ mi \in Threads /\ mi \in Nat
        /\ mi' = mi + 1 /\ UNCHANGED <<mpc, test>>
        /\ pc' = [pc EXCEPT ![mi] = "cycle"] \/ pc' = pc
    BY <1>10 DEF CreateThread, Threads
  <2>2. pc[mi] = "idle" /\ mi \in Runners
    BY <2>1 DEF IInv, Unstarted, Runners
  <2>3. \A q \in Runners : q # mi => pc'[q] = pc[q]
    BY <2>1 DEF IInv, TypeOK
  <2>4. pc'[mi] \in {"idle", "cycle"}
    BY <2>1, <2>2 DEF IInv, TypeOK
  <2>5. /\ handle' \in [Threads -> {"none", "open", "failed"}]
        /\ pc' \in [Runners -> {"idle", "cycle", "alloc", "maybeFree", "purge", "exit"}]
    BY <1>10, <2>2 DEF CreateThread, IInv, TypeOK
  <2>6. mi' \in 1..(NumThread + 1)
    BY <2>1 DEF Threads
  <2>10. TypeOK'
    BY <1>0, <2>1, <2>5, <2>6 DEF IInv, TypeOK
  <2>7. \A q \in Runners : Progress(q)'
    BY <1>0, <2>2, <2>3, <2>4 DEF IInv, Progress
  <2>8. Joined'
    BY <2>1 DEF IInv, Joined
  <2>9. Unstarted'
    BY <2>1, <2>3 DEF IInv, Unstarted, Threads, Runners
  <2> QED
    BY <1>1, <2>7, <2>8, <2>9, <2>10 DEF IInv
<1> QED
  BY <1>3, <1>4, <1>5, <1>6, <1>7, <1>8, <1>9, <1>10 DEF MainStep

\* IInv is inductive: every step of any thread keeps it.
LEMMA NextIInv == IInv /\ [Next]_vars => IInv'
<1> SUFFICES ASSUME IInv, [Next]_vars PROVE IInv'
  OBVIOUS
<1>1. CASE MainStep
  BY <1>1, MainStepIInv
<1>2. ASSUME NEW r \in Runners, RunLoop(r) PROVE IInv'
  BY <1>2, NextCycleIInv, AllocOneIInv, FreeRandomIInv, KeepAllIInv,
     StartPurgeIInv, PurgeIInv, EndPurgeIInv DEF RunLoop
<1>3. ASSUME NEW t \in Threads, DeletedAccess(t) PROVE IInv'
  <2>1. UNCHANGED <<mpc, mi, test, handle, pc, cycle, iter, cnt, purged, buffers, live>>
        /\ fault' = "deleted"
    BY <1>3 DEF DeletedAccess, mainVars, loopVars
  <2> QED
    BY <2>1 DEF IInv, TypeOK, FreedOnce, NothingLeaks, HeldSlots, Progress,
       Joined, Unstarted, WaitFails
<1>4. CASE UNCHANGED vars
  BY <1>4 DEF vars, IInv, TypeOK, FreedOnce, NothingLeaks, HeldSlots, Progress,
     Joined, Unstarted, WaitFails
<1> QED
  BY <1>1, <1>2, <1>3, <1>4 DEF Next, Terminated

\* The inductive invariant holds in every reachable state of the benchmark.
THEOREM Safe == Spec => []IInv
  BY InitIInv, NextIInv, PTL DEF Spec

\* Type correctness of the benchmark's state (RunLoop and
\* MultiThreadAllocTest::Run).
THEOREM TypeCorrect == Spec => []TypeOK
<1>1. IInv => TypeOK
  BY DEF IInv
<1> QED
  BY Safe, <1>1, PTL

\* For every number of threads, RunLoop (test_alloc.h:51-76) frees each buffer
\* once, and only live ones.
THEOREM NoDoubleFree == Spec => []FreedOnce
<1>1. IInv => FreedOnce
  BY DEF IInv
<1> QED
  BY Safe, <1>1, PTL

\* For every number of threads, no address handed out by the allocator is lost
\* by RunLoop (test_alloc.h:51-76).
THEOREM NoLeak == Spec => []NothingLeaks
<1>1. IInv => NothingLeaks
  BY DEF IInv
<1> QED
  BY Safe, <1>1, PTL

\* The store of test_alloc.h:54-55 is always inside the array, whatever its
\* length and the free frequency.
THEOREM NoOverrun == Spec => []StoreInArray
<1>1. IInv => StoreInArray
  BY ConstantsAssumption DEF IInv, TypeOK, Progress, StoreInArray, Slots
<1> QED
  BY Safe, <1>1, PTL

\* As long as every CreateThread succeeds, the copies of the test are deleted
\* (test_alloc.h:107) only after their threads have ended.
THEOREM NoDeleteUnderThread == Spec => []DeletedAfterExit
<1>1. IInv => DeletedAfterExit
  BY DEF IInv, Joined, DeletedAfterExit
<1> QED
  BY Safe, <1>1, PTL
=============================================================================
