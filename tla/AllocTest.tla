----------------------------- MODULE AllocTest -----------------------------
(***************************************************************************)
(* The allocation benchmark of test_dll/test_alloc.h, as test_alloc_perf   *)
(* (test_dll/main.cpp) runs it: the main thread first runs the loop itself *)
(* (AllocTest::Run), then MultiThreadAllocTest::Run duplicates the test,   *)
(* starts one thread per copy, waits for them and deletes the copies.      *)
(*                                                                         *)
(* The allocator under test (malloc, tc_malloc or sat_malloc) is external: *)
(* AllocBuffer returns NULL or any address that is not live, FreeBuffer    *)
(* makes an address available again.  fastrand() may return any value of   *)
(* 0..RandMax: its seed is one unsynchronised static shared by every       *)
(* thread, so nothing more is known of the values one thread draws.  Sizes *)
(* and times are left out: no property depends on them.                    *)
(***************************************************************************)
EXTENDS Naturals, FiniteSets

CONSTANTS
  NumThread,   \* template parameter of MultiThreadAllocTest
  Main,        \* the main thread
  Addr,        \* addresses the allocator may return
  NULL,        \* what it returns when it has no memory
  Count,       \* allocations of one cycle (500000 in the code)
  NumCycle,    \* num_cycle (4 in the code)
  RandMax,     \* greatest value of fastrand() (0x7FFF in the code)
  FreeFreq     \* testFreeFrequency (3 in the code), 0 turns freeing off

Threads == 1..NumThread
Runners == Threads \cup {Main}

ASSUME ConstantsAssumption ==
  /\ NumThread \in Nat
  /\ Main \notin Threads
  /\ NULL \notin Addr
  /\ Count \in Nat
  /\ NumCycle \in Nat
  /\ RandMax \in Nat
  /\ FreeFreq \in Nat

VARIABLES
  mpc,      \* where the main thread is
  mi,       \* the loop index 'i' of MultiThreadAllocTest::Run
  test,     \* threadTests[i]: "none", "ready" or "deleted"
  handle,   \* hThreads[i]: "none", "open", or "failed" for a NULL handle
  pc,       \* where each RunLoop is
  cycle,    \* its 'cycle'
  iter,     \* its inner 'i'
  cnt,      \* its 'buffersCount'
  purged,   \* its purge loop's 'i'
  buffers,  \* its array
  live,     \* addresses handed out by the allocator and not freed
  fault     \* "none", or the access that ended the process

mainVars == <<mpc, mi, test, handle>>
loopVars == <<cycle, iter, cnt, purged, buffers>>
vars == <<mpc, mi, test, handle, pc, cycle, iter, cnt, purged, buffers,
          live, fault>>

Slots == 0..(Count - 1)

Init ==
  /\ mpc = "single" /\ mi = 1
  /\ test = [t \in Threads |-> "none"]
  /\ handle = [t \in Threads |-> "none"]
  /\ pc = [r \in Runners |-> IF r = Main THEN "cycle" ELSE "idle"]
  /\ cycle = [r \in Runners |-> 0]
  /\ iter = [r \in Runners |-> 0]
  /\ cnt = [r \in Runners |-> 0]
  /\ purged = [r \in Runners |-> 0]
  /\ buffers = [r \in Runners |-> [s \in Slots |-> NULL]]
  /\ live = {}
  /\ fault = "none"

-----------------------------------------------------------------------------
(* RunLoop, executed by the main thread and by every worker.               *)

\* for (cycle = 0; cycle < num_cycle; cycle++): enter a cycle or leave the
\* loop and record meanTime.
NextCycle(r) ==
  /\ pc[r] = "cycle"
  /\ pc' = [pc EXCEPT ![r] = IF cycle[r] < NumCycle THEN "alloc" ELSE "exit"]
  /\ iter' = [iter EXCEPT ![r] = 0]
  /\ UNCHANGED <<mainVars, cycle, cnt, purged, buffers, live, fault>>

\* buf = AllocBuffer(size); memset(buf, 0, size); if (buf) buffersCount++.
\* The memset comes before the test of buf: it writes through a null pointer
\* when the allocator has failed, and the process ends there.
AllocOne(r) ==
  /\ pc[r] = "alloc" /\ iter[r] < Count
  /\ \/ \E a \in Addr \ live :
          /\ buffers' = [buffers EXCEPT ![r][cnt[r]] = a]
          /\ cnt' = [cnt EXCEPT ![r] = @ + 1]
          /\ live' = live \cup {a}
          /\ pc' = [pc EXCEPT ![r] = "maybeFree"]
          /\ UNCHANGED fault
     \/ /\ buffers' = [buffers EXCEPT ![r][cnt[r]] = NULL]
        /\ fault' = "memset"
        /\ UNCHANGED <<pc, cnt, live>>
  /\ UNCHANGED <<mainVars, cycle, iter, purged>>

\* One time in testFreeFrequency, a random buffer is replaced by the last one
\* of the array and freed.
Drawn == FreeFreq # 0 /\ \E d \in 0..RandMax : d % FreeFreq = 0
NotDrawn == FreeFreq = 0 \/ \E d \in 0..RandMax : d % FreeFreq # 0

\* Mutant of FreeRandom: the hole is not filled with the last buffer.
FreeRandomKeepsHole(r) ==
  /\ pc[r] = "maybeFree" /\ cnt[r] > 0 /\ Drawn
  /\ \E d \in 0..RandMax :
       /\ live' = live \ {buffers[r][d % cnt[r]]}
       /\ cnt' = [cnt EXCEPT ![r] = @ - 1]
  /\ iter' = [iter EXCEPT ![r] = @ + 1]
  /\ pc' = [pc EXCEPT ![r] = "alloc"]
  /\ UNCHANGED <<mainVars, cycle, purged, buffers, fault>>

FreeRandom(r) ==
  /\ pc[r] = "maybeFree" /\ cnt[r] > 0 /\ Drawn
  /\ \E d \in 0..RandMax :
       LET i == d % cnt[r] IN
       /\ live' = live \ {buffers[r][i]}
       /\ buffers' = [buffers EXCEPT ![r][i] = buffers[r][cnt[r] - 1]]
       /\ cnt' = [cnt EXCEPT ![r] = @ - 1]
  /\ iter' = [iter EXCEPT ![r] = @ + 1]
  /\ pc' = [pc EXCEPT ![r] = "alloc"]
  /\ UNCHANGED <<mainVars, cycle, purged, fault>>

KeepAll(r) ==
  /\ pc[r] = "maybeFree" /\ (NotDrawn \/ cnt[r] = 0)
  /\ iter' = [iter EXCEPT ![r] = @ + 1]
  /\ pc' = [pc EXCEPT ![r] = "alloc"]
  /\ UNCHANGED <<mainVars, cycle, cnt, purged, buffers, live, fault>>

\* Mutant of StartPurge: the purge skips the first buffer.
StartPurgeAtOne(r) ==
  /\ pc[r] = "alloc" /\ ~(iter[r] < Count)
  /\ pc' = [pc EXCEPT ![r] = "purge"]
  /\ purged' = [purged EXCEPT ![r] = 1]
  /\ UNCHANGED <<mainVars, cycle, iter, cnt, buffers, live, fault>>

\* The purge loop frees every remaining buffer, then buffersCount = 0.
StartPurge(r) ==
  /\ pc[r] = "alloc" /\ ~(iter[r] < Count)
  /\ pc' = [pc EXCEPT ![r] = "purge"]
  /\ purged' = [purged EXCEPT ![r] = 0]
  /\ UNCHANGED <<mainVars, cycle, iter, cnt, buffers, live, fault>>

PurgeOne(r) ==
  /\ pc[r] = "purge" /\ purged[r] < cnt[r]
  /\ live' = live \ {buffers[r][purged[r]]}
  /\ purged' = [purged EXCEPT ![r] = @ + 1]
  /\ UNCHANGED <<mainVars, pc, cycle, iter, cnt, buffers, fault>>

\* Mutant of EndPurge: cycle is not counted.
EndPurgeSameCycle(r) ==
  /\ pc[r] = "purge" /\ ~(purged[r] < cnt[r])
  /\ cnt' = [cnt EXCEPT ![r] = 0]
  /\ purged' = [purged EXCEPT ![r] = 0]
  /\ pc' = [pc EXCEPT ![r] = "cycle"]
  /\ UNCHANGED <<mainVars, cycle, iter, buffers, live, fault>>

EndPurge(r) ==
  /\ pc[r] = "purge" /\ ~(purged[r] < cnt[r])
  /\ cnt' = [cnt EXCEPT ![r] = 0]
  /\ purged' = [purged EXCEPT ![r] = 0]
  /\ cycle' = [cycle EXCEPT ![r] = @ + 1]
  /\ pc' = [pc EXCEPT ![r] = "cycle"]
  /\ UNCHANGED <<mainVars, iter, buffers, live, fault>>

RunLoop(r) ==
  \/ NextCycle(r) \/ AllocOne(r) \/ FreeRandom(r) \/ KeepAll(r)
  \/ StartPurge(r) \/ PurgeOne(r) \/ EndPurge(r)

\* A worker whose test object has been deleted reads freed memory at its next
\* access to 'this': it may still find the old values (RunLoop goes on) or
\* end the process.
DeletedAccess(t) ==
  /\ test[t] = "deleted" /\ pc[t] \notin {"idle", "exit"}
  /\ fault' = "deleted"
  /\ UNCHANGED <<mainVars, pc, loopVars, live>>

-----------------------------------------------------------------------------
(* The main thread: AllocTest::Run, then MultiThreadAllocTest::Run.        *)

\* The single-threaded run is over.
SingleDone ==
  /\ mpc = "single" /\ pc[Main] = "exit"
  /\ mpc' = "duplicate" /\ mi' = 1
  /\ UNCHANGED <<test, handle, pc, loopVars, live, fault>>

DuplicateTest ==
  /\ mpc = "duplicate" /\ mi \in Threads
  /\ test' = [test EXCEPT ![mi] = "ready"]
  /\ mi' = mi + 1
  /\ UNCHANGED <<mpc, handle, pc, loopVars, live, fault>>

DuplicateDone ==
  /\ mpc = "duplicate" /\ mi \notin Threads
  /\ mpc' = "create" /\ mi' = 1
  /\ UNCHANGED <<test, handle, pc, loopVars, live, fault>>

\* CreateThread may fail; its result is not tested.
CreateThread ==
  /\ mpc = "create" /\ mi \in Threads
  /\ \/ /\ handle' = [handle EXCEPT ![mi] = "open"]
        /\ pc' = [pc EXCEPT ![mi] = "cycle"]
     \/ /\ handle' = [handle EXCEPT ![mi] = "failed"]
        /\ UNCHANGED pc
  /\ mi' = mi + 1
  /\ UNCHANGED <<mpc, test, loopVars, live, fault>>

CreateDone ==
  /\ mpc = "create" /\ mi \notin Threads
  /\ mpc' = "wait"
  /\ UNCHANGED <<mi, test, handle, pc, loopVars, live, fault>>

\* WaitForMultipleObjects(numThread, hThreads, true, -1) returns when every
\* thread has ended, and at once (WAIT_FAILED) when a handle is invalid.
WaitFails == \E t \in Threads : handle[t] = "failed"

\* Mutant of WaitReturns: bWaitAll = false.
WaitReturnsOnFirst ==
  /\ mpc = "wait"
  /\ WaitFails \/ \E t \in Threads : pc[t] = "exit"
  /\ mpc' = "collect" /\ mi' = 1
  /\ UNCHANGED <<test, handle, pc, loopVars, live, fault>>

WaitReturns ==
  /\ mpc = "wait"
  /\ WaitFails \/ \A t \in Threads : pc[t] = "exit"
  /\ mpc' = "collect" /\ mi' = 1
  /\ UNCHANGED <<test, handle, pc, loopVars, live, fault>>

\* mean_times += threadTests[i]->meanTime; delete threadTests[i].
CollectOne ==
  /\ mpc = "collect" /\ mi \in Threads
  /\ test' = [test EXCEPT ![mi] = "deleted"]
  /\ mi' = mi + 1
  /\ UNCHANGED <<mpc, handle, pc, loopVars, live, fault>>

CollectDone ==
  /\ mpc = "collect" /\ mi \notin Threads
  /\ mpc' = "done"
  /\ UNCHANGED <<mi, test, handle, pc, loopVars, live, fault>>

MainStep ==
  \/ SingleDone \/ DuplicateTest \/ DuplicateDone \/ CreateThread
  \/ CreateDone \/ WaitReturns \/ CollectOne \/ CollectDone

-----------------------------------------------------------------------------

Running == fault = "none"

\* The benchmark is over, or the process has ended.
Finished == ~Running \/ (mpc = "done" /\ \A t \in Threads : pc[t] \in {"idle", "exit"})

Terminated == Finished /\ UNCHANGED vars

Next ==
  \/ Running /\ MainStep
  \/ \E r \in Runners : Running /\ RunLoop(r)
  \/ \E t \in Threads : Running /\ DeletedAccess(t)
  \/ Terminated

\* The system runs every thread that can run.
Fairness ==
  /\ WF_vars(Running /\ MainStep)
  /\ \A r \in Runners : WF_vars(Running /\ RunLoop(r))

Spec == Init /\ [][Next]_vars /\ Fairness

-----------------------------------------------------------------------------
(* Properties.                                                             *)

TypeOK ==
  /\ mpc \in {"single", "duplicate", "create", "wait", "collect", "done"}
  /\ mi \in 1..(NumThread + 1)
  /\ test \in [Threads -> {"none", "ready", "deleted"}]
  /\ handle \in [Threads -> {"none", "open", "failed"}]
  /\ pc \in [Runners -> {"idle", "cycle", "alloc", "maybeFree", "purge", "exit"}]
  /\ cycle \in [Runners -> Nat]
  /\ iter \in [Runners -> Nat]
  /\ cnt \in [Runners -> Nat]
  /\ purged \in [Runners -> Nat]
  /\ buffers \in [Runners -> [Slots -> Addr \cup {NULL}]]
  /\ live \in SUBSET Addr
  /\ fault \in {"none", "memset", "deleted"}

\* The slots of r's array that hold a buffer it has yet to free.
HeldSlots(r) == purged[r]..(cnt[r] - 1)

\* RunLoop (test_alloc.h:51-76) hands to FreeBuffer only addresses that are
\* live, each once: the buffers that the runners hold are live, no array holds
\* one twice, no two arrays share one.  The swap with the last element must
\* not duplicate or lose an entry for this to stay true.
FreedOnce ==
  \A r, q \in Runners : \A s \in HeldSlots(r), u \in HeldSlots(q) :
    /\ buffers[r][s] \in live
    /\ buffers[r][s] = buffers[q][u] => r = q /\ s = u

\* Every address the allocator has handed out is held by some runner
\* (test_alloc.h:54-76), so when all of them have left RunLoop nothing leaks.
NothingLeaks ==
  \A a \in live : \E r \in Runners : \E s \in HeldSlots(r) : buffers[r][s] = a

\* buffers[buffersCount] (test_alloc.h:54) is an element of the array whenever
\* an allocation is about to be stored.
StoreInArray ==
  \A r \in Runners : pc[r] = "alloc" /\ iter[r] < Count => cnt[r] \in Slots

\* threadTests[i] is deleted (test_alloc.h:104-108) only when its thread has
\* left RunLoop, unless a CreateThread failed: then the wait returns at once
\* and the copies are deleted under the threads that did start.
DeletedAfterExit ==
  ~WaitFails => \A t \in Threads : test[t] = "deleted" => pc[t] = "exit"

\* Every run of the benchmark comes to an end (all loops of RunLoop and of
\* MultiThreadAllocTest::Run, test_alloc.h:47-110).
Terminates == <>Finished

\* test_alloc.h:58 prints "not enough memory" and goes on when the allocator
\* returns 0: an allocation failure must not end the process.
OutOfMemoryReported == fault # "memset"

(* The inductive invariant behind the safety properties.                   *)

\* How far each loop is bounds how much its array holds.
Progress(r) ==
  /\ pc[r] \in {"idle", "cycle", "exit"} => cnt[r] = 0
  /\ pc[r] = "alloc" => iter[r] <= Count /\ cnt[r] <= iter[r]
  /\ pc[r] = "maybeFree" => iter[r] < Count /\ cnt[r] <= iter[r] + 1
  /\ pc[r] = "purge" => purged[r] <= cnt[r] /\ cnt[r] <= Count
  /\ pc[r] # "purge" => purged[r] = 0

\* The main thread deletes nothing before the wait has returned.
Joined ==
  /\ mpc \in {"collect", "done"} => WaitFails \/ \A t \in Threads : pc[t] = "exit"
  /\ mpc \notin {"collect", "done"} => \A t \in Threads : test[t] # "deleted"

\* A worker whose thread has not been created is idle.
Unstarted ==
  \A t \in Threads :
    mpc \in {"single", "duplicate"} \/ (mpc = "create" /\ t >= mi) => pc[t] = "idle"

IInv ==
  /\ TypeOK
  /\ FreedOnce
  /\ NothingLeaks
  /\ \A r \in Runners : Progress(r)
  /\ Joined
  /\ Unstarted
=============================================================================
