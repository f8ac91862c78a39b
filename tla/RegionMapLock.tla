--------------------------- MODULE RegionMapLock ----------------------------
(***************************************************************************)
(* The lock of MemoryRegionMap, which its holder may take again. owner_lock_ *)
(* guards the owner and the depth and is never held while a thread waits,   *)
(* so what is done under it is one step; between lock_.Lock() and the write *)
(* of the owner other threads run.                                          *)
(***************************************************************************)
EXTENDS Naturals, FiniteSets

CONSTANTS Threads, Main, MaxDepth  \* a nesting deeper than MaxDepth is RAW_CHECKed (5 in the code)
ASSUME LockAssumption == Main \in Threads /\ MaxDepth \in Nat \ {0}

VARIABLES pc,      \* where each thread is: "out", "wait" for lock_, "own", "in"
          depth,   \* how often each thread has locked and not unlocked
          lock,    \* lock_.IsHeld()
          owner,   \* lock_owner_tid_, {} before the first thread is known
          count,   \* recursion_count_
          threads, \* libpthread_initialized
          answer   \* what LockIsHeld said last to a thread outside its calls
vars == <<pc, depth, lock, owner, count, threads, answer>>

Init == /\ pc = [t \in Threads |-> "out"] /\ depth = [t \in Threads |-> 0]
        /\ lock = FALSE /\ owner = {} /\ count = 0 /\ threads = FALSE
        /\ answer = [t \in Threads |-> FALSE]

TakeOwnershipKeepsOwner(t) == /\ pc[t] = "own" /\ owner' = owner /\ count' = 1
                              /\ depth' = [depth EXCEPT ![t] = @ + 1] /\ pc' = [pc EXCEPT ![t] = "in"]
                              /\ UNCHANGED <<lock, threads, answer>>

\* Before main() there is one thread, so we are always that thread.
Runs(t) == threads \/ t = Main
CurrentThreadIs(t) == ~threads \/ owner = {t}

\* A module initializer, in no call of the lock.
InitThreads == /\ ~threads /\ pc[Main] = "out" /\ threads' = TRUE
               /\ UNCHANGED <<pc, depth, lock, owner, count, answer>>

LockAgain(t) == /\ pc[t] \in {"out", "in"} /\ count > 0 /\ CurrentThreadIs(t) /\ count < MaxDepth
                /\ count' = count + 1 /\ depth' = [depth EXCEPT ![t] = @ + 1]
                /\ UNCHANGED <<pc, lock, owner, threads, answer>>
LockNotMine(t) == /\ pc[t] \in {"out", "in"} /\ ~(count > 0 /\ CurrentThreadIs(t))
                  /\ pc' = [pc EXCEPT ![t] = "wait"]
                  /\ UNCHANGED <<depth, lock, owner, count, threads, answer>>
\* lock_.Lock() has returned.
Acquire(t) == /\ pc[t] = "wait" /\ ~lock /\ lock' = TRUE /\ pc' = [pc EXCEPT ![t] = "own"]
              /\ UNCHANGED <<depth, owner, count, threads, answer>>
TakeOwnership(t) == /\ pc[t] = "own" /\ owner' = (IF threads THEN {t} ELSE owner) /\ count' = 1
                    /\ depth' = [depth EXCEPT ![t] = @ + 1] /\ pc' = [pc EXCEPT ![t] = "in"]
                    /\ UNCHANGED <<lock, threads, answer>>
Unlock(t) == /\ pc[t] = "in" /\ CurrentThreadIs(t) /\ count' = count - 1
             /\ depth' = [depth EXCEPT ![t] = @ - 1]
             /\ lock' = (IF count' = 0 THEN FALSE ELSE lock)
             /\ pc' = (IF count' = 0 THEN [pc EXCEPT ![t] = "out"] ELSE pc)
             /\ UNCHANGED <<owner, threads, answer>>
LockIsHeld(t) == /\ pc[t] \in {"out", "in"}
                 /\ answer' = [answer EXCEPT ![t] = lock /\ CurrentThreadIs(t)]
                 /\ answer' # answer
                 /\ UNCHANGED <<pc, depth, lock, owner, count, threads>>

Step(t) == \/ LockAgain(t) \/ LockNotMine(t) \/ Acquire(t) \/ TakeOwnership(t) \/ Unlock(t) \/ LockIsHeld(t)
Next == InitThreads \/ \E t \in Threads : Runs(t) /\ Step(t)
Spec == Init /\ [][Next]_vars

------------------------------------------------------------------------------
TypeOK == /\ pc \in [Threads -> {"out", "wait", "own", "in"}] /\ depth \in [Threads -> Nat]
          /\ lock \in BOOLEAN /\ owner \in SUBSET Threads /\ count \in Nat
          /\ threads \in BOOLEAN /\ answer \in [Threads -> BOOLEAN]

\* The comment above Lock: while lock_ is free the depth is 0; at entry and exit
\* of Lock and Unlock a thread holds lock_ exactly if it is the owner and the
\* depth is positive; and the depth counts the calls of that thread alone.
OwnerIffHeld ==
  /\ ~lock => count = 0
  /\ threads => \A t \in Threads : pc[t] \in {"out", "in"} => ((pc[t] = "in") <=> (owner = {t} /\ count > 0))
  /\ \A t \in Threads : depth[t] = (IF pc[t] = "in" THEN count ELSE 0)

\* Nobody waits for a lock that it holds itself: Lock never deadlocks its caller,
\* whatever else the process does. A waiting thread has no lock to wait for but another's.
WaitsForOther == \A t \in Threads : pc[t] = "wait" => depth[t] = 0

\* The lock is a mutex whose holder is the thread that won lock_.
holder == {t \in Threads : pc[t] \in {"own", "in"}}
Mutex == INSTANCE Mutex
IsMutex == Mutex!Spec

\* memory_region_map.h: LockIsHeld returns true when the lock is held by this thread.
HeldIsMine == [][\A t \in Threads : answer'[t] /\ ~answer[t] => depth[t] > 0]_vars
=============================================================================
