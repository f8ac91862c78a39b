-------------------------- MODULE ThreadCacheSpace --------------------------
(***************************************************************************)
(* The heaps of all threads (thread_cache.cc): how a thread gets its heap,  *)
(* gives it up and dies, and how the heaps share the overall cache size.    *)
(* pthread_setspecific may call malloc again; a section under pageheap_lock *)
(* is one step.  The number of bytes is small, in the real proportions.     *)
(***************************************************************************)
EXTENDS Integers, Sequences

CONSTANTS
  Owners,       \* the threads
  Heaps, NoHeap, \* a heap, and NULL
  kStealAmount, kMinThreadCacheSize, kMaxThreadCacheSize, kDefaultOverallThreadCacheSize,
  Overall,      \* the values overall_thread_cache_size_ is set to
  Tries,        \* heaps looked at for memory to steal (10)
  Rounds        \* rounds of key destructors at the end of a thread

\* Sizes as common.h and static_vars.cc give them: a victim has what is stolen.
ASSUME SpaceAssumption ==
  /\ NoHeap \notin Heaps /\ {kStealAmount, kMinThreadCacheSize, Tries} \subseteq Nat \ {0} /\ Rounds \in Nat
  /\ kMaxThreadCacheSize \in Nat /\ kStealAmount <= kMinThreadCacheSize /\ kMinThreadCacheSize <= kMaxThreadCacheSize
  /\ kDefaultOverallThreadCacheSize \in Nat \ {0} /\ Overall \subseteq Nat \ {0}

VARIABLES
  heaps,       \* thread_heaps_, the newest first
  next_memory_steal_,
  max_size_, tid_, in_setspecific_, \* by heap
  unclaimed_cache_space_, overall_thread_cache_size_, per_thread_cache_size_,
  tsd_inited_,
  tls,         \* threadlocal_data_.heap, by thread
  key,         \* the value of heap_key_, by thread
  pc,          \* by thread: "runs", or inside setspecific: "sets", "idles"
  self,        \* by thread: the heap that setspecific is about
  rounds       \* by thread: 1 + the rounds of destructors to go, 0 while it lives
shared == <<next_memory_steal_, max_size_, unclaimed_cache_space_>>
sizes == <<overall_thread_cache_size_, per_thread_cache_size_>>
thread == <<tls, key, pc, self, rounds>>
spaceVars == <<heaps, shared, sizes, tid_, in_setspecific_, tsd_inited_, thread>>

Live == {heaps[i] : i \in DOMAIN heaps}
Place(h) == CHOOSE i \in DOMAIN heaps : heaps[i] = h
\* h->next_
NextOf(h) == IF Place(h) = Len(heaps) THEN NoHeap ELSE heaps[Place(h) + 1]
Total(hs, size) == LET sum[i \in 0..Len(hs)] == IF i = 0 THEN 0 ELSE sum[i - 1] + size[hs[i]] IN sum[Len(hs)]
Claimed(size) == Total(heaps, size)

SpaceInit ==
  /\ heaps = <<>> /\ next_memory_steal_ = NoHeap
  /\ overall_thread_cache_size_ = kDefaultOverallThreadCacheSize
  /\ unclaimed_cache_space_ = kDefaultOverallThreadCacheSize
  /\ per_thread_cache_size_ = kMaxThreadCacheSize
  /\ max_size_ = [h \in Heaps |-> 0]
  /\ tid_ = [h \in Heaps |-> NoHeap] /\ in_setspecific_ = [h \in Heaps |-> FALSE]
  /\ tsd_inited_ = FALSE
  /\ tls = [t \in Owners |-> NoHeap] /\ key = tls /\ self = tls
  /\ pc = [t \in Owners |-> "runs"] /\ rounds = [t \in Owners |-> 0]

-----------------------------------------------------------------------------
(* IncreaseCacheLimitLocked for heap h, on an account [steal, size,         *)
(* unclaimed].                                                              *)

Account == [steal |-> next_memory_steal_, size |-> max_size_, unclaimed |-> unclaimed_cache_space_]

\* The heap looked at in try i = 0, 1, ...: round the list from next_memory_steal_.
Looked(a, i) == heaps[1 + (((IF a.steal = NoHeap THEN 0 ELSE Place(a.steal) - 1) + i) % Len(heaps))]
Robs(a, h, i) == Looked(a, i) # h /\ a.size[Looked(a, i)] > kMinThreadCacheSize

IncreaseCacheLimitLocked(a, h) ==
  LET good == {i \in 0..(Tries - 1) : Robs(a, h, i)}
      i == CHOOSE i \in good : \A j \in good : i <= j
      from == Looked(a, i)
  IN IF a.unclaimed > 0
       THEN [steal |-> a.steal, size |-> [a.size EXCEPT ![h] = @ + kStealAmount], unclaimed |-> a.unclaimed - kStealAmount]
     ELSE IF good = {}
       THEN [steal |-> NextOf(Looked(a, Tries - 1)), size |-> a.size, unclaimed |-> a.unclaimed]
     ELSE [steal |-> NextOf(from), size |-> [a.size EXCEPT ![from] = @ - kStealAmount, ![h] = @ + kStealAmount], unclaimed |-> a.unclaimed]

\* ThreadCache::Init of heap h.
InitHeap(a, h) ==
  LET b == IncreaseCacheLimitLocked([steal |-> a.steal, size |-> [a.size EXCEPT ![h] = 0], unclaimed |-> a.unclaimed], h)
  IN IF b.size[h] = 0
       THEN [steal |-> b.steal, size |-> [b.size EXCEPT ![h] = kMinThreadCacheSize], unclaimed |-> b.unclaimed - kMinThreadCacheSize]
       ELSE b

Book(a) == next_memory_steal_' = a.steal /\ max_size_' = a.size /\ unclaimed_cache_space_' = a.unclaimed

-----------------------------------------------------------------------------
(* A thread gets its heap.                                                  *)

\* The heaps of thread t in the list.
Owned(t) == {h \in Live : tid_[h] = t}

\* After the lock: pthread_setspecific is called unless this is a call from it.
Enter(t, h) ==
  IF in_setspecific_[h] \/ ~tsd_inited_
    THEN UNCHANGED <<in_setspecific_, pc, self>>
    ELSE /\ in_setspecific_' = [in_setspecific_ EXCEPT ![h] = TRUE]
         /\ pc' = [pc EXCEPT ![t] = "sets"] /\ self' = [self EXCEPT ![t] = h]

NewHeap(t, h) ==
  /\ heaps' = <<h>> \o heaps
  /\ tid_' = [tid_ EXCEPT ![h] = t]
  /\ LET a == InitHeap(Account, h) IN Book(IF heaps = <<>> THEN [steal |-> h, size |-> a.size, unclaimed |-> a.unclaimed] ELSE a)

CreateCacheIfNecessary(t) ==
  /\ tls[t] = NoHeap
  /\ \/ \E h \in Owned(t) : Enter(t, h) /\ UNCHANGED <<heaps, shared, tid_>>
     \/ Owned(t) = {} /\ \E h \in Heaps \ Live : NewHeap(t, h) /\ Enter(t, h)
  /\ UNCHANGED <<sizes, tsd_inited_, tls, key, rounds>>

\* pthread_setspecific(heap) has returned.
SetDone(t) ==
  /\ pc[t] = "sets"
  /\ key' = [key EXCEPT ![t] = self[t]] /\ tls' = [tls EXCEPT ![t] = self[t]]
  /\ in_setspecific_' = [in_setspecific_ EXCEPT ![self[t]] = FALSE]
  /\ pc' = [pc EXCEPT ![t] = "runs"] /\ self' = [self EXCEPT ![t] = NoHeap]
  /\ UNCHANGED <<heaps, shared, sizes, tid_, tsd_inited_, rounds>>

InitTSD ==
  /\ ~tsd_inited_ /\ tsd_inited_' = TRUE
  /\ UNCHANGED <<heaps, shared, sizes, tid_, in_setspecific_, thread>>

\* A scavenge on the thread's heap asks for more cache space.
IncreaseCacheLimit(t) ==
  /\ tls[t] # NoHeap
  /\ Book(IncreaseCacheLimitLocked(Account, tls[t]))
  /\ UNCHANGED <<heaps, sizes, tid_, in_setspecific_, tsd_inited_, thread>>

-----------------------------------------------------------------------------
(* A thread gives its heap up.                                              *)

Without(h) == [i \in 1..(Len(heaps) - 1) |-> IF i < Place(h) THEN heaps[i] ELSE heaps[i + 1]]
\* Mutant: next_memory_steal_ is left where it is.
DeleteCacheStale(h) ==
  /\ heaps' = Without(h)
  /\ next_memory_steal_' = next_memory_steal_
  /\ unclaimed_cache_space_' = unclaimed_cache_space_ + max_size_[h]
  /\ max_size_' = [max_size_ EXCEPT ![h] = 0] /\ tid_' = [tid_ EXCEPT ![h] = NoHeap]
\* The values of a deleted heap are of no account; they are reset.
DeleteCache(h) ==
  LET rest == Without(h)
      steal == IF next_memory_steal_ = h THEN NextOf(h) ELSE next_memory_steal_
  IN /\ heaps' = rest
     /\ next_memory_steal_' = IF steal = NoHeap /\ rest # <<>> THEN Head(rest) ELSE steal
     /\ unclaimed_cache_space_' = unclaimed_cache_space_ + max_size_[h]
     /\ max_size_' = [max_size_ EXCEPT ![h] = 0] /\ tid_' = [tid_ EXCEPT ![h] = NoHeap]

BecomeIdle(t) ==
  /\ tsd_inited_ /\ tls[t] # NoHeap /\ ~in_setspecific_[tls[t]]
  /\ in_setspecific_' = [in_setspecific_ EXCEPT ![tls[t]] = TRUE]
  /\ pc' = [pc EXCEPT ![t] = "idles"] /\ self' = [self EXCEPT ![t] = tls[t]]
  /\ UNCHANGED <<heaps, shared, sizes, tid_, tsd_inited_, tls, key, rounds>>

IdleDone(t) ==
  /\ pc[t] = "idles"
  /\ key' = [key EXCEPT ![t] = NoHeap] /\ tls' = [tls EXCEPT ![t] = NoHeap]
  /\ in_setspecific_' = [in_setspecific_ EXCEPT ![self[t]] = FALSE]
  /\ DeleteCache(self[t])
  /\ pc' = [pc EXCEPT ![t] = "runs"] /\ self' = [self EXCEPT ![t] = NoHeap]
  /\ UNCHANGED <<sizes, tsd_inited_, rounds>>

\* The thread ends; its key destructors run, for as long as keys have values
\* and rounds are left.  Other destructors may allocate in between.
ThreadEnds(t) ==
  /\ pc[t] = "runs" /\ rounds[t] = 0 /\ rounds' = [rounds EXCEPT ![t] = Rounds + 1]
  /\ UNCHANGED <<heaps, shared, sizes, tid_, in_setspecific_, tsd_inited_, tls, key, pc, self>>

DestroyThreadCache(t) ==
  /\ pc[t] = "runs" /\ rounds[t] > 1 /\ key[t] # NoHeap
  /\ DeleteCache(key[t])
  /\ key' = [key EXCEPT ![t] = NoHeap] /\ tls' = [tls EXCEPT ![t] = NoHeap]
  /\ rounds' = [rounds EXCEPT ![t] = @ - 1]
  /\ UNCHANGED <<sizes, in_setspecific_, tsd_inited_, pc, self>>

\* The thread is gone; a later thread with its pthread_t starts.
Reused(t) ==
  /\ pc[t] = "runs" /\ rounds[t] > 0 /\ (key[t] = NoHeap \/ rounds[t] = 1)
  /\ key' = [key EXCEPT ![t] = NoHeap] /\ tls' = [tls EXCEPT ![t] = NoHeap]
  /\ rounds' = [rounds EXCEPT ![t] = 0]
  /\ UNCHANGED <<heaps, shared, sizes, tid_, in_setspecific_, tsd_inited_, pc, self>>

-----------------------------------------------------------------------------

Clip(n) == IF n < kMinThreadCacheSize THEN kMinThreadCacheSize
           ELSE IF n > kMaxThreadCacheSize THEN kMaxThreadCacheSize ELSE n

RecomputePerThreadCacheSize(n) ==
  LET space == Clip(n \div (IF heaps = <<>> THEN 1 ELSE Len(heaps)))
      scaled == [h \in Heaps |-> IF h \in Live /\ space < per_thread_cache_size_
                                   THEN (max_size_[h] * space) \div per_thread_cache_size_
                                   ELSE max_size_[h]]
  IN /\ max_size_' = scaled
     /\ unclaimed_cache_space_' = n - Claimed(scaled)
     /\ per_thread_cache_size_' = space

set_overall_thread_cache_size ==
  \E n \in Overall :
    /\ overall_thread_cache_size_' = n
    /\ RecomputePerThreadCacheSize(n)
    /\ UNCHANGED <<heaps, next_memory_steal_, tid_, in_setspecific_, tsd_inited_, thread>>

SpaceNext ==
  \/ \E t \in Owners : \/ CreateCacheIfNecessary(t) \/ SetDone(t) \/ IncreaseCacheLimit(t)
                        \/ BecomeIdle(t) \/ IdleDone(t)
                        \/ ThreadEnds(t) \/ DestroyThreadCache(t) \/ Reused(t)
  \/ InitTSD \/ set_overall_thread_cache_size

SpaceSpec == SpaceInit /\ [][SpaceNext]_spaceVars

-----------------------------------------------------------------------------
(* Properties.                                                              *)

\* The types; the list has no heap twice.
SpaceTypeOK ==
  /\ heaps \in Seq(Heaps) /\ \A i, j \in DOMAIN heaps : heaps[i] = heaps[j] => i = j
  /\ max_size_ \in [Heaps -> Nat] /\ overall_thread_cache_size_ \in Nat \ {0}
  /\ tid_ \in [Heaps -> Owners \cup {NoHeap}] /\ in_setspecific_ \in [Heaps -> BOOLEAN]
  /\ {tls, key, self} \subseteq [Owners -> Heaps \cup {NoHeap}]
  /\ pc \in [Owners -> {"runs", "sets", "idles"}] /\ rounds \in [Owners -> 0..(Rounds + 1)]
  /\ unclaimed_cache_space_ \in Int /\ per_thread_cache_size_ \in kMinThreadCacheSize..kMaxThreadCacheSize

\* Whatever is stolen, scaled, lent to new heaps and returned by dead ones:
\* unclaimed_cache_space_ is the overall size less the claims (thread_cache.h:306).
Accounted == unclaimed_cache_space_ + Claimed(max_size_) = overall_thread_cache_size_

\* next_memory_steal_ is one of the heaps or the end of the list, and when the
\* first heap comes there is space: the search for a victim never meets NULL.
StealLive ==
  /\ next_memory_steal_ \in Live \cup {NoHeap}
  /\ heaps = <<>> => unclaimed_cache_space_ > 0

\* A thread works on a heap in the list, its own, and has no second one, also
\* inside pthread_setspecific and after the reuse of a pthread_t.
OwnHeap ==
  \A t \in Owners :
    /\ \A g, h \in Owned(t) : g = h
    /\ tls[t] # NoHeap => tls[t] \in Owned(t)
    /\ key[t] # NoHeap => key[t] \in Owned(t)
    /\ pc[t] # "runs" => self[t] \in Owned(t) /\ in_setspecific_[self[t]]

\* The thread caches share what there is, and each thread has its own, whoever
\* comes, goes idle, dies or steals meanwhile.
CachesTrue == SpaceTypeOK /\ Accounted /\ StealLive /\ OwnHeap

=============================================================================
