--------------------------- MODULE CentralFreeList ---------------------------
(***************************************************************************)
(* The central free lists of TCmalloc (central_freelist.cc), one per size   *)
(* class, used by several threads.  A list has a lock, the spans it cut     *)
(* into objects, and a transfer cache of whole batches.  Room in a cache is *)
(* taken from the cache of another class, for which the thread gives up its *)
(* own lock (LockInverter), and spans come from and go to the page heap     *)
(* with the lock released: every such place is a step of its own.           *)
(*                                                                          *)
(* An object is <<span, number>>; every span is cut into SpanObjects        *)
(* objects.  The page heap is external: it hands out a span nobody has, or  *)
(* nothing.  race_counter is shared by all threads without a lock, so       *)
(* EvictRandomSizeClass may come to any class.                              *)
(***************************************************************************)
EXTENDS Integers, Sequences, FiniteSets, Functions

CONSTANTS
  Clients, Classes, Spans, NoThread, NoClass,
  SpanObjects,   \* objects of a span
  Batch,         \* num_objects_to_move of every class
  InitialSize,   \* cache_size_ after CentralInit
  MaxSize,       \* max_cache_size_
  MaxOps         \* calls a thread makes, 0 for no bound

ASSUME CentralAssumption ==
  /\ NoThread \notin Clients /\ NoClass \notin Classes /\ IsFiniteSet(Classes) /\ IsFiniteSet(Spans)
  /\ SpanObjects \in Nat \ {0} /\ Batch \in Nat \ {0} /\ MaxOps \in Nat
  /\ MaxSize \in Nat /\ InitialSize \in 0..MaxSize

VARIABLES
  lock,        \* lock_: its holder
  cache_size, slots,     \* cache_size_; tc_slots_[0 .. used_slots_ - 1]
  nonempty, empty,       \* the span lists
  num_spans, counter,    \* num_spans_, counter_
  class,       \* the class a span is cut for, NoClass when the page heap has it
  objects, refcount,     \* its free objects and the number of the others
  held,        \* objects the thread caches have
  th,          \* where each thread is
  ops          \* calls made

centralVars == <<lock, cache_size, slots, nonempty, empty, num_spans, counter, class,
          objects, refcount, held, th, ops>>

ObjectsOf(s) == {s} \X (1..SpanObjects)
Some(S, n) == CHOOSE T \in SUBSET S : Cardinality(T) = n
LeastOf(a, b) == IF a <= b THEN a ELSE b
used_slots(c) == Len(slots[c])
Top(q) == q[Len(q)]
Popped(q) == SubSeq(q, 1, Len(q) - 1)
Cut(q, s) ==   \* DLL_Remove
  LET i == CHOOSE j \in DOMAIN q : q[j] = s IN
  IF s \in Range(q) THEN [j \in 1..(Len(q) - 1) |-> IF j < i THEN q[j] ELSE q[j + 1]] ELSE q

\* pc, the class of the call, the objects given or got, the number wanted;
\* the class to evict from and how; the list that is being released, of
\* which class, and what comes after; the span on its way to or from the
\* page heap.
NoCall == [pc |-> "idle", c |-> NoClass, list |-> {}, n |-> 0, populated |-> FALSE,
         other |-> NoClass, force |-> FALSE, evicted |-> FALSE,
         drop |-> {}, from |-> NoClass, after |-> "idle", span |-> {}]

CentralInit ==
  /\ lock = [c \in Classes |-> NoThread]
  /\ cache_size = [c \in Classes |-> InitialSize]
  /\ slots = [c \in Classes |-> <<>>]
  /\ nonempty = [c \in Classes |-> <<>>] /\ empty = [c \in Classes |-> {}]
  /\ num_spans = [c \in Classes |-> 0] /\ counter = [c \in Classes |-> 0]
  /\ class = [s \in Spans |-> NoClass]
  /\ objects = [s \in Spans |-> {}] /\ refcount = [s \in Spans |-> 0]
  /\ held = [t \in Clients |-> {}]
  /\ th = [t \in Clients |-> NoCall]
  /\ ops = [t \in Clients |-> 0]

At(t, pc) == th[t].pc = pc
Acquire(t, c) == lock[c] = NoThread /\ lock' = [lock EXCEPT ![c] = t]
Release(c) == lock' = [lock EXCEPT ![c] = NoThread]

spans == <<nonempty, empty, num_spans, counter, class, objects, refcount>>
cache == <<cache_size, slots>>

-----------------------------------------------------------------------------
(* InsertRange.                                                             *)

Call(t) == At(t, "idle") /\ (MaxOps = 0 \/ ops[t] < MaxOps)
           /\ ops' = [ops EXCEPT ![t] = IF MaxOps = 0 THEN 0 ELSE @ + 1]

InsertRange(t, c, list) ==
  /\ Call(t)
  /\ list # {} /\ list \subseteq held[t] /\ \A o \in list : class[o[1]] = c
  /\ held' = [held EXCEPT ![t] = @ \ list]
  /\ th' = [th EXCEPT ![t] = [NoCall EXCEPT !.pc = "insert", !.c = c, !.list = list]]
  /\ UNCHANGED <<lock, cache, spans>>

Releasing(t, c, list, after) ==
  th' = [th EXCEPT ![t].pc = "release", ![t].from = c, ![t].drop = list, ![t].after = after]

StoreBatch(t, c) ==
  /\ slots' = [slots EXCEPT ![c] = Append(@, th[t].list)]
  /\ th' = [th EXCEPT ![t] = NoCall]

\* With the lock: into a free slot, or look for room, or to the spans.
InsertLocked(t) ==
  LET c == th[t].c IN
  /\ At(t, "insert") /\ lock[c] = NoThread
  /\ \/ /\ Cardinality(th[t].list) = Batch /\ used_slots(c) < cache_size[c]
        /\ StoreBatch(t, c)
        /\ UNCHANGED lock
     \/ /\ Cardinality(th[t].list) = Batch /\ used_slots(c) >= cache_size[c]
        /\ cache_size[c] # MaxSize
        /\ th' = [th EXCEPT ![t].pc = "evict"]
        /\ Acquire(t, c)
        /\ UNCHANGED slots
     \/ /\ \/ Cardinality(th[t].list) # Batch
           \/ used_slots(c) >= cache_size[c] /\ cache_size[c] = MaxSize
        /\ Releasing(t, c, th[t].list, "idle")
        /\ Acquire(t, c)
        /\ UNCHANGED slots
  /\ UNCHANGED <<cache_size, spans, held, ops>>

\* After an eviction that failed: by force, then give up.
Failed(t) ==
  IF th[t].force THEN Releasing(t, th[t].c, th[t].list, "idle")
                 ELSE th' = [th EXCEPT ![t].pc = "evict", ![t].force = TRUE]

\* EvictRandomSizeClass and the test of ShrinkCache before it takes the lock.
QuickCheck(t, other) ==
  /\ other # th[t].c /\ cache_size[other] # 0
  /\ th[t].force \/ used_slots(other) # cache_size[other]

\* Mutant: the lock of the own class is kept.
EvictKeepsLock(t) ==
  /\ At(t, "evict")
  /\ \E other \in Classes :
       /\ QuickCheck(t, other)
       /\ th' = [th EXCEPT ![t].pc = "invert", ![t].other = other]
  /\ UNCHANGED <<lock, cache, spans, held, ops>>

Evict(t) ==
  /\ At(t, "evict")
  /\ \E other \in Classes :
       \/ /\ QuickCheck(t, other)
          /\ th' = [th EXCEPT ![t].pc = "invert", ![t].other = other]
          /\ Release(th[t].c)
       \/ /\ ~QuickCheck(t, other)
          /\ Failed(t)
          /\ UNCHANGED lock
  /\ UNCHANGED <<cache, spans, held, ops>>

\* ShrinkCache with the lock of the other class: what the quick check saw may
\* not be true any more.
ShrinkCache(t) ==
  LET o == th[t].other IN
  /\ At(t, "invert") /\ lock[o] = NoThread
  /\ \/ /\ \/ cache_size[o] = 0
           \/ used_slots(o) = cache_size[o] /\ ~th[t].force
        /\ th' = [th EXCEPT ![t].pc = "revert", ![t].evicted = FALSE]
        /\ UNCHANGED <<lock, cache>>
     \/ /\ cache_size[o] # 0 /\ used_slots(o) # cache_size[o]
        /\ cache_size' = [cache_size EXCEPT ![o] = @ - 1]
        /\ th' = [th EXCEPT ![t].pc = "revert", ![t].evicted = TRUE]
        /\ UNCHANGED <<lock, slots>>
     \/ /\ cache_size[o] # 0 /\ used_slots(o) = cache_size[o] /\ th[t].force
        /\ cache_size' = [cache_size EXCEPT ![o] = @ - 1]
        /\ slots' = [slots EXCEPT ![o] = Popped(@)]
        /\ th' = [th EXCEPT ![t].pc = "release", ![t].evicted = TRUE, ![t].from = o,
                            ![t].drop = Top(slots[o]), ![t].after = "revert"]
        /\ Acquire(t, o)
  /\ UNCHANGED <<spans, held, ops>>

\* Back with the own lock, MakeCacheSpace tests again before it grows.
Revert(t) ==
  LET c == th[t].c IN
  /\ At(t, "revert") /\ lock[c] = NoThread
  /\ \/ /\ th[t].evicted /\ cache_size[c] < MaxSize
        /\ cache_size' = [cache_size EXCEPT ![c] = @ + 1]
        /\ StoreBatch(t, c)
        /\ UNCHANGED lock
     \/ /\ th[t].evicted /\ cache_size[c] >= MaxSize
        /\ Releasing(t, c, th[t].list, "idle")
        /\ Acquire(t, c) /\ UNCHANGED cache
     \/ /\ ~th[t].evicted
        /\ Failed(t)
        /\ Acquire(t, c) /\ UNCHANGED cache
  /\ UNCHANGED <<spans, held, ops>>

-----------------------------------------------------------------------------
(* ReleaseListToSpans, for the own list or for an evicted one.              *)

\* One object goes back to its span.
ReleaseToSpans(t) ==
  /\ At(t, "release") /\ th[t].drop # {}
  /\ \E o \in {CHOOSE x \in th[t].drop : TRUE} :
       LET s == o[1]
           c == th[t].from
           full == objects[s] = {}
       IN /\ refcount' = [refcount EXCEPT ![s] = @ - 1]
          /\ \/ /\ refcount[s] # 1
                /\ objects' = [objects EXCEPT ![s] = @ \union {o}]
                /\ counter' = [counter EXCEPT ![c] = @ + 1]
                /\ nonempty' = [nonempty EXCEPT ![c] = IF full THEN <<s>> \o @ ELSE @]
                /\ empty' = [empty EXCEPT ![c] = @ \ {s}]
                /\ th' = [th EXCEPT ![t].drop = @ \ {o}]
                /\ UNCHANGED <<lock, num_spans>>
             \/ /\ refcount[s] = 1       \* the last one: the span goes back
                /\ objects' = [objects EXCEPT ![s] = {}]
                /\ counter' = [counter EXCEPT ![c] = @ + 1 - SpanObjects]
                /\ nonempty' = [nonempty EXCEPT ![c] = Cut(@, s)]
                /\ empty' = [empty EXCEPT ![c] = @ \ {s}]
                /\ num_spans' = [num_spans EXCEPT ![c] = @ - 1]
                /\ th' = [th EXCEPT ![t].pc = "delete", ![t].drop = @ \ {o}, ![t].span = {s}]
                /\ Release(c)
  /\ UNCHANGED <<cache, class, held, ops>>

\* Without the lock: the page heap takes the span.
DeleteSpan(t) ==
  /\ At(t, "delete")
  /\ class' = [s \in Spans |-> IF s \in th[t].span THEN NoClass ELSE class[s]]
  /\ th' = [th EXCEPT ![t].pc = "relock", ![t].span = {}]
  /\ UNCHANGED <<lock, cache, nonempty, empty, num_spans, counter, objects, refcount, held, ops>>

Relock(t) ==
  /\ At(t, "relock") /\ Acquire(t, th[t].from)
  /\ th' = [th EXCEPT ![t].pc = "release"]
  /\ UNCHANGED <<cache, spans, held, ops>>

ReleaseDone(t) ==
  /\ At(t, "release") /\ th[t].drop = {}
  /\ Release(th[t].from)
  /\ th' = [th EXCEPT ![t] = IF @.after = "idle" THEN NoCall
                             ELSE [@ EXCEPT !.pc = "revert", !.from = NoClass, !.after = "idle"]]
  /\ UNCHANGED <<cache, spans, held, ops>>

-----------------------------------------------------------------------------
(* RemoveRange.                                                             *)

RemoveRange(t, c, n) ==
  /\ Call(t)
  /\ th' = [th EXCEPT ![t] = [NoCall EXCEPT !.pc = "remove", !.c = c, !.n = n]]
  /\ UNCHANGED <<lock, cache, spans, held>>

RemoveLocked(t) ==
  LET c == th[t].c IN
  /\ At(t, "remove") /\ lock[c] = NoThread
  /\ \/ /\ th[t].n = Batch /\ slots[c] # <<>>
        /\ slots' = [slots EXCEPT ![c] = Popped(@)]
        /\ held' = [held EXCEPT ![t] = @ \union Top(slots[c])]
        /\ th' = [th EXCEPT ![t] = NoCall]
        /\ UNCHANGED lock
     \/ /\ th[t].n # Batch \/ slots[c] = <<>>
        /\ th' = [th EXCEPT ![t].pc = "fetch"]
        /\ Acquire(t, c)
        /\ UNCHANGED <<slots, held>>
  /\ UNCHANGED <<cache_size, spans, ops>>

\* FetchFromOneSpans: as many as there are on the first span.
\* Mutant: what is handed out stays on the span.
FetchKeeps(t) ==
  LET c == th[t].c
      s == Head(nonempty[c])
      got == Some(objects[s], LeastOf(th[t].n, Cardinality(objects[s])))
  IN /\ At(t, "fetch") /\ nonempty[c] # <<>> /\ Cardinality(th[t].list) < th[t].n
     /\ refcount' = [refcount EXCEPT ![s] = @ + Cardinality(got)]
     /\ counter' = [counter EXCEPT ![c] = @ - Cardinality(got)]
     /\ th' = [th EXCEPT ![t].list = @ \union got]
     /\ UNCHANGED <<lock, cache, nonempty, empty, objects, num_spans, class, held, ops>>

FetchFromOneSpans(t) ==
  LET c == th[t].c
      s == Head(nonempty[c])
      got == Some(objects[s], LeastOf(th[t].n - Cardinality(th[t].list), Cardinality(objects[s])))
  IN /\ At(t, "fetch") /\ nonempty[c] # <<>> /\ Cardinality(th[t].list) < th[t].n
     /\ objects' = [objects EXCEPT ![s] = @ \ got]
     /\ refcount' = [refcount EXCEPT ![s] = @ + Cardinality(got)]
     /\ counter' = [counter EXCEPT ![c] = @ - Cardinality(got)]
     /\ nonempty' = [nonempty EXCEPT ![c] = IF got = objects[s] THEN Tail(@) ELSE @]
     /\ empty' = [empty EXCEPT ![c] = IF got = objects[s] THEN @ \union {s} ELSE @]
     /\ th' = [th EXCEPT ![t].list = @ \union got]
     /\ UNCHANGED <<lock, cache, num_spans, class, held, ops>>

\* Enough, or no more although Populate was tried or not needed.
RemoveDone(t) ==
  /\ At(t, "fetch")
  /\ \/ Cardinality(th[t].list) = th[t].n
     \/ nonempty[th[t].c] = <<>> /\ (th[t].list # {} \/ th[t].populated)
  /\ held' = [held EXCEPT ![t] = @ \union th[t].list]
  /\ th' = [th EXCEPT ![t] = NoCall]
  /\ Release(th[t].c)
  /\ UNCHANGED <<cache, spans, ops>>

StartPopulate(t) ==
  /\ At(t, "fetch") /\ nonempty[th[t].c] = <<>> /\ th[t].list = {} /\ ~th[t].populated
  /\ th' = [th EXCEPT ![t].pc = "populate"]
  /\ Release(th[t].c)
  /\ UNCHANGED <<cache, spans, held, ops>>

\* Without the lock: a span of the page heap, or nothing, is cut up.
Populate(t) ==
  /\ At(t, "populate")
  /\ \/ \E s \in Spans :
          /\ class[s] = NoClass
          /\ class' = [class EXCEPT ![s] = th[t].c]
          /\ objects' = [objects EXCEPT ![s] = ObjectsOf(s)]
          /\ refcount' = [refcount EXCEPT ![s] = 0]
          /\ th' = [th EXCEPT ![t].pc = "populated", ![t].span = {s}]
     \/ /\ th' = [th EXCEPT ![t].pc = "populated"]
        /\ UNCHANGED <<class, objects, refcount>>
  /\ UNCHANGED <<lock, cache, nonempty, empty, num_spans, counter, held, ops>>

Populated(t) ==
  LET c == th[t].c
      new == th[t].span
  IN /\ At(t, "populated") /\ Acquire(t, c)
     /\ nonempty' = [nonempty EXCEPT ![c] = IF new = {} THEN @ ELSE <<CHOOSE s \in new : TRUE>> \o @]
     /\ num_spans' = [num_spans EXCEPT ![c] = @ + Cardinality(new)]
     /\ counter' = [counter EXCEPT ![c] = @ + SpanObjects * Cardinality(new)]
     /\ th' = [th EXCEPT ![t].pc = "fetch", ![t].populated = TRUE, ![t].span = {}]
     /\ UNCHANGED <<cache, empty, class, objects, refcount, held, ops>>

-----------------------------------------------------------------------------
CentralStep(t) ==
  \/ InsertLocked(t) \/ Evict(t) \/ ShrinkCache(t) \/ Revert(t)
  \/ ReleaseToSpans(t) \/ DeleteSpan(t) \/ Relock(t) \/ ReleaseDone(t)
  \/ RemoveLocked(t) \/ FetchFromOneSpans(t) \/ RemoveDone(t)
  \/ StartPopulate(t) \/ Populate(t) \/ Populated(t)

CentralNext ==
  \E t \in Clients :
    \/ CentralStep(t)
    \/ \E c \in Classes, n \in 1..Batch :
         RemoveRange(t, c, n) \/ \E list \in SUBSET held[t] : Cardinality(list) = n /\ InsertRange(t, c, list)

CentralSpec == CentralInit /\ [][CentralNext]_centralVars

-----------------------------------------------------------------------------
(* Properties.                                                              *)

Objects == Spans \X (1..SpanObjects)
Pcs == {"idle", "insert", "evict", "invert", "revert", "release", "delete", "relock",
        "remove", "fetch", "populate", "populated"}

\* The types of the variables, the counters included.
CentralTypeOK ==
  /\ lock \in [Classes -> Clients \union {NoThread}]
  /\ cache_size \in [Classes -> Nat]
  /\ \A c \in Classes :
       /\ Range(slots[c]) \subseteq SUBSET Objects
       /\ Range(nonempty[c]) \subseteq Spans /\ empty[c] \subseteq Spans
  /\ num_spans \in [Classes -> Nat] /\ counter \in [Classes -> Nat]
  /\ class \in [Spans -> Classes \union {NoClass}]
  /\ objects \in [Spans -> SUBSET Objects] /\ refcount \in [Spans -> 0..SpanObjects]
  /\ held \in [Clients -> SUBSET Objects]
  /\ \A t \in Clients : th[t].pc \in Pcs /\ th[t].n \in Nat

\* A transfer cache never holds more batches than its size, nor grows beyond
\* its maximum, though sizes change hands while locks are dropped.
CacheBounded == \A c \in Classes : used_slots(c) <= cache_size[c] /\ cache_size[c] <= MaxSize

\* All caches together never have more slots than Init gave them: what a thread
\* has evicted and not yet added is in none.
AllSlots == UNION {{c} \X (1..cache_size[c]) : c \in Classes}
SlotsKept == Cardinality(AllSlots) <= Cardinality(Classes) * InitialSize

\* No thread holds the locks of two classes (the reason for LockInverter), and
\* a thread in the middle of a release or a fetch has the lock of its class.
OneLock ==
  /\ \A c, d \in Classes : lock[c] = lock[d] /\ lock[c] # NoThread => c = d
  /\ \A t \in Clients :
       /\ th[t].pc \in {"evict", "fetch"} => lock[th[t].c] = t
       /\ th[t].pc = "release" => lock[th[t].from] = t
       /\ th[t].pc \in {"idle", "insert", "invert", "revert", "delete", "relock",
                        "remove", "populate", "populated"} => \A c \in Classes : lock[c] # t

\* Where an object can be.  While a thread releases its own list, the list is
\* what is left in drop.
OwnList(call) ==
  IF call.pc \in {"release", "delete", "relock"} /\ call.after = "idle" THEN {} ELSE call.list
SpanPlaces(o) == {<<"span", s>> : s \in {x \in Spans : o \in objects[x]}}
SlotPlaces(o) == UNION {{<<"slot", c, i>> : i \in {x \in DOMAIN slots[c] : o \in slots[c][x]}} : c \in Classes}
HeldPlaces(o) == {<<"held", t>> : t \in {x \in Clients : o \in held[x]}}
ListPlaces(o) == {<<"list", t>> : t \in {x \in Clients : o \in OwnList(th[x])}}
DropPlaces(o) == {<<"drop", t>> : t \in {x \in Clients : o \in th[x].drop}}
Places(o) == SpanPlaces(o) \union SlotPlaces(o) \union HeldPlaces(o) \union ListPlaces(o) \union DropPlaces(o)
leaving(s) == \E t \in Clients : th[t].pc = "delete" /\ s \in th[t].span

\* No object is lost or handed out twice: every object of a span that was cut
\* up is in one place, and nobody has an object of a span that the page heap
\* has.
Conserved ==
  \A o \in Objects : IF class[o[1]] = NoClass \/ leaving(o[1])
                     THEN Places(o) = {}
                     ELSE \E p \in Places(o) : Places(o) = {p}

\* The counts are true: refcount_ is what is not free on a span, counter_ what
\* is free in a class, and a span is on the list its free objects put it on.
Counted ==
  /\ \A s \in Spans : \A c \in Classes :
       s \in Range(nonempty[c]) \union empty[c] =>
         /\ class[s] = c /\ refcount[s] = SpanObjects - Cardinality(objects[s])
         /\ s \in empty[c] <=> objects[s] = {}
         /\ s \in empty[c] => s \notin Range(nonempty[c])
  /\ \A c \in Classes :
       LET mine == Range(nonempty[c]) \union empty[c] IN
       /\ IsInjective(nonempty[c])
       /\ num_spans[c] = Cardinality(mine)
       /\ counter[c] = Cardinality(UNION {objects[s] : s \in mine})

\* No object is lost or handed out twice while locks are dropped and taken again,
\* and no thread holds two of them; counts and sizes are true, and a slot that
\* one cache gives up is added to at most one other.
ObjectsConserved == CentralTypeOK /\ CacheBounded /\ SlotsKept /\ OneLock /\ Conserved /\ Counted

\* Every call comes to its end, although locks are dropped and taken again in
\* the middle and two threads may be evicting from each other's class.
Finishes == \A t \in Clients : th[t].pc # "idle" ~> th[t].pc = "idle"
=============================================================================
