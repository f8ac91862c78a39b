---------------------------- MODULE HeapChecker -----------------------------
(***************************************************************************)
(* A leak check while threads allocate, free and store pointers. The check   *)
(* holds heap_checker_lock and stops the other threads, so it is one step;   *)
(* they may be stopped between an allocation and its hook, or between the    *)
(* hook of a deallocation and the deallocation.                              *)
(***************************************************************************)
EXTENDS Integers, FiniteSets, FiniteSetsExt, TLC

CONSTANTS Threads, Globals, Places, Pointers, Heap, Sizes, Stacks,
          \* addresses of global data, where a pointer is stored, what is stored, of heap objects, their sizes, call stacks
          Null, PtrSize, Alignment,              \* sizeof(void*), heap_check_pointer_source_alignment
          max_offset,                            \* heap_check_max_pointer_offset
          ignore_thread_live, ignore_global_live,
          MaxAllocs,                             \* bound of the exploration
          DisabledStacks, StackTops              \* of disabled libraries; addresses of the stopped threads' stacks
VARIABLES heap,     \* what is allocated: address -> [size, after: since the checker was made]
          mem,      \* the pointer stored at each place
          reg,      \* the pointer each thread has in its stack or registers
          pc,       \* <<"idle">>, or the hook or deallocation a thread is at
          disable,  \* thread_disable_counter
          table, ignored_objects, low, high,  \* heap_profile; [min_heap_address, max_heap_address]
          checker   \* the HeapLeakChecker object
vars == <<heap, mem, reg, pc, disable, table, ignored_objects, low, high, checker>>
program == <<heap, mem, reg, pc, disable>>

------------------------------------------------------------------------------
(* HeapProfileTable: the recorded allocations, their sizes, marks and call   *)
(* stacks, with counts for each call stack (bucket) and in total. Operators  *)
(* on a table value.                                                         *)

NoStats == [allocs |-> 0, frees |-> 0, alloc_size |-> 0, free_size |-> 0]
EmptyTable == [map |-> <<>>, buckets |-> <<>>, total |-> NoStats]

Allocated(s, n) == [s EXCEPT !.allocs = @ + 1, !.alloc_size = @ + n]
Freed(s, n) == [s EXCEPT !.frees = @ + 1, !.free_size = @ + n]
GetBucket(t, stack) == IF stack \in DOMAIN t.buckets THEN t.buckets[stack] ELSE NoStats
SetBucket(t, stack, s) == (stack :> s) @@ t.buckets

RecordAlloc(t, p, n, stack) ==
  [map |-> (p :> [bytes |-> n, stack |-> stack, live |-> FALSE, ignore |-> FALSE]) @@ t.map,
   buckets |-> SetBucket(t, stack, Allocated(GetBucket(t, stack), n)),
   total |-> Allocated(t.total, n)]

\* Mutated forms: what is freed is counted off the totals only.
RecordFreeOfTotal(t, p) ==
  IF p \notin DOMAIN t.map THEN t ELSE
  [t EXCEPT !.map = [q \in DOMAIN t.map \ {p} |-> t.map[q]], !.total = Freed(t.total, t.map[p].bytes)]

RecordFree(t, p) ==
  IF p \notin DOMAIN t.map THEN t ELSE
  LET v == t.map[p] IN
  [map |-> [q \in DOMAIN t.map \ {p} |-> t.map[q]],
   buckets |-> SetBucket(t, v.stack, Freed(GetBucket(t, v.stack), v.bytes)),
   total |-> Freed(t.total, v.bytes)]

FindAlloc(t, p) == p \in DOMAIN t.map
\* AddressMap!FindInside, where a pointer further into an object may or may not be found.
FindInsideAlloc(t, max, a) ==
  {p \in DOMAIN t.map : p = a \/ (p < a /\ a < p + t.map[p].bytes /\ a - p <= max)}

MarksNew(t, p) == FindAlloc(t, p) /\ ~t.map[p].live
MarkAsLive(t, p) == IF FindAlloc(t, p) THEN [t EXCEPT !.map[p].live = TRUE] ELSE t
MarkAsIgnored(t, p) == IF FindAlloc(t, p) THEN [t EXCEPT !.map[p].ignore = TRUE] ELSE t

TakeSnapshot(t) == DOMAIN t.map
\* What is not live and not, by its address, in base; the marks are cleared.
NonLiveSnapshot(t, base) ==
  [leaks |-> {p \in DOMAIN t.map : ~t.map[p].live} \ base,
   table |-> [t EXCEPT !.map = [p \in DOMAIN t.map |-> [t.map[p] EXCEPT !.live = FALSE]]]]

\* The counts agree: what is in use is what the map holds, in every bucket and in total.
InUse(t, ps) == [count |-> Cardinality(ps), size |-> MapThenSumSet(LAMBDA p : t.map[p].bytes, ps)]
Left(s) == [count |-> s.allocs - s.frees, size |-> s.alloc_size - s.free_size]
CountsAgree(t) ==
  /\ Left(t.total) = InUse(t, DOMAIN t.map)
  /\ \A s \in DOMAIN t.buckets : Left(t.buckets[s]) = InUse(t, {p \in DOMAIN t.map : t.map[p].stack = s})
  /\ \A p \in DOMAIN t.map : t.map[p].stack \in DOMAIN t.buckets

------------------------------------------------------------------------------
NoChecker == [made |-> FALSE, snapshot |-> {}, has_checked |-> FALSE, leaks |-> {}]
Idle == <<"idle">>
Init == /\ heap = <<>> /\ mem = [a \in Places |-> Null]
        /\ reg = [t \in Threads |-> Null] /\ pc = [t \in Threads |-> Idle] /\ disable = [t \in Threads |-> 0]
        /\ table = EmptyTable /\ ignored_objects = {} /\ low = 1000 /\ high = 0 /\ checker = NoChecker

Extent(p, n) == p..(p + n - 1)
Used == UNION {Extent(p, heap[p].size) : p \in DOMAIN heap}
Without(f, p) == [x \in DOMAIN f \ {p} |-> f[x]]

\* ---- the program and the hooks ----
Malloc(t, p, n, s) ==
  /\ pc[t] = Idle /\ table.total.allocs < MaxAllocs
  /\ p \notin DOMAIN heap /\ Extent(p, n) \cap Used = {} /\ Extent(p, n) \subseteq Extent(Min(Heap), Max(Heap) - Min(Heap) + 2)
  /\ heap' = (p :> [size |-> n, after |-> TRUE]) @@ heap
  /\ pc' = [pc EXCEPT ![t] = <<"new", p, n, s>>]
  /\ UNCHANGED <<mem, reg, disable, table, ignored_objects, low, high, checker>>
NewHook(t) ==
  /\ pc[t][1] = "new"
  /\ LET p == pc[t][2]  n == pc[t][3]  recorded == RecordAlloc(table, p, n, pc[t][4]) IN
     /\ table' = (IF disable[t] > 0 THEN MarkAsIgnored(recorded, p) ELSE recorded)
     /\ low' = Min({low, p}) /\ high' = Max({high, p + n})
     /\ reg' = [reg EXCEPT ![t] = p]
  /\ pc' = [pc EXCEPT ![t] = Idle]
  /\ UNCHANGED <<heap, mem, disable, ignored_objects, checker>>
DeleteHook(t, p) ==
  /\ pc[t] = Idle /\ FindAlloc(table, p) /\ p \notin ignored_objects /\ table' = RecordFree(table, p)
  /\ pc' = [pc EXCEPT ![t] = <<"free", p>>] /\ UNCHANGED <<heap, mem, reg, disable, ignored_objects, low, high, checker>>
Free(t) ==
  /\ pc[t][1] = "free" /\ heap' = Without(heap, pc[t][2]) /\ pc' = [pc EXCEPT ![t] = Idle]
  /\ UNCHANGED <<mem, reg, disable, table, ignored_objects, low, high, checker>>
Disabler(t) == /\ pc[t] = Idle /\ disable' = [disable EXCEPT ![t] = 1 - @]
               /\ UNCHANGED <<heap, mem, reg, pc, table, ignored_objects, low, high, checker>>
\* A store into global data or an object; it overwrites what it overlaps.
Store(t, a, v) ==
  /\ pc[t] = Idle /\ mem[a] # v /\ v \in Used \cup {Null} /\ (a \in Globals \/ Extent(a, PtrSize) \subseteq Used)
  /\ mem' = [b \in Places |-> IF b = a THEN v ELSE IF b + PtrSize > a /\ a + PtrSize > b THEN Null ELSE mem[b]]
  /\ UNCHANGED <<heap, reg, pc, disable, table, ignored_objects, low, high, checker>>
Forget(t) == /\ pc[t] = Idle /\ reg[t] # Null /\ reg' = [reg EXCEPT ![t] = Null]
             /\ UNCHANGED <<heap, mem, pc, disable, table, ignored_objects, low, high, checker>>

\* ---- ignoring objects: by any pointer to or into them ----
DoIgnoreObject(a) ==
  /\ \E p \in FindInsideAlloc(table, Max(Sizes), a) : p \notin ignored_objects /\ ignored_objects' = ignored_objects \cup {p}
  /\ UNCHANGED <<program, table, low, high, checker>>
UnIgnoreObject(a) ==
  /\ \E p \in FindInsideAlloc(table, Max(Sizes), a) : p \in ignored_objects /\ ignored_objects' = ignored_objects \ {p}
  /\ UNCHANGED <<program, table, low, high, checker>>

\* ---- the check ----
\* A mutated form, then the values at aligned places of an object that a whole pointer fits behind.
WordsInPastEnd(p, n) == {mem[a] : a \in {b \in Places : b % Alignment = 0 /\ p <= b /\ b <= p + n}} \ {Null}
WordsIn(p, n) == {mem[a] : a \in {b \in Places : b % Alignment = 0 /\ p <= b /\ b + PtrSize <= p + n}} \ {Null}
HaveOnHeapLocked(tb, a) == IF low <= a /\ a <= high THEN FindInsideAlloc(tb, max_offset, a) ELSE {}
\* Pops the live objects one by one; what they point to is marked and pushed the first time.
RECURSIVE IgnoreLiveObjectsLocked(_, _)
IgnoreLiveObjectsLocked(tb, live) ==
  IF live = {} THEN tb ELSE
  LET object == CHOOSE o \in live : TRUE
      found == {p \in UNION {HaveOnHeapLocked(tb, a) : a \in object.words} : MarksNew(tb, p)}
      marked == [tb EXCEPT !.map = [p \in DOMAIN tb.map |-> [tb.map[p] EXCEPT !.live = @ \/ p \in found]]]
  IN IgnoreLiveObjectsLocked(marked, (live \ {object}) \cup {[ptr |-> p, words |-> WordsIn(p, tb.map[p].bytes)] : p \in found})
\* Objects that are live whatever points to them (MUST_BE_ON_HEAP).
Flood(tb, ps) ==
  IgnoreLiveObjectsLocked([tb EXCEPT !.map = [p \in DOMAIN tb.map |-> [tb.map[p] EXCEPT !.live = @ \/ p \in ps]]],
                          {[ptr |-> p, words |-> WordsIn(p, tb.map[p].bytes)] : p \in ps})
MakeIgnoredObjectsLive(tb) == {p \in DOMAIN tb.map : tb.map[p].ignore}
MakeDisabledLive(tb) == {p \in DOMAIN tb.map : tb.map[p].stack \in DisabledStacks /\ StackTops \cap Extent(p, tb.map[p].bytes) = {}}
IgnoreAllLiveObjectsLocked(tb) ==
  LET threads == [ptr |-> Null, words |-> {reg[t] : t \in Threads} \ {Null}]
      globals == [ptr |-> Null, words |-> UNION {WordsIn(a, PtrSize) : a \in Globals}]
      t1 == IF ignore_thread_live THEN IgnoreLiveObjectsLocked(tb, {threads}) ELSE tb
      t2 == Flood(t1, ignored_objects)
      t3 == Flood(t2, MakeIgnoredObjectsLive(t2))
      t4 == Flood(t3, MakeDisabledLive(t3))
  IN IF ignore_global_live THEN IgnoreLiveObjectsLocked(t4, {globals}) ELSE t4

InFlight == {pc[t][2] : t \in {t \in Threads : pc[t] # Idle}}
Create == /\ ~checker.made
          /\ checker' = [NoChecker EXCEPT !.made = TRUE, !.snapshot = TakeSnapshot(table)]
          /\ heap' = [p \in DOMAIN heap |-> [heap[p] EXCEPT !.after = p \in InFlight]]
          /\ UNCHANGED <<mem, reg, pc, disable, table, ignored_objects, low, high>>
DoNoLeaks == LET r == NonLiveSnapshot(IgnoreAllLiveObjectsLocked(table), checker.snapshot) IN
             /\ checker.made /\ ~checker.has_checked /\ table' = r.table
             /\ checker' = [checker EXCEPT !.has_checked = TRUE, !.leaks = r.leaks]
             /\ UNCHANGED <<program, ignored_objects, low, high>>
Destroy == /\ checker.has_checked /\ checker' = NoChecker /\ UNCHANGED <<program, table, ignored_objects, low, high>>

Next == \/ \E t \in Threads : \/ NewHook(t) \/ Free(t) \/ Disabler(t) \/ Forget(t)
                              \/ \E p \in Heap : DeleteHook(t, p) \/ \E n \in Sizes, s \in Stacks : Malloc(t, p, n, s)
                              \/ \E a \in Places, v \in Pointers : Store(t, a, v)
        \/ \E a \in Pointers \ {Null} : DoIgnoreObject(a) \/ UnIgnoreObject(a)
        \/ Create \/ DoNoLeaks \/ Destroy
Spec == Init /\ [][Next]_vars

------------------------------------------------------------------------------
TypeOK == /\ DOMAIN heap \subseteq Heap /\ ignored_objects \subseteq DOMAIN heap
          /\ \A p \in DOMAIN table.map : table.map[p].bytes \in Sizes
          /\ checker.leaks \subseteq Heap

\* What is recorded is what is allocated, less what is between a hook and its
\* call; the counts of every bucket and of the whole follow.
TableTrue == /\ DOMAIN table.map = DOMAIN heap \ InFlight
             /\ \A p \in DOMAIN table.map : table.map[p].bytes = heap[p].size
             /\ CountsAgree(table)

\* No mark survives a check: the next one would not look into a marked object.
MarksCleared == \A p \in DOMAIN table.map : ~table.map[p].live

\* Reachable, by definition: in every set that has the roots and, with an object,
\* what its aligned words point to.
Points(a) == {p \in DOMAIN heap \ InFlight : a = p \/ (p < a /\ a < p + heap[p].size /\ a - p <= max_offset)}
Exempt == {p \in DOMAIN table.map : p \in ignored_objects \/ table.map[p].ignore
             \/ (table.map[p].stack \in DisabledStacks /\ StackTops \cap Extent(p, heap[p].size) = {})}
Roots == Exempt \cup (IF ignore_thread_live THEN UNION {Points(reg[t]) : t \in {t \in Threads : reg[t] # Null}} ELSE {})
                \cup (IF ignore_global_live THEN UNION {Points(mem[a]) : a \in {a \in Globals : mem[a] # Null /\ a % Alignment = 0}} ELSE {})
InObject(p) == {a \in Places : a % Alignment = 0 /\ p <= a /\ a + PtrSize <= p + heap[p].size /\ mem[a] # Null}
Closed(S) == Roots \subseteq S /\ \A p \in S : UNION {Points(mem[a]) : a \in InObject(p)} \subseteq S
Reachable == {p \in DOMAIN heap \ InFlight : \A S \in SUBSET (DOMAIN heap \ InFlight) : Closed(S) => p \in S}
Unreachable == (DOMAIN heap \ InFlight) \ Reachable

\* A check reports what is unreachable and was not there, by its address, when the
\* checker was made; it reports nothing that is reachable.
ReportsLeaks == DoNoLeaks => checker'.leaks = Unreachable \ checker.snapshot

=============================================================================
