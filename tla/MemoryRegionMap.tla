--------------------------- MODULE MemoryRegionMap ---------------------------
(***************************************************************************)
(* MemoryRegionMap (memory_region_map.cc): the regions that mmap, munmap    *)
(* and mremap have left mapped, as its hooks hear of them.  The set of      *)
(* regions and the buckets live in an arena that may itself call mmap while *)
(* the hook works: such regions are saved and inserted later.  A hook runs  *)
(* under the recursive lock of the map, as one step; the system call before *)
(* or after it is another.  Memory counts in pages, a region is a run of    *)
(* pages with the stack that mapped it.                                     *)
(***************************************************************************)
EXTENDS Integers, FiniteSets, FiniteSetsExt, Sequences, SequencesExt

CONSTANTS
  Threads, Pages,      \* pages: 0 .. Pages - 1
  Stacks, HashIndex,   \* call stacks; their slot in the bucket table (1, 2, ...)
  Sizes,               \* sizes that are mapped
  UseBuckets,          \* what Init is asked for: a subset of BOOLEAN
  ArenaGrows, Mremaps, Shuts,  \* whether these happen
  MaxClients, MaxSize  \* bounds: clients, map_size_

VARIABLES
  clients,   \* client_count_
  asked,     \* a client has asked for buckets
  m,         \* the map: [regions, saved, table, saved_buckets, map_size, unmap_size, mapped, arena]:
             \* mapped: the pages mapped in the process; arena: those of the map's own arena
  unseen,    \* pages mapped while the hooks were not installed
  pend,      \* by thread: the call it is in
  crash      \* the check that failed, if one did
vars == <<clients, asked, m, unseen, pend, crash>>

NoTable == <<>>
Idle == [op |-> "idle"]
None == "none"
Init ==
  /\ clients = 0 /\ asked = FALSE /\ unseen = {} /\ crash = None
  /\ m = [regions |-> {}, saved |-> <<>>, table |-> NoTable, saved_buckets |-> 0,
          map_size |-> 0, unmap_size |-> 0, mapped |-> {}, arena |-> {}]
  /\ pend = [t \in Threads |-> Idle]

Run(s, e) == s..(e - 1)
PagesIn(rs) == UNION {Run(r.s, r.e) : r \in rs}

-----------------------------------------------------------------------------
(* Regions and buckets.                                                     *)

\* regions_->lower_bound: the region with the least end that is at least x.
LowerBound(rs, x) == {q \in rs : q.e >= x /\ \A u \in rs : u.e >= x => q.e <= u.e}
DoInsertRegionLocked(rs, r) ==
  IF \E q \in LowerBound(rs, r.e) : q.s <= r.s \/ q.e = r.e THEN rs ELSE rs \cup {r}
InsertSaved(c) == [c EXCEPT !.regions = FoldRight(LAMBDA r, rs : DoInsertRegionLocked(rs, r), c.saved, @), !.saved = <<>>]

Chain(c, key) == c.table[HashIndex[key]]
Has(c, key) == \E i \in DOMAIN Chain(c, key) : Chain(c, key)[i].key = key
\* Adds to the bucket that a search for the key finds first.
Count(c, key, alloc, free) ==
  LET i == Min({j \in DOMAIN Chain(c, key) : Chain(c, key)[j].key = key})
  IN [c EXCEPT !.table[HashIndex[key]][i].alloc = @ + alloc, !.table[HashIndex[key]][i].free = @ + free]
Bucket(key, where) == [key |-> key, alloc |-> 0, free |-> 0, where |-> where]

\* mmap called by the arena while the map is working: the region is saved, its
\* stack not taken; the bucket is one of saved_buckets_, and begins its chain anew.
Grow(c) ==
  IF c.mapped = 0..(Pages - 1) THEN c ELSE
  LET p == Min((0..(Pages - 1)) \ c.mapped)
      d == [c EXCEPT !.mapped = @ \cup {p}, !.arena = @ \cup {p}, !.map_size = @ + 1,
                     !.saved = Append(@, [s |-> p, e |-> p + 1, key |-> "empty"])]
      b == IF d.table = NoTable \/ Has(d, "empty") THEN d
           ELSE [d EXCEPT !.table[HashIndex["empty"]] = <<Bucket("empty", "saved")>>, !.saved_buckets = @ + 1]
  IN IF d.table = NoTable THEN d ELSE Count(b, "empty", 1, 0)

InsertRegionLocked(c, r, grow) ==
  LET d == [c EXCEPT !.regions = DoInsertRegionLocked(@, r)] IN InsertSaved(IF grow THEN Grow(d) ELSE d)

GetBucket(c, key, grow) ==
  IF Has(c, key) THEN c
  ELSE LET d == IF grow THEN Grow(c) ELSE c
       IN [d EXCEPT !.table[HashIndex[key]] = <<Bucket(key, "arena")>> \o @]
\* A saved bucket is found in the table, where it is itself.
RestoreSavedBucketsLocked(c) ==
  IF c.saved_buckets = 0 THEN c
  ELSE LET b == Chain(c, "empty")[Min({j \in DOMAIN Chain(c, "empty") : Chain(c, "empty")[j].key = "empty"})]
       IN [Count(c, "empty", b.alloc, b.free) EXCEPT !.saved_buckets = 0]

RecordRegionAddition(c, s, e, key, grow, growB) ==
  LET d == InsertRegionLocked([c EXCEPT !.map_size = @ + (e - s)], [s |-> s, e |-> e, key |-> key], grow)
  IN IF c.table = NoTable THEN d
     ELSE RestoreSavedBucketsLocked(Count(GetBucket(d, key, growB), key, e - s, 0))

\* Mutant: a region is not chopped at its start.
CutNoChop(rs, s, e) ==
  UNION {IF s <= r.s /\ r.s < e /\ e < r.e THEN {r}
         ELSE {q \in {[r EXCEPT !.e = Min({@, Max({s, r.s})})], [r EXCEPT !.s = Max({@, Min({e, r.e})})]} : q.s < q.e} : r \in rs}
\* Deleted, chopped at either end, or split in two.
Cut(rs, s, e) ==
  UNION {{q \in {[r EXCEPT !.e = Min({@, Max({s, r.s})})], [r EXCEPT !.s = Max({@, Min({e, r.e})})]} : q.s < q.e} : r \in rs}

Freed(r, s, e) == Cardinality(Run(r.s, r.e) \cap Run(s, e))

RecordRegionRemoval(c, s, e) ==
  IF c.regions = {} /\ c.saved = <<>> THEN c ELSE
  LET d == InsertSaved(c)
      hit == {r \in d.regions : Freed(r, s, e) > 0}
      charge(b, r) == IF b.table = NoTable THEN b ELSE Count(GetBucket(b, r.key, FALSE), r.key, 0, Freed(r, s, e))
  IN [FoldLeft(charge, d, SetToSeq(hit)) EXCEPT !.regions = Cut(@, s, e), !.unmap_size = @ + (e - s)]

-----------------------------------------------------------------------------
(* The program: clients of the map, and calls of thread t.                  *)

Ready(t) == pend[t] = Idle /\ crash = None
Recording == clients > 0

\* MemoryRegionMap::Init; for the first client, with or without a table.
InitMap(t) ==
  /\ Ready(t) /\ clients < MaxClients
  /\ \E use_buckets \in UseBuckets, grow \in {FALSE, ArenaGrows} :
       /\ clients' = clients + 1
       /\ asked' = (use_buckets \/ (Recording /\ asked))
       /\ m' = IF Recording THEN m
               ELSE LET d == InsertSaved(IF grow THEN Grow(m) ELSE m)
                    IN [d EXCEPT !.table = IF use_buckets THEN [i \in {HashIndex[k] : k \in DOMAIN HashIndex} |-> <<>>] ELSE NoTable]
  /\ UNCHANGED <<unseen, pend, crash>>

\* The buckets are given back to the arena, the hooks removed, the arena deleted.
Shutdown(t) ==
  /\ Shuts /\ Ready(t) /\ Recording
  /\ clients' = clients - 1
  /\ IF clients > 1 THEN UNCHANGED <<asked, m, unseen, crash>>
     ELSE /\ crash' = IF m.table # NoTable /\ \E i \in DOMAIN m.table : \E j \in DOMAIN m.table[i] : m.table[i][j].where # "arena"
                        THEN "bad magic number in Free()" ELSE None
          /\ asked' = FALSE
          /\ unseen' = m.mapped \ m.arena
          /\ m' = [m EXCEPT !.regions = {}, !.table = NoTable, !.mapped = @ \ m.arena, !.arena = {}]
  /\ UNCHANGED pend

FreeRun(s, e) == e <= Pages /\ Run(s, e) \cap m.mapped = {}
\* The calls of other threads that touch these pages.
Claimed == UNION {IF pend[t].op = "idle" THEN {} ELSE Run(pend[t].s, pend[t].e) : t \in Threads}
Theirs(s, e) == Run(s, e) \subseteq m.mapped \ (m.arena \cup Claimed)

\* The system call of mmap, then the look at the hook list.
Mmap(t) ==
  /\ Ready(t) /\ m.map_size < MaxSize
  /\ \E s \in 0..(Pages - 1), n \in Sizes, key \in Stacks :
       /\ FreeRun(s, s + n)
       /\ m' = [m EXCEPT !.mapped = @ \cup Run(s, s + n)]
       /\ IF Recording THEN pend' = [pend EXCEPT ![t] = [op |-> "mmap", s |-> s, e |-> s + n, key |-> key]] /\ UNCHANGED unseen
          ELSE unseen' = unseen \cup Run(s, s + n) /\ UNCHANGED pend
  /\ UNCHANGED <<clients, asked, crash>>
MmapHook(t) ==
  /\ pend[t].op = "mmap" /\ crash = None
  /\ IF Recording
       THEN /\ \E grow, growB \in {FALSE, ArenaGrows} :
                 m' = RecordRegionAddition(m, pend[t].s, pend[t].e, pend[t].key, grow, growB)
            /\ UNCHANGED crash
       ELSE \* regions_ is made anew in an arena that is gone
            crash' = "must pass a valid arena" /\ UNCHANGED m
  /\ pend' = [pend EXCEPT ![t] = Idle]
  /\ UNCHANGED <<clients, asked, unseen>>

\* The hook comes before the system call of munmap ...
MunmapHook(t) ==
  /\ Ready(t) /\ m.unmap_size < MaxSize
  /\ \E s \in 0..(Pages - 1), n \in Sizes :
       /\ Theirs(s, s + n)
       /\ pend' = [pend EXCEPT ![t] = [op |-> "munmap", s |-> s, e |-> s + n]]
       /\ m' = IF Recording THEN RecordRegionRemoval(m, s, s + n) ELSE m
  /\ UNCHANGED <<clients, asked, unseen, crash>>
Munmap(t) ==
  /\ pend[t].op = "munmap" /\ crash = None
  /\ m' = [m EXCEPT !.mapped = @ \ Run(pend[t].s, pend[t].e)]
  /\ unseen' = unseen \ Run(pend[t].s, pend[t].e)
  /\ pend' = [pend EXCEPT ![t] = Idle]
  /\ UNCHANGED <<clients, asked, crash>>

\* ... but after that of mremap, which has moved the pages.
Mremap(t) ==
  /\ Mremaps /\ Ready(t) /\ Recording /\ m.map_size < MaxSize
  /\ \E s, to \in 0..(Pages - 1), n \in Sizes, key \in Stacks :
       /\ Theirs(s, s + n) /\ Run(s, s + n) \cap unseen = {} /\ FreeRun(to, to + n)
       /\ m' = [m EXCEPT !.mapped = (@ \ Run(s, s + n)) \cup Run(to, to + n)]
       /\ pend' = [pend EXCEPT ![t] = [op |-> "mremap", s |-> to, e |-> to + n, key |-> key, old |-> s]]
  /\ UNCHANGED <<clients, asked, unseen, crash>>
MremapHook(t) ==
  /\ pend[t].op = "mremap" /\ crash = None /\ Recording
  /\ LET p == pend[t]
     IN m' = RecordRegionAddition(RecordRegionRemoval(m, p.old, p.old + (p.e - p.s)), p.s, p.e, p.key, FALSE, FALSE)
  /\ pend' = [pend EXCEPT ![t] = Idle]
  /\ UNCHANGED <<clients, asked, unseen, crash>>

Next == \E t \in Threads : InitMap(t) \/ Shutdown(t) \/ Mmap(t) \/ MmapHook(t) \/ MunmapHook(t) \/ Munmap(t) \/ Mremap(t) \/ MremapHook(t)
Spec == Init /\ [][Next]_vars

-----------------------------------------------------------------------------
(* Properties.                                                              *)

TypeOK ==
  /\ clients \in 0..MaxClients /\ m.mapped \subseteq 0..(Pages - 1) /\ m.arena \subseteq m.mapped /\ unseen \subseteq m.mapped
  /\ \A r \in m.regions : r.s < r.e /\ r.e <= Pages
  /\ m.saved_buckets <= 1

\* DoInsertRegionLocked: "Wow, overlapping memory regions".
NoOverlap == \A q, r \in m.regions : q # r => q.e <= r.s \/ r.e <= q.s

\* memory_region_map.h: the map of all memory regions in the process that have
\* been created with mmap, munmap, mremap.  The regions, those still saved
\* included, are what is mapped, calls in progress aside.
MremapAway == UNION {IF pend[t].op = "mremap" THEN pend[t].old..(pend[t].old + (pend[t].e - pend[t].s) - 1) ELSE {} : t \in Threads}
Known == PagesIn(m.regions \cup ToSet(m.saved))
RegionsTrue == Recording => Known \ MremapAway = (m.mapped \ (unseen \cup Claimed)) \ MremapAway
\* With nothing in progress there is no exception.
RegionsTrueAtRest == Recording /\ (\A t \in Threads : pend[t] = Idle) => Known = m.mapped \ unseen

\* The sizes that are reported: mapped less unmapped is what is in the regions.
BucketsTrue ==
  Recording /\ m.table # NoTable =>
    \A key \in DOMAIN HashIndex :
      FoldLeft(LAMBDA n, b : IF b.key = key THEN n + b.alloc - b.free ELSE n, 0, Chain(m, key)) =
        Cardinality(PagesIn({r \in m.regions \cup ToSet(m.saved) : r.key = key}))

=============================================================================
