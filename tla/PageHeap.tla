------------------------------ MODULE PageHeap ------------------------------
(***************************************************************************)
(* The page-level allocator of TCmalloc (page_heap.cc, span.cc): spans of   *)
(* pages that are in use, free and committed ("normal") or free and given   *)
(* back to the operating system ("returned").  Every call runs under        *)
(* Static::pageheap_lock, so each public call is one action; the functions  *)
(* it calls are operators from heaps to heaps.                              *)
(*                                                                          *)
(* Sizes are in pages.  A heap h has                                        *)
(*   span       the allocated Span objects, by their address               *)
(*   pagemap    page -> the Span it was last recorded for, 0 for NULL; the  *)
(*              code never clears an entry                                  *)
(*   normal, returned   the free lists by length, kMaxPages for large_      *)
(*   free, unmapped, committed, system   stats_                             *)
(*   mem        the pages that really are committed                         *)
(*   release_index, scavenge    release_index_, scavenge_counter_           *)
(*   aggressive aggressive_decommit_                                        *)
(*   limit      FLAGS_tcmalloc_heap_limit_mb in pages, 0 for no limit       *)
(*   fails      whether releases and the growth of the page map may fail    *)
(*   works      how many more TCMalloc_SystemRelease of this call succeed   *)
(***************************************************************************)
EXTENDS Integers, Sequences, FiniteSets

CONSTANTS
  NPages,        \* pages 1 .. NPages can be had from the system
  kMaxPages,     \* spans of this length and longer are on large_
  CoalesceInterval, \* kForcedCoalesceInterval in pages
  ReleaseDelay,  \* kDefaultReleaseDelay
  SizeClasses,   \* the size classes a span may be registered for
  Modes,         \* how the program runs: [limit, aggressive, fails]
  Toggles        \* values SetAggressiveDecommit is called with

\* Decommitting aggressively relies on a system that releases (the ASSERT in
\* MergeIntoFreeList).
ASSUME PagesAssumption ==
  /\ {NPages, kMaxPages, CoalesceInterval} \subseteq Nat \ {0} /\ ReleaseDelay \in Nat
  /\ 0 \notin SizeClasses
  /\ Modes \subseteq [limit : Nat, aggressive : BOOLEAN, fails : BOOLEAN]
  /\ \A m \in Modes : m.aggressive => ~m.fails

VARIABLES heap, result

pagesVars == <<heap, result>>

Pages == 1..NPages
Ids   == 1..NPages
NULL  == 0
NoResult == <<"", 0, NULL>>   \* of calls that return no span
All == 2                      \* releases that work: none, one or all

InUse == "IN_USE"
Normal == "ON_NORMAL_FREELIST"
Returned == "ON_RETURNED_FREELIST"

EmptyLists == [len \in 1..kMaxPages |-> <<>>]

PagesInit ==
  /\ \E m \in Modes :
       heap = [span |-> <<>>, pagemap |-> [pg \in 0..(NPages + 1) |-> NULL],
               normal |-> EmptyLists, returned |-> EmptyLists,
               free |-> 0, unmapped |-> 0, committed |-> 0, system |-> 0,
               mem |-> {}, release_index |-> kMaxPages, scavenge |-> 0,
               aggressive |-> m.aggressive, limit |-> m.limit, fails |-> m.fails, works |-> All]
  /\ result = NoResult

-----------------------------------------------------------------------------
(* Spans, the page map and the free lists.                                  *)

EndOf(s) == s.start + s.length
Extent(s) == s.start..(EndOf(s) - 1)
InteriorOf(s) == (s.start + 1)..(EndOf(s) - 2)
ListOf(len) == IF len < kMaxPages THEN len ELSE kMaxPages
On(list) == {list[i] : i \in DOMAIN list}

DescriptorOf(h, pg) == h.pagemap[pg]

\* NewSpan and RecordSpan: a new Span whose first and last page lead to it.
\* Which address the Span gets is of no importance; to have few states it is
\* the number of its first page when that is free.
NewSpanId(h, pg) ==
  IF pg \notin DOMAIN h.span THEN pg ELSE CHOOSE id \in Ids \ DOMAIN h.span : TRUE

NewSpan(h, id, s) == [h EXCEPT !.span = [i \in DOMAIN @ \union {id} |-> IF i = id THEN s ELSE @[i]]]

\* Mutant of RecordSpan: only the first page leads to the span.
RecordSpanFirst(h, id) == [h EXCEPT !.pagemap = [@ EXCEPT ![h.span[id].start] = id]]

RecordSpan(h, id) ==
  [h EXCEPT !.pagemap = [@ EXCEPT ![h.span[id].start] = id, ![EndOf(h.span[id]) - 1] = id]]

DeleteSpan(h, id) == [h EXCEPT !.span = [i \in DOMAIN @ \ {id} |-> @[i]]]

PrependToFreeList(h, id) ==
  LET s == h.span[id]
      list == ListOf(s.length)
  IN IF s.location = Normal
       THEN [h EXCEPT !.free = @ + s.length, !.normal[list] = <<id>> \o @]
       ELSE [h EXCEPT !.unmapped = @ + s.length, !.returned[list] = <<id>> \o @]

PlaceOf(list, id) == CHOOSE i \in DOMAIN list : list[i] = id
Unlinked(list, id) ==
  [i \in 1..(Len(list) - 1) |-> IF i < PlaceOf(list, id) THEN list[i] ELSE list[i + 1]]

RemoveFromFreeList(h, id) ==
  LET s == h.span[id]
      list == ListOf(s.length)
  IN IF s.location = Normal
       THEN [h EXCEPT !.free = @ - s.length, !.normal[list] = Unlinked(@, id)]
       ELSE [h EXCEPT !.unmapped = @ - s.length, !.returned[list] = Unlinked(@, id)]

CommitSpan(h, id) ==
  [h EXCEPT !.committed = @ + h.span[id].length, !.mem = @ \union Extent(h.span[id])]

\* DecommitSpan: TRUE when the system released the pages.
Releases(h) == h.works > 0

DecommitSpan(h, id) ==
  [h EXCEPT !.committed = @ - h.span[id].length, !.mem = @ \ Extent(h.span[id]),
            !.works = IF @ = All THEN All ELSE @ - 1]

Relocate(h, id, location) == [h EXCEPT !.span[id].location = location]

\* Span id keeps its first n pages, a new one gets the others and a location.
Cut(h, id, n, left, location) ==
  LET s == h.span[id]
      h1 == [h EXCEPT !.span[id].length = n, !.pagemap[s.start + n - 1] = id]
  IN RecordSpan(NewSpan(h1, left, [start |-> s.start + n, length |-> s.length - n,
                                   location |-> location, sizeclass |-> 0]), left)

-----------------------------------------------------------------------------
(* Coalescing.                                                              *)

\* Mutant of MayMergeSpans: any neighbour.
MayMergeAny(h, id, other) == TRUE

MayMergeSpans(h, id, other) ==
  IF h.aggressive THEN h.span[other].location # InUse
                  ELSE h.span[id].location = h.span[other].location

\* What committed_bytes has to get back for a returned neighbour.
TempCommitted(h, other) ==
  IF h.aggressive /\ h.span[other].location = Returned THEN h.span[other].length ELSE 0

\* Span other, which lies before or behind span id, becomes part of it.
Absorb(h, id, other) ==
  LET s == h.span[id]
      len == h.span[other].length
      before == h.span[other].start < s.start
      start == IF before THEN s.start - len ELSE s.start
      h1 == DeleteSpan(RemoveFromFreeList(h, other), other)
  IN [h1 EXCEPT !.span[id] = [s EXCEPT !.start = start, !.length = @ + len],
                !.pagemap[IF before THEN start ELSE EndOf(s) + len - 1] = id]

\* r: the heap and the pages that committed_bytes has to get back.
Merge(r, id, other) ==
  IF other = NULL \/ ~MayMergeSpans(r.heap, id, other)
    THEN r
    ELSE [heap |-> Absorb(r.heap, id, other), temp |-> r.temp + TempCommitted(r.heap, other)]

MergeIntoFreeList(h, id) ==
  LET s == h.span[id]
      r == Merge([heap |-> h, temp |-> 0], id, DescriptorOf(h, s.start - 1))
      m == Merge(r, id, DescriptorOf(r.heap, EndOf(s)))
      g == Relocate(DecommitSpan(m.heap, id), id, Returned)
  IN PrependToFreeList(IF h.aggressive /\ Releases(h) THEN [g EXCEPT !.committed = @ + m.temp] ELSE m.heap, id)

-----------------------------------------------------------------------------
(* Giving memory back.                                                      *)

\* The last span of a list is released.
ReleaseLastNormalSpan(h, list) ==
  LET id == h.normal[list][Len(h.normal[list])]
  IN MergeIntoFreeList(Relocate(RemoveFromFreeList(DecommitSpan(h, id), id), id, Returned), id)

\* One turn of the loop over the lists, from r: the heap, the pages released,
\* the number of the turn in its round, and whether there are more turns.  A
\* round begins only while there are free pages; a refusal ends it all.  List 0
\* is always empty.
ReleaseTurn(r, num_pages) ==
  LET h == r.heap
      list == IF h.release_index > kMaxPages THEN 0 ELSE h.release_index
      last == h.normal[list][Len(h.normal[list])]
      next(g, n) == [heap |-> [g EXCEPT !.release_index = list + 1], released |-> r.released + n,
                     turn |-> IF r.turn = kMaxPages THEN 0 ELSE r.turn + 1, more |-> TRUE]
  IN IF ~r.more \/ r.released >= num_pages \/ (r.turn = 0 /\ h.free = 0)
       THEN [heap |-> h, released |-> r.released, turn |-> r.turn, more |-> FALSE]
     ELSE IF list = 0 \/ h.normal[list] = <<>> THEN next(h, 0)
     ELSE IF ~Releases(h)
       THEN [heap |-> [h EXCEPT !.release_index = list], released |-> r.released, turn |-> r.turn, more |-> FALSE]
     ELSE next(ReleaseLastNormalSpan(h, list), h.span[last].length)

\* Every round releases a page, or there is none left.
Turns == (kMaxPages + 1) * (NPages + 1)
ReleaseAtLeastNPages(h, num_pages) ==
  LET run[k \in 0..Turns] == IF k = 0 THEN [heap |-> h, released |-> 0, turn |-> 0, more |-> TRUE]
                                      ELSE ReleaseTurn(run[k - 1], num_pages)
  IN run[Turns]

\* FLAGS_tcmalloc_release_rate scaled so that one page is worth one page of
\* delay (the code's default is 1000).
IncrementalScavenge(h, n) ==
  LET h1 == [h EXCEPT !.scavenge = @ - n]
      r == ReleaseAtLeastNPages(h1, 1)
  IN IF h1.scavenge >= 0 THEN h1
     ELSE [r.heap EXCEPT !.scavenge = IF r.released = 0 THEN ReleaseDelay ELSE r.released]

\* EnsureLimit without release: whether n more pages may be committed.
WithinLimitNow(h, n) == h.limit = 0 \/ h.system - h.unmapped + n <= h.limit

Enough(r, num_pages) == [heap |-> r.heap, ok |-> r.released >= num_pages]

\* EnsureLimit with release: the heap after it as well.
EnsureLimit(h, n) ==
  LET over == h.system - h.unmapped + n - h.limit
  IN IF WithinLimitNow(h, n) THEN [heap |-> h, ok |-> TRUE] ELSE Enough(ReleaseAtLeastNPages(h, over), over)

-----------------------------------------------------------------------------
(* Allocation.  A search returns the heap after it and a span or NULL.      *)

CarveSpan(h, id, n) ==
  LET s == h.span[id]
      left == NewSpanId(h, s.start + n)
      taken == Relocate(RemoveFromFreeList(h, id), id, InUse)
      g == IF s.length = n THEN taken ELSE PrependToFreeList(Cut(taken, id, n, left, s.location), left)
  IN [heap |-> IF s.location = Returned THEN CommitSpan(g, id) ELSE g, span |-> id]

\* Address-ordered best fit among the spans of large_.
BestFit(h, n) ==
  LET fit == {id \in On(h.normal[kMaxPages]) \union On(h.returned[kMaxPages]) : h.span[id].length >= n}
      better(a, b) == \/ h.span[a].length < h.span[b].length
                      \/ h.span[a].length = h.span[b].length /\ h.span[a].start < h.span[b].start
  IN IF fit = {} THEN NULL
     ELSE CHOOSE id \in fit : \A other \in fit \ {id} : better(id, other)

\* The best fit is taken; its commitment, if it needs one, is within the limit.
TakeBest(h, n) ==
  IF BestFit(h, n) = NULL THEN [heap |-> h, span |-> NULL] ELSE CarveSpan(h, BestFit(h, n), n)

TakeWithin(e, n) == IF e.ok THEN TakeBest(e.heap, n) ELSE [heap |-> e.heap, span |-> NULL]

\* Once EnsureLimit has released enough the search starts again, within the limit.
AllocLarge(h, n) ==
  LET best == BestFit(h, n)
  IN IF best = NULL \/ h.span[best].location = Normal \/ WithinLimitNow(h, n) THEN TakeBest(h, n)
     ELSE TakeWithin(EnsureLimit(h, n), n)

\* The returned list may become empty by coalescing.
TryReturned(e, len, n) ==
  IF e.ok /\ e.heap.returned[len] # <<>> THEN CarveSpan(e.heap, e.heap.returned[len][1], n)
  ELSE [heap |-> e.heap, span |-> NULL]

\* One small list is looked at.
TryList(r, len, n) ==
  LET h == r.heap
  IN IF r.span # NULL THEN r
     ELSE IF h.normal[len] # <<>> THEN CarveSpan(h, h.normal[len][1], n)
     ELSE IF h.returned[len] = <<>> THEN r
     ELSE TryReturned(EnsureLimit(h, n), len, n)

TryLarge(r, n) == IF r.span # NULL THEN r ELSE AllocLarge(r.heap, n)

SearchFreeAndLargeLists(h, n) ==
  LET at[len \in 0..kMaxPages] == IF len <= n THEN [heap |-> h, span |-> NULL] ELSE TryList(at[len - 1], len - 1, n)
  IN TryLarge(at[kMaxPages], n)

\* Delete, also used by GrowHeap for the pages it got.
DeleteFrom(h, id) ==
  IncrementalScavenge(
    MergeIntoFreeList(Relocate([h EXCEPT !.span[id].sizeclass = 0], id, Normal), id),
    h.span[id].length)

\* The runs of n pages the system could deliver.
SystemAlloc(h, n) ==
  LET owned == h.mem \union UNION {Extent(h.span[id]) : id \in DOMAIN h.span}
  IN {pg \in Pages : pg + n - 1 \in Pages /\ pg..(pg + n - 1) \cap owned = {}}

TakePages(h, pg, n) ==
  [h EXCEPT !.system = @ + n, !.committed = @ + n, !.mem = @ \union (pg..(pg + n - 1))]

AddPages(h, pg, n) ==
  LET id == NewSpanId(h, pg)
      s == [start |-> pg, length |-> n, location |-> InUse, sizeclass |-> 0]
  IN DeleteFrom(RecordSpan(NewSpan(TakePages(h, pg, n), id, s), id), id)

\* GrowHeap: the heaps it may leave behind.  The system may refuse; when the
\* page map cannot grow, the pages are lost but stay in the statistics.
Grown(e, n) ==
  IF ~e.ok THEN {}
  ELSE {[heap |-> AddPages(e.heap, pg, n), ok |-> TRUE] : pg \in SystemAlloc(e.heap, n)}
         \union {[heap |-> TakePages(e.heap, pg, n), ok |-> FALSE] :
                   pg \in IF e.heap.fails THEN SystemAlloc(e.heap, n) ELSE {}}

GrowHeap(h, n) ==
  LET ask == IF n > kMaxPages THEN n ELSE kMaxPages
      first == EnsureLimit(h, ask)
      again == IF n < ask THEN EnsureLimit(first.heap, n) ELSE first
  IN Grown(first, ask) \union (IF n < ask THEN Grown(again, n) ELSE {}) \union {[heap |-> again.heap, ok |-> FALSE]}

\* Growing the heap although many pages are free: they may only be split
\* into normal and returned spans.
ForcedCoalesce(h, n) ==
  /\ h.free # 0 /\ h.unmapped # 0
  /\ h.free + h.unmapped >= h.system \div 4
  /\ h.system \div CoalesceInterval # (h.system + n) \div CoalesceInterval

\* What a search that found nothing may lead to.  More pages are asked for than
\* there are.
Coalescing(r, n) ==
  IF r.span = NULL /\ ForcedCoalesce(r.heap, n)
    THEN SearchFreeAndLargeLists(ReleaseAtLeastNPages(r.heap, NPages + 1).heap, n)
    ELSE r

Growing(r, n) ==
  IF r.span # NULL THEN {r}
  ELSE {IF g.ok THEN SearchFreeAndLargeLists(g.heap, n) ELSE [heap |-> g.heap, span |-> NULL] : g \in GrowHeap(r.heap, n)}

\* The outcomes of New(n).
NewSpans(h, n) == Growing(Coalescing(SearchFreeAndLargeLists(h, n), n), n)

\* GetNextRange: the span of the first recorded page from start on, by which
\* MallocExtension::Ranges walks over the heap.
GetNextRange(h, start) ==
  LET known == {pg \in start..(NPages + 1) : h.pagemap[pg] # NULL}
  IN IF known = {} THEN NULL ELSE h.pagemap[CHOOSE pg \in known : \A q \in known : pg <= q]

-----------------------------------------------------------------------------
(* The public calls.  How many releases work is chosen for each call.       *)

With(w) == [heap EXCEPT !.works = w]
Works == IF heap.fails THEN {0, 1, All} ELSE {All}
Finish(h) == heap' = [h EXCEPT !.works = All]

New(n) ==
  \E w \in Works : \E r \in NewSpans(With(w), n) :
    /\ Finish(r.heap)
    /\ result' = <<"New", n, r.span>>

Clients == {id \in DOMAIN heap.span : heap.span[id].location = InUse}

Delete(id) ==
  /\ id \in Clients
  /\ \E w \in Works : Finish(DeleteFrom(With(w), id))
  /\ result' = NoResult

Split(id, n) ==
  /\ id \in Clients
  /\ heap.span[id].sizeclass = 0 /\ n < heap.span[id].length
  /\ LET left == NewSpanId(heap, heap.span[id].start + n)
     IN /\ Finish(Cut(heap, id, n, left, InUse))
        /\ result' = <<"Split", n, left>>

RegisterSizeClass(id, sc) ==
  /\ id \in Clients /\ heap.span[id].sizeclass = 0
  /\ Finish([heap EXCEPT !.span[id].sizeclass = sc,
                         !.pagemap = [pg \in DOMAIN @ |-> IF pg \in InteriorOf(heap.span[id]) THEN id ELSE @[pg]]])
  /\ result' = NoResult

ReleasePages(n) ==
  /\ \E w \in Works : Finish(ReleaseAtLeastNPages(With(w), n).heap)
  /\ result' = NoResult

SetAggressiveDecommit(a) ==
  /\ Finish([heap EXCEPT !.aggressive = a])
  /\ result' = NoResult

PagesNext ==
  \/ \E n \in Pages : New(n) \/ ReleasePages(n)
  \/ \E id \in Ids : Delete(id)
  \/ \E id \in Ids, n \in Pages : Split(id, n)
  \/ \E id \in Ids, sc \in SizeClasses : RegisterSizeClass(id, sc)
  \/ \E a \in Toggles : SetAggressiveDecommit(a)

PagesSpec == PagesInit /\ [][PagesNext]_pagesVars

-----------------------------------------------------------------------------
(* Properties.                                                              *)

Spans == {heap.span[id] : id \in DOMAIN heap.span}
PagesAt(loc) == {pg \in Pages : \E s \in Spans : s.location = loc /\ pg \in Extent(s)}

SpanType == [start : Pages, length : Pages, location : {InUse, Normal, Returned},
             sizeclass : SizeClasses \union {0}]

\* The types of the heap's parts; a span lies inside the address space.
PagesTypeOK ==
  /\ DOMAIN heap.span \subseteq Ids
  /\ \A s \in Spans : s \in SpanType /\ EndOf(s) - 1 \in Pages
  /\ heap.pagemap \in [0..(NPages + 1) -> Ids \union {NULL}]
  /\ {heap.free, heap.unmapped, heap.committed, heap.system} \subseteq 0..NPages
  /\ heap.mem \subseteq Pages
  /\ heap.release_index \in 0..(kMaxPages + 1)
  /\ heap.scavenge \in 0..(NPages + ReleaseDelay)
  /\ result \in {"New", "Split", ""} \X (0..NPages) \X (Ids \union {NULL})

\* The page map is never cleaned up behind a merge, and coalescing trusts it
\* for the pages before and behind a span (the ASSERTs of MergeIntoFreeList):
\* no two spans share a page, the first and last page of every span lead to
\* it, and every page of a span of small objects does, since free() looks
\* its size class up by any of them.  A page next to a span leads to nothing
\* or to a span that ends or begins there.
Described ==
  \A id \in DOMAIN heap.span :
    LET s == heap.span[id] IN
    /\ \A other \in DOMAIN heap.span \ {id} : Extent(s) \cap Extent(heap.span[other]) = {}
    /\ heap.pagemap[s.start] = id /\ heap.pagemap[EndOf(s) - 1] = id
    /\ s.sizeclass # 0 => \A pg \in Extent(s) : heap.pagemap[pg] = id
    /\ LET prev == heap.pagemap[s.start - 1]
           next == heap.pagemap[EndOf(s)]
       IN /\ prev # NULL => prev \in DOMAIN heap.span /\ s.start = EndOf(heap.span[prev])
          /\ next # NULL => next \in DOMAIN heap.span /\ heap.span[next].start = EndOf(s)

\* A walk with GetNextRange comes from page 0 and from the end of a span to the
\* next span by address, in spite of the stale entries inside of spans.
RangesComplete ==
  \A from \in {0} \union {EndOf(s) : s \in Spans} :
    LET next == GetNextRange(heap, from)
        later == {id \in DOMAIN heap.span : heap.span[id].start >= from}
    IN IF later = {} THEN next = NULL
       ELSE next \in later /\ \A id \in later : heap.span[next].start <= heap.span[id].start

\* Free spans are coalesced eagerly: two free spans that touch differ in
\* location, whatever was released, refused or carved (the ASSERT of Carve).
Coalesced ==
  \A s, t \in Spans :
    EndOf(s) = t.start /\ s.location # InUse => s.location # t.location

\* Every free span is on the list of its length and location, once, and
\* nothing else is on a list (CheckExpensive).
FreeSpans(loc, list) ==
  {id \in DOMAIN heap.span : heap.span[id].location = loc /\ ListOf(heap.span[id].length) = list}
NoneTwice(list) == \A i, j \in DOMAIN list : list[i] = list[j] => i = j
Listed ==
  \A list \in 1..kMaxPages :
    /\ NoneTwice(heap.normal[list]) /\ On(heap.normal[list]) = FreeSpans(Normal, list)
    /\ NoneTwice(heap.returned[list]) /\ On(heap.returned[list]) = FreeSpans(Returned, list)

\* The statistics are the truth: free and unmapped pages are those of the
\* free spans, committed pages those the system really backs.
StatsTrue ==
  /\ heap.free = Cardinality(PagesAt(Normal)) /\ heap.unmapped = Cardinality(PagesAt(Returned))
  /\ heap.committed = Cardinality(heap.mem)
  /\ heap.unmapped + heap.committed = heap.system

\* What Carve, Delete and GrowHeap assert at their end.
AssertedStats == heap.unmapped + heap.committed = heap.system

\* Nobody gets or is about to get a page that the system has taken back: the
\* pages of spans in use and of normal spans are committed.
Backed ==
  \A s \in Spans : s.location # Returned => Extent(s) \subseteq heap.mem

\* With a heap limit, no more pages than that are committed at any time.
WithinLimit == heap.limit # 0 => Cardinality(heap.mem) <= heap.limit

\* The spans tile the heap and every page leads to its span; free neighbours are
\* merged and on the right list; what is counted as committed is what the system
\* backs, within the limit.
PagesSound ==
  PagesTypeOK /\ Described /\ RangesComplete /\ Coalesced /\ Listed /\ StatsTrue /\ Backed /\ WithinLimit

\* A span in use belongs to its client: only its own Delete, Split or
\* RegisterSizeClass may change it, never a release, a merge or an
\* allocation for somebody else.
KeepsClients ==
  \A id \in Clients :
    \/ id \in DOMAIN heap'.span /\ heap'.span[id] = heap.span[id]
    \/ Delete(id)
    \/ \E n \in Pages : Split(id, n)
    \/ \E sc \in SizeClasses : RegisterSizeClass(id, sc)

\* New does not fail while a free span is long enough, unless the limit
\* forbids to commit it.
FailsForReason ==
  \A n \in Pages :
    /\ \E s \in Spans : s.location # InUse /\ s.length >= n
    /\ result' = <<"New", n, NULL>>
    => heap.limit # 0 /\ heap.system - heap.unmapped + n > heap.limit

\* A span in use changes only in calls about it, and New fails only for lack of
\* pages that the limit lets it commit.
SpansKept == [][KeepsClients /\ FailsForReason]_pagesVars
=============================================================================
