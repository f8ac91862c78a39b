--------------------------- MODULE PageHeapProofs ---------------------------
(***************************************************************************)
(* That the page heap stays sound (PageHeap), whatever the number of pages, *)
(* the mode and the order of the calls.                                     *)
(***************************************************************************)
EXTENDS PageHeap, FiniteSetTheorems, NaturalsInduction, WellFoundedInduction, TLAPS

-----------------------------------------------------------------------------
(* Sets of pages and lists of spans.                                        *)

LEMMA PagesFinite == IsFiniteSet(Pages) /\ Cardinality(Pages) = NPages /\ NPages \in Nat /\ NPages > 0
<1>1. NPages \in Nat /\ NPages > 0
  BY PagesAssumption
<1> QED
  BY <1>1, FS_Interval DEF Pages

LEMMA Counted == ASSUME NEW S \in SUBSET Pages PROVE IsFiniteSet(S) /\ Cardinality(S) \in 0..NPages
<1>1. IsFiniteSet(S) /\ Cardinality(S) <= NPages
  BY PagesFinite, FS_Subset
<1> QED
  BY <1>1, PagesFinite, FS_CardinalityType

LEMMA More == 
  ASSUME NEW S \in SUBSET Pages, NEW T \in SUBSET Pages, S \cap T = {}
  PROVE  Cardinality(S \union T) = Cardinality(S) + Cardinality(T)
<1>1. IsFiniteSet(S) /\ IsFiniteSet(T) /\ Cardinality(S) \in Nat /\ Cardinality(T) \in Nat
  BY Counted
<1>2. Cardinality(S \cap T) = 0
  BY FS_EmptySet
<1>3. Cardinality(S \union T) = Cardinality(S) + Cardinality(T) - Cardinality(S \cap T)
  BY <1>1, FS_Union
<1> QED
  BY <1>1, <1>2, <1>3

LEMMA Fewer ==
  ASSUME NEW S \in SUBSET Pages, NEW T \in SUBSET Pages, T \subseteq S
  PROVE  Cardinality(S \ T) = Cardinality(S) - Cardinality(T)
<1>1. (S \ T) \union T = S /\ (S \ T) \cap T = {} /\ S \ T \in SUBSET Pages
  OBVIOUS
<1>2. Cardinality((S \ T) \union T) = Cardinality(S \ T) + Cardinality(T)
  BY <1>1, More
<1>3. Cardinality(S) = Cardinality(S \ T) + Cardinality(T)
  BY <1>1, <1>2, Zenon
<1>4. Cardinality(S \ T) \in Nat /\ Cardinality(T) \in Nat
  BY <1>1, Counted
<1> QED
  BY <1>3, <1>4

LEMMA UnlinkedIs ==
  ASSUME NEW list \in Seq(Ids), NoneTwice(list), NEW id \in On(list)
  PROVE  /\ Unlinked(list, id) \in Seq(Ids)
         /\ NoneTwice(Unlinked(list, id))
         /\ On(Unlinked(list, id)) = On(list) \ {id}
<1> DEFINE p == PlaceOf(list, id)
           u == Unlinked(list, id)
<1>1. p \in 1..Len(list) /\ list[p] = id /\ Len(list) \in Nat
  BY DEF PlaceOf, On
<1>2. u = [i \in 1..(Len(list) - 1) |-> IF i < p THEN list[i] ELSE list[i + 1]]
  BY DEF Unlinked
<1> HIDE DEF p, u
<1>3. Len(list) - 1 \in Nat /\ \A i \in 1..Len(list) : list[i] \in Ids
  BY <1>1
<1>4. \A i \in 1..(Len(list) - 1) : u[i] \in Ids
  BY <1>1, <1>2, <1>3
<1>5. u \in Seq(Ids) /\ Len(u) = Len(list) - 1
  BY <1>2, <1>3, <1>4
<1>6. DOMAIN u = 1..(Len(list) - 1) /\ DOMAIN list = 1..Len(list)
  BY <1>2
<1>7. NoneTwice(u)
  <2>1. SUFFICES ASSUME NEW i \in 1..(Len(list) - 1), NEW j \in 1..(Len(list) - 1), u[i] = u[j] PROVE i = j
    BY <1>6 DEF NoneTwice
  <2>2. u[i] = (IF i < p THEN list[i] ELSE list[i + 1]) /\ u[j] = (IF j < p THEN list[j] ELSE list[j + 1])
    BY <1>2
  <2>3. i \in 1..Len(list) /\ i + 1 \in 1..Len(list) /\ j \in 1..Len(list) /\ j + 1 \in 1..Len(list)
    BY <1>1
  <2>4. PICK a \in 1..Len(list) : a = (IF i < p THEN i ELSE i + 1) /\ u[i] = list[a]
    BY <2>2, <2>3
  <2>5. PICK b \in 1..Len(list) : b = (IF j < p THEN j ELSE j + 1) /\ u[j] = list[b]
    BY <2>2, <2>3
  <2>6. a = b
    BY <1>6, <2>1, <2>4, <2>5 DEF NoneTwice
  <2> QED
    BY <1>1, <2>4, <2>5, <2>6
<1>8. ASSUME NEW x \in On(list), x # id PROVE x \in On(u)
  <2>1. PICK i \in 1..Len(list) : list[i] = x
    BY <1>6 DEF On
  <2>2. i < p \/ i > p
    BY <1>1, <1>8, <2>1
  <2>3. CASE i < p
    <3>1. i \in 1..(Len(list) - 1)
      BY <1>1, <2>1, <2>3
    <3> QED
      BY <1>2, <1>6, <2>1, <2>3, <3>1 DEF On
  <2>4. CASE i > p
    <3>1. i - 1 \in 1..(Len(list) - 1) /\ ~(i - 1 < p) /\ (i - 1) + 1 = i
      BY <1>1, <2>1, <2>4
    <3> QED
      BY <1>2, <1>6, <2>1, <3>1 DEF On
  <2> QED
    BY <2>2, <2>3, <2>4
<1>9. ASSUME NEW i \in 1..(Len(list) - 1) PROVE u[i] \in On(list) \ {id}
  <2>1. u[i] = IF i < p THEN list[i] ELSE list[i + 1]
    BY <1>2
  <2>2. i + 1 \in 1..Len(list) /\ i \in 1..Len(list)
    BY <1>1
  <2> QED
    BY <1>1, <1>6, <2>1, <2>2 DEF On, NoneTwice
<1>10. On(u) = On(list) \ {id}
  BY <1>6, <1>8, <1>9 DEF On
<1> QED
  BY <1>5, <1>7, <1>10 DEF u

LEMMA PrependedIs ==
  ASSUME NEW list \in Seq(Ids), NoneTwice(list), NEW id \in Ids, id \notin On(list)
  PROVE  /\ <<id>> \o list \in Seq(Ids)
         /\ NoneTwice(<<id>> \o list)
         /\ On(<<id>> \o list) = On(list) \union {id}
<1> DEFINE u == <<id>> \o list
<1>1. u \in Seq(Ids) /\ Len(u) = Len(list) + 1 /\ Len(list) \in Nat
  OBVIOUS
<1>2. u[1] = id /\ \A i \in 2..(Len(list) + 1) : u[i] = list[i - 1]
  OBVIOUS
<1>3. DOMAIN u = 1..(Len(list) + 1) /\ DOMAIN list = 1..Len(list)
  BY <1>1
<1> HIDE DEF u
<1>4. \A i \in 2..(Len(list) + 1) : u[i] # id
  BY <1>1, <1>2, <1>3 DEF On
<1>5. NoneTwice(u)
  <2>1. SUFFICES ASSUME NEW i \in 1..(Len(list) + 1), NEW j \in 1..(Len(list) + 1), u[i] = u[j] PROVE i = j
    BY <1>3 DEF NoneTwice
  <2>2. CASE i = 1 \/ j = 1
    BY <1>1, <1>2, <1>4, <2>1, <2>2
  <2>3. CASE i # 1 /\ j # 1
    <3>1. i - 1 \in 1..Len(list) /\ j - 1 \in 1..Len(list) /\ u[i] = list[i - 1] /\ u[j] = list[j - 1]
      BY <1>1, <1>2, <2>3
    <3>2. i - 1 = j - 1
      BY <1>3, <2>1, <3>1 DEF NoneTwice
    <3> QED
      BY <3>2
  <2> QED
    BY <2>2, <2>3
<1>6. ASSUME NEW i \in 1..Len(list) PROVE list[i] \in On(u)
  <2>1. i + 1 \in 2..(Len(list) + 1) /\ (i + 1) - 1 = i
    BY <1>1
  <2> QED
    BY <1>1, <1>2, <1>3, <2>1 DEF On
<1>7. id \in On(u)
  BY <1>1, <1>2, <1>3 DEF On
<1>8. ASSUME NEW i \in 1..(Len(list) + 1) PROVE u[i] \in On(list) \union {id}
  <2>1. CASE i = 1
    BY <1>2, <2>1
  <2>2. CASE i # 1
    <3>1. i - 1 \in 1..Len(list) /\ u[i] = list[i - 1]
      BY <1>1, <1>2, <2>2
    <3> QED
      BY <1>3, <3>1 DEF On
  <2> QED
    BY <2>1, <2>2
<1>9. On(u) = On(list) \union {id}
  BY <1>3, <1>6, <1>7, <1>8 DEF On
<1> QED
  BY <1>1, <1>5, <1>9 DEF u

-----------------------------------------------------------------------------
(* The invariant of a heap h while the spans of X are in hand: taken off    *)
(* their list, or not yet on one.                                           *)

IsHeap(h) ==
  /\ DOMAIN h = {"span", "pagemap", "normal", "returned", "free", "unmapped", "committed", "system",
                 "mem", "release_index", "scavenge", "aggressive", "limit", "fails", "works"}
  /\ h = [f \in DOMAIN h |-> h[f]]

\* The parts that do not depend on spans.
Fields(h) ==
  /\ h.pagemap \in [0..(NPages + 1) -> Ids \union {NULL}]
  /\ h.normal \in [1..kMaxPages -> Seq(Ids)] /\ h.returned \in [1..kMaxPages -> Seq(Ids)]
  /\ h.free \in Int /\ h.unmapped \in Int /\ h.committed \in Int /\ h.system \in Int
  /\ h.mem \in SUBSET Pages
  /\ h.release_index \in 0..(kMaxPages + 1) /\ h.scavenge \in Int
  /\ h.aggressive \in BOOLEAN /\ h.fails \in BOOLEAN /\ h.limit \in Nat /\ h.works \in {0, 1, All}
  /\ (h.aggressive => ~h.fails) /\ (~h.fails => h.works = All)

\* A span of the address space.
IsSpan(s) ==
  /\ s = [start |-> s.start, length |-> s.length, location |-> s.location, sizeclass |-> s.sizeclass]
  /\ s.start \in Nat /\ s.start > 0 /\ s.length \in Nat /\ s.length > 0 /\ s.start + s.length <= NPages + 1
  /\ s.location \in {InUse, Normal, Returned} /\ s.sizeclass \in SizeClasses \union {0}

Shape(h) ==
  /\ IsHeap(h) /\ Fields(h)
  /\ h.span = [id \in DOMAIN h.span |-> h.span[id]] /\ DOMAIN h.span \subseteq Ids
  /\ \A id \in DOMAIN h.span : IsSpan(h.span[id])

\* Span a and the page map agree, and no other span has a page of it.
Before(s, t) == s.start + s.length <= t.start
Apart(h) == \A a, b \in DOMAIN h.span : a # b => Before(h.span[a], h.span[b]) \/ Before(h.span[b], h.span[a])
Has(s, pg) == s.start <= pg /\ pg < s.start + s.length
Mapped(h) ==
  \A a \in DOMAIN h.span :
    /\ h.pagemap[h.span[a].start] = a /\ h.pagemap[h.span[a].start + h.span[a].length - 1] = a
    /\ h.span[a].sizeclass # 0 =>
         h.span[a].location = InUse /\ \A pg \in 0..(NPages + 1) : Has(h.span[a], pg) => h.pagemap[pg] = a
Located(h) == \A pg \in 0..(NPages + 1) : h.pagemap[pg] # NULL => \E a \in DOMAIN h.span : Has(h.span[a], pg)
Tiling(h) == Apart(h) /\ Mapped(h) /\ Located(h)

\* The spans that are not in hand.
Out(h, X) == DOMAIN h.span \ X
Touching(h, X) ==
  \A a, b \in Out(h, X) :
    h.span[a].start + h.span[a].length = h.span[b].start /\ h.span[a].location # InUse
      => h.span[a].location # h.span[b].location
AllReturned(h, X) == h.aggressive => \A a \in Out(h, X) : h.span[a].location # Normal
OfList(h, X, loc, list) == {a \in Out(h, X) : h.span[a].location = loc /\ ListOf(h.span[a].length) = list}
OnLists(h, X) ==
  \A list \in 1..kMaxPages :
    /\ NoneTwice(h.normal[list]) /\ On(h.normal[list]) = OfList(h, X, Normal, list)
    /\ NoneTwice(h.returned[list]) /\ On(h.returned[list]) = OfList(h, X, Returned, list)
PagesOf(h, X, loc) == {pg \in Pages : \E a \in Out(h, X) : h.span[a].location = loc /\ Has(h.span[a], pg)}
Counts(h, X) == h.free = Cardinality(PagesOf(h, X, Normal)) /\ h.unmapped = Cardinality(PagesOf(h, X, Returned))
MemTrue(h, X) ==
  \A a \in Out(h, X) : \A pg \in Pages : Has(h.span[a], pg) => (pg \in h.mem <=> h.span[a].location # Returned)
Settled(h, X) == Touching(h, X) /\ AllReturned(h, X) /\ OnLists(h, X) /\ Counts(h, X) /\ MemTrue(h, X)

\* committed and system, and the limit.
Spanned(h) == {pg \in Pages : \E a \in DOMAIN h.span : Has(h.span[a], pg)}
Books(h) ==
  /\ h.committed = Cardinality(h.mem) /\ h.system = Cardinality(h.mem \union Spanned(h))
  /\ h.limit # 0 => h.committed <= h.limit

Good(h, X) == Shape(h) /\ Tiling(h) /\ Settled(h, X) /\ Books(h)

\* The spans in use are left alone.
Keep(h, g) ==
  \A id \in DOMAIN h.span : h.span[id].location = InUse => id \in DOMAIN g.span /\ g.span[id] = h.span[id]
SameMode(h, g) == g.limit = h.limit /\ g.aggressive = h.aggressive /\ g.fails = h.fails /\ g.system = h.system

-----------------------------------------------------------------------------
(* Spans in hand.                                                           *)

\* What is said about the spans not in hand depends on them alone.
Undisturbed(h, X, g, Y) ==
  /\ Out(g, Y) = Out(h, X)
  /\ \A a \in Out(h, X) : g.span[a] = h.span[a]
  /\ g.normal = h.normal /\ g.returned = h.returned /\ g.free = h.free /\ g.unmapped = h.unmapped
  /\ g.aggressive = h.aggressive
  /\ \A a \in Out(h, X) : \A pg \in Pages : Has(h.span[a], pg) => (pg \in g.mem <=> pg \in h.mem)

LEMMA StaySettled ==
  ASSUME NEW h, NEW X, NEW g, NEW Y, Settled(h, X), Undisturbed(h, X, g, Y)
  PROVE  Settled(g, Y)
<1> DEFINE O == Out(h, X)
<1>1. Out(g, Y) = O /\ \A a \in O : g.span[a] = h.span[a]
  BY DEF Undisturbed
<1>2. /\ g.normal = h.normal /\ g.returned = h.returned /\ g.free = h.free /\ g.unmapped = h.unmapped
      /\ g.aggressive = h.aggressive
      /\ \A a \in O : \A pg \in Pages : Has(h.span[a], pg) => (pg \in g.mem <=> pg \in h.mem)
  BY DEF Undisturbed
<1>3. Touching(g, Y)
  BY <1>1 DEF Settled, Touching
<1>4. AllReturned(g, Y)
  BY <1>1, <1>2 DEF Settled, AllReturned
<1>5. \A loc : PagesOf(g, Y, loc) = PagesOf(h, X, loc)
  BY <1>1 DEF PagesOf
<1>6. \A loc, list : OfList(g, Y, loc, list) = OfList(h, X, loc, list)
  BY <1>1 DEF OfList
<1>7. OnLists(g, Y)
  BY <1>2, <1>6 DEF Settled, OnLists
<1>8. Counts(g, Y)
  BY <1>2, <1>5 DEF Settled, Counts
<1>9. MemTrue(g, Y)
  BY <1>1, <1>2 DEF Settled, MemTrue
<1> QED
  BY <1>3, <1>4, <1>7, <1>8, <1>9 DEF Settled

\* Nothing but lists changes.
Elsewhere(h, g) ==
  /\ g.span = h.span /\ g.pagemap = h.pagemap /\ g.committed = h.committed /\ g.system = h.system /\ g.mem = h.mem
  /\ g.release_index = h.release_index /\ g.scavenge = h.scavenge /\ g.aggressive = h.aggressive
  /\ g.limit = h.limit /\ g.fails = h.fails /\ g.works = h.works

\* What RemoveFromFreeList does to a heap, whether the span is backed or not.
Removal(h, g, id) ==
  LET s == h.span[id]
      list == ListOf(s.length)
  IN /\ IsHeap(g) /\ Elsewhere(h, g)
     /\ s.location = Normal =>
          /\ g.free = h.free - s.length /\ g.normal = [h.normal EXCEPT ![list] = Unlinked(h.normal[list], id)]
          /\ g.unmapped = h.unmapped /\ g.returned = h.returned
     /\ s.location # Normal =>
          /\ g.unmapped = h.unmapped - s.length /\ g.returned = [h.returned EXCEPT ![list] = Unlinked(h.returned[list], id)]
          /\ g.free = h.free /\ g.normal = h.normal

LEMMA RemoveIs == ASSUME NEW h, NEW id, IsHeap(h) PROVE Removal(h, RemoveFromFreeList(h, id), id)
<1> DEFINE s == h.span[id]
           list == ListOf(s.length)
           g == RemoveFromFreeList(h, id)
<1>1. CASE s.location = Normal
  <2>1. g = [h EXCEPT !.free = @ - s.length, !.normal[list] = Unlinked(@, id)]
    BY <1>1 DEF RemoveFromFreeList
  <2>2. IsHeap(g) /\ Elsewhere(h, g) /\ g.returned = h.returned /\ g.unmapped = h.unmapped
    BY <2>1 DEF IsHeap, Elsewhere
  <2>3. g.free = h.free - s.length /\ g.normal = [h.normal EXCEPT ![list] = Unlinked(h.normal[list], id)]
    BY <2>1 DEF IsHeap
  <2> QED
    BY <1>1, <2>2, <2>3 DEF Removal
<1>2. CASE s.location # Normal
  <2>1. g = [h EXCEPT !.unmapped = @ - s.length, !.returned[list] = Unlinked(@, id)]
    BY <1>2 DEF RemoveFromFreeList
  <2>2. IsHeap(g) /\ Elsewhere(h, g) /\ g.normal = h.normal /\ g.free = h.free
    BY <2>1 DEF IsHeap, Elsewhere
  <2>3. g.unmapped = h.unmapped - s.length /\ g.returned = [h.returned EXCEPT ![list] = Unlinked(h.returned[list], id)]
    BY <2>1 DEF IsHeap
  <2> QED
    BY <1>2, <2>2, <2>3 DEF Removal
<1> QED
  BY <1>1, <1>2

\* No page belongs to two spans.
LEMMA OneOwner ==
  ASSUME NEW h, Shape(h), Apart(h), NEW a \in DOMAIN h.span, NEW b \in DOMAIN h.span, a # b,
         NEW pg \in Int, Has(h.span[a], pg)
  PROVE  ~Has(h.span[b], pg)
<1>1. IsSpan(h.span[a]) /\ IsSpan(h.span[b])
  BY DEF Shape
<1>2. Before(h.span[a], h.span[b]) \/ Before(h.span[b], h.span[a])
  BY DEF Apart
<1> QED
  BY <1>1, <1>2 DEF Before, Has, IsSpan

LEMMA ListInRange == ASSUME NEW len \in Nat, len > 0 PROVE ListOf(len) \in 1..kMaxPages
BY PagesAssumption DEF ListOf

\* The pages of one span.
PagesIn(s) == {pg \in Pages : Has(s, pg)}

LEMMA PagesInIs == ASSUME NEW s, IsSpan(s) PROVE Cardinality(PagesIn(s)) = s.length /\ PagesIn(s) = Extent(s)
<1>1. PagesIn(s) = s.start..(s.start + s.length - 1)
  BY PagesFinite DEF PagesIn, Has, IsSpan, Pages
<1>2. s.start \in Int /\ s.length \in Nat /\ s.length > 0 /\ s.start + s.length - 1 \in Int
  BY DEF IsSpan
<1>3. Cardinality(s.start..(s.start + s.length - 1)) =
        IF s.start > s.start + s.length - 1 THEN 0 ELSE (s.start + s.length - 1) - s.start + 1
  BY <1>2, FS_Interval
<1> QED
  BY <1>1, <1>2, <1>3 DEF Extent, EndOf

LEMMA Removed ==
  ASSUME NEW h, NEW X, NEW id, Shape(h), Tiling(h), Settled(h, X), id \in Out(h, X), h.span[id].location # InUse,
         NEW g, Removal(h, g, id)
  PROVE  Shape(g) /\ Tiling(g) /\ Settled(g, X \union {id})
<1> DEFINE s == h.span[id]
           list == ListOf(s.length)
           Y == X \union {id}
<1>1. id \in DOMAIN h.span /\ id \notin X /\ IsSpan(s) /\ s.location \in {Normal, Returned} /\ Normal # Returned
  BY DEF Out, Shape, IsSpan, Normal, Returned
<1>2. list \in 1..kMaxPages
  BY <1>1, ListInRange DEF IsSpan
<1>3. IsHeap(g) /\ Elsewhere(h, g) /\ g.span = h.span
  BY DEF Removal, Elsewhere
<1>4. Out(g, Y) = Out(h, X) \ {id}
  BY <1>3 DEF Out
<1>5. NoneTwice(h.normal[list]) /\ NoneTwice(h.returned[list]) /\ h.normal[list] \in Seq(Ids) /\ h.returned[list] \in Seq(Ids)
  BY <1>2 DEF Settled, OnLists, Shape, Fields
<1>6. /\ s.location = Normal => id \in On(h.normal[list])
      /\ s.location # Normal => id \in On(h.returned[list])
  BY <1>1, <1>2 DEF Settled, OnLists, OfList
<1>7. /\ s.location = Normal =>
           /\ Unlinked(h.normal[list], id) \in Seq(Ids) /\ NoneTwice(Unlinked(h.normal[list], id))
           /\ On(Unlinked(h.normal[list], id)) = On(h.normal[list]) \ {id}
      /\ s.location # Normal =>
           /\ Unlinked(h.returned[list], id) \in Seq(Ids) /\ NoneTwice(Unlinked(h.returned[list], id))
           /\ On(Unlinked(h.returned[list], id)) = On(h.returned[list]) \ {id}
  BY <1>5, <1>6, UnlinkedIs
<1>8. h.normal \in [1..kMaxPages -> Seq(Ids)] /\ h.returned \in [1..kMaxPages -> Seq(Ids)] 
      /\ h.free \in Int /\ h.unmapped \in Int /\ s.length \in Int
  BY <1>1 DEF Shape, Fields, IsSpan
<1>9. g.normal \in [1..kMaxPages -> Seq(Ids)] /\ g.returned \in [1..kMaxPages -> Seq(Ids)] /\ g.free \in Int /\ g.unmapped \in Int
  <2>1. CASE s.location = Normal
    <3>1. g.free = h.free - s.length /\ g.normal = [h.normal EXCEPT ![list] = Unlinked(h.normal[list], id)]
          /\ g.unmapped = h.unmapped /\ g.returned = h.returned
      BY <2>1 DEF Removal
    <3> QED
      BY <1>2, <1>7, <1>8, <2>1, <3>1
  <2>2. CASE s.location # Normal
    <3>1. g.unmapped = h.unmapped - s.length /\ g.returned = [h.returned EXCEPT ![list] = Unlinked(h.returned[list], id)]
          /\ g.free = h.free /\ g.normal = h.normal
      BY <2>2 DEF Removal
    <3> QED
      BY <1>2, <1>7, <1>8, <2>2, <3>1
  <2> QED
    BY <2>1, <2>2
<1>10. Shape(g)
  BY <1>3, <1>9 DEF Shape, Fields, Elsewhere
<1>11. Tiling(g)
  BY <1>3 DEF Elsewhere, Tiling, Apart, Mapped, Located
<1>12. Touching(g, Y) /\ AllReturned(g, Y) /\ MemTrue(g, Y)
  BY <1>3, <1>4, ZenonT(60) DEF Settled, Touching, AllReturned, MemTrue, Elsewhere
<1>13. OnLists(g, Y)
  <2>1. SUFFICES ASSUME NEW l \in 1..kMaxPages
                 PROVE  /\ NoneTwice(g.normal[l]) /\ On(g.normal[l]) = OfList(g, Y, Normal, l)
                        /\ NoneTwice(g.returned[l]) /\ On(g.returned[l]) = OfList(g, Y, Returned, l)
    BY DEF OnLists
  <2>2. /\ NoneTwice(h.normal[l]) /\ On(h.normal[l]) = OfList(h, X, Normal, l)
        /\ NoneTwice(h.returned[l]) /\ On(h.returned[l]) = OfList(h, X, Returned, l)
    BY DEF Settled, OnLists
  <2>3. \A loc : OfList(g, Y, loc, l) = OfList(h, X, loc, l) \ {id}
    BY <1>3, <1>4 DEF OfList
  <2>4. \A loc : loc # s.location \/ l # list => id \notin OfList(h, X, loc, l)
    BY DEF OfList
  <2>5. CASE s.location = Normal
    <3>1. g.normal = [h.normal EXCEPT ![list] = Unlinked(h.normal[list], id)] /\ g.returned = h.returned
      BY <2>5 DEF Removal
    <3>2. g.normal[l] = IF l = list THEN Unlinked(h.normal[list], id) ELSE h.normal[l]
      BY <1>2, <1>8, <3>1
    <3>3. NoneTwice(g.normal[l]) /\ NoneTwice(g.returned[l]) /\ On(g.returned[l]) = On(h.returned[l])
      BY <1>7, <2>2, <2>5, <3>1, <3>2
    <3>4. OfList(g, Y, Returned, l) = OfList(h, X, Returned, l)
      BY <1>1, <2>3, <2>4, <2>5
    <3>5. On(g.normal[l]) = OfList(g, Y, Normal, l)
      <4>1. CASE l = list
        BY <1>7, <2>2, <2>3, <2>5, <3>2, <4>1
      <4>2. CASE l # list
        BY <2>2, <2>3, <2>4, <3>2, <4>2
      <4> QED
        BY <4>1, <4>2
    <3> QED
      BY <2>2, <3>3, <3>4, <3>5
  <2>6. CASE s.location # Normal
    <3>1. g.returned = [h.returned EXCEPT ![list] = Unlinked(h.returned[list], id)] /\ g.normal = h.normal
      BY <2>6 DEF Removal
    <3>2. g.returned[l] = IF l = list THEN Unlinked(h.returned[list], id) ELSE h.returned[l]
      BY <1>2, <1>8, <3>1
    <3>3. NoneTwice(g.normal[l]) /\ NoneTwice(g.returned[l]) /\ On(g.normal[l]) = On(h.normal[l])
      BY <1>7, <2>2, <2>6, <3>1, <3>2
    <3>4. OfList(g, Y, Normal, l) = OfList(h, X, Normal, l)
      BY <1>1, <2>3, <2>4, <2>6
    <3>5. On(g.returned[l]) = OfList(g, Y, Returned, l)
      <4>1. CASE l = list
        BY <1>7, <2>2, <2>3, <2>6, <3>2, <4>1
      <4>2. CASE l # list
        BY <2>2, <2>3, <2>4, <3>2, <4>2
      <4> QED
        BY <4>1, <4>2
    <3> QED
      BY <2>2, <3>3, <3>4, <3>5
  <2> QED
    BY <2>5, <2>6
<1>14. Counts(g, Y)
  <2>1. \A loc : loc # s.location => PagesOf(g, Y, loc) = PagesOf(h, X, loc)
    BY <1>3, <1>4 DEF PagesOf
  <2>2. PagesOf(g, Y, s.location) = PagesOf(h, X, s.location) \ PagesIn(s)
    <3>1. ASSUME NEW pg \in Pages, NEW a \in Out(h, X), a # id, Has(h.span[a], pg) PROVE ~Has(s, pg)
      BY <1>1, <3>1, OneOwner DEF Tiling, Out, Pages
    <3>2. \A a \in Out(h, X) : a # id <=> a \in Out(g, Y)
      BY <1>4
    <3>4. ASSUME NEW pg \in Pages
          PROVE  pg \in PagesOf(g, Y, s.location) <=> pg \in PagesOf(h, X, s.location) /\ ~Has(s, pg)
      <4>1. pg \in PagesOf(h, X, s.location) /\ ~Has(s, pg) => pg \in PagesOf(g, Y, s.location)
        BY <1>3, <3>2 DEF PagesOf
      <4>2. pg \in PagesOf(g, Y, s.location) => pg \in PagesOf(h, X, s.location) /\ ~Has(s, pg)
        BY <1>3, <1>4, <3>1 DEF PagesOf
      <4> QED
        BY <4>1, <4>2
    <3> QED
      BY <3>4 DEF PagesOf, PagesIn
  <2>3. PagesIn(s) \subseteq PagesOf(h, X, s.location) /\ PagesIn(s) \in SUBSET Pages
        /\ \A loc : PagesOf(h, X, loc) \in SUBSET Pages
    BY <1>1 DEF PagesOf, PagesIn
  <2>4. Cardinality(PagesIn(s)) = s.length
    BY <1>1, PagesInIs
  <2>5. Cardinality(PagesOf(g, Y, s.location)) = Cardinality(PagesOf(h, X, s.location)) - s.length
    BY <2>2, <2>3, <2>4, Fewer
  <2>6. h.free = Cardinality(PagesOf(h, X, Normal)) /\ h.unmapped = Cardinality(PagesOf(h, X, Returned))
    BY DEF Settled, Counts
  <2>7. CASE s.location = Normal
    <3>1. g.free = h.free - s.length /\ g.unmapped = h.unmapped
      BY <2>7 DEF Removal
    <3>2. Cardinality(PagesOf(g, Y, Returned)) = h.unmapped
      BY <1>1, <2>1, <2>6, <2>7
    <3> QED
      BY <2>5, <2>6, <2>7, <3>1, <3>2 DEF Counts
  <2>8. CASE s.location = Returned
    <3>1. g.unmapped = h.unmapped - s.length /\ g.free = h.free
      BY <1>1, <2>8 DEF Removal
    <3>2. Cardinality(PagesOf(g, Y, Normal)) = h.free
      BY <1>1, <2>1, <2>6, <2>8
    <3> QED
      BY <2>5, <2>6, <2>8, <3>1, <3>2 DEF Counts
  <2> QED
    BY <1>1, <2>7, <2>8
<1> QED
  BY <1>10, <1>11, <1>12, <1>13, <1>14 DEF Settled

\* What PrependToFreeList does to a heap.
Addition(h, g, id) ==
  LET s == h.span[id]
      list == ListOf(s.length)
  IN /\ IsHeap(g) /\ Elsewhere(h, g)
     /\ s.location = Normal =>
          /\ g.free = h.free + s.length /\ g.normal = [h.normal EXCEPT ![list] = <<id>> \o h.normal[list]]
          /\ g.unmapped = h.unmapped /\ g.returned = h.returned
     /\ s.location # Normal =>
          /\ g.unmapped = h.unmapped + s.length /\ g.returned = [h.returned EXCEPT ![list] = <<id>> \o h.returned[list]]
          /\ g.free = h.free /\ g.normal = h.normal

LEMMA PrependIs == ASSUME NEW h, NEW id, IsHeap(h) PROVE Addition(h, PrependToFreeList(h, id), id)
<1> DEFINE s == h.span[id]
           list == ListOf(s.length)
           g == PrependToFreeList(h, id)
<1>1. CASE s.location = Normal
  <2>1. g = [h EXCEPT !.free = @ + s.length, !.normal[list] = <<id>> \o @]
    BY <1>1 DEF PrependToFreeList
  <2>2. IsHeap(g) /\ Elsewhere(h, g) /\ g.returned = h.returned /\ g.unmapped = h.unmapped
    BY <2>1 DEF IsHeap, Elsewhere
  <2>3. g.free = h.free + s.length /\ g.normal = [h.normal EXCEPT ![list] = <<id>> \o h.normal[list]]
    BY <2>1 DEF IsHeap
  <2> QED
    BY <1>1, <2>2, <2>3 DEF Addition
<1>2. CASE s.location # Normal
  <2>1. g = [h EXCEPT !.unmapped = @ + s.length, !.returned[list] = <<id>> \o @]
    BY <1>2 DEF PrependToFreeList
  <2>2. IsHeap(g) /\ Elsewhere(h, g) /\ g.normal = h.normal /\ g.free = h.free
    BY <2>1 DEF IsHeap, Elsewhere
  <2>3. g.unmapped = h.unmapped + s.length /\ g.returned = [h.returned EXCEPT ![list] = <<id>> \o h.returned[list]]
    BY <2>1 DEF IsHeap
  <2> QED
    BY <1>2, <2>2, <2>3 DEF Addition
<1> QED
  BY <1>1, <1>2

\* Span id is free, backed as its location says, and nothing is left to merge.
Backing(h, id) == \A pg \in Pages : Has(h.span[id], pg) => (pg \in h.mem <=> h.span[id].location # Returned)
Alone(h, X, id) ==
  \A a \in Out(h, X) :
    h.span[a].start + h.span[a].length = h.span[id].start \/ h.span[id].start + h.span[id].length = h.span[a].start
      => h.span[a].location # h.span[id].location
Ready(h, X, id) ==
  /\ id \in DOMAIN h.span /\ id \in X
  /\ h.span[id].location # InUse /\ (h.aggressive => h.span[id].location = Returned)
  /\ Backing(h, id) /\ Alone(h, X, id)

LEMMA Prepended ==
  ASSUME NEW h, NEW X, NEW id, Shape(h), Tiling(h), Settled(h, X), Ready(h, X, id), NEW g, Addition(h, g, id)
  PROVE  Shape(g) /\ Tiling(g) /\ Settled(g, X \ {id})
<1> DEFINE s == h.span[id]
           list == ListOf(s.length)
           Y == X \ {id}
<1>1. id \in DOMAIN h.span /\ id \in X /\ id \in Ids /\ IsSpan(s) /\ s.location \in {Normal, Returned} /\ Normal # Returned
  BY DEF Ready, Shape, IsSpan, Normal, Returned
<1>2. list \in 1..kMaxPages
  BY <1>1, ListInRange DEF IsSpan
<1>3. IsHeap(g) /\ Elsewhere(h, g) /\ g.span = h.span
  BY DEF Addition, Elsewhere
<1>4. Out(g, Y) = Out(h, X) \union {id} /\ id \notin Out(h, X)
  BY <1>1, <1>3 DEF Out
<1>5. NoneTwice(h.normal[list]) /\ NoneTwice(h.returned[list]) /\ h.normal[list] \in Seq(Ids) /\ h.returned[list] \in Seq(Ids)
  BY <1>2 DEF Settled, OnLists, Shape, Fields
<1>6. id \notin On(h.normal[list]) /\ id \notin On(h.returned[list])
  BY <1>1, <1>2 DEF Settled, OnLists, OfList, Out
<1>7. /\ /\ <<id>> \o h.normal[list] \in Seq(Ids) /\ NoneTwice(<<id>> \o h.normal[list])
         /\ On(<<id>> \o h.normal[list]) = On(h.normal[list]) \union {id}
      /\ /\ <<id>> \o h.returned[list] \in Seq(Ids) /\ NoneTwice(<<id>> \o h.returned[list])
         /\ On(<<id>> \o h.returned[list]) = On(h.returned[list]) \union {id}
  BY <1>1, <1>5, <1>6, PrependedIs
<1>8. h.normal \in [1..kMaxPages -> Seq(Ids)] /\ h.returned \in [1..kMaxPages -> Seq(Ids)] 
      /\ h.free \in Int /\ h.unmapped \in Int /\ s.length \in Int
  BY <1>1 DEF Shape, Fields, IsSpan
<1>9. g.normal \in [1..kMaxPages -> Seq(Ids)] /\ g.returned \in [1..kMaxPages -> Seq(Ids)] /\ g.free \in Int /\ g.unmapped \in Int
  <2>1. CASE s.location = Normal
    <3>1. g.free = h.free + s.length /\ g.normal = [h.normal EXCEPT ![list] = <<id>> \o h.normal[list]]
          /\ g.unmapped = h.unmapped /\ g.returned = h.returned
      BY <2>1 DEF Addition
    <3>2. g.free \in Int /\ g.unmapped \in Int
      BY <1>8, <3>1
    <3>3. g.normal \in [1..kMaxPages -> Seq(Ids)] /\ g.returned \in [1..kMaxPages -> Seq(Ids)]
      BY <1>2, <1>7, <1>8, <3>1
    <3> QED
      BY <3>2, <3>3
  <2>2. CASE s.location # Normal
    <3>1. g.unmapped = h.unmapped + s.length /\ g.returned = [h.returned EXCEPT ![list] = <<id>> \o h.returned[list]]
          /\ g.free = h.free /\ g.normal = h.normal
      BY <2>2 DEF Addition
    <3>2. g.free \in Int /\ g.unmapped \in Int
      BY <1>8, <3>1
    <3>3. g.normal \in [1..kMaxPages -> Seq(Ids)] /\ g.returned \in [1..kMaxPages -> Seq(Ids)]
      BY <1>2, <1>7, <1>8, <3>1
    <3> QED
      BY <3>2, <3>3
  <2> QED
    BY <2>1, <2>2
<1>10. Shape(g)
  BY <1>3, <1>9 DEF Shape, Fields, Elsewhere
<1>11. Tiling(g)
  BY <1>3 DEF Elsewhere, Tiling, Apart, Mapped, Located
<1>12. Touching(g, Y)
  <2>1. SUFFICES ASSUME NEW a \in Out(g, Y), NEW b \in Out(g, Y),
                        h.span[a].start + h.span[a].length = h.span[b].start, h.span[a].location # InUse
                 PROVE  h.span[a].location # h.span[b].location
    BY <1>3 DEF Touching
  <2>2. CASE a \in Out(h, X) /\ b \in Out(h, X)
    BY <2>1, <2>2 DEF Settled, Touching
  <2>3. CASE a = id /\ b = id
    BY <1>1, <2>1, <2>3 DEF IsSpan
  <2>4. CASE (a = id /\ b \in Out(h, X)) \/ (a \in Out(h, X) /\ b = id)
    BY <2>1, <2>4 DEF Ready, Alone
  <2> QED
    BY <1>4, <2>2, <2>3, <2>4
<1>12a. AllReturned(g, Y)
  BY <1>1, <1>3, <1>4 DEF Settled, AllReturned, Ready, Elsewhere
<1>12b. MemTrue(g, Y)
  BY <1>3, <1>4 DEF Settled, MemTrue, Ready, Backing, Elsewhere
<1>13. OnLists(g, Y)
  <2>1. SUFFICES ASSUME NEW l \in 1..kMaxPages
                 PROVE  /\ NoneTwice(g.normal[l]) /\ On(g.normal[l]) = OfList(g, Y, Normal, l)
                        /\ NoneTwice(g.returned[l]) /\ On(g.returned[l]) = OfList(g, Y, Returned, l)
    BY DEF OnLists
  <2>2. /\ NoneTwice(h.normal[l]) /\ On(h.normal[l]) = OfList(h, X, Normal, l)
        /\ NoneTwice(h.returned[l]) /\ On(h.returned[l]) = OfList(h, X, Returned, l)
    BY DEF Settled, OnLists
  <2>3. \A loc : OfList(g, Y, loc, l) = OfList(h, X, loc, l) \union (IF loc = s.location /\ l = list THEN {id} ELSE {})
    BY <1>3, <1>4 DEF OfList
  <2>5. CASE s.location = Normal
    <3>1. g.normal = [h.normal EXCEPT ![list] = <<id>> \o h.normal[list]] /\ g.returned = h.returned
      BY <2>5 DEF Addition
    <3>2. g.normal[l] = IF l = list THEN <<id>> \o h.normal[list] ELSE h.normal[l]
      BY <1>2, <1>8, <3>1
    <3>3. NoneTwice(g.normal[l]) /\ NoneTwice(g.returned[l]) /\ On(g.returned[l]) = On(h.returned[l])
      BY <1>7, <2>2, <2>5, <3>1, <3>2
    <3>4. OfList(g, Y, Returned, l) = OfList(h, X, Returned, l)
      BY <1>1, <2>3, <2>5
    <3>5. On(g.normal[l]) = OfList(g, Y, Normal, l)
      <4>1. CASE l = list
        BY <1>7, <2>2, <2>3, <2>5, <3>2, <4>1
      <4>2. CASE l # list
        BY <2>2, <2>3, <3>2, <4>2
      <4> QED
        BY <4>1, <4>2
    <3> QED
      BY <2>2, <3>3, <3>4, <3>5
  <2>6. CASE s.location # Normal
    <3>1. g.returned = [h.returned EXCEPT ![list] = <<id>> \o h.returned[list]] /\ g.normal = h.normal
      BY <2>6 DEF Addition
    <3>2. g.returned[l] = IF l = list THEN <<id>> \o h.returned[list] ELSE h.returned[l]
      BY <1>2, <1>8, <3>1
    <3>3. NoneTwice(g.normal[l]) /\ NoneTwice(g.returned[l]) /\ On(g.normal[l]) = On(h.normal[l])
      BY <1>7, <2>2, <2>6, <3>1, <3>2
    <3>4. OfList(g, Y, Normal, l) = OfList(h, X, Normal, l)
      BY <1>1, <2>3, <2>6
    <3>5. On(g.returned[l]) = OfList(g, Y, Returned, l)
      <4>1. CASE l = list
        BY <1>1, <1>7, <2>2, <2>3, <2>6, <3>2, <4>1
      <4>2. CASE l # list
        BY <2>2, <2>3, <3>2, <4>2
      <4> QED
        BY <4>1, <4>2
    <3> QED
      BY <2>2, <3>3, <3>4, <3>5
  <2> QED
    BY <2>5, <2>6
<1>14. Counts(g, Y)
  <2>1. \A loc : loc # s.location => PagesOf(g, Y, loc) = PagesOf(h, X, loc)
    BY <1>3, <1>4 DEF PagesOf
  <2>2. PagesOf(g, Y, s.location) = PagesOf(h, X, s.location) \union PagesIn(s)
    BY <1>3, <1>4 DEF PagesOf, PagesIn
  <2>3. PagesIn(s) \cap PagesOf(h, X, s.location) = {}
    <3>1. ASSUME NEW pg \in Pages, NEW a \in Out(h, X), a # id, Has(h.span[a], pg) PROVE ~Has(s, pg)
      BY <1>1, <3>1, OneOwner DEF Tiling, Out, Pages
    <3> QED
      BY <1>4, <3>1 DEF PagesOf, PagesIn
  <2>4. Cardinality(PagesIn(s)) = s.length
    BY <1>1, PagesInIs
  <2>5. Cardinality(PagesOf(g, Y, s.location)) = Cardinality(PagesOf(h, X, s.location)) + s.length
    <3>1. PagesIn(s) \in SUBSET Pages /\ PagesOf(h, X, s.location) \in SUBSET Pages
      BY DEF PagesOf, PagesIn
    <3> QED
      BY <2>2, <2>3, <2>4, <3>1, More
  <2>6. h.free = Cardinality(PagesOf(h, X, Normal)) /\ h.unmapped = Cardinality(PagesOf(h, X, Returned))
    BY DEF Settled, Counts
  <2>7. CASE s.location = Normal
    <3>1. g.free = h.free + s.length /\ g.unmapped = h.unmapped
      BY <2>7 DEF Addition
    <3>2. Cardinality(PagesOf(g, Y, Returned)) = h.unmapped
      BY <1>1, <2>1, <2>6, <2>7
    <3> QED
      BY <2>5, <2>6, <2>7, <3>1, <3>2 DEF Counts
  <2>8. CASE s.location = Returned
    <3>1. g.unmapped = h.unmapped + s.length /\ g.free = h.free
      BY <1>1, <2>8 DEF Addition
    <3>2. Cardinality(PagesOf(g, Y, Normal)) = h.free
      BY <1>1, <2>1, <2>6, <2>8
    <3> QED
      BY <2>5, <2>6, <2>8, <3>1, <3>2 DEF Counts
  <2> QED
    BY <1>1, <2>7, <2>8
<1> QED
  BY <1>10, <1>11, <1>12, <1>12a, <1>12b, <1>13, <1>14 DEF Settled

\* Spans in use may be regarded as in hand or not.
LEMMA LaidDown ==
  ASSUME NEW h, NEW X, NEW id \in DOMAIN h.span, Settled(h, X), h.span[id].location = InUse, Backing(h, id)
  PROVE  Settled(h, X \ {id})
<1> DEFINE Y == X \ {id}
<1>1. Out(h, Y) = Out(h, X) \union {id} /\ InUse # Normal /\ InUse # Returned
  BY DEF Out, InUse, Normal, Returned
<1>2. Touching(h, Y) /\ AllReturned(h, Y) /\ MemTrue(h, Y)
  BY <1>1 DEF Settled, Touching, AllReturned, MemTrue, Backing
<1>3. \A list : OfList(h, Y, Normal, list) = OfList(h, X, Normal, list) /\ OfList(h, Y, Returned, list) = OfList(h, X, Returned, list)
  BY <1>1 DEF OfList
<1>4. PagesOf(h, Y, Normal) = PagesOf(h, X, Normal) /\ PagesOf(h, Y, Returned) = PagesOf(h, X, Returned)
  BY <1>1 DEF PagesOf
<1>5. OnLists(h, Y)
  BY <1>3 DEF Settled, OnLists
<1>6. Counts(h, Y)
  BY <1>4 DEF Settled, Counts
<1> QED
  BY <1>2, <1>5, <1>6 DEF Settled

LEMMA TakenUp ==
  ASSUME NEW h, NEW X, NEW id \in DOMAIN h.span, Settled(h, X), h.span[id].location = InUse
  PROVE  Settled(h, X \union {id})
<1> DEFINE Y == X \union {id}
<1>1. Out(h, Y) = Out(h, X) \ {id} /\ InUse # Normal /\ InUse # Returned
  BY DEF Out, InUse, Normal, Returned
<1>2. Touching(h, Y) /\ AllReturned(h, Y) /\ MemTrue(h, Y)
  BY <1>1 DEF Settled, Touching, AllReturned, MemTrue
<1>3. \A list : OfList(h, Y, Normal, list) = OfList(h, X, Normal, list) /\ OfList(h, Y, Returned, list) = OfList(h, X, Returned, list)
  BY <1>1 DEF OfList
<1>4. PagesOf(h, Y, Normal) = PagesOf(h, X, Normal) /\ PagesOf(h, Y, Returned) = PagesOf(h, X, Returned)
  BY <1>1 DEF PagesOf
<1>5. OnLists(h, Y)
  BY <1>3 DEF Settled, OnLists
<1>6. Counts(h, Y)
  BY <1>4 DEF Settled, Counts
<1> QED
  BY <1>2, <1>5, <1>6 DEF Settled

-----------------------------------------------------------------------------
(* Merging.                                                                 *)

\* Nothing but spans and the page map changes.
Remapped(h, g) ==
  /\ g.normal = h.normal /\ g.returned = h.returned /\ g.free = h.free /\ g.unmapped = h.unmapped
  /\ g.committed = h.committed /\ g.system = h.system /\ g.mem = h.mem
  /\ g.release_index = h.release_index /\ g.scavenge = h.scavenge /\ g.aggressive = h.aggressive
  /\ g.limit = h.limit /\ g.fails = h.fails /\ g.works = h.works

\* Span other, off its list, becomes part of span id.
Fusion(h, g, id, other) ==
  LET s == h.span[id]
      t == h.span[other]
      before == t.start < s.start
      start == IF before THEN s.start - t.length ELSE s.start
      page == IF before THEN start ELSE s.start + s.length + t.length - 1
  IN /\ IsHeap(g) /\ Remapped(h, g)
     /\ g.span = [i \in DOMAIN h.span \ {other} |->
                    IF i = id THEN [start |-> start, length |-> s.length + t.length, location |-> s.location, sizeclass |-> s.sizeclass]
                    ELSE h.span[i]]
     /\ g.pagemap = [h.pagemap EXCEPT ![page] = id]

LEMMA Resized ==
  ASSUME NEW s, s = [start |-> s.start, length |-> s.length, location |-> s.location, sizeclass |-> s.sizeclass],
         NEW start, NEW more, NEW t, t = [s EXCEPT !.start = start, !.length = @ + more]
  PROVE  t = [start |-> start, length |-> s.length + more, location |-> s.location, sizeclass |-> s.sizeclass]
OBVIOUS

\* An entry of the page map is set.
LEMMA Entered ==
  ASSUME NEW m \in [0..(NPages + 1) -> Ids \union {NULL}], NEW page \in 0..(NPages + 1), NEW id \in Ids
  PROVE  /\ [m EXCEPT ![page] = id] \in [0..(NPages + 1) -> Ids \union {NULL}]
         /\ \A pg \in 0..(NPages + 1) : [m EXCEPT ![page] = id][pg] = IF pg = page THEN id ELSE m[pg]
OBVIOUS

LEMMA AbsorbIs ==
  ASSUME NEW h, NEW id, NEW other, IsHeap(h), IsSpan(h.span[id]),
         id \in DOMAIN h.span, id # other
  PROVE  Fusion(RemoveFromFreeList(h, other), Absorb(h, id, other), id, other)
<1> DEFINE s == h.span[id]
           len == h.span[other].length
           before == h.span[other].start < s.start
           r == RemoveFromFreeList(h, other)
           start == IF before THEN s.start - len ELSE s.start
           page == IF before THEN start ELSE s.start + s.length + len - 1
           fused == [s EXCEPT !.start = start, !.length = @ + len]
           h1 == DeleteSpan(r, other)
           g == Absorb(h, id, other)
<1>1. IsHeap(r) /\ r.span = h.span
  BY RemoveIs DEF Removal, Elsewhere
<1>2. fused = [start |-> start, length |-> s.length + len, location |-> s.location, sizeclass |-> s.sizeclass]
  <2>1. s = [start |-> s.start, length |-> s.length, location |-> s.location, sizeclass |-> s.sizeclass]
    BY DEF IsSpan
  <2> DEFINE t == fused
  <2>2. t = [s EXCEPT !.start = start, !.length = @ + len]
    OBVIOUS
  <2> HIDE DEF t, s, start, len
  <2> QED
    BY <2>1, <2>2, Resized
<1>3. g = [h1 EXCEPT !.span[id] = fused, !.pagemap[page] = id]
  BY DEF Absorb, EndOf
<1> HIDE DEF r, fused
<1>4. h1 = [r EXCEPT !.span = [i \in DOMAIN r.span \ {other} |-> r.span[i]]]
  BY DEF DeleteSpan
<1>5. IsHeap(h1) /\ h1.span = [i \in DOMAIN r.span \ {other} |-> r.span[i]] /\ h1.pagemap = r.pagemap /\ Remapped(r, h1)
  BY <1>1, <1>4 DEF IsHeap, Remapped
<1> HIDE DEF h1, g, page, start
<1>6. IsHeap(g) /\ Remapped(h1, g)
  BY <1>3, <1>5 DEF IsHeap, Remapped
<1>7. g.span = [h1.span EXCEPT ![id] = fused] /\ g.pagemap = [h1.pagemap EXCEPT ![page] = id]
  BY <1>3, <1>5 DEF IsHeap
<1>8. g.span = [i \in DOMAIN r.span \ {other} |-> IF i = id THEN fused ELSE r.span[i]]
  BY <1>1, <1>5, <1>7
<1>9. Remapped(r, g) /\ g.pagemap = [r.pagemap EXCEPT ![page] = id]
  BY <1>5, <1>6, <1>7 DEF Remapped
<1>10. r.span[id] = s /\ r.span[other] = h.span[other]
  BY <1>1
<1> QED
  BY <1>2, <1>6, <1>8, <1>9, <1>10 DEF Fusion, r, g, start, page

Adjacent(h, id, other, side) ==
  /\ id \in DOMAIN h.span /\ other \in DOMAIN h.span /\ id # other
  /\ IF side = "prev" THEN h.span[other].start + h.span[other].length = h.span[id].start
               ELSE h.span[id].start + h.span[id].length = h.span[other].start

LEMMA Fused ==
  ASSUME NEW h, NEW id, NEW other, NEW side \in {"prev", "next"}, Shape(h), Tiling(h), Adjacent(h, id, other, side),
         h.span[id].sizeclass = 0, NEW g, Fusion(h, g, id, other)
  PROVE  /\ Shape(g) /\ Tiling(g) /\ Spanned(g) = Spanned(h)
         /\ DOMAIN g.span = DOMAIN h.span \ {other}
         /\ \A a \in DOMAIN g.span : a # id => g.span[a] = h.span[a]
         /\ IsSpan(g.span[id]) /\ g.span[id].sizeclass = 0 /\ g.span[id].location = h.span[id].location
         /\ g.span[id].length = h.span[id].length + h.span[other].length
         /\ \A pg \in Int : Has(g.span[id], pg) <=> Has(h.span[id], pg) \/ Has(h.span[other], pg)
         /\ side = "next" => g.span[id].start = h.span[id].start
         /\ side = "prev" => g.span[id].start = h.span[other].start
         /\ g.span[id].start + g.span[id].length =
              IF side = "prev" THEN h.span[id].start + h.span[id].length ELSE h.span[other].start + h.span[other].length
<1> DEFINE s == h.span[id]
           t == h.span[other]
           start == IF side = "prev" THEN s.start - t.length ELSE s.start
           page == IF side = "prev" THEN start ELSE s.start + s.length + t.length - 1
           u == [start |-> start, length |-> s.length + t.length, location |-> s.location, sizeclass |-> s.sizeclass]
<1>1. id \in DOMAIN h.span /\ other \in DOMAIN h.span /\ id # other
      /\ IF side = "prev" THEN t.start + t.length = s.start ELSE s.start + s.length = t.start
  BY DEF Adjacent
<1>2. IsSpan(s) /\ IsSpan(t)
  BY <1>1 DEF Shape
<1>2a. t.start < s.start <=> side = "prev"
  BY <1>1, <1>2 DEF IsSpan
<1>3. IsHeap(g) /\ Remapped(h, g) /\ g.pagemap = [h.pagemap EXCEPT ![page] = id]
      /\ g.span = [i \in DOMAIN h.span \ {other} |-> IF i = id THEN u ELSE h.span[i]]
  BY <1>2a DEF Fusion
<1>4. DOMAIN g.span = DOMAIN h.span \ {other} /\ g.span[id] = u
      /\ \A a \in DOMAIN g.span : a # id => g.span[a] = h.span[a]
  BY <1>1, <1>3
<1>5. IsSpan(u) /\ u.start = start /\ u.length = s.length + t.length /\ u.location = s.location /\ u.sizeclass = 0
  BY <1>1, <1>2 DEF IsSpan
<1>6. start = (IF side = "prev" THEN t.start ELSE s.start) /\ page \in 0..(NPages + 1) /\ Has(t, page)
      /\ page = (IF side = "prev" THEN t.start ELSE t.start + t.length - 1)
      /\ u.start + u.length = (IF side = "prev" THEN s.start + s.length ELSE t.start + t.length)
  BY <1>1, <1>2, <1>5, PagesFinite DEF IsSpan, Has
<1>7. \A pg \in Int : Has(u, pg) <=> Has(s, pg) \/ Has(t, pg)
  BY <1>1, <1>2, <1>5, <1>6 DEF IsSpan, Has
<1> HIDE DEF u, page, start
<1>8. h.pagemap \in [0..(NPages + 1) -> Ids \union {NULL}] /\ id \in Ids
  BY <1>1 DEF Shape, Fields
<1>9. g.pagemap \in [0..(NPages + 1) -> Ids \union {NULL}] /\ \A pg \in 0..(NPages + 1) : g.pagemap[pg] = IF pg = page THEN id ELSE h.pagemap[pg]
  BY <1>3, <1>6, <1>8, Entered
<1>10. Shape(g)
  <2>1. Fields(g)
    BY <1>3, <1>9 DEF Fields, Remapped, Shape
  <2>2. DOMAIN g.span \subseteq Ids /\ g.span = [i \in DOMAIN g.span |-> g.span[i]]
    BY <1>3, <1>4 DEF Shape
  <2>3. \A a \in DOMAIN g.span : IsSpan(g.span[a])
    BY <1>4, <1>5 DEF Shape
  <2> QED
    BY <1>3, <2>1, <2>2, <2>3 DEF Shape
<1>11. Apart(g)
  <2>1. ASSUME NEW a \in DOMAIN g.span, a # id PROVE Before(g.span[a], u) \/ Before(u, g.span[a])
    <3>1. a \in DOMAIN h.span /\ a # other /\ g.span[a] = h.span[a] /\ IsSpan(h.span[a])
      BY <1>4, <2>1 DEF Shape
    <3>2. Before(h.span[a], s) \/ Before(s, h.span[a])
      BY <1>1, <2>1, <3>1 DEF Tiling, Apart
    <3>3. Before(h.span[a], t) \/ Before(t, h.span[a])
      BY <1>1, <3>1 DEF Tiling, Apart
    <3> QED
      BY <1>1, <1>2, <1>5, <1>6, <3>1, <3>2, <3>3 DEF Before, IsSpan
  <2>2. ASSUME NEW a \in DOMAIN g.span, NEW b \in DOMAIN g.span, a # b, a # id, b # id
        PROVE  Before(g.span[a], g.span[b]) \/ Before(g.span[b], g.span[a])
    BY <1>4, <2>2 DEF Tiling, Apart
  <2> QED
    BY <1>4, <2>1, <2>2 DEF Apart
<1>12. Mapped(g)
  <2>1. ASSUME NEW a \in DOMAIN g.span, a # id
        PROVE  /\ g.pagemap[g.span[a].start] = a /\ g.pagemap[g.span[a].start + g.span[a].length - 1] = a
               /\ g.span[a].sizeclass # 0 =>
                    g.span[a].location = InUse /\ \A pg \in 0..(NPages + 1) : Has(g.span[a], pg) => g.pagemap[pg] = a
    <3>1. a \in DOMAIN h.span /\ a # other /\ g.span[a] = h.span[a] /\ IsSpan(h.span[a])
      BY <1>4, <2>1 DEF Shape
    <3>2. ~Has(h.span[a], page) /\ page \in Int
      BY <1>1, <1>6, <3>1, OneOwner DEF Tiling
    <3>3. \A pg \in 0..(NPages + 1) : Has(h.span[a], pg) => g.pagemap[pg] = h.pagemap[pg]
      BY <1>9, <3>2
    <3>4. /\ Has(h.span[a], h.span[a].start) /\ Has(h.span[a], h.span[a].start + h.span[a].length - 1)
          /\ h.span[a].start \in 0..(NPages + 1) /\ h.span[a].start + h.span[a].length - 1 \in 0..(NPages + 1)
      BY <3>1, PagesFinite DEF Has, IsSpan
    <3>5. /\ h.pagemap[h.span[a].start] = a /\ h.pagemap[h.span[a].start + h.span[a].length - 1] = a
          /\ h.span[a].sizeclass # 0 =>
               h.span[a].location = InUse /\ \A pg \in 0..(NPages + 1) : Has(h.span[a], pg) => h.pagemap[pg] = a
      BY <3>1 DEF Tiling, Mapped
    <3> QED
      BY <3>1, <3>3, <3>4, <3>5
  <2>2. g.pagemap[u.start] = id /\ g.pagemap[u.start + u.length - 1] = id
    <3>1. h.pagemap[s.start] = id /\ h.pagemap[s.start + s.length - 1] = id
      BY <1>1 DEF Tiling, Mapped
    <3>2. s.start \in 0..(NPages + 1) /\ s.start + s.length - 1 \in 0..(NPages + 1)
      BY <1>2, PagesFinite DEF IsSpan
    <3>3. u.start \in 0..(NPages + 1) /\ u.start + u.length - 1 \in 0..(NPages + 1)
      BY <1>5, PagesFinite DEF IsSpan
    <3>4. g.pagemap[u.start] = id
      <4>1. u.start = page \/ u.start = s.start
        BY <1>5, <1>6
      <4> QED
        BY <1>9, <3>1, <3>3, <4>1
    <3>5. g.pagemap[u.start + u.length - 1] = id
      <4>1. u.start + u.length - 1 = page \/ u.start + u.length - 1 = s.start + s.length - 1
        <5>1. CASE side = "prev"
          BY <1>2, <1>5, <1>6, <5>1 DEF IsSpan
        <5>2. CASE side # "prev"
          BY <1>2, <1>5, <1>6, <5>2 DEF IsSpan
        <5> QED
          BY <5>1, <5>2
      <4> QED
        BY <1>9, <3>1, <3>3, <4>1
    <3> QED
      BY <3>4, <3>5
  <2> QED
    BY <1>4, <1>5, <2>1, <2>2 DEF Mapped
<1>13. Located(g)
  <2>1. SUFFICES ASSUME NEW pg \in 0..(NPages + 1), g.pagemap[pg] # NULL PROVE \E a \in DOMAIN g.span : Has(g.span[a], pg)
    BY DEF Located
  <2>2. CASE pg = page
    BY <1>1, <1>4, <1>6, <1>7, <2>2
  <2>3. CASE pg # page
    <3>1. PICK a \in DOMAIN h.span : Has(h.span[a], pg)
      BY <1>9, <2>1, <2>3 DEF Tiling, Located
    <3> QED
      BY <1>1, <1>4, <1>7, <3>1
  <2> QED
    BY <2>2, <2>3
<1>14. Spanned(g) = Spanned(h)
  <2>1. ASSUME NEW pg \in Pages PROVE (\E a \in DOMAIN g.span : Has(g.span[a], pg)) <=> \E a \in DOMAIN h.span : Has(h.span[a], pg)
    <3>1. pg \in Int
      BY DEF Pages
    <3> QED
      BY <1>1, <1>4, <1>7, <3>1
  <2> QED
    BY <2>1 DEF Spanned
<1> QED
  BY <1>1, <1>4, <1>5, <1>6, <1>7, <1>10, <1>11, <1>12, <1>13, <1>14 DEF Tiling

\* The page map finds the neighbours of a span.
LEMMA NeighbourFound ==
  ASSUME NEW h, NEW id \in DOMAIN h.span, NEW side \in {"prev", "next"}, Shape(h), Tiling(h),
         NEW p, p = DescriptorOf(h, IF side = "prev" THEN h.span[id].start - 1 ELSE h.span[id].start + h.span[id].length)
  PROVE  /\ p # NULL => Adjacent(h, id, p, side)
         /\ \A a \in DOMAIN h.span : Adjacent(h, id, a, side) => a = p /\ p # NULL
<1> DEFINE s == h.span[id]
           page == IF side = "prev" THEN s.start - 1 ELSE s.start + s.length
<1>1. IsSpan(s) /\ page \in 0..(NPages + 1) /\ page \in Int /\ ~Has(s, page)
  <2>1. IsSpan(s)
    BY DEF Shape
  <2> QED
    BY <2>1, PagesFinite DEF IsSpan, Has
<1>2. p = h.pagemap[page]
  BY DEF DescriptorOf
<1>3. ASSUME p # NULL PROVE Adjacent(h, id, p, side)
  <2>1. PICK a \in DOMAIN h.span : Has(h.span[a], page)
    BY <1>1, <1>2, <1>3 DEF Tiling, Located
  <2>2. a # id /\ IsSpan(h.span[a])
    BY <1>1, <2>1 DEF Shape
  <2>3. Before(h.span[a], s) \/ Before(s, h.span[a])
    BY <2>2 DEF Tiling, Apart
  <2>4. IF side = "prev" THEN h.span[a].start + h.span[a].length = s.start ELSE s.start + s.length = h.span[a].start
    BY <1>1, <2>1, <2>2, <2>3 DEF Before, Has, IsSpan
  <2>5. page = IF side = "prev" THEN h.span[a].start + h.span[a].length - 1 ELSE h.span[a].start
    BY <1>1, <2>2, <2>4 DEF IsSpan
  <2>6. h.pagemap[page] = a
    BY <2>5 DEF Tiling, Mapped
  <2> QED
    BY <1>2, <2>2, <2>4, <2>6 DEF Adjacent
<1>4. ASSUME NEW a \in DOMAIN h.span, Adjacent(h, id, a, side) PROVE a = p /\ p # NULL
  <2>1. IF side = "prev" THEN h.span[a].start + h.span[a].length = s.start ELSE s.start + s.length = h.span[a].start
    BY <1>4 DEF Adjacent
  <2>2. page = IF side = "prev" THEN h.span[a].start + h.span[a].length - 1 ELSE h.span[a].start
    <3>1. IsSpan(h.span[a])
      BY DEF Shape
    <3> QED
      BY <1>1, <2>1, <3>1 DEF IsSpan
  <2>3. h.pagemap[page] = a
    BY <2>2 DEF Tiling, Mapped
  <2>4. a # NULL
    BY DEF Shape, Ids, NULL
  <2> QED
    BY <1>2, <2>3, <2>4
<1> QED
  BY <1>3, <1>4

\* What only span lists and spans leave alone.
Steady(h, g) ==
  /\ g.committed = h.committed /\ g.system = h.system /\ g.mem = h.mem
  /\ g.release_index = h.release_index /\ g.scavenge = h.scavenge /\ g.aggressive = h.aggressive
  /\ g.limit = h.limit /\ g.fails = h.fails /\ g.works = h.works

\* The span that MergeIntoFreeList was called with, of which temp pages are not backed.
Hand(h, id, temp) ==
  /\ id \in DOMAIN h.span /\ h.span[id].sizeclass = 0 /\ h.span[id].location \in {Normal, Returned}
  /\ h.aggressive => h.span[id].location = Normal /\ temp = Cardinality(PagesIn(h.span[id]) \ h.mem)
  /\ ~h.aggressive => temp = 0 /\ Backing(h, id)

\* Nothing on one side of the span can be merged with it.
Clear(h, id, side) == \A a \in DOMAIN h.span : Adjacent(h, id, a, side) => ~MayMergeSpans(h, id, a)

\* What merging on one side does.
Grew(h, g, id) ==
  /\ Steady(h, g) /\ Keep(h, g)
  /\ g.span[id].location = h.span[id].location
  /\ g.free + g.unmapped + g.span[id].length = h.free + h.unmapped + h.span[id].length
  /\ ~h.aggressive /\ h.span[id].location = Returned => g.free = h.free

MayAbsorb(h, id, other, side, temp) ==
  Good(h, {id}) /\ Hand(h, id, temp) /\ Adjacent(h, id, other, side) /\ MayMergeSpans(h, id, other)

LEMMA Absorbed ==
  ASSUME NEW h, NEW id, NEW other, NEW side \in {"prev", "next"}, NEW temp, MayAbsorb(h, id, other, side, temp),
         NEW g, g = Absorb(h, id, other)
  PROVE  /\ Good(g, {id}) /\ Hand(g, id, temp + TempCommitted(h, other)) /\ Grew(h, g, id)
         /\ Clear(g, id, side) /\ (\A z \in {"prev", "next"} : Clear(h, id, z) => Clear(g, id, z))
         /\ side = "prev" => EndOf(g.span[id]) = EndOf(h.span[id])
<1> DEFINE r == RemoveFromFreeList(h, other)
           s == h.span[id]
           t == h.span[other]
<1>0. Good(h, {id}) /\ Hand(h, id, temp) /\ Adjacent(h, id, other, side) /\ MayMergeSpans(h, id, other)
  BY DEF MayAbsorb
<1>1. /\ id \in DOMAIN h.span /\ other \in DOMAIN h.span /\ id # other /\ IsSpan(s) /\ IsSpan(t) /\ IsHeap(h)
      /\ IF side = "prev" THEN t.start + t.length = s.start ELSE s.start + s.length = t.start
  BY <1>0, <1>0 DEF Adjacent, Good, Shape
<1>2. Removal(h, r, other) /\ Fusion(r, g, id, other)
  BY <1>1, RemoveIs, AbsorbIs
<1>3. Normal # InUse /\ Returned # InUse /\ Normal # Returned
  BY DEF Normal, InUse, Returned
<1>4. s.location # InUse /\ s.sizeclass = 0 /\ t.location # InUse /\ (t.location = s.location \/ h.aggressive)
  BY <1>0, <1>3 DEF Hand, MayMergeSpans
<1>5. other \in Out(h, {id}) /\ {id} \union {other} = {id, other}
  BY <1>1 DEF Out
<1>6. Shape(r) /\ Tiling(r) /\ Settled(r, {id, other})
  BY <1>0, <1>2, <1>4, <1>5, Removed DEF Good
<1>7. r.span = h.span /\ Elsewhere(h, r)
  BY <1>2 DEF Removal, Elsewhere
<1>8. Adjacent(r, id, other, side) /\ r.span[id].sizeclass = 0
  BY <1>1, <1>4, <1>7 DEF Adjacent
<1>9. /\ Shape(g) /\ Tiling(g) /\ Spanned(g) = Spanned(r)
      /\ DOMAIN g.span = DOMAIN h.span \ {other}
      /\ \A a \in DOMAIN g.span : a # id => g.span[a] = h.span[a]
      /\ IsSpan(g.span[id]) /\ g.span[id].sizeclass = 0 /\ g.span[id].location = s.location
      /\ g.span[id].length = s.length + t.length
      /\ \A pg \in Int : Has(g.span[id], pg) <=> Has(s, pg) \/ Has(t, pg)
      /\ side = "next" => g.span[id].start = s.start
      /\ side = "prev" => g.span[id].start = t.start
      /\ g.span[id].start + g.span[id].length = IF side = "prev" THEN s.start + s.length ELSE t.start + t.length
  BY <1>2, <1>6, <1>7, <1>8, Fused
<1>10. Remapped(r, g)
  BY <1>2 DEF Fusion
<1>11. Settled(g, {id})
  <2>1. Out(g, {id}) = Out(r, {id, other})
    BY <1>7, <1>9 DEF Out
  <2>2. \A a \in Out(r, {id, other}) : g.span[a] = r.span[a]
    BY <1>7, <1>9 DEF Out
  <2>3. Undisturbed(r, {id, other}, g, {id})
    BY <1>10, <2>1, <2>2 DEF Undisturbed, Remapped
  <2> QED
    BY <1>6, <2>3, StaySettled
<1>12. Steady(h, g)
  BY <1>7, <1>10 DEF Steady, Elsewhere, Remapped
<1>13. Books(g)
  <2>1. Spanned(g) = Spanned(h)
    BY <1>7, <1>9 DEF Spanned
  <2> QED
    BY <1>0, <1>12, <2>1 DEF Books, Steady, Good
<1>14. Keep(h, g)
  BY <1>1, <1>4, <1>9 DEF Keep
<1>15. Grew(h, g, id)
  <2>1. r.free \in Int /\ r.unmapped \in Int /\ h.free \in Int /\ h.unmapped \in Int /\ s.length \in Int /\ t.length \in Int
    BY <1>0, <1>1, <1>6 DEF Good, Shape, Fields, IsSpan
  <2>2. g.free = r.free /\ g.unmapped = r.unmapped
    BY <1>10 DEF Remapped
  <2>3. /\ t.location = Normal => r.free = h.free - t.length /\ r.unmapped = h.unmapped
        /\ t.location # Normal => r.unmapped = h.unmapped - t.length /\ r.free = h.free
    BY <1>2 DEF Removal
  <2>4. g.free + g.unmapped + g.span[id].length = h.free + h.unmapped + s.length
    BY <1>9, <2>1, <2>2, <2>3
  <2> QED
    BY <1>3, <1>4, <1>9, <1>12, <1>14, <2>2, <2>3, <2>4 DEF Grew
<1>16. Hand(g, id, temp + TempCommitted(h, other))
  <2>1. g.mem = h.mem /\ g.aggressive = h.aggressive /\ id \in DOMAIN g.span /\ g.aggressive \in BOOLEAN
    BY <1>0, <1>1, <1>9, <1>12 DEF Steady, Good, Shape, Fields
  <2>2. \A pg \in Pages : Has(t, pg) => (pg \in h.mem <=> t.location # Returned)
    BY <1>0, <1>5 DEF Good, Settled, MemTrue
  <2>3. CASE ~h.aggressive
    <3>1. \A pg \in Pages : pg \in Int
      BY DEF Pages
    <3>2. Backing(g, id)
      BY <1>0, <1>4, <1>9, <2>1, <2>2, <2>3, <3>1 DEF Hand, Backing
    <3>3. temp = 0 /\ TempCommitted(h, other) = 0
      BY <1>0, <2>3 DEF Hand, TempCommitted
    <3> QED
      BY <1>0, <1>9, <2>1, <2>3, <3>2, <3>3 DEF Hand
  <2>4. CASE h.aggressive
    <3>1. t.location = Returned /\ t.location # Normal
      BY <1>0, <1>1, <1>3, <1>4, <1>5, <2>4 DEF Good, Settled, AllReturned, IsSpan
    <3>2. TempCommitted(h, other) = t.length
      BY <2>4, <3>1 DEF TempCommitted
    <3>3. \A pg \in Pages : pg \in Int
      BY DEF Pages
    <3>4. PagesIn(g.span[id]) \ g.mem = (PagesIn(s) \ h.mem) \union PagesIn(t)
      BY <1>9, <2>1, <2>2, <3>1, <3>3 DEF PagesIn
    <3>5. PagesIn(s) \cap PagesIn(t) = {}
      BY <1>0, <1>1, <3>3, OneOwner DEF Good, Tiling, PagesIn
    <3>6. PagesIn(s) \ h.mem \in SUBSET Pages /\ PagesIn(t) \in SUBSET Pages /\ (PagesIn(s) \ h.mem) \cap PagesIn(t) = {}
      BY <3>5 DEF PagesIn
    <3>7. Cardinality(PagesIn(g.span[id]) \ g.mem) = Cardinality(PagesIn(s) \ h.mem) + Cardinality(PagesIn(t))
      BY <3>4, <3>6, More
    <3>8. Cardinality(PagesIn(t)) = t.length
      BY <1>1, PagesInIs
    <3>9. temp = Cardinality(PagesIn(s) \ h.mem) /\ s.location = Normal
      BY <1>0, <2>4 DEF Hand
    <3> QED
      BY <1>0, <1>9, <2>1, <2>4, <3>2, <3>7, <3>8, <3>9 DEF Hand
  <2> QED
    BY <2>3, <2>4
<1>17. Clear(g, id, side)
  <2>1. SUFFICES ASSUME NEW a \in DOMAIN g.span, Adjacent(g, id, a, side), MayMergeSpans(g, id, a) PROVE FALSE
    BY DEF Clear
  <2>2. a # id /\ a \in Out(h, {id}) /\ g.span[a] = h.span[a] /\ a \in DOMAIN h.span
    BY <1>9, <2>1 DEF Adjacent, Out
  <2>3. IF side = "prev" THEN h.span[a].start + h.span[a].length = t.start ELSE t.start + t.length = h.span[a].start
    BY <1>9, <2>1, <2>2 DEF Adjacent
  <2>4. h.span[a].location = InUse \/ h.span[a].location # t.location
    BY <1>0, <1>4, <1>5, <2>2, <2>3 DEF Good, Settled, Touching
  <2>5. g.aggressive = h.aggressive /\ g.span[id].location = s.location
    BY <1>9, <1>12 DEF Steady
  <2>6. CASE h.aggressive
    <3>1. h.span[a].location # InUse
      BY <1>0, <2>1, <2>2, <2>5, <2>6 DEF MayMergeSpans
    <3>2. h.span[a].location # Normal /\ t.location # Normal
      BY <1>0, <1>5, <2>2, <2>6 DEF Good, Settled, AllReturned
    <3>3. IsSpan(h.span[a])
      BY <1>0, <2>2 DEF Good, Shape
    <3> QED
      BY <1>1, <1>4, <2>4, <3>1, <3>2, <3>3 DEF IsSpan
  <2>7. CASE ~h.aggressive
    BY <1>0, <1>3, <1>4, <2>1, <2>2, <2>4, <2>5, <2>7 DEF MayMergeSpans
  <2> QED
    BY <2>6, <2>7
<1>18. ASSUME NEW z \in {"prev", "next"}, Clear(h, id, z) PROVE Clear(g, id, z)
  <2>0. SUFFICES ASSUME z # side PROVE Clear(g, id, z)
    BY <1>17
  <2>1. SUFFICES ASSUME NEW a \in DOMAIN g.span, Adjacent(g, id, a, z) PROVE ~MayMergeSpans(g, id, a)
    BY DEF Clear
  <2>2. a # id /\ g.span[a] = h.span[a] /\ a \in DOMAIN h.span
    BY <1>9, <2>1 DEF Adjacent
  <2>3. Adjacent(h, id, a, z)
    BY <1>1, <1>9, <2>0, <2>1, <2>2 DEF Adjacent
  <2>4. ~MayMergeSpans(h, id, a)
    BY <1>18, <2>2, <2>3 DEF Clear
  <2> QED
    BY <1>0, <1>9, <1>12, <2>2, <2>4 DEF MayMergeSpans, Steady
<1>19. side = "prev" => EndOf(g.span[id]) = EndOf(h.span[id])
  BY <1>9 DEF EndOf
<1> QED
  BY <1>0, <1>9, <1>11, <1>13, <1>15, <1>16, <1>17, <1>18, <1>19 DEF Good

LEMMA MergeStep ==
  ASSUME NEW r, NEW id, NEW side \in {"prev", "next"}, Good(r.heap, {id}), Hand(r.heap, id, r.temp),
         NEW other, other = DescriptorOf(r.heap, IF side = "prev" THEN r.heap.span[id].start - 1
                                                         ELSE r.heap.span[id].start + r.heap.span[id].length),
         NEW m, m = Merge(r, id, other)
  PROVE  /\ Good(m.heap, {id}) /\ Hand(m.heap, id, m.temp) /\ Grew(r.heap, m.heap, id)
         /\ Clear(m.heap, id, side) /\ (\A z \in {"prev", "next"} : Clear(r.heap, id, z) => Clear(m.heap, id, z))
         /\ side = "prev" => EndOf(m.heap.span[id]) = EndOf(r.heap.span[id])
<1> DEFINE h == r.heap
<1>1. id \in DOMAIN h.span /\ Shape(h) /\ Tiling(h)
  BY DEF Hand, Good
<1>2. /\ other # NULL => Adjacent(h, id, other, side)
      /\ \A a \in DOMAIN h.span : Adjacent(h, id, a, side) => a = other /\ other # NULL
  BY <1>1, NeighbourFound
<1>3. CASE other = NULL \/ ~MayMergeSpans(h, id, other)
  <2>1. m = r
    BY <1>3 DEF Merge
  <2>2. Grew(h, h, id)
    BY <1>1 DEF Grew, Steady, Keep
  <2>3. Clear(h, id, side)
    BY <1>2, <1>3 DEF Clear
  <2> QED
    BY <2>1, <2>2, <2>3
<1>4. CASE other # NULL /\ MayMergeSpans(h, id, other)
  <2>1. m = [heap |-> Absorb(h, id, other), temp |-> r.temp + TempCommitted(h, other)]
    BY <1>4 DEF Merge
  <2>2. m.heap = Absorb(h, id, other) /\ m.temp = r.temp + TempCommitted(h, other)
    BY <2>1
  <2>3. Adjacent(h, id, other, side)
    BY <1>2, <1>4
  <2>4. MayAbsorb(h, id, other, side, r.temp)
    BY <1>4, <2>3 DEF MayAbsorb
  <2>5. \E g : g = m.heap
    OBVIOUS
  <2>6. PICK g : g = m.heap
    BY <2>5
  <2>7. g = Absorb(h, id, other)
    BY <2>2, <2>6
  <2>8. /\ Good(g, {id}) /\ Hand(g, id, r.temp + TempCommitted(h, other)) /\ Grew(h, g, id)
        /\ Clear(g, id, side) /\ (\A z \in {"prev", "next"} : Clear(h, id, z) => Clear(g, id, z))
        /\ side = "prev" => EndOf(g.span[id]) = EndOf(h.span[id])
    <3> HIDE DEF h
    <3>1. Good(g, {id}) /\ Hand(g, id, r.temp + TempCommitted(h, other)) /\ Grew(h, g, id)
      BY <2>4, <2>7, Absorbed
    <3>2. Clear(g, id, side) /\ (\A z \in {"prev", "next"} : Clear(h, id, z) => Clear(g, id, z))
      BY <2>4, <2>7, Absorbed
    <3>3. ASSUME side = "prev" PROVE EndOf(g.span[id]) = EndOf(h.span[id])
      BY <2>4, <2>7, <3>3, Absorbed, SMTT(60)
    <3> QED
      BY <3>1, <3>2, <3>3
  <2> QED
    BY <2>2, <2>6, <2>8
<1> QED
  BY <1>3, <1>4

-----------------------------------------------------------------------------
(* Spans in hand change their location and their backing.                   *)

Relocated(h, g, id, location) ==
  LET s == h.span[id]
  IN /\ IsHeap(g) /\ Remapped(h, g) /\ g.pagemap = h.pagemap
     /\ g.span = [i \in DOMAIN h.span |->
                    IF i = id THEN [start |-> s.start, length |-> s.length, location |-> location, sizeclass |-> s.sizeclass]
                    ELSE h.span[i]]

LEMMA Renamed ==
  ASSUME NEW s, s = [start |-> s.start, length |-> s.length, location |-> s.location, sizeclass |-> s.sizeclass],
         NEW location, NEW t, t = [s EXCEPT !.location = location]
  PROVE  t = [start |-> s.start, length |-> s.length, location |-> location, sizeclass |-> s.sizeclass]
OBVIOUS

LEMMA RelocateIs ==
  ASSUME NEW h, NEW id, NEW location, Shape(h), id \in DOMAIN h.span
  PROVE  Relocated(h, Relocate(h, id, location), id, location)
<1> DEFINE g == Relocate(h, id, location)
           s == h.span[id]
           t == [s EXCEPT !.location = location]
           u == [start |-> s.start, length |-> s.length, location |-> location, sizeclass |-> s.sizeclass]
<1>1. IsHeap(h) /\ IsSpan(s)
  BY DEF Shape
<1>2. t = u
  <2>1. s = [start |-> s.start, length |-> s.length, location |-> s.location, sizeclass |-> s.sizeclass]
    BY <1>1 DEF IsSpan
  <2>2. \E v : v = t
    OBVIOUS
  <2>3. PICK v : v = t
    BY <2>2
  <2>4. v = [s EXCEPT !.location = location]
    BY <2>3
  <2> HIDE DEF t, s
  <2> QED
    BY <2>1, <2>3, <2>4, Renamed
<1>3. g = [h EXCEPT !.span[id].location = location]
  BY DEF Relocate
<1>4. IsHeap(g) /\ Remapped(h, g) /\ g.pagemap = h.pagemap
  <2> HIDE DEF g
  <2> QED
    BY <1>1, <1>3 DEF IsHeap, Remapped
<1>5. g.span = [h.span EXCEPT ![id] = t]
  <2> HIDE DEF g
  <2> QED
    BY <1>1, <1>3 DEF IsHeap
<1>6. g.span = [i \in DOMAIN h.span |-> IF i = id THEN u ELSE h.span[i]]
  <2> HIDE DEF g, t, u
  <2> QED
    BY <1>2, <1>5 DEF Shape
<1> QED
  BY <1>4, <1>6 DEF Relocated

LEMMA Moved ==
  ASSUME NEW h, NEW id, NEW location \in {InUse, Normal, Returned}, Shape(h), Tiling(h), id \in DOMAIN h.span,
         h.span[id].sizeclass = 0, NEW g, Relocated(h, g, id, location)
  PROVE  /\ Shape(g) /\ Tiling(g) /\ Spanned(g) = Spanned(h) /\ DOMAIN g.span = DOMAIN h.span /\ Steady(h, g)
         /\ \A a \in DOMAIN h.span : a # id => g.span[a] = h.span[a]
         /\ g.span[id].start = h.span[id].start /\ g.span[id].length = h.span[id].length
         /\ g.span[id].sizeclass = 0 /\ g.span[id].location = location
         /\ \A pg : Has(g.span[id], pg) <=> Has(h.span[id], pg)
         /\ \A X : id \in X /\ Settled(h, X) => Settled(g, X)
         /\ Books(h) => Books(g)
<1> DEFINE s == h.span[id]
           u == [start |-> s.start, length |-> s.length, location |-> location, sizeclass |-> s.sizeclass]
<1>1. IsHeap(g) /\ Remapped(h, g) /\ g.pagemap = h.pagemap /\ g.span = [i \in DOMAIN h.span |-> IF i = id THEN u ELSE h.span[i]]
  BY DEF Relocated
<1>2. DOMAIN g.span = DOMAIN h.span /\ g.span[id] = u /\ \A a \in DOMAIN h.span : a # id => g.span[a] = h.span[a]
  BY <1>1
<1>3. IsSpan(s)
  BY DEF Shape
<1>4. u.start = s.start /\ u.length = s.length /\ u.location = location /\ u.sizeclass = 0
  OBVIOUS
<1>5. IsSpan(u)
  BY <1>3, <1>4 DEF IsSpan
<1> HIDE DEF u
<1>6. \A a \in DOMAIN h.span : g.span[a].start = h.span[a].start /\ g.span[a].length = h.span[a].length
      /\ (g.span[a].sizeclass # 0 => a # id)
  BY <1>2, <1>4
<1>7. Shape(g)
  <2>1. g.span = [i \in DOMAIN g.span |-> g.span[i]]
    BY <1>1, <1>2
  <2>2. Fields(g)
    BY <1>1 DEF Shape, Fields, Remapped
  <2> QED
    BY <1>1, <1>2, <1>5, <2>1, <2>2 DEF Shape
<1>8. \A a \in DOMAIN h.span : \A pg : Has(g.span[a], pg) <=> Has(h.span[a], pg)
  BY <1>6 DEF Has
<1>9. Tiling(g)
  <2>1. Apart(g)
    BY <1>2, <1>6 DEF Tiling, Apart, Before
  <2>2. Mapped(g)
    <3>1. ASSUME NEW a \in DOMAIN h.span
          PROVE  /\ g.pagemap[g.span[a].start] = a /\ g.pagemap[g.span[a].start + g.span[a].length - 1] = a
                 /\ g.span[a].sizeclass # 0 =>
                      g.span[a].location = InUse /\ \A pg \in 0..(NPages + 1) : Has(g.span[a], pg) => g.pagemap[pg] = a
      <4>1. h.pagemap[h.span[a].start] = a /\ h.pagemap[h.span[a].start + h.span[a].length - 1] = a
            /\ (h.span[a].sizeclass # 0 =>
                 h.span[a].location = InUse /\ \A pg \in 0..(NPages + 1) : Has(h.span[a], pg) => h.pagemap[pg] = a)
        BY DEF Tiling, Mapped
      <4> QED
        BY <1>1, <1>2, <1>6, <1>8, <4>1
    <3> QED
      BY <1>2, <3>1 DEF Mapped
  <2>3. Located(g)
    BY <1>1, <1>2, <1>8 DEF Tiling, Located
  <2> QED
    BY <2>1, <2>2, <2>3 DEF Tiling
<1>10. Spanned(g) = Spanned(h)
  BY <1>2, <1>8 DEF Spanned
<1>11. Steady(h, g)
  BY <1>1 DEF Remapped, Steady
<1>12. ASSUME NEW X, id \in X, Settled(h, X) PROVE Settled(g, X)
  <2>1. Undisturbed(h, X, g, X)
    BY <1>1, <1>2, <1>12 DEF Undisturbed, Out, Remapped
  <2> QED
    BY <1>12, <2>1, StaySettled
<1>13. Books(h) => Books(g)
  BY <1>10, <1>11 DEF Books, Steady
<1> QED
  BY <1>2, <1>4, <1>7, <1>8, <1>9, <1>10, <1>11, <1>12, <1>13

\* Pages of a span become backed or cease to be.
Rebacked(h, g, id) ==
  /\ IsHeap(g) /\ g.span = h.span /\ g.pagemap = h.pagemap
  /\ g.normal = h.normal /\ g.returned = h.returned /\ g.free = h.free /\ g.unmapped = h.unmapped
  /\ g.system = h.system /\ g.release_index = h.release_index /\ g.scavenge = h.scavenge
  /\ g.aggressive = h.aggressive /\ g.limit = h.limit /\ g.fails = h.fails
  /\ g.committed \in Int /\ g.works \in {0, 1, All} /\ (~g.fails => g.works = All)
  /\ g.mem \in SUBSET Pages /\ \A pg \in Pages : ~Has(h.span[id], pg) => (pg \in g.mem <=> pg \in h.mem)

LEMMA StayReady ==
  ASSUME NEW h, NEW id, NEW g, Shape(h), Tiling(h), id \in DOMAIN h.span, Rebacked(h, g, id)
  PROVE  /\ Shape(g) /\ Tiling(g) /\ g.mem \union Spanned(g) = h.mem \union Spanned(h)
         /\ \A X : id \in X /\ Settled(h, X) => Settled(g, X)
<1>1. Shape(g)
  BY DEF Shape, Fields, Rebacked
<1>2. Tiling(g)
  BY DEF Tiling, Apart, Mapped, Located, Rebacked
<1>3. g.mem \union Spanned(g) = h.mem \union Spanned(h)
  <2>1. Spanned(g) = Spanned(h)
    BY DEF Spanned, Rebacked
  <2>2. h.mem \subseteq Pages /\ g.mem \subseteq Pages
    BY DEF Shape, Fields, Rebacked
  <2>3. \A pg \in Pages : pg \in Spanned(h) \/ (pg \in g.mem <=> pg \in h.mem)
    BY DEF Spanned, Rebacked
  <2> QED
    BY <2>1, <2>2, <2>3
<1>4. ASSUME NEW X, id \in X, Settled(h, X) PROVE Settled(g, X)
  <2>1. \A a \in Out(h, X) : \A pg \in Pages : Has(h.span[a], pg) => ~Has(h.span[id], pg)
    BY <1>4, OneOwner DEF Tiling, Out, Pages
  <2>2. Undisturbed(h, X, g, X)
    BY <2>1 DEF Undisturbed, Rebacked, Out
  <2> QED
    BY <1>4, <2>2, StaySettled
<1> QED
  BY <1>1, <1>2, <1>3, <1>4

LEMMA DecommitIs ==
  ASSUME NEW h, NEW id, Shape(h), id \in DOMAIN h.span, Releases(h), NEW g, g = DecommitSpan(h, id)
  PROVE  Rebacked(h, g, id) /\ g.committed = h.committed - h.span[id].length /\ g.mem = h.mem \ PagesIn(h.span[id])
<1>1. IsHeap(h) /\ IsSpan(h.span[id]) /\ Fields(h)
  BY DEF Shape
<1>2. PagesIn(h.span[id]) = Extent(h.span[id])
  BY <1>1, PagesInIs
<1>3. /\ IsHeap(g) /\ g.span = h.span /\ g.pagemap = h.pagemap
      /\ g.normal = h.normal /\ g.returned = h.returned /\ g.free = h.free /\ g.unmapped = h.unmapped
      /\ g.system = h.system /\ g.release_index = h.release_index /\ g.scavenge = h.scavenge
      /\ g.aggressive = h.aggressive /\ g.limit = h.limit /\ g.fails = h.fails
      /\ g.committed = h.committed - h.span[id].length /\ g.mem = h.mem \ Extent(h.span[id])
      /\ g.works = IF h.works = All THEN All ELSE h.works - 1
  BY <1>1 DEF IsHeap, DecommitSpan
<1>4. g.works \in {0, 1, All} /\ (~g.fails => g.works = All)
  BY <1>1, <1>3 DEF Fields, Releases, All
<1>5. g.mem \in SUBSET Pages /\ g.committed \in Int
  BY <1>1, <1>3 DEF Fields, IsSpan
<1>6. \A pg \in Pages : ~Has(h.span[id], pg) => (pg \in g.mem <=> pg \in h.mem)
  BY <1>2, <1>3 DEF PagesIn
<1> QED
  BY <1>2, <1>3, <1>4, <1>5, <1>6 DEF Rebacked

LEMMA CommitIs ==
  ASSUME NEW h, NEW id, Shape(h), id \in DOMAIN h.span, NEW g, g = CommitSpan(h, id)
  PROVE  Rebacked(h, g, id) /\ g.committed = h.committed + h.span[id].length /\ g.mem = h.mem \union PagesIn(h.span[id])
         /\ g.works = h.works
<1>1. IsHeap(h) /\ IsSpan(h.span[id]) /\ Fields(h)
  BY DEF Shape
<1>2. PagesIn(h.span[id]) = Extent(h.span[id])
  BY <1>1, PagesInIs
<1>3. /\ IsHeap(g) /\ g.span = h.span /\ g.pagemap = h.pagemap
      /\ g.normal = h.normal /\ g.returned = h.returned /\ g.free = h.free /\ g.unmapped = h.unmapped
      /\ g.system = h.system /\ g.release_index = h.release_index /\ g.scavenge = h.scavenge
      /\ g.aggressive = h.aggressive /\ g.limit = h.limit /\ g.fails = h.fails
      /\ g.committed = h.committed + h.span[id].length /\ g.mem = h.mem \union Extent(h.span[id])
      /\ g.works = h.works
  BY <1>1 DEF IsHeap, CommitSpan
<1>4. g.works \in {0, 1, All} /\ (~g.fails => g.works = All)
  BY <1>1, <1>3 DEF Fields
<1>5. PagesIn(h.span[id]) \in SUBSET Pages
  BY DEF PagesIn
<1>6. g.mem \in SUBSET Pages /\ g.committed \in Int
  BY <1>1, <1>2, <1>3, <1>5 DEF Fields, IsSpan
<1>7. \A pg \in Pages : ~Has(h.span[id], pg) => (pg \in g.mem <=> pg \in h.mem)
  BY <1>2, <1>3 DEF PagesIn
<1> QED
  BY <1>2, <1>3, <1>4, <1>6, <1>7 DEF Rebacked

-----------------------------------------------------------------------------
(* MergeIntoFreeList.                                                       *)

\* A span merged with both of its neighbours can go on a list as it is, or,
\* decommitting aggressively, once its pages are given back.
LEMMA NothingLeft ==
  ASSUME NEW h, NEW id, Shape(h), id \in DOMAIN h.span, h.span[id].location # InUse,
         Clear(h, id, "prev"), Clear(h, id, "next"), ~h.aggressive
  PROVE  Alone(h, {id}, id)
<1>1. SUFFICES ASSUME NEW a \in Out(h, {id}),
                      \/ h.span[a].start + h.span[a].length = h.span[id].start
                      \/ h.span[id].start + h.span[id].length = h.span[a].start
               PROVE  h.span[a].location # h.span[id].location
  BY DEF Alone
<1>2. a \in DOMAIN h.span /\ a # id
  BY DEF Out
<1>3. Adjacent(h, id, a, "prev") \/ Adjacent(h, id, a, "next")
  BY <1>1, <1>2 DEF Adjacent
<1>4. ~MayMergeSpans(h, id, a)
  BY <1>2, <1>3 DEF Clear
<1> QED
  BY <1>4 DEF MayMergeSpans

LEMMA NothingFreeLeft ==
  ASSUME NEW h, NEW id, NEW g, id \in DOMAIN h.span, Clear(h, id, "prev"), Clear(h, id, "next"), h.aggressive,
         DOMAIN g.span = DOMAIN h.span, \A a \in DOMAIN h.span : a # id => g.span[a] = h.span[a],
         g.span[id].start = h.span[id].start, g.span[id].length = h.span[id].length, g.span[id].location = Returned
  PROVE  Alone(g, {id}, id)
<1>1. SUFFICES ASSUME NEW a \in Out(g, {id}),
                      \/ g.span[a].start + g.span[a].length = g.span[id].start
                      \/ g.span[id].start + g.span[id].length = g.span[a].start
               PROVE  g.span[a].location # g.span[id].location
  BY DEF Alone
<1>2. a \in DOMAIN h.span /\ a # id /\ g.span[a] = h.span[a]
  BY DEF Out
<1>3. Adjacent(h, id, a, "prev") \/ Adjacent(h, id, a, "next")
  BY <1>1, <1>2 DEF Adjacent
<1>4. ~MayMergeSpans(h, id, a)
  BY <1>2, <1>3 DEF Clear
<1> QED
  BY <1>2, <1>4 DEF MayMergeSpans, InUse, Returned

\* What MergeIntoFreeList does with a span in hand.
Listing(h, g, id) ==
  /\ Good(g, {}) /\ Keep(h, g) /\ SameMode(h, g)
  /\ g.release_index = h.release_index /\ g.scavenge = h.scavenge
  /\ g.free + g.unmapped = h.free + h.unmapped + h.span[id].length
  /\ ~h.aggressive /\ h.span[id].location = Returned => g.free = h.free

\* The counters after a span was put on its list.
LEMMA CountersAfter ==
  ASSUME NEW h, NEW g, NEW id, Shape(h), id \in DOMAIN h.span, Addition(h, g, id)
  PROVE  /\ g.free + g.unmapped = h.free + h.unmapped + h.span[id].length
         /\ h.span[id].location = Returned => g.free = h.free
<1>1. h.free \in Int /\ h.unmapped \in Int /\ h.span[id].length \in Int
  <2>1. IsSpan(h.span[id])
    BY DEF Shape
  <2> QED
    BY <2>1 DEF Shape, Fields, IsSpan
<1>2. /\ h.span[id].location = Normal => g.free = h.free + h.span[id].length /\ g.unmapped = h.unmapped
      /\ h.span[id].location # Normal => g.unmapped = h.unmapped + h.span[id].length /\ g.free = h.free
  BY DEF Addition
<1> QED
  BY <1>1, <1>2 DEF Normal, Returned

LEMMA Lists ==
  ASSUME NEW h, NEW id, Good(h, {id}), Hand(h, id, 0), NEW g, g = MergeIntoFreeList(h, id)
  PROVE  Listing(h, g, id)
<1> DEFINE s == h.span[id]
           r0 == [heap |-> h, temp |-> 0]
           r == Merge(r0, id, DescriptorOf(h, s.start - 1))
           m == Merge(r, id, DescriptorOf(r.heap, EndOf(s)))
           k == m.heap
           d == DecommitSpan(k, id)
           e == Relocate(d, id, Returned)
           f == [e EXCEPT !.committed = @ + m.temp]
<1>1. g = PrependToFreeList(IF h.aggressive /\ Releases(h) THEN f ELSE k, id)
  BY DEF MergeIntoFreeList
<1>2. /\ Good(r.heap, {id}) /\ Hand(r.heap, id, r.temp) /\ Grew(h, r.heap, id) /\ Clear(r.heap, id, "prev")
      /\ EndOf(r.heap.span[id]) = EndOf(s)
  <2>1. r0.heap = h /\ r0.temp = 0
    OBVIOUS
  <2>2. r = Merge(r0, id, DescriptorOf(r0.heap, IF "prev" = "prev" THEN r0.heap.span[id].start - 1
                                                ELSE r0.heap.span[id].start + r0.heap.span[id].length))
    OBVIOUS
  <2> HIDE DEF r0, r
  <2> QED
    BY <2>1, <2>2, MergeStep
<1>3. /\ Good(k, {id}) /\ Hand(k, id, m.temp) /\ Grew(r.heap, k, id) /\ Clear(k, id, "prev") /\ Clear(k, id, "next")
  <2>1. m = Merge(r, id, DescriptorOf(r.heap, IF "next" = "prev" THEN r.heap.span[id].start - 1
                                              ELSE r.heap.span[id].start + r.heap.span[id].length))
    BY <1>2 DEF EndOf
  <2> HIDE DEF r, m
  <2> QED
    BY <1>2, <2>1, MergeStep
<1> HIDE DEF r, m
<1>4. Grew(h, k, id)
  <2>1. r.heap.span[id].location = s.location /\ Steady(h, r.heap) /\ Keep(h, r.heap)
    BY <1>2 DEF Grew
  <2>2. Steady(h, k)
    BY <1>3, <2>1 DEF Grew, Steady
  <2>3. Keep(h, k)
    BY <1>3, <2>1 DEF Grew, Keep
  <2>4. k.free + k.unmapped + k.span[id].length = h.free + h.unmapped + s.length
    BY <1>2, <1>3 DEF Grew
  <2>5. ~h.aggressive /\ s.location = Returned => k.free = h.free
    BY <1>2, <1>3, <2>1 DEF Grew, Steady
  <2> QED
    BY <1>3, <2>1, <2>2, <2>3, <2>4, <2>5 DEF Grew
<1>5. /\ Shape(k) /\ Tiling(k) /\ Settled(k, {id}) /\ Books(k) /\ id \in DOMAIN k.span
      /\ k.span[id].location # InUse /\ k.span[id].sizeclass = 0 /\ IsSpan(k.span[id])
      /\ k.aggressive = h.aggressive /\ k.works = h.works /\ k.fails = h.fails
      /\ k.free \in Int /\ k.unmapped \in Int /\ h.free \in Int /\ h.unmapped \in Int
  BY <1>3, <1>4 DEF Good, Hand, Shape, Fields, Grew, Steady, Normal, Returned, InUse
<1>6. {id} \ {id} = {}
  OBVIOUS
<1>7. h.aggressive => Releases(h)
  BY DEF Good, Shape, Fields, Releases, All
<1>8. CASE ~h.aggressive
  <2>1. g = PrependToFreeList(k, id)
    BY <1>1, <1>8
  <2>2. Addition(k, g, id)
    BY <1>5, <2>1, PrependIs DEF Shape
  <2>3. Ready(k, {id}, id)
    <3>1. Alone(k, {id}, id)
      BY <1>3, <1>5, <1>8, NothingLeft
    <3> QED
      BY <1>3, <1>5, <1>8, <3>1 DEF Ready, Hand
  <2>4. Shape(g) /\ Tiling(g) /\ Settled(g, {})
    BY <1>5, <1>6, <2>2, <2>3, Prepended
  <2>5. Elsewhere(k, g)
    BY <2>2 DEF Addition
  <2>6. Books(g)
    BY <1>5, <2>5 DEF Books, Spanned, Elsewhere
  <2>7. Keep(h, g) /\ SameMode(h, g) /\ g.release_index = h.release_index /\ g.scavenge = h.scavenge
    BY <1>4, <2>5 DEF Grew, Steady, Keep, SameMode, Elsewhere
  <2>8. g.free + g.unmapped = k.free + k.unmapped + k.span[id].length /\ (k.span[id].location = Returned => g.free = k.free)
    BY <1>5, <2>2, CountersAfter
  <2>9. g.free + g.unmapped = h.free + h.unmapped + s.length
    BY <1>4, <2>8 DEF Grew
  <2>10. s.location = Returned => g.free = h.free
    BY <1>4, <1>8, <2>8 DEF Grew
  <2> QED
    BY <2>4, <2>6, <2>7, <2>9, <2>10 DEF Good, Listing
<1>9. CASE h.aggressive
  <2>1. g = PrependToFreeList(f, id)
    BY <1>1, <1>7, <1>9
  <2>2. Releases(k)
    BY <1>5, <1>7, <1>9 DEF Releases
  <2>3. Rebacked(k, d, id) /\ d.committed = k.committed - k.span[id].length /\ d.mem = k.mem \ PagesIn(k.span[id])
    <3> HIDE DEF k
    <3> QED
      BY <1>5, <2>2, DecommitIs
  <2>4. /\ Shape(d) /\ Tiling(d) /\ d.mem \union Spanned(d) = k.mem \union Spanned(k) /\ Settled(d, {id})
        /\ d.span = k.span
    <3> HIDE DEF k, d
    <3> QED
      BY <1>5, <2>3, StayReady DEF Rebacked
  <2>5. Relocated(d, e, id, Returned)
    <3> HIDE DEF d
    <3> QED
      BY <1>5, <2>4, RelocateIs
  <2>6. /\ Shape(e) /\ Tiling(e) /\ Spanned(e) = Spanned(d) /\ DOMAIN e.span = DOMAIN k.span /\ Steady(d, e)
        /\ \A a \in DOMAIN k.span : a # id => e.span[a] = k.span[a]
        /\ e.span[id].start = k.span[id].start /\ e.span[id].length = k.span[id].length
        /\ e.span[id].location = Returned /\ Settled(e, {id})
        /\ \A pg : Has(e.span[id], pg) <=> Has(k.span[id], pg)
    <3> HIDE DEF d, e, k
    <3>1. id \in DOMAIN d.span /\ d.span[id].sizeclass = 0 /\ Returned \in {InUse, Normal, Returned}
      BY <1>5, <2>4
    <3>2. /\ Shape(e) /\ Tiling(e) /\ Spanned(e) = Spanned(d) /\ DOMAIN e.span = DOMAIN d.span /\ Steady(d, e)
          /\ \A a \in DOMAIN d.span : a # id => e.span[a] = d.span[a]
          /\ e.span[id].start = d.span[id].start /\ e.span[id].length = d.span[id].length
          /\ e.span[id].location = Returned
          /\ \A pg : Has(e.span[id], pg) <=> Has(d.span[id], pg)
          /\ \A X : id \in X /\ Settled(d, X) => Settled(e, X)
      BY <2>4, <2>5, <3>1, Moved
    <3> QED
      BY <2>4, <3>2
  <2>7. e.free = k.free /\ e.unmapped = k.unmapped
    BY <2>3, <2>5 DEF Relocated, Remapped, Rebacked
  <2>8. /\ IsHeap(f) /\ f.span = e.span /\ f.pagemap = e.pagemap /\ f.normal = e.normal /\ f.returned = e.returned
        /\ f.free = e.free /\ f.unmapped = e.unmapped /\ f.system = e.system /\ f.mem = e.mem
        /\ f.release_index = e.release_index /\ f.scavenge = e.scavenge /\ f.aggressive = e.aggressive
        /\ f.limit = e.limit /\ f.fails = e.fails /\ f.works = e.works /\ f.committed = e.committed + m.temp
    <3>1. IsHeap(e)
      BY <2>6 DEF Shape
    <3> HIDE DEF e
    <3> QED
      BY <3>1 DEF IsHeap
  <2> HIDE DEF k, d, e, f
  <2>9. m.temp = Cardinality(PagesIn(k.span[id]) \ k.mem) /\ k.aggressive
    BY <1>3, <1>5, <1>9 DEF Hand
  <2>10. f.committed = Cardinality(f.mem) /\ f.committed <= k.committed
    <3> DEFINE E == PagesIn(k.span[id])
    <3>1. E \in SUBSET Pages /\ k.mem \in SUBSET Pages /\ Cardinality(E) = k.span[id].length
      BY <1>5, PagesInIs DEF Shape, Fields, PagesIn
    <3>2. Cardinality(E \ k.mem) = Cardinality(E) - Cardinality(E \cap k.mem)
      <4>1. IsFiniteSet(E)
        BY <3>1, Counted
      <4> QED
        BY <4>1, FS_Difference
    <3>3. Cardinality(k.mem \ E) = Cardinality(k.mem) - Cardinality(E \cap k.mem)
      <4>1. IsFiniteSet(k.mem) /\ E \cap k.mem = k.mem \cap E
        BY <3>1, Counted
      <4> QED
        BY <4>1, FS_Difference, ZenonT(60)
    <3>4. /\ Cardinality(E) \in Int /\ Cardinality(E \cap k.mem) \in 0..NPages /\ Cardinality(k.mem) \in Int
          /\ Cardinality(E \ k.mem) \in Int
      <4>1. E \cap k.mem \in SUBSET Pages /\ E \ k.mem \in SUBSET Pages
        BY <3>1
      <4> QED
        BY <3>1, <4>1, Counted
    <3>5. k.committed = Cardinality(k.mem)
      BY <1>5 DEF Books
    <3>6. f.committed = Cardinality(k.mem) - Cardinality(E) + Cardinality(E \ k.mem) /\ f.mem = k.mem \ E
      BY <2>3, <2>6, <2>8, <2>9, <3>1, <3>5 DEF Steady
    <3> HIDE DEF E
    <3>7. f.committed = Cardinality(k.mem) - Cardinality(E \cap k.mem)
      BY <3>2, <3>4, <3>6
    <3> QED
      BY <3>3, <3>4, <3>5, <3>6, <3>7, PagesFinite
  <2>11. Shape(f) /\ Tiling(f) /\ Settled(f, {id})
    <3>1. f.committed \in Int
      BY <2>10, Counted, <2>6, <2>8 DEF Shape, Fields
    <3>2. Shape(f)
      BY <2>6, <2>8, <3>1 DEF Shape, Fields
    <3>3. Tiling(f)
      BY <2>6, <2>8 DEF Tiling, Apart, Mapped, Located
    <3>4. Undisturbed(e, {id}, f, {id})
      BY <2>8 DEF Undisturbed, Out
    <3> QED
      BY <2>6, <3>2, <3>3, <3>4, StaySettled
  <2>12. Ready(f, {id}, id)
    <3>1. Backing(f, id)
      BY <2>3, <2>6, <2>8 DEF Backing, PagesIn, Steady
    <3>2. Alone(e, {id}, id)
      BY <1>3, <1>5, <1>9, <2>6, NothingFreeLeft
    <3>3. Alone(f, {id}, id)
      BY <2>8, <3>2 DEF Alone, Out
    <3> QED
      BY <1>5, <2>6, <2>8, <3>1, <3>3 DEF Ready, InUse, Returned
  <2>13. Addition(f, g, id)
    BY <2>1, <2>8, PrependIs
  <2>14. Shape(g) /\ Tiling(g) /\ Settled(g, {})
    BY <1>6, <2>11, <2>12, <2>13, Prepended
  <2>15. Elsewhere(f, g)
    BY <2>13 DEF Addition
  <2>16. g.span = e.span /\ g.system = k.system /\ g.limit = k.limit /\ g.mem = d.mem /\ g.committed = f.committed
         /\ g.aggressive = k.aggressive /\ g.fails = k.fails /\ g.release_index = k.release_index /\ g.scavenge = k.scavenge
    BY <2>3, <2>6, <2>8, <2>15 DEF Elsewhere, Steady, Rebacked
  <2>17. Books(g)
    <3>1. Spanned(g) = Spanned(d)
      BY <2>6, <2>16 DEF Spanned
    <3>2. g.mem \union Spanned(g) = k.mem \union Spanned(k)
      BY <2>4, <2>16, <3>1
    <3>3. g.committed = Cardinality(g.mem)
      BY <2>8, <2>10, <2>15 DEF Elsewhere
    <3>4. g.limit # 0 => g.committed <= g.limit
      <4>1. k.committed \in Int /\ f.committed \in Int /\ k.limit \in Int
        BY <1>5, <2>11 DEF Shape, Fields
      <4> QED
        BY <1>5, <2>10, <2>16, <4>1 DEF Books
    <3> QED
      BY <1>5, <2>16, <3>2, <3>3, <3>4 DEF Books
  <2>18. Keep(h, g)
    <3>1. Keep(h, k)
      BY <1>4 DEF Grew
    <3>2. Keep(k, g)
      BY <1>5, <2>6, <2>16 DEF Keep
    <3> QED
      BY <3>1, <3>2 DEF Keep
  <2>19. SameMode(h, g) /\ g.release_index = h.release_index /\ g.scavenge = h.scavenge
    BY <1>4, <2>16 DEF Grew, Steady, SameMode
  <2>20. g.free + g.unmapped = h.free + h.unmapped + s.length
    <3>1. g.free + g.unmapped = f.free + f.unmapped + f.span[id].length
      BY <2>6, <2>8, <2>11, <2>13, <1>5, CountersAfter
    <3>2. f.free = k.free /\ f.unmapped = k.unmapped /\ f.span[id].length = k.span[id].length
      BY <2>6, <2>7, <2>8
    <3> QED
      BY <1>4, <3>1, <3>2 DEF Grew
  <2> QED
    BY <1>9, <2>14, <2>17, <2>18, <2>19, <2>20 DEF Good, Listing
<1> QED
  BY <1>8, <1>9

-----------------------------------------------------------------------------
(* Giving memory back.                                                      *)

\* Nothing changes that the invariant is about.
Tally(h, g) ==
  /\ g.span = h.span /\ g.pagemap = h.pagemap /\ g.normal = h.normal /\ g.returned = h.returned
  /\ g.free = h.free /\ g.unmapped = h.unmapped /\ g.committed = h.committed /\ g.system = h.system /\ g.mem = h.mem
  /\ g.aggressive = h.aggressive /\ g.limit = h.limit /\ g.fails = h.fails

LEMMA StayGood ==
  ASSUME NEW h, NEW X, Good(h, X), NEW g, IsHeap(g), Fields(g), Tally(h, g)
  PROVE  Good(g, X) /\ Keep(h, g) /\ SameMode(h, g)
<1>1. Shape(g)
  BY DEF Good, Shape, Tally
<1>2. Tiling(g)
  BY DEF Good, Tiling, Apart, Mapped, Located, Tally
<1>3. Undisturbed(h, X, g, X)
  BY DEF Undisturbed, Out, Tally
<1>4. Settled(g, X)
  BY <1>3, StaySettled DEF Good
<1>5. Books(g)
  BY DEF Good, Books, Spanned, Tally
<1>6. Keep(h, g) /\ SameMode(h, g)
  BY DEF Keep, SameMode, Tally
<1> QED
  BY <1>1, <1>2, <1>4, <1>5, <1>6 DEF Good

\* Of h, n pages were given back.
GaveBack(h, g, n) ==
  /\ Good(g, {}) /\ Keep(h, g) /\ SameMode(h, g) /\ g.scavenge = h.scavenge
  /\ n \in Nat /\ g.free + n = h.free /\ g.unmapped = h.unmapped + n

LEMMA LastReleased ==
  ASSUME NEW h, NEW list \in 1..kMaxPages, Good(h, {}), h.normal[list] # <<>>, Releases(h),
         NEW id, id = h.normal[list][Len(h.normal[list])], NEW g, g = ReleaseLastNormalSpan(h, list)
  PROVE  GaveBack(h, g, h.span[id].length) /\ h.span[id].length > 0
<1> DEFINE s == h.span[id]
           d == DecommitSpan(h, id)
           q0 == RemoveFromFreeList(h, id)
           q == RemoveFromFreeList(d, id)
           e == Relocate(q, id, Returned)
<1>1. g = MergeIntoFreeList(e, id)
  BY DEF ReleaseLastNormalSpan
<1>2. id \in On(h.normal[list])
  <2>1. h.normal[list] \in Seq(Ids)
    BY DEF Good, Shape, Fields
  <2>2. Len(h.normal[list]) \in 1..Len(h.normal[list]) /\ DOMAIN h.normal[list] = 1..Len(h.normal[list])
    BY <2>1
  <2> QED
    BY <2>2 DEF On
<1>3. id \in DOMAIN h.span /\ s.location = Normal /\ id \in Out(h, {}) /\ ~h.aggressive
  BY <1>2 DEF Good, Settled, OnLists, OfList, Out, AllReturned
<1>4. Shape(h) /\ Tiling(h) /\ Settled(h, {}) /\ Books(h) /\ IsSpan(s) /\ IsHeap(h) /\ Normal # InUse /\ Returned # InUse
      /\ Normal # Returned
  BY <1>3 DEF Good, Shape, Normal, InUse, Returned
<1>5. {} \union {id} = {id}
  OBVIOUS
<1>6. Removal(h, q0, id) /\ Shape(q0) /\ Tiling(q0) /\ Settled(q0, {id})
  <2>1. Removal(h, q0, id)
    BY <1>4, RemoveIs
  <2> HIDE DEF q0
  <2> QED
    BY <1>3, <1>4, <1>5, <2>1, Removed
<1>7. Rebacked(h, d, id) /\ d.committed = h.committed - s.length /\ d.mem = h.mem \ PagesIn(s)
  BY <1>3, <1>4, DecommitIs
<1>8. Removal(d, q, id)
  BY <1>7, RemoveIs DEF Rebacked
<1> HIDE DEF d, q0, q
<1>9. q.free = q0.free /\ q.unmapped = q0.unmapped /\ q.normal = q0.normal /\ q.returned = q0.returned
  <2> DEFINE l == ListOf(s.length)
  <2>1. q0.free = h.free - s.length /\ q0.normal = [h.normal EXCEPT ![l] = Unlinked(h.normal[l], id)]
        /\ q0.unmapped = h.unmapped /\ q0.returned = h.returned
    BY <1>3, <1>6 DEF Removal
  <2>2. d.span = h.span /\ d.free = h.free /\ d.unmapped = h.unmapped /\ d.normal = h.normal /\ d.returned = h.returned
    BY <1>7 DEF Rebacked
  <2>3. d.span[id] = s
    BY <2>2
  <2>4. q.free = d.free - s.length /\ q.normal = [d.normal EXCEPT ![l] = Unlinked(d.normal[l], id)]
        /\ q.unmapped = d.unmapped /\ q.returned = d.returned
    BY <1>3, <1>8, <2>3 DEF Removal
  <2> QED
    BY <2>1, <2>2, <2>4
<1>10. Elsewhere(d, q) /\ Elsewhere(h, q0) /\ IsHeap(q)
  BY <1>6, <1>8 DEF Removal
<1>11. Rebacked(q0, q, id)
  BY <1>7, <1>9, <1>10 DEF Rebacked, Elsewhere
<1>12. q.span = h.span /\ q0.span = h.span /\ id \in DOMAIN q0.span
  BY <1>3, <1>7, <1>10 DEF Rebacked, Elsewhere
<1>13. Shape(q) /\ Tiling(q) /\ Settled(q, {id}) /\ q.mem \union Spanned(q) = q0.mem \union Spanned(q0)
  BY <1>6, <1>11, <1>12, StayReady
<1>14. s.sizeclass = 0
  BY <1>3, <1>4 DEF Tiling, Mapped
<1>15. Relocated(q, e, id, Returned)
  BY <1>12, <1>13, RelocateIs
<1> HIDE DEF e
<1>16. /\ Shape(e) /\ Tiling(e) /\ Spanned(e) = Spanned(q) /\ DOMAIN e.span = DOMAIN q.span /\ Steady(q, e)
       /\ \A a \in DOMAIN q.span : a # id => e.span[a] = q.span[a]
       /\ e.span[id].start = q.span[id].start /\ e.span[id].length = q.span[id].length
       /\ e.span[id].sizeclass = 0 /\ e.span[id].location = Returned
       /\ \A pg : Has(e.span[id], pg) <=> Has(q.span[id], pg)
       /\ \A X : id \in X /\ Settled(q, X) => Settled(e, X)
  <2>1. id \in DOMAIN q.span /\ q.span[id].sizeclass = 0 /\ Returned \in {InUse, Normal, Returned}
    BY <1>12, <1>14
  <2>2. /\ Shape(e) /\ Tiling(e) /\ Spanned(e) = Spanned(q) /\ DOMAIN e.span = DOMAIN q.span /\ Steady(q, e)
        /\ \A a \in DOMAIN q.span : a # id => e.span[a] = q.span[a]
        /\ e.span[id].start = q.span[id].start /\ e.span[id].length = q.span[id].length
        /\ e.span[id].sizeclass = 0 /\ e.span[id].location = Returned
    BY <1>13, <1>15, <2>1, Moved, SMTT(30)
  <2>3. \A pg : Has(e.span[id], pg) <=> Has(q.span[id], pg)
    BY <2>2 DEF Has
  <2>4. \A X : id \in X /\ Settled(q, X) => Settled(e, X)
    BY <1>13, <1>15, <2>1, Moved
  <2> QED
    BY <2>2, <2>3, <2>4
<1>17. e.committed = h.committed - s.length /\ e.mem = h.mem \ PagesIn(s)
       /\ e.system = h.system /\ e.limit = h.limit /\ e.aggressive = h.aggressive /\ e.fails = h.fails /\ e.scavenge = h.scavenge
  BY <1>7, <1>10, <1>16 DEF Steady, Elsewhere, Rebacked
<1>18. Books(e)
  <2>1. PagesIn(s) \subseteq h.mem
    BY <1>3, <1>4 DEF Settled, MemTrue, PagesIn
  <2>2. h.mem \in SUBSET Pages /\ PagesIn(s) \in SUBSET Pages
    BY <1>4 DEF Shape, Fields, PagesIn
  <2>3. Cardinality(e.mem) = e.committed
    BY <1>4, <1>17, <2>1, <2>2, Fewer, PagesInIs DEF Books
  <2>4. e.mem \union Spanned(e) = h.mem \union Spanned(h)
    <3>1. Spanned(q0) = Spanned(h) /\ q0.mem = h.mem
      BY <1>10 DEF Spanned, Elsewhere
    <3>2. e.mem = q.mem
      BY <1>16 DEF Steady
    <3> QED
      BY <1>13, <1>16, <3>1, <3>2
  <2>5. e.limit # 0 => e.committed <= e.limit
    <3>1. h.committed \in Int /\ h.limit \in Int /\ s.length \in Nat
      <4>1. Fields(h)
        BY <1>4 DEF Shape
      <4>2. h.committed \in Int /\ h.limit \in Int
        BY <4>1 DEF Fields
      <4>3. s.length \in Nat
        BY <1>4 DEF IsSpan
      <4> QED
        BY <4>2, <4>3
    <3> QED
      BY <1>4, <1>17, <3>1 DEF Books
  <2> QED
    BY <1>4, <1>17, <2>3, <2>4, <2>5 DEF Books
<1>19. Hand(e, id, 0)
  <2>1. Backing(e, id)
    BY <1>12, <1>16, <1>17 DEF Backing, PagesIn
  <2> QED
    BY <1>3, <1>12, <1>16, <1>17, <2>1 DEF Hand
<1>20. Good(e, {id})
  BY <1>13, <1>16, <1>18 DEF Good
<1>21. Listing(e, g, id)
  BY <1>1, <1>19, <1>20, Lists
<1>22. h.free \in Int /\ h.unmapped \in Int /\ s.length \in Nat /\ s.length > 0
  BY <1>4 DEF Shape, Fields, IsSpan
<1>23. e.free = h.free - s.length /\ e.unmapped = h.unmapped /\ e.span[id].length = s.length
  <2>1. q0.free = h.free - s.length /\ q0.unmapped = h.unmapped
    BY <1>3, <1>6 DEF Removal
  <2>2. e.free = q.free /\ e.unmapped = q.unmapped
    BY <1>15 DEF Relocated, Remapped
  <2> QED
    BY <1>9, <1>12, <1>16, <2>1, <2>2
<1>24. g.free = h.free - s.length /\ g.free + g.unmapped = h.free + h.unmapped
  <2>1. ~e.aggressive /\ e.span[id].location = Returned
    BY <1>3, <1>16, <1>17
  <2>2. g.free = e.free
    BY <1>21, <2>1 DEF Listing
  <2>3. g.free + g.unmapped = e.free + e.unmapped + e.span[id].length
    BY <1>21 DEF Listing
  <2> QED
    BY <1>22, <1>23, <2>2, <2>3
<1>25. g.unmapped \in Int /\ g.free \in Int
  <2>1. Fields(g)
    BY <1>21 DEF Listing, Good, Shape
  <2> QED
    BY <2>1 DEF Fields
<1>26. Keep(h, g)
  <2>1. Keep(h, e)
    BY <1>3, <1>4, <1>12, <1>16 DEF Keep
  <2>2. Keep(e, g)
    BY <1>21 DEF Listing
  <2> QED
    BY <2>1, <2>2 DEF Keep
<1>27. SameMode(h, g) /\ g.scavenge = h.scavenge
  BY <1>17, <1>21 DEF Listing, SameMode
<1>28. g.unmapped = h.unmapped + s.length
  BY <1>22, <1>24, <1>25, SMTT(30)
<1>29. Good(g, {}) /\ g.free + s.length = h.free
  BY <1>21, <1>22, <1>24 DEF Listing
<1> QED
  BY <1>22, <1>26, <1>27, <1>28, <1>29 DEF GaveBack

\* The state of the loop.
InLoop(h, r) == Good(h, {}) /\ GaveBack(h, r.heap, r.released)

LEMMA OneTurn ==
  ASSUME NEW h, NEW r, InLoop(h, r), NEW num, NEW t, t = ReleaseTurn(r, num)
  PROVE  InLoop(h, t)
<1> DEFINE k == r.heap
           list == IF k.release_index > kMaxPages THEN 0 ELSE k.release_index
           id == k.normal[list][Len(k.normal[list])]
           g == ReleaseLastNormalSpan(k, list)
<1>1. Good(k, {}) /\ IsHeap(k) /\ Fields(k) /\ kMaxPages \in Nat
  BY PagesAssumption DEF InLoop, GaveBack, Good, Shape
<1>2. list \in 0..kMaxPages
  BY <1>1 DEF Fields
<1>3. ASSUME NEW f, NEW n, GaveBack(h, f, n), NEW i \in 0..(kMaxPages + 1), NEW f1, f1 = [f EXCEPT !.release_index = i]
      PROVE  GaveBack(h, f1, n)
  <2>1. IsHeap(f) /\ Fields(f) /\ Good(f, {})
    BY <1>3 DEF GaveBack, Good, Shape
  <2>2. IsHeap(f1) /\ Tally(f, f1) /\ f1.release_index = i /\ f1.scavenge = f.scavenge /\ f1.works = f.works
    BY <1>3, <2>1 DEF IsHeap, Tally
  <2>3. Fields(f1)
    BY <2>1, <2>2 DEF Fields, Tally
  <2>4. Good(f1, {}) /\ Keep(f, f1) /\ SameMode(f, f1)
    BY <2>1, <2>2, <2>3, StayGood
  <2>5. Keep(h, f1) /\ SameMode(h, f1)
    BY <1>3, <2>4 DEF GaveBack, Keep, SameMode
  <2> QED
    BY <1>3, <2>2, <2>4, <2>5 DEF GaveBack, Tally
<1>4. CASE ~r.more \/ r.released >= num \/ (r.turn = 0 /\ k.free = 0)
  <2>1. t.heap = k /\ t.released = r.released
    BY <1>4 DEF ReleaseTurn
  <2> QED
    BY <2>1 DEF InLoop
<1>5. CASE ~(~r.more \/ r.released >= num \/ (r.turn = 0 /\ k.free = 0)) /\ (list = 0 \/ k.normal[list] = <<>>)
  <2>1. t.heap = [k EXCEPT !.release_index = list + 1] /\ t.released = r.released + 0
    BY <1>5 DEF ReleaseTurn
  <2>2. r.released + 0 = r.released /\ list + 1 \in 0..(kMaxPages + 1)
    BY <1>1, <1>2 DEF InLoop, GaveBack
  <2> HIDE DEF list
  <2> QED
    BY <1>3, <2>1, <2>2 DEF InLoop
<1>6. CASE ~(~r.more \/ r.released >= num \/ (r.turn = 0 /\ k.free = 0)) /\ ~(list = 0 \/ k.normal[list] = <<>>)
  <2>1. CASE ~Releases(k)
    <3>1. t.heap = [k EXCEPT !.release_index = list] /\ t.released = r.released
      BY <1>6, <2>1 DEF ReleaseTurn
    <3>2. list \in 0..(kMaxPages + 1)
      BY <1>1, <1>2
    <3> HIDE DEF list
    <3> QED
      BY <1>3, <3>1, <3>2 DEF InLoop
  <2>2. CASE Releases(k)
    <3>1. t.heap = [g EXCEPT !.release_index = list + 1] /\ t.released = r.released + k.span[id].length
      BY <1>6, <2>2 DEF ReleaseTurn
    <3>2. list \in 1..kMaxPages /\ k.normal[list] # <<>> /\ list + 1 \in 0..(kMaxPages + 1)
      BY <1>1, <1>2, <1>6
    <3> HIDE DEF list
    <3>3. GaveBack(k, g, k.span[id].length)
      <4> HIDE DEF g, id, k
      <4>1. g = ReleaseLastNormalSpan(k, list) /\ id = k.normal[list][Len(k.normal[list])]
        BY DEF g, id
      <4> QED
        BY <1>1, <2>2, <3>2, <4>1, LastReleased
    <3> HIDE DEF g, id
    <3>4. GaveBack(h, g, r.released + k.span[id].length)
      <4>1. Keep(h, k) /\ Keep(k, g) /\ SameMode(h, k) /\ SameMode(k, g) /\ Good(g, {})
            /\ k.scavenge = h.scavenge /\ g.scavenge = k.scavenge
        BY <3>3 DEF InLoop, GaveBack
      <4>2. Keep(h, g) /\ SameMode(h, g)
        BY <4>1 DEF Keep, SameMode
      <4>3. /\ r.released \in Nat /\ k.free + r.released = h.free /\ k.unmapped = h.unmapped + r.released
            /\ k.span[id].length \in Nat /\ g.free + k.span[id].length = k.free /\ g.unmapped = k.unmapped + k.span[id].length
        BY <3>3 DEF InLoop, GaveBack
      <4>4. g.free \in Int /\ k.free \in Int /\ k.unmapped \in Int
        BY <1>1, <4>1 DEF Good, Shape, Fields
      <4>5. h.unmapped \in Int /\ h.free \in Int
        BY DEF InLoop, Good, Shape, Fields
      <4> HIDE DEF k
      <4> QED
        BY <4>1, <4>2, <4>3, <4>4, <4>5 DEF GaveBack
    <3> QED
      BY <1>3, <3>1, <3>2, <3>4 DEF InLoop
  <2> QED
    BY <2>1, <2>2
<1> QED
  BY <1>4, <1>5, <1>6

LEMMA HasLeast == ASSUME NEW T \in SUBSET Nat, T # {} PROVE \E x \in T : \A y \in T : x <= y
<1>1. \A a, b \in Nat : a < b => <<a, b>> \in OpToRel(<, Nat)
  BY DEF OpToRel
<1>2. PICK x \in T : \A y \in T : ~(<<y, x>> \in OpToRel(<, Nat))
  BY NatLessThanWellFounded, WFMin
<1>3. \A y \in T : ~(y < x)
  BY <1>1, <1>2
<1> QED
  BY <1>3

\* The loop up to turn n.
LoopTo(h, num, n, f) ==
  /\ DOMAIN f = 0..n
  /\ f[0] = [heap |-> h, released |-> 0, turn |-> 0, more |-> TRUE]
  /\ \A k \in 1..n : f[k] = ReleaseTurn(f[k - 1], num)

LEMMA LoopExists == ASSUME NEW h, NEW num, NEW n \in Nat PROVE \E f : LoopTo(h, num, n, f) /\ f = [k \in 0..n |-> f[k]]
<1> DEFINE T == {m \in 0..n : ~\E f : LoopTo(h, num, m, f) /\ f = [k \in 0..m |-> f[k]]}
<1>1. SUFFICES ASSUME T # {} PROVE FALSE
  OBVIOUS
<1>2. T \in SUBSET Nat
  OBVIOUS
<1>3. PICK m \in T : \A y \in T : m <= y
  <2> HIDE DEF T
  <2> QED
    BY <1>1, <1>2, HasLeast
<1>4. m \in 0..n /\ ~\E f : LoopTo(h, num, m, f) /\ f = [k \in 0..m |-> f[k]]
  OBVIOUS
<1>5. m # 0
  <2> DEFINE f == [k \in 0..0 |-> [heap |-> h, released |-> 0, turn |-> 0, more |-> TRUE]]
  <2>1. LoopTo(h, num, 0, f) /\ f = [k \in 0..0 |-> f[k]]
    BY DEF LoopTo
  <2> HIDE DEF f
  <2> QED
    BY <1>4, <2>1
<1>6. m - 1 \in 0..n /\ m - 1 \notin T
  <2>1. m \in 1..n /\ ~(m <= m - 1)
    BY <1>4, <1>5
  <2> HIDE DEF T
  <2> QED
    BY <1>3, <2>1
<1>7. PICK f : LoopTo(h, num, m - 1, f)
  BY <1>6
<1> DEFINE g == [k \in 0..m |-> IF k = m THEN ReleaseTurn(f[m - 1], num) ELSE f[k]]
<1>8. m \in 1..n
  BY <1>4, <1>5
<1>9. DOMAIN g = 0..m /\ g = [k \in 0..m |-> g[k]]
  OBVIOUS
<1>10. g[0] = [heap |-> h, released |-> 0, turn |-> 0, more |-> TRUE]
  BY <1>7, <1>8 DEF LoopTo
<1>11. ASSUME NEW k \in 1..m PROVE g[k] = ReleaseTurn(g[k - 1], num)
  <2>1. k - 1 \in 0..m /\ k - 1 # m /\ k \in 0..m
    BY <1>8
  <2>2. g[k - 1] = f[k - 1]
    BY <2>1
  <2>3. CASE k = m
    BY <2>1, <2>2, <2>3
  <2>4. CASE k # m
    <3>1. k \in 1..(m - 1)
      BY <1>8, <2>4
    <3>2. f[k] = ReleaseTurn(f[k - 1], num)
      BY <1>7, <3>1 DEF LoopTo
    <3>3. g[k] = f[k]
      BY <2>1, <2>4
    <3> QED
      BY <2>2, <3>2, <3>3
  <2> QED
    BY <2>3, <2>4
<1>12. LoopTo(h, num, m, g)
  <2> HIDE DEF g
  <2> QED
    BY <1>9, <1>10, <1>11 DEF LoopTo
<1> HIDE DEF g
<1> QED
  BY <1>4, <1>9, <1>12

LEMMA LoopKeeps ==
  ASSUME NEW h, Good(h, {}), NEW num, NEW n \in Nat, NEW f, LoopTo(h, num, n, f)
  PROVE  InLoop(h, f[n])
<1> DEFINE T == {m \in 0..n : ~InLoop(h, f[m])}
<1>1. SUFFICES ASSUME T # {} PROVE FALSE
  OBVIOUS
<1>2. T \in SUBSET Nat
  OBVIOUS
<1>3. PICK m \in T : \A y \in T : m <= y
  <2> HIDE DEF T
  <2> QED
    BY <1>1, <1>2, HasLeast
<1>4. m \in 0..n /\ ~InLoop(h, f[m])
  OBVIOUS
<1>5. m # 0
  <2>1. f[0].heap = h /\ f[0].released = 0
    BY DEF LoopTo
  <2>2. h.free \in Int /\ h.unmapped \in Int
    BY DEF Good, Shape, Fields
  <2>3. InLoop(h, f[0])
    BY <2>1, <2>2 DEF InLoop, GaveBack, Keep, SameMode
  <2> QED
    BY <1>4, <2>3
<1>6. m \in 1..n /\ m - 1 \in 0..n /\ m - 1 \notin T
  <2>1. m \in 1..n /\ ~(m <= m - 1)
    BY <1>4, <1>5
  <2> HIDE DEF T
  <2> QED
    BY <1>3, <2>1
<1>7. InLoop(h, f[m - 1])
  BY <1>6
<1>8. f[m] = ReleaseTurn(f[m - 1], num)
  BY <1>6 DEF LoopTo
<1> QED
  BY <1>4, <1>7, <1>8, OneTurn

LEMMA TurnsNat == Turns \in Nat
<1>1. kMaxPages + 1 \in Nat /\ NPages + 1 \in Nat
  BY PagesAssumption
<1>2. \A a, b \in Nat : a * b \in Nat
  OBVIOUS
<1> QED
  BY <1>1, <1>2 DEF Turns

LEMMA Gives ==
  ASSUME NEW h, Good(h, {}), NEW num, NEW r, r = ReleaseAtLeastNPages(h, num)
  PROVE  GaveBack(h, r.heap, r.released)
<1> DEFINE start == [heap |-> h, released |-> 0, turn |-> 0, more |-> TRUE]
           Eq(f) == f = [k \in 0..Turns |-> IF k = 0 THEN start ELSE ReleaseTurn(f[k - 1], num)]
           run == CHOOSE f : Eq(f)
<1>1. r = run[Turns]
  BY DEF ReleaseAtLeastNPages
<1>2. \E f : Eq(f)
  <2>1. PICK f : LoopTo(h, num, Turns, f) /\ f = [k \in 0..Turns |-> f[k]]
    BY TurnsNat, LoopExists, ZenonT(60)
  <2>2. \A k \in 0..Turns : f[k] = IF k = 0 THEN start ELSE ReleaseTurn(f[k - 1], num)
    <3>1. f[0] = start /\ \A k \in 1..Turns : f[k] = ReleaseTurn(f[k - 1], num)
      BY <2>1 DEF LoopTo
    <3> HIDE DEF start
    <3>2. SUFFICES ASSUME NEW k \in 0..Turns PROVE f[k] = IF k = 0 THEN start ELSE ReleaseTurn(f[k - 1], num)
      OBVIOUS
    <3>3. k = 0 \/ k \in 1..Turns
      BY TurnsNat
    <3>4. k \in 1..Turns => k # 0
      BY TurnsNat
    <3> QED
      BY <3>1, <3>3, <3>4
  <2> HIDE DEF start
  <2>3. f = [k \in 0..Turns |-> IF k = 0 THEN start ELSE ReleaseTurn(f[k - 1], num)]
    BY <2>1, <2>2
  <2> QED
    BY <2>3
<1>3. Eq(run)
  BY <1>2
<1> HIDE DEF run
<1>4. LoopTo(h, num, Turns, run)
  <2> HIDE DEF start
  <2>1. DOMAIN run = 0..Turns /\ \A k \in 0..Turns : run[k] = IF k = 0 THEN start ELSE ReleaseTurn(run[k - 1], num)
    BY <1>3, Zenon
  <2>2. run[0] = start /\ \A k \in 1..Turns : run[k] = ReleaseTurn(run[k - 1], num)
    BY <2>1, TurnsNat
  <2> QED
    BY <2>1, <2>2 DEF LoopTo, start
<1> QED
  BY <1>1, <1>4, LoopKeeps, TurnsNat DEF InLoop

\* With no span in hand the books balance.
LEMMA Balanced ==
  ASSUME NEW h, Good(h, {})
  PROVE  /\ h.unmapped + h.committed = h.system
         /\ h.free \in 0..NPages /\ h.unmapped \in 0..NPages /\ h.committed \in 0..NPages /\ h.system \in 0..NPages
<1> DEFINE R == PagesOf(h, {}, Returned)
           N == PagesOf(h, {}, Normal)
<1>1. R \in SUBSET Pages /\ N \in SUBSET Pages /\ h.mem \in SUBSET Pages /\ Spanned(h) \in SUBSET Pages
  BY DEF PagesOf, Good, Shape, Fields, Spanned
<1>2. Out(h, {}) = DOMAIN h.span
  BY DEF Out
<1>3. R \cap h.mem = {}
  BY <1>2 DEF Good, Settled, MemTrue, PagesOf
<1>4. h.mem \union Spanned(h) = R \union h.mem
  BY <1>1, <1>2 DEF Good, Settled, MemTrue, PagesOf, Spanned
<1>5. Cardinality(R \union h.mem) = Cardinality(R) + Cardinality(h.mem)
  BY <1>1, <1>3, More
<1>6. h.unmapped = Cardinality(R) /\ h.committed = Cardinality(h.mem) /\ h.system = Cardinality(h.mem \union Spanned(h))
      /\ h.free = Cardinality(N)
  BY DEF Good, Settled, Counts, Books
<1>7. R \union h.mem \in SUBSET Pages
  BY <1>1
<1>8. Cardinality(R) \in 0..NPages /\ Cardinality(h.mem) \in 0..NPages /\ Cardinality(R \union h.mem) \in 0..NPages
      /\ Cardinality(N) \in 0..NPages
  BY <1>1, <1>7, Counted
<1>9. h.system = Cardinality(R \union h.mem)
  BY <1>4, <1>6
<1> QED
  BY <1>5, <1>6, <1>8, <1>9

\* What no search and no release disturbs.
Kept(h, g) == Good(g, {}) /\ Keep(h, g) /\ SameMode(h, g) /\ g.scavenge = h.scavenge

LEMMA KeptTwice == ASSUME NEW h, NEW g, NEW f, Kept(h, g), Kept(g, f) PROVE Kept(h, f)
BY DEF Kept, Keep, SameMode

LEMMA Ensured ==
  ASSUME NEW h, Good(h, {}), NEW n \in Nat, NEW e, e = EnsureLimit(h, n)
  PROVE  /\ Kept(h, e.heap) /\ (e.ok => WithinLimitNow(e.heap, n)) /\ (h.limit = 0 => e.heap = h)
         /\ WithinLimitNow(h, n) => e.heap = h /\ e.ok
<1>1. CASE WithinLimitNow(h, n)
  <2>1. e.heap = h /\ e.ok
    BY <1>1 DEF EnsureLimit
  <2>2. Kept(h, h)
    BY DEF Kept, Keep, SameMode
  <2> QED
    BY <1>1, <2>1, <2>2
<1>2. CASE ~WithinLimitNow(h, n)
  <2> DEFINE over == h.system - h.unmapped + n - h.limit
             r == ReleaseAtLeastNPages(h, over)
  <2>1. e = [heap |-> r.heap, ok |-> r.released >= over]
    BY <1>2 DEF EnsureLimit, Enough
  <2>2. GaveBack(h, r.heap, r.released)
    BY Gives
  <2> HIDE DEF r
  <2>3. e.heap = r.heap
    BY <2>1
  <2>3a. e.ok => r.released >= over
    <3> DEFINE enough == r.released >= over
    <3>1. e = [heap |-> r.heap, ok |-> enough]
      BY <2>1
    <3> HIDE DEF enough
    <3>2. e.ok = enough
      BY <3>1
    <3> QED
      BY <3>2 DEF enough
  <2>4. Kept(h, e.heap)
    BY <2>2, <2>3 DEF GaveBack, Kept
  <2>5. ASSUME e.ok PROVE WithinLimitNow(e.heap, n)
    <3>1. r.released \in Nat /\ r.heap.unmapped = h.unmapped + r.released /\ r.heap.system = h.system /\ r.heap.limit = h.limit
      BY <2>2 DEF GaveBack, SameMode
    <3>2. h.system \in Int /\ h.unmapped \in Int /\ h.limit \in Int
      BY DEF Good, Shape, Fields
    <3> QED
      BY <2>3, <2>3a, <2>5, <3>1, <3>2 DEF WithinLimitNow
  <2>6. h.limit # 0
    BY <1>2 DEF WithinLimitNow
  <2> QED
    BY <1>2, <2>4, <2>5, <2>6
<1> QED
  BY <1>1, <1>2

-----------------------------------------------------------------------------
(* Cutting a span in two.                                                   *)

\* There is a descriptor for a new span.
LEMMA Fresh ==
  ASSUME NEW h, Shape(h), Apart(h), NEW pg \in Pages, \A a \in DOMAIN h.span : h.span[a].start # pg
  PROVE  NewSpanId(h, pg) \in Ids /\ NewSpanId(h, pg) \notin DOMAIN h.span
<1>1. CASE pg \notin DOMAIN h.span
  BY <1>1 DEF NewSpanId, Ids, Pages
<1>2. CASE pg \in DOMAIN h.span
  <2>1. ASSUME DOMAIN h.span = Ids PROVE FALSE
    <3> DEFINE f == [a \in Ids |-> h.span[a].start]
               T == Pages \ {pg}
    <3>1. IsFiniteSet(Ids) /\ Cardinality(Ids) = NPages
      BY PagesFinite DEF Pages, Ids
    <3>2. IsFiniteSet(T) /\ Cardinality(T) = NPages - 1
      BY PagesFinite, FS_RemoveElement
    <3>3. \A a \in Ids : h.span[a].start \in T
      <4>1. SUFFICES ASSUME NEW a \in Ids PROVE h.span[a].start \in T
        OBVIOUS
      <4>2. IsSpan(h.span[a]) /\ h.span[a].start # pg
        BY <2>1 DEF Shape
      <4> QED
        BY <4>2, PagesFinite DEF IsSpan, Pages
    <3>4. f \in [Ids -> T]
      BY <3>3
    <3>5. Cardinality(T) < Cardinality(Ids)
      BY <3>1, <3>2, PagesFinite
    <3> HIDE DEF T
    <3>6. PICK x \in Ids, y \in Ids : x # y /\ f[x] = f[y]
      <4> HIDE DEF f
      <4> QED
        BY <3>1, <3>2, <3>4, <3>5, FS_PigeonHole
    <3>7. h.span[x].start = h.span[y].start /\ IsSpan(h.span[x]) /\ IsSpan(h.span[y])
      BY <2>1, <3>6 DEF Shape
    <3>8. Before(h.span[x], h.span[y]) \/ Before(h.span[y], h.span[x])
      BY <2>1, <3>6 DEF Apart
    <3> QED
      BY <3>7, <3>8 DEF Before, IsSpan
  <2>2. \E id \in Ids \ DOMAIN h.span : TRUE
    BY <2>1 DEF Shape
  <2>3. NewSpanId(h, pg) = CHOOSE id \in Ids \ DOMAIN h.span : TRUE
    BY <1>2 DEF NewSpanId
  <2> QED
    BY <2>2, <2>3
<1> QED
  BY <1>1, <1>2

Cutting(h, g, id, n, left, location) ==
  LET s == h.span[id]
      mid == s.start + n
  IN /\ IsHeap(g) /\ Remapped(h, g)
     /\ g.span = [i \in DOMAIN h.span \union {left} |->
                    IF i = left THEN [start |-> mid, length |-> s.length - n, location |-> location, sizeclass |-> 0]
                    ELSE IF i = id THEN [start |-> s.start, length |-> n, location |-> s.location, sizeclass |-> s.sizeclass]
                    ELSE h.span[i]]
     /\ g.pagemap = [[[h.pagemap EXCEPT ![s.start + n - 1] = id] EXCEPT ![mid] = left] EXCEPT ![(mid + (s.length - n)) - 1] = left]

LEMMA Shortened ==
  ASSUME NEW s, s = [start |-> s.start, length |-> s.length, location |-> s.location, sizeclass |-> s.sizeclass],
         NEW n, NEW t, t = [s EXCEPT !.length = n]
  PROVE  t = [start |-> s.start, length |-> n, location |-> s.location, sizeclass |-> s.sizeclass]
OBVIOUS

LEMMA RecordIs ==
  ASSUME NEW h, NEW id, IsHeap(h), NEW first, first = h.span[id].start, NEW last, last = EndOf(h.span[id]) - 1,
         NEW g, g = RecordSpan(h, id)
  PROVE  /\ IsHeap(g) /\ Remapped(h, g) /\ g.span = h.span
         /\ g.pagemap = [[h.pagemap EXCEPT ![first] = id] EXCEPT ![last] = id]
<1> DEFINE m == [h.pagemap EXCEPT ![first] = id, ![last] = id]
<1>1. g = [h EXCEPT !.pagemap = m]
  BY DEF RecordSpan
<1>2. m = [[h.pagemap EXCEPT ![first] = id] EXCEPT ![last] = id]
  OBVIOUS
<1> HIDE DEF m
<1>3. IsHeap(g) /\ Remapped(h, g) /\ g.span = h.span /\ g.pagemap = m
  BY <1>1 DEF IsHeap, Remapped
<1> QED
  BY <1>2, <1>3

\* Span id is new.
Newer(h, g, id, s) ==
  /\ IsHeap(g) /\ Remapped(h, g) /\ g.pagemap = h.pagemap
  /\ DOMAIN g.span = DOMAIN h.span \union {id} /\ g.span = [i \in DOMAIN g.span |-> g.span[i]]
  /\ g.span[id] = s /\ \A i \in DOMAIN h.span : i # id => g.span[i] = h.span[i]

LEMMA NewIs == ASSUME NEW h, NEW id, NEW s, IsHeap(h), NEW g, g = NewSpan(h, id, s) PROVE Newer(h, g, id, s)
<1> DEFINE m == [i \in DOMAIN h.span \union {id} |-> IF i = id THEN s ELSE h.span[i]]
<1>1. g = [h EXCEPT !.span = m]
  BY DEF NewSpan
<1>2. DOMAIN m = DOMAIN h.span \union {id} /\ m = [i \in DOMAIN m |-> m[i]]
      /\ m[id] = s /\ \A i \in DOMAIN h.span : i # id => m[i] = h.span[i]
  OBVIOUS
<1> HIDE DEF m
<1>3. IsHeap(g) /\ Remapped(h, g) /\ g.pagemap = h.pagemap /\ g.span = m
  BY <1>1 DEF IsHeap, Remapped
<1> QED
  BY <1>2, <1>3 DEF Newer

LEMMA CutIs ==
  ASSUME NEW h, NEW id, NEW n, NEW left, NEW location, Shape(h), id \in DOMAIN h.span, left \notin DOMAIN h.span,
         NEW g, g = Cut(h, id, n, left, location)
  PROVE  Cutting(h, g, id, n, left, location)
<1> DEFINE s == h.span[id]
           mid == s.start + n
           short == [s EXCEPT !.length = n]
           h1 == [h EXCEPT !.span[id].length = n, !.pagemap[s.start + n - 1] = id]
           t == [start |-> mid, length |-> s.length - n, location |-> location, sizeclass |-> 0]
           k == NewSpan(h1, left, t)
<1>0. g = RecordSpan(k, left)
  BY DEF Cut
<1>1. g = RecordSpan(k, left) /\ IsHeap(h) /\ IsSpan(s)
  BY <1>0 DEF Shape
<1>2. h1.span = [h.span EXCEPT ![id] = short] /\ h1.pagemap = [h.pagemap EXCEPT ![s.start + n - 1] = id]
      /\ IsHeap(h1) /\ Remapped(h, h1)
  <2> DEFINE p == s.start + n - 1
  <2>1. \E x : x = h1
    OBVIOUS
  <2>2. PICK x : x = h1
    BY <2>1
  <2>3. x = [h EXCEPT !.span[id].length = n, !.pagemap[p] = id]
    BY <2>2
  <2>4. IsHeap(x) /\ Remapped(h, x)
    <3> HIDE DEF p
    <3> QED
      BY <1>1, <2>3 DEF IsHeap, Remapped
  <2>5. x.span = [h.span EXCEPT ![id] = short] /\ x.pagemap = [h.pagemap EXCEPT ![p] = id]
    <3> HIDE DEF p
    <3> QED
      BY <1>1, <2>3 DEF IsHeap
  <2> QED
    BY <2>2, <2>4, <2>5
<1>3. short = [start |-> s.start, length |-> n, location |-> s.location, sizeclass |-> s.sizeclass]
  <2>1. s = [start |-> s.start, length |-> s.length, location |-> s.location, sizeclass |-> s.sizeclass]
    BY <1>1 DEF IsSpan
  <2>2. \E v : v = short
    OBVIOUS
  <2>3. PICK v : v = short
    BY <2>2
  <2>4. v = [s EXCEPT !.length = n]
    BY <2>3
  <2> HIDE DEF short, s
  <2> QED
    BY <2>1, <2>3, <2>4, Shortened
<1> HIDE DEF h1
<1>4. /\ IsHeap(k) /\ Remapped(h1, k) /\ k.pagemap = h1.pagemap
      /\ DOMAIN k.span = DOMAIN h1.span \union {left} /\ k.span = [i \in DOMAIN k.span |-> k.span[i]]
      /\ k.span[left] = t /\ \A i \in DOMAIN h1.span : i # left => k.span[i] = h1.span[i]
  <2>1. k = NewSpan(h1, left, t)
    OBVIOUS
  <2> HIDE DEF k, t
  <2> QED
    BY <1>2, <2>1, NewIs DEF Newer
<1> HIDE DEF k
<1>5. k.span[left] = t /\ t.start = mid /\ EndOf(t) = mid + (s.length - n)
  BY <1>4 DEF EndOf
<1>5a. EndOf(t) - 1 = (mid + (s.length - n)) - 1
  <2> HIDE DEF t, mid, s
  <2> QED
    BY <1>5, Zenon
<1>6. /\ IsHeap(g) /\ Remapped(k, g) /\ g.span = k.span
      /\ g.pagemap = [[k.pagemap EXCEPT ![mid] = left] EXCEPT ![(mid + (s.length - n)) - 1] = left]
  <2>1. k.span[left].start = mid /\ EndOf(k.span[left]) - 1 = (mid + (s.length - n)) - 1
    <3>1. k.span[left] = t /\ EndOf(t) - 1 = (mid + (s.length - n)) - 1 /\ t.start = mid
      BY <1>5, <1>5a, Zenon
    <3> HIDE DEF t, mid, s
    <3> QED
      BY <3>1
  <2> HIDE DEF mid, s
  <2> QED
    BY <1>1, <1>4, <2>1, RecordIs
<1>7. Remapped(h, g)
  BY <1>2, <1>4, <1>6 DEF Remapped
<1>8. g.span = [i \in DOMAIN h.span \union {left} |-> IF i = left THEN t ELSE IF i = id THEN short ELSE h.span[i]]
  <2>1. DOMAIN h1.span = DOMAIN h.span /\ \A i \in DOMAIN h.span : h1.span[i] = IF i = id THEN short ELSE h.span[i]
    <3> HIDE DEF short
    <3> QED
      BY <1>2 DEF Shape
  <2> HIDE DEF short, t
  <2> QED
    BY <1>4, <1>6, <2>1
<1> QED
  BY <1>2, <1>3, <1>4, <1>6, <1>7, <1>8 DEF Cutting

\* Span id may be cut behind its first n pages, the rest going to left.
MayCut(h, id, n, left) ==
  /\ Shape(h) /\ Tiling(h) /\ id \in DOMAIN h.span /\ h.span[id].sizeclass = 0
  /\ n \in Nat /\ n > 0 /\ n < h.span[id].length /\ left \in Ids /\ left \notin DOMAIN h.span

LEMMA Parted ==
  ASSUME NEW h, NEW id, NEW n, NEW left, NEW location \in {InUse, Normal, Returned}, MayCut(h, id, n, left),
         NEW g, Cutting(h, g, id, n, left, location)
  PROVE  /\ Shape(g) /\ Tiling(g) /\ Spanned(g) = Spanned(h) /\ Steady(h, g)
         /\ DOMAIN g.span = DOMAIN h.span \union {left} /\ id # left
         /\ \A a \in DOMAIN h.span : a # id => g.span[a] = h.span[a]
         /\ g.span[id].start = h.span[id].start /\ g.span[id].length = n
         /\ g.span[id].location = h.span[id].location /\ g.span[id].sizeclass = 0
         /\ g.span[left].start = h.span[id].start + n /\ g.span[left].length = h.span[id].length - n
         /\ g.span[left].location = location /\ g.span[left].sizeclass = 0
         /\ \A pg \in Int : Has(h.span[id], pg) <=> Has(g.span[id], pg) \/ Has(g.span[left], pg)
         /\ \A X : id \in X /\ Settled(h, X) => Settled(g, X \union {left})
<1> DEFINE s == h.span[id]
           mid == s.start + n
           u == [start |-> s.start, length |-> n, location |-> s.location, sizeclass |-> s.sizeclass]
           t == [start |-> mid, length |-> s.length - n, location |-> location, sizeclass |-> 0]
           end == (mid + (s.length - n)) - 1
           cut == s.start + n - 1
<1>1. /\ Shape(h) /\ Tiling(h) /\ id \in DOMAIN h.span /\ s.sizeclass = 0 /\ id # left
      /\ n \in Nat /\ n > 0 /\ n < s.length /\ left \in Ids /\ left \notin DOMAIN h.span
  BY DEF MayCut
<1>2. IsSpan(s)
  BY <1>1 DEF Shape
<1>3. IsHeap(g) /\ Remapped(h, g) /\ g.pagemap = [[[h.pagemap EXCEPT ![cut] = id] EXCEPT ![mid] = left] EXCEPT ![end] = left]
      /\ g.span = [i \in DOMAIN h.span \union {left} |-> IF i = left THEN t ELSE IF i = id THEN u ELSE h.span[i]]
  BY DEF Cutting
<1>4. DOMAIN g.span = DOMAIN h.span \union {left} /\ g.span[id] = u /\ g.span[left] = t
      /\ \A a \in DOMAIN h.span : a # id => g.span[a] = h.span[a]
  BY <1>1, <1>3
<1>5. /\ u.start = s.start /\ u.length = n /\ u.location = s.location /\ u.sizeclass = 0
      /\ t.start = mid /\ t.length = s.length - n /\ t.location = location /\ t.sizeclass = 0
  BY <1>1
<1>6. IsSpan(u) /\ IsSpan(t) /\ mid \in Int
  <2>1. u = [start |-> u.start, length |-> u.length, location |-> u.location, sizeclass |-> u.sizeclass]
    OBVIOUS
  <2>2. t = [start |-> t.start, length |-> t.length, location |-> t.location, sizeclass |-> t.sizeclass]
    OBVIOUS
  <2> HIDE DEF u, t
  <2>3. s.location \in {InUse, Normal, Returned} /\ s.start \in Nat /\ s.length \in Nat /\ s.start + s.length <= NPages + 1 /\ s.start > 0
    BY <1>2 DEF IsSpan
  <2>4. /\ u.start \in Nat /\ u.start > 0 /\ u.length \in Nat /\ u.length > 0 /\ u.start + u.length <= NPages + 1
        /\ t.start \in Nat /\ t.start > 0 /\ t.length \in Nat /\ t.length > 0 /\ t.start + t.length <= NPages + 1
    BY <1>1, <1>5, <2>3, PagesFinite
  <2> QED
    BY <1>1, <1>5, <2>1, <2>2, <2>3, <2>4 DEF IsSpan
<1>7. /\ cut \in 0..(NPages + 1) /\ mid \in 0..(NPages + 1) /\ end \in 0..(NPages + 1) /\ s.start \in 0..(NPages + 1)
      /\ cut = u.start + u.length - 1 /\ end = t.start + t.length - 1 /\ end = s.start + s.length - 1
      /\ Has(s, cut) /\ Has(s, mid) /\ Has(s, end) /\ cut < mid /\ s.start <= cut /\ mid <= end
  BY <1>1, <1>2, <1>5, PagesFinite DEF IsSpan, Has
<1>8. \A pg \in Int : Has(s, pg) <=> Has(u, pg) \/ Has(t, pg)
  BY <1>1, <1>2, <1>5 DEF IsSpan, Has
<1> HIDE DEF u, t, cut, mid, end
<1>9. h.pagemap \in [0..(NPages + 1) -> Ids \union {NULL}] /\ id \in Ids
  BY <1>1 DEF Shape, Fields
<1>10. g.pagemap \in [0..(NPages + 1) -> Ids \union {NULL}] /\
       \A pg \in 0..(NPages + 1) : g.pagemap[pg] = IF pg = mid \/ pg = end THEN left ELSE IF pg = cut THEN id ELSE h.pagemap[pg]
  <2> DEFINE m == [h.pagemap EXCEPT ![cut] = id]
             k == [m EXCEPT ![mid] = left]
  <2>1. m \in [0..(NPages + 1) -> Ids \union {NULL}] /\ \A pg \in 0..(NPages + 1) : m[pg] = IF pg = cut THEN id ELSE h.pagemap[pg]
    BY <1>7, <1>9, Entered
  <2>2. g.pagemap = [k EXCEPT ![end] = left]
    BY <1>3
  <2> HIDE DEF m
  <2>3. k \in [0..(NPages + 1) -> Ids \union {NULL}] /\ \A pg \in 0..(NPages + 1) : k[pg] = IF pg = mid THEN left ELSE m[pg]
    BY <1>1, <1>7, <2>1, Entered
  <2> HIDE DEF k
  <2>4. g.pagemap \in [0..(NPages + 1) -> Ids \union {NULL}]
        /\ \A pg \in 0..(NPages + 1) : g.pagemap[pg] = IF pg = end THEN left ELSE k[pg]
    BY <1>1, <1>7, <2>2, <2>3, Entered
  <2> QED
    BY <2>1, <2>3, <2>4
<1>11. Shape(g)
  <2>1. Fields(g)
    BY <1>1, <1>3, <1>10 DEF Fields, Remapped, Shape
  <2>2. DOMAIN g.span \subseteq Ids /\ g.span = [i \in DOMAIN g.span |-> g.span[i]]
    BY <1>1, <1>3, <1>4 DEF Shape
  <2>3. \A a \in DOMAIN g.span : IsSpan(g.span[a])
    BY <1>1, <1>4, <1>6 DEF Shape
  <2> QED
    BY <1>3, <2>1, <2>2, <2>3 DEF Shape
<1>12. Apart(g)
  <2>1. ASSUME NEW a \in DOMAIN h.span, a # id
        PROVE  (Before(g.span[a], u) \/ Before(u, g.span[a])) /\ (Before(g.span[a], t) \/ Before(t, g.span[a]))
    <3>1. g.span[a] = h.span[a] /\ IsSpan(h.span[a])
      BY <1>1, <1>4, <2>1 DEF Shape
    <3>2. Before(h.span[a], s) \/ Before(s, h.span[a])
      BY <1>1, <2>1 DEF Tiling, Apart
    <3> QED
      BY <1>1, <1>2, <1>5, <1>6, <1>7, <3>1, <3>2 DEF Before, IsSpan
  <2>2. Before(u, t)
    BY <1>1, <1>2, <1>5, <1>6, <1>7 DEF Before, IsSpan
  <2>3. ASSUME NEW a \in DOMAIN h.span, NEW b \in DOMAIN h.span, a # b, a # id, b # id
        PROVE  Before(g.span[a], g.span[b]) \/ Before(g.span[b], g.span[a])
    BY <1>1, <1>4, <2>3 DEF Tiling, Apart
  <2> QED
    BY <1>4, <2>1, <2>2, <2>3 DEF Apart
<1>13. Mapped(g)
  <2>1. ASSUME NEW a \in DOMAIN h.span, a # id
        PROVE  /\ g.pagemap[g.span[a].start] = a /\ g.pagemap[g.span[a].start + g.span[a].length - 1] = a
               /\ g.span[a].sizeclass # 0 =>
                    g.span[a].location = InUse /\ \A pg \in 0..(NPages + 1) : Has(g.span[a], pg) => g.pagemap[pg] = a
    <3>1. g.span[a] = h.span[a] /\ IsSpan(h.span[a])
      BY <1>1, <1>4, <2>1 DEF Shape
    <3>2. ~Has(h.span[a], cut) /\ ~Has(h.span[a], mid) /\ ~Has(h.span[a], end)
      BY <1>1, <1>7, <2>1, OneOwner DEF Tiling
    <3>3. \A pg \in 0..(NPages + 1) : Has(h.span[a], pg) => g.pagemap[pg] = h.pagemap[pg]
      BY <1>10, <3>2
    <3>4. /\ Has(h.span[a], h.span[a].start) /\ Has(h.span[a], h.span[a].start + h.span[a].length - 1)
          /\ h.span[a].start \in 0..(NPages + 1) /\ h.span[a].start + h.span[a].length - 1 \in 0..(NPages + 1)
      BY <3>1, PagesFinite DEF Has, IsSpan
    <3>5. /\ h.pagemap[h.span[a].start] = a /\ h.pagemap[h.span[a].start + h.span[a].length - 1] = a
          /\ h.span[a].sizeclass # 0 =>
               h.span[a].location = InUse /\ \A pg \in 0..(NPages + 1) : Has(h.span[a], pg) => h.pagemap[pg] = a
      BY <1>1 DEF Tiling, Mapped
    <3> QED
      BY <3>1, <3>3, <3>4, <3>5
  <2>2. g.pagemap[u.start] = id /\ g.pagemap[u.start + u.length - 1] = id
    <3>1. h.pagemap[s.start] = id
      BY <1>1 DEF Tiling, Mapped
    <3>2. g.pagemap[cut] = id
      BY <1>7, <1>10, <1>6
    <3>3. s.start # mid /\ s.start # end
      BY <1>2, <1>6, <1>7 DEF IsSpan
    <3>4. g.pagemap[s.start] = id
      BY <1>7, <1>10, <3>1, <3>3
    <3> QED
      BY <1>5, <1>7, <3>2, <3>4
  <2>3. g.pagemap[t.start] = left /\ g.pagemap[t.start + t.length - 1] = left
    BY <1>5, <1>7, <1>10
  <2> QED
    BY <1>4, <1>5, <2>1, <2>2, <2>3 DEF Mapped
<1>14. Located(g)
  <2>1. SUFFICES ASSUME NEW pg \in 0..(NPages + 1), g.pagemap[pg] # NULL PROVE \E a \in DOMAIN g.span : Has(g.span[a], pg)
    BY DEF Located
  <2>2. CASE Has(s, pg)
    BY <1>1, <1>4, <1>8, <2>2
  <2>3. CASE ~Has(s, pg)
    <3>1. h.pagemap[pg] # NULL
      BY <1>7, <1>10, <2>1, <2>3
    <3>2. PICK a \in DOMAIN h.span : Has(h.span[a], pg)
      BY <1>1, <3>1 DEF Tiling, Located
    <3> QED
      BY <1>4, <2>3, <3>2
  <2> QED
    BY <2>2, <2>3
<1>15. Spanned(g) = Spanned(h)
  <2>1. ASSUME NEW pg \in Pages PROVE (\E a \in DOMAIN g.span : Has(g.span[a], pg)) <=> \E a \in DOMAIN h.span : Has(h.span[a], pg)
    <3>1. pg \in Int
      BY DEF Pages
    <3> QED
      BY <1>1, <1>4, <1>8, <3>1
  <2> QED
    BY <2>1 DEF Spanned
<1>16. ASSUME NEW X, id \in X, Settled(h, X) PROVE Settled(g, X \union {left})
  <2>1. Out(g, X \union {left}) = Out(h, X)
    BY <1>1, <1>4 DEF Out
  <2>2. Undisturbed(h, X, g, X \union {left})
    BY <1>3, <1>4, <1>16, <2>1 DEF Undisturbed, Out, Remapped
  <2> QED
    BY <1>16, <2>2, StaySettled
<1>17. Steady(h, g)
  BY <1>3 DEF Remapped, Steady
<1> QED
  BY <1>1, <1>4, <1>5, <1>8, <1>11, <1>12, <1>13, <1>14, <1>15, <1>16, <1>17 DEF Tiling, mid

-----------------------------------------------------------------------------
(* Allocation.                                                              *)

\* The free span id can give n pages.
MayCarve(h, id, n) ==
  /\ Good(h, {}) /\ id \in DOMAIN h.span /\ h.span[id].location # InUse
  /\ n \in Nat /\ n > 0 /\ n <= h.span[id].length
  /\ h.span[id].location = Returned => WithinLimitNow(h, n)

\* Span id in hand and in use, with the first n pages it had in h.
Carving(h, g, id, n) ==
  /\ Shape(g) /\ Tiling(g) /\ Settled(g, {id}) /\ Spanned(g) = Spanned(h) /\ Steady(h, g) /\ Keep(h, g)
  /\ id \in DOMAIN g.span /\ g.span[id].location = InUse /\ g.span[id].length = n
  /\ \A pg \in Pages : Has(g.span[id], pg) => Has(h.span[id], pg)

LEMMA Taken ==
  ASSUME NEW h, NEW id, NEW n, MayCarve(h, id, n), NEW g, g = Relocate(RemoveFromFreeList(h, id), id, InUse)
  PROVE  /\ Carving(h, g, id, h.span[id].length) /\ DOMAIN g.span = DOMAIN h.span /\ g.span[id].sizeclass = 0
         /\ g.span[id].start = h.span[id].start /\ \A a \in DOMAIN h.span : a # id => g.span[a] = h.span[a]
<1> DEFINE f == RemoveFromFreeList(h, id)
<1>1. /\ Shape(h) /\ Tiling(h) /\ Settled(h, {}) /\ id \in DOMAIN h.span /\ id \in Out(h, {}) /\ h.span[id].location # InUse
      /\ h.span[id].sizeclass = 0 /\ IsHeap(h)
  BY DEF MayCarve, Good, Out, Tiling, Mapped, Shape
<1>2. Removal(h, f, id)
  BY <1>1, RemoveIs
<1>3. g = Relocate(f, id, InUse)
  OBVIOUS
<1> HIDE DEF f
<1>4. Shape(f) /\ Tiling(f) /\ Settled(f, {} \union {id}) /\ f.span = h.span /\ Steady(h, f)
  <2>1. f.span = h.span /\ Steady(h, f)
    BY <1>2 DEF Removal, Elsewhere, Steady
  <2> QED
    BY <1>1, <1>2, <2>1, Removed
<1>5. Relocated(f, g, id, InUse)
  BY <1>1, <1>3, <1>4, RelocateIs
<1>6. /\ Shape(g) /\ Tiling(g) /\ Spanned(g) = Spanned(f) /\ DOMAIN g.span = DOMAIN f.span /\ Steady(f, g)
      /\ \A a \in DOMAIN f.span : a # id => g.span[a] = f.span[a]
      /\ g.span[id].start = f.span[id].start /\ g.span[id].length = f.span[id].length
      /\ g.span[id].sizeclass = 0 /\ g.span[id].location = InUse
      /\ \A pg : Has(g.span[id], pg) <=> Has(f.span[id], pg)
      /\ \A X : id \in X /\ Settled(f, X) => Settled(g, X)
  <2>1. id \in DOMAIN f.span /\ f.span[id].sizeclass = 0 /\ InUse \in {InUse, Normal, Returned}
    BY <1>1, <1>4
  <2>2. /\ Shape(g) /\ Tiling(g) /\ Spanned(g) = Spanned(f) /\ DOMAIN g.span = DOMAIN f.span /\ Steady(f, g)
        /\ \A a \in DOMAIN f.span : a # id => g.span[a] = f.span[a]
        /\ g.span[id].start = f.span[id].start /\ g.span[id].length = f.span[id].length
        /\ g.span[id].sizeclass = 0 /\ g.span[id].location = InUse
    BY <1>4, <1>5, <2>1, Moved
  <2>3. \A pg : Has(g.span[id], pg) <=> Has(f.span[id], pg)
    BY <2>2 DEF Has
  <2>4. \A X : id \in X /\ Settled(f, X) => Settled(g, X)
    BY <1>4, <1>5, <2>1, Moved
  <2> QED
    BY <2>2, <2>3, <2>4
<1>7. Settled(g, {id})
  <2>1. {} \union {id} = {id}
    OBVIOUS
  <2> QED
    BY <1>4, <1>6, <2>1
<1>8. Spanned(g) = Spanned(h)
  BY <1>4, <1>6 DEF Spanned
<1>9. Steady(h, g)
  BY <1>4, <1>6 DEF Steady
<1>10. Keep(h, g)
  BY <1>1, <1>4, <1>6 DEF Keep
<1> QED
  BY <1>1, <1>4, <1>6, <1>7, <1>8, <1>9, <1>10 DEF Carving

LEMMA CutOff ==
  ASSUME NEW h, NEW id, NEW n, MayCarve(h, id, n), n < h.span[id].length, NEW left, left = NewSpanId(h, h.span[id].start + n),
         NEW f, f = Relocate(RemoveFromFreeList(h, id), id, InUse),
         NEW g, g = PrependToFreeList(Cut(f, id, n, left, h.span[id].location), left)
  PROVE  Carving(h, g, id, n)
<1> DEFINE s == h.span[id]
           k == Cut(f, id, n, left, s.location)
<1>1. /\ Shape(h) /\ Tiling(h) /\ Settled(h, {}) /\ id \in DOMAIN h.span /\ s.location # InUse /\ IsSpan(s)
      /\ n \in Nat /\ n > 0 /\ n < s.length
  BY DEF MayCarve, Good, Shape
<1>2. /\ Shape(f) /\ Tiling(f) /\ Settled(f, {id}) /\ Spanned(f) = Spanned(h) /\ Steady(h, f) /\ Keep(h, f)
      /\ f.span[id].location = InUse /\ f.span[id].length = s.length
      /\ DOMAIN f.span = DOMAIN h.span /\ f.span[id].sizeclass = 0
      /\ f.span[id].start = s.start /\ \A a \in DOMAIN h.span : a # id => f.span[a] = h.span[a]
  <2>1. /\ Carving(h, f, id, s.length) /\ DOMAIN f.span = DOMAIN h.span /\ f.span[id].sizeclass = 0
        /\ f.span[id].start = s.start /\ \A a \in DOMAIN h.span : a # id => f.span[a] = h.span[a]
    BY Taken
  <2> HIDE DEF s
  <2> QED
    BY <2>1 DEF Carving
<1>3. left \in Ids /\ left \notin DOMAIN h.span
  <2>1. s.start + n \in Pages /\ s.start + n \in Int /\ Has(s, s.start + n)
    BY <1>1, PagesFinite DEF IsSpan, Pages, Has
  <2>2. \A a \in DOMAIN h.span : h.span[a].start # s.start + n
    <3>1. SUFFICES ASSUME NEW a \in DOMAIN h.span, h.span[a].start = s.start + n PROVE FALSE
      OBVIOUS
    <3>2. IsSpan(h.span[a])
      BY <1>1 DEF Shape
    <3>3. a # id /\ Has(h.span[a], s.start + n)
      BY <1>1, <3>1, <3>2 DEF IsSpan, Has
    <3> QED
      BY <1>1, <2>1, <3>3, OneOwner DEF Tiling
  <2> HIDE DEF s
  <2> QED
    BY <1>1, <2>1, <2>2, Fresh DEF Tiling, s
<1>4. Cutting(f, k, id, n, left, s.location)
  BY <1>1, <1>2, <1>3, CutIs
<1>5. MayCut(f, id, n, left) /\ s.location \in {InUse, Normal, Returned}
  BY <1>1, <1>2, <1>3 DEF MayCut, IsSpan
<1>6. g = PrependToFreeList(k, left)
  OBVIOUS
<1> HIDE DEF k
<1>7. /\ Shape(k) /\ Tiling(k) /\ Spanned(k) = Spanned(f) /\ Steady(f, k)
      /\ DOMAIN k.span = DOMAIN f.span \union {left} /\ id # left
      /\ \A a \in DOMAIN f.span : a # id => k.span[a] = f.span[a]
      /\ k.span[id].start = f.span[id].start /\ k.span[id].length = n
      /\ k.span[id].location = f.span[id].location /\ k.span[id].sizeclass = 0
      /\ k.span[left].start = f.span[id].start + n /\ k.span[left].length = f.span[id].length - n
      /\ k.span[left].location = s.location /\ k.span[left].sizeclass = 0
      /\ \A pg \in Int : Has(f.span[id], pg) <=> Has(k.span[id], pg) \/ Has(k.span[left], pg)
      /\ \A X : id \in X /\ Settled(f, X) => Settled(k, X \union {left})
  BY <1>4, <1>5, Parted
<1>8. Settled(k, {id, left})
  <2>1. {id} \union {left} = {id, left}
    OBVIOUS
  <2> QED
    BY <1>2, <1>7, <2>1
<1>9. \A pg \in Pages : Has(k.span[id], pg) \/ Has(k.span[left], pg) => Has(s, pg)
  <2>1. \A pg : Has(f.span[id], pg) => Has(s, pg)
    BY <1>2 DEF Has
  <2> QED
    BY <1>7, <2>1 DEF Pages
<1>10. k.mem = h.mem /\ k.aggressive = h.aggressive
  BY <1>2, <1>7 DEF Steady
<1>11. Backing(k, left)
  <2>1. \A pg \in Pages : Has(s, pg) => (pg \in h.mem <=> s.location # Returned)
    BY <1>1 DEF Settled, MemTrue, Out
  <2> QED
    BY <1>7, <1>9, <1>10, <2>1 DEF Backing
<1>12. Alone(k, {id, left}, left)
  <2>1. SUFFICES ASSUME NEW a \in Out(k, {id, left}),
                        k.span[a].start + k.span[a].length = k.span[left].start
                          \/ k.span[left].start + k.span[left].length = k.span[a].start
                 PROVE  k.span[a].location # k.span[left].location
    BY DEF Alone
  <2>2. a \in DOMAIN h.span /\ a # id /\ k.span[a] = h.span[a]
    BY <1>2, <1>7 DEF Out
  <2>3. IsSpan(h.span[a])
    BY <1>1, <2>2 DEF Shape
  <2>4. Before(h.span[a], s) \/ Before(s, h.span[a])
    BY <1>1, <2>2 DEF Tiling, Apart
  <2>5. k.span[left].start = s.start + n /\ k.span[left].length = s.length - n
    BY <1>2, <1>7
  <2>6. s.start + s.length = h.span[a].start
    BY <1>1, <2>1, <2>2, <2>3, <2>4, <2>5 DEF Before, IsSpan
  <2>7. Touching(h, {}) /\ a \in Out(h, {}) /\ id \in Out(h, {})
    BY <1>1, <2>2 DEF Settled, Out
  <2>8. h.span[a].location # s.location
    BY <1>1, <2>6, <2>7 DEF Touching
  <2> QED
    BY <1>7, <2>2, <2>8
<1>13. Ready(k, {id, left}, left)
  <2>1. h.aggressive => s.location = Returned
    BY <1>1 DEF Settled, AllReturned, Out, IsSpan
  <2> QED
    BY <1>1, <1>7, <1>10, <1>11, <1>12, <2>1 DEF Ready
<1>14. Addition(k, g, left)
  BY <1>6, <1>7, PrependIs DEF Shape
<1>15. Shape(g) /\ Tiling(g) /\ Settled(g, {id, left} \ {left}) /\ g.span = k.span /\ Steady(k, g)
  <2>1. Shape(g) /\ Tiling(g) /\ Settled(g, {id, left} \ {left})
    BY <1>7, <1>8, <1>13, <1>14, Prepended
  <2>2. Elsewhere(k, g)
    BY <1>14, Zenon DEF Addition
  <2> QED
    BY <2>1, <2>2 DEF Elsewhere, Steady
<1>16. Settled(g, {id})
  <2>1. {id, left} \ {left} = {id}
    BY <1>7
  <2> QED
    BY <1>15, <2>1
<1>17. Spanned(g) = Spanned(h)
  <2>1. Spanned(g) = Spanned(k)
    BY <1>15 DEF Spanned
  <2> QED
    BY <1>2, <1>7, <2>1
<1>18. Steady(h, g)
  BY <1>2, <1>7, <1>15 DEF Steady
<1>19. Keep(h, g)
  BY <1>1, <1>2, <1>7, <1>15 DEF Keep
<1>20. id \in DOMAIN g.span /\ g.span[id].location = InUse /\ g.span[id].length = n
  BY <1>1, <1>2, <1>7, <1>15
<1>21. \A pg \in Pages : Has(g.span[id], pg) => Has(s, pg)
  BY <1>9, <1>15
<1> QED
  BY <1>15, <1>16, <1>17, <1>18, <1>19, <1>20, <1>21, Zenon DEF Carving

LEMMA Carved ==
  ASSUME NEW h, NEW id, NEW n, MayCarve(h, id, n), NEW c, c = CarveSpan(h, id, n)
  PROVE  Kept(h, c.heap) /\ c.span = id
<1> DEFINE s == h.span[id]
           left == NewSpanId(h, s.start + n)
           taken == Relocate(RemoveFromFreeList(h, id), id, InUse)
           rest == PrependToFreeList(Cut(taken, id, n, left, s.location), left)
           k == IF s.length = n THEN taken ELSE rest
           g == IF s.location = Returned THEN CommitSpan(k, id) ELSE k
<1>1. c = [heap |-> g, span |-> id]
  BY DEF CarveSpan
<1>2. /\ Good(h, {}) /\ Shape(h) /\ id \in DOMAIN h.span /\ s.location # InUse /\ IsSpan(s)
      /\ n \in Nat /\ n > 0 /\ n <= s.length /\ (s.location = Returned => WithinLimitNow(h, n))
  BY DEF MayCarve, Good, Shape
<1>3. Carving(h, k, id, n)
  <2>1. CASE s.length = n
    <3>1. Carving(h, taken, id, s.length)
      <4> HIDE DEF taken
      <4> QED
        BY Taken DEF taken
    <3> HIDE DEF taken, rest
    <3> QED
      BY <2>1, <3>1
  <2>2. CASE s.length # n
    <3>1. n < s.length
      BY <1>2, <2>2 DEF IsSpan
    <3>2. Carving(h, rest, id, n)
      BY <3>1, CutOff
    <3> HIDE DEF rest, taken
    <3> QED
      BY <2>2, <3>2
  <2> QED
    BY <2>1, <2>2
<1> HIDE DEF k
<1>4. /\ Shape(k) /\ Tiling(k) /\ Settled(k, {id}) /\ Spanned(k) = Spanned(h) /\ Steady(h, k) /\ Keep(h, k)
      /\ id \in DOMAIN k.span /\ k.span[id].location = InUse /\ k.span[id].length = n /\ InUse # Returned
      /\ \A pg \in Pages : Has(k.span[id], pg) => Has(s, pg)
  BY <1>3 DEF Carving, InUse, Returned
<1>5. /\ k.committed = h.committed /\ k.system = h.system /\ k.mem = h.mem /\ k.scavenge = h.scavenge
      /\ k.aggressive = h.aggressive /\ k.limit = h.limit /\ k.fails = h.fails
  BY <1>4 DEF Steady
<1>6. \A pg \in Pages : Has(s, pg) => (pg \in h.mem <=> s.location # Returned)
  BY <1>2 DEF Good, Settled, MemTrue, Out
<1>7. /\ h.committed = Cardinality(h.mem) /\ h.system = Cardinality(h.mem \union Spanned(h))
      /\ (h.limit # 0 => h.committed <= h.limit) /\ h.mem \in SUBSET Pages
  BY <1>2 DEF Good, Books, Shape, Fields
<1>8. Shape(g) /\ Tiling(g) /\ Settled(g, {id}) /\ g.span = k.span /\ Backing(g, id) /\ Books(g)
      /\ g.limit = h.limit /\ g.aggressive = h.aggressive /\ g.fails = h.fails /\ g.system = h.system /\ g.scavenge = h.scavenge
  <2>1. CASE s.location = Returned
    <3>1. g = CommitSpan(k, id)
      BY <2>1
    <3> HIDE DEF g
    <3>2. Rebacked(k, g, id) /\ g.committed = k.committed + k.span[id].length /\ g.mem = k.mem \union PagesIn(k.span[id])
      BY <1>4, <3>1, CommitIs
    <3>3. Shape(g) /\ Tiling(g) /\ g.mem \union Spanned(g) = k.mem \union Spanned(k) /\ Settled(g, {id})
      BY <1>4, <3>2, StayReady
    <3>4. g.span = k.span /\ g.system = k.system /\ g.limit = k.limit /\ g.aggressive = k.aggressive /\ g.fails = k.fails
          /\ g.scavenge = k.scavenge
      BY <3>2 DEF Rebacked
    <3>5. Backing(g, id)
      BY <1>4, <3>2, <3>4 DEF Backing, PagesIn
    <3>6. Cardinality(PagesIn(k.span[id])) = n /\ PagesIn(k.span[id]) \in SUBSET Pages
      BY <1>4, PagesInIs DEF Shape, PagesIn
    <3>7. h.mem \cap PagesIn(k.span[id]) = {}
      BY <1>4, <1>6, <2>1 DEF PagesIn
    <3>8. g.committed = Cardinality(g.mem)
      BY <1>4, <1>5, <1>7, <3>2, <3>6, <3>7, More
    <3>9. g.system = Cardinality(g.mem \union Spanned(g))
      BY <1>4, <1>5, <1>7, <3>3, <3>4
    <3>10. g.limit # 0 => g.committed <= g.limit
      <4>1. h.unmapped + h.committed = h.system /\ h.unmapped \in Int /\ h.committed \in Int /\ h.system \in Int
        BY <1>2, Balanced
      <4>2. h.limit = 0 \/ h.system - h.unmapped + n <= h.limit
        BY <1>2, <2>1 DEF WithinLimitNow
      <4>3. g.committed = h.committed + n /\ g.limit = h.limit
        BY <1>4, <1>5, <3>2, <3>4
      <4>4. h.limit \in Int
        BY <1>2 DEF Shape, Fields
      <4> QED
        BY <1>2, <4>1, <4>2, <4>3, <4>4
    <3> QED
      BY <1>5, <3>3, <3>4, <3>5, <3>8, <3>9, <3>10 DEF Books
  <2>2. CASE s.location # Returned
    <3>1. g = k
      BY <2>2
    <3>2. Backing(k, id)
      BY <1>4, <1>5, <1>6, <2>2 DEF Backing
    <3>3. Books(k)
      BY <1>4, <1>5, <1>7 DEF Books
    <3> HIDE DEF g
    <3> QED
      BY <1>4, <1>5, <3>1, <3>2, <3>3
  <2> QED
    BY <2>1, <2>2
<1> HIDE DEF g
<1>9. Settled(g, {})
  <2>1. Settled(g, {id} \ {id})
    BY <1>4, <1>8, LaidDown
  <2>2. {id} \ {id} = {}
    OBVIOUS
  <2> QED
    BY <2>1, <2>2
<1>10. Keep(h, g)
  BY <1>4, <1>8 DEF Keep
<1> QED
  BY <1>1, <1>8, <1>9, <1>10 DEF Kept, Good, SameMode

\* What is on the lists, and what is not.
LEMMA OnListIs ==
  ASSUME NEW h, Good(h, {}), NEW len \in 1..kMaxPages, NEW id, id \in On(h.normal[len]) \union On(h.returned[len])
  PROVE  /\ id \in DOMAIN h.span /\ id \in Ids /\ h.span[id].location # InUse
         /\ h.span[id].length \in Nat /\ ListOf(h.span[id].length) = len /\ h.span[id].length >= len
         /\ id \in On(h.normal[len]) => h.span[id].location = Normal
<1>1. id \in OfList(h, {}, Normal, len) \/ id \in OfList(h, {}, Returned, len)
  BY DEF Good, Settled, OnLists
<1>2. /\ id \in DOMAIN h.span /\ id \in Ids /\ h.span[id].location # InUse /\ ListOf(h.span[id].length) = len
      /\ IsSpan(h.span[id])
  BY <1>1 DEF OfList, Out, Good, Shape, InUse, Normal, Returned
<1>3. id \in On(h.normal[len]) => h.span[id].location = Normal
  BY DEF Good, Settled, OnLists, OfList
<1> QED
  BY <1>2, <1>3, PagesAssumption DEF IsSpan, ListOf

LEMMA ListedIs ==
  ASSUME NEW h, Good(h, {}), NEW id \in DOMAIN h.span, h.span[id].location # InUse
  PROVE  /\ ListOf(h.span[id].length) \in 1..kMaxPages
         /\ id \in On(h.normal[ListOf(h.span[id].length)]) \union On(h.returned[ListOf(h.span[id].length)])
<1>1. IsSpan(h.span[id]) /\ id \in Out(h, {})
  BY DEF Good, Shape, Out
<1>2. ListOf(h.span[id].length) \in 1..kMaxPages
  BY <1>1, ListInRange DEF IsSpan
<1>3. h.span[id].location \in {Normal, Returned}
  BY <1>1 DEF IsSpan
<1> QED
  BY <1>1, <1>2, <1>3 DEF Good, Settled, OnLists, OfList

LEMMA HeadIs == ASSUME NEW list \in Seq(Ids), list # <<>> PROVE list[1] \in On(list)
BY DEF On

\* What a search for n pages from heap h is up to that has looked at the lists
\* below list.
Searched(h, r, n, list) ==
  /\ Kept(h, r.heap) /\ r.span \in Ids \union {NULL}
  /\ r.span = NULL /\ WithinLimitNow(h, n) =>
       r.heap = h /\ \A len \in n..(list - 1) : h.normal[len] = <<>> /\ h.returned[len] = <<>>

LEMMA ListTried ==
  ASSUME NEW h, NEW n \in Pages, NEW list \in n..(kMaxPages - 1), NEW r, Searched(h, r, n, list),
         NEW t, t = TryList(r, list, n)
  PROVE  Searched(h, t, n, list + 1)
<1> DEFINE k == r.heap
           e == EnsureLimit(k, n)
<1>1. n \in Nat /\ n > 0 /\ list \in 1..kMaxPages /\ list \in Int
  BY PagesAssumption DEF Pages
<1>2. Kept(h, k) /\ Good(k, {}) /\ k.normal[list] \in Seq(Ids) /\ k.returned[list] \in Seq(Ids)
  BY <1>1 DEF Searched, Kept, Good, Shape, Fields
<1>3. CASE r.span # NULL
  <2>1. t = r
    BY <1>3 DEF TryList
  <2> QED
    BY <1>3, <2>1 DEF Searched
<1>4. CASE r.span = NULL /\ k.normal[list] # <<>>
  <2> DEFINE id == k.normal[list][1]
  <2>1. t = CarveSpan(k, id, n)
    BY <1>4 DEF TryList
  <2>2. id \in On(k.normal[list])
    BY <1>2, <1>4, HeadIs
  <2> HIDE DEF id
  <2>3. /\ id \in DOMAIN k.span /\ id \in Ids /\ k.span[id].location # InUse
        /\ k.span[id].length \in Nat /\ k.span[id].length >= list /\ k.span[id].location = Normal
    BY <1>1, <1>2, <2>2, OnListIs
  <2>4. MayCarve(k, id, n)
    BY <1>1, <1>2, <2>3 DEF MayCarve, Normal, Returned
  <2>5. Kept(k, t.heap) /\ t.span = id
    BY <2>1, <2>4, Carved
  <2>6. Kept(h, t.heap)
    BY <1>2, <2>5, KeptTwice
  <2> QED
    BY <2>3, <2>5, <2>6 DEF Searched, Ids, NULL
<1>5. CASE r.span = NULL /\ k.normal[list] = <<>> /\ k.returned[list] = <<>>
  <2>1. t = r
    BY <1>5 DEF TryList
  <2>2. \A len \in n..((list + 1) - 1) : len = list \/ len \in n..(list - 1)
    BY <1>1
  <2> QED
    BY <1>5, <2>1, <2>2 DEF Searched
<1>6. CASE r.span = NULL /\ k.normal[list] = <<>> /\ k.returned[list] # <<>>
  <2>1. t = IF e.ok /\ e.heap.returned[list] # <<>> THEN CarveSpan(e.heap, e.heap.returned[list][1], n)
            ELSE [heap |-> e.heap, span |-> NULL]
    BY <1>6 DEF TryList, TryReturned
  <2>2. Kept(k, e.heap) /\ (e.ok => WithinLimitNow(e.heap, n)) /\ (WithinLimitNow(k, n) => e.heap = k /\ e.ok)
    BY <1>1, <1>2, Ensured
  <2> HIDE DEF e
  <2>3. Kept(h, e.heap) /\ Good(e.heap, {}) /\ e.heap.returned[list] \in Seq(Ids)
    BY <1>1, <1>2, <2>2, KeptTwice DEF Kept, Good, Shape, Fields
  <2>4. CASE e.ok /\ e.heap.returned[list] # <<>>
    <3> DEFINE id == e.heap.returned[list][1]
    <3>1. t = CarveSpan(e.heap, id, n)
      BY <2>1, <2>4
    <3>2. id \in On(e.heap.returned[list])
      BY <2>3, <2>4, HeadIs
    <3> HIDE DEF id
    <3>3. /\ id \in DOMAIN e.heap.span /\ id \in Ids /\ e.heap.span[id].location # InUse
          /\ e.heap.span[id].length \in Nat /\ e.heap.span[id].length >= list
      BY <1>1, <2>3, <3>2, OnListIs
    <3>4. MayCarve(e.heap, id, n)
      BY <1>1, <2>2, <2>3, <2>4, <3>3 DEF MayCarve
    <3>5. Kept(e.heap, t.heap) /\ t.span = id
      BY <3>1, <3>4, Carved
    <3>6. Kept(h, t.heap)
      BY <2>3, <3>5, KeptTwice
    <3> QED
      BY <3>3, <3>5, <3>6 DEF Searched, Ids, NULL
  <2>5. CASE ~(e.ok /\ e.heap.returned[list] # <<>>)
    <3>1. t = [heap |-> e.heap, span |-> NULL]
      BY <2>1, <2>5
    <3>2. WithinLimitNow(h, n) => FALSE
      <4>1. WithinLimitNow(h, n) => k = h
        BY <1>6 DEF Searched
      <4> QED
        BY <1>6, <2>2, <2>5, <4>1
    <3> QED
      BY <2>3, <3>1, <3>2 DEF Searched
  <2> QED
    BY <2>4, <2>5
<1> QED
  BY <1>3, <1>4, <1>5, <1>6

\* The search up to list m.
SearchTo(h, n, m, f) ==
  /\ DOMAIN f = 0..m
  /\ \A len \in 0..m : f[len] = IF len <= n THEN [heap |-> h, span |-> NULL] ELSE TryList(f[len - 1], len - 1, n)

LEMMA SearchExists == ASSUME NEW h, NEW n \in Pages, NEW top \in Nat PROVE \E f : SearchTo(h, n, top, f) /\ f = [k \in 0..top |-> f[k]]
<1> DEFINE T == {m \in 0..top : ~\E f : SearchTo(h, n, m, f) /\ f = [k \in 0..m |-> f[k]]}
<1>0. n \in Nat /\ n > 0
  BY DEF Pages
<1>1. SUFFICES ASSUME T # {} PROVE FALSE
  OBVIOUS
<1>2. T \in SUBSET Nat
  OBVIOUS
<1>3. PICK m \in T : \A y \in T : m <= y
  <2> HIDE DEF T
  <2> QED
    BY <1>1, <1>2, HasLeast
<1>4. m \in 0..top /\ ~\E f : SearchTo(h, n, m, f) /\ f = [k \in 0..m |-> f[k]]
  OBVIOUS
<1>5. m # 0
  <2> DEFINE f == [k \in 0..0 |-> [heap |-> h, span |-> NULL]]
  <2>1. DOMAIN f = 0..0 /\ f[0] = [heap |-> h, span |-> NULL] /\ f = [k \in 0..0 |-> f[k]]
    OBVIOUS
  <2> HIDE DEF f
  <2>2. SearchTo(h, n, 0, f)
    BY <1>0, <2>1 DEF SearchTo
  <2> QED
    BY <1>4, <2>1, <2>2
<1>6. m - 1 \in 0..top /\ m - 1 \notin T
  <2>1. m \in 1..top /\ ~(m <= m - 1)
    BY <1>4, <1>5
  <2> HIDE DEF T
  <2> QED
    BY <1>3, <2>1
<1>7. PICK f : SearchTo(h, n, m - 1, f)
  BY <1>6
<1> DEFINE Value(x, len) == IF len <= n THEN [heap |-> h, span |-> NULL] ELSE TryList(x, len - 1, n)
           g == [k \in 0..m |-> IF k = m THEN Value(f[m - 1], m) ELSE f[k]]
<1>8. m \in 1..top
  BY <1>4, <1>5
<1>9. DOMAIN g = 0..m /\ g = [k \in 0..m |-> g[k]]
  OBVIOUS
<1>10. ASSUME NEW k \in 0..m PROVE g[k] = Value(g[k - 1], k)
  <2>1. CASE k = m
    <3>1. m - 1 \in 0..m /\ m - 1 # m /\ m \in 0..m
      BY <1>8
    <3>2. g[m - 1] = f[m - 1] /\ g[m] = Value(f[m - 1], m)
      BY <3>1
    <3> QED
      BY <2>1, <3>2
  <2>2. CASE k # m
    <3>1. k \in 0..(m - 1)
      BY <1>8, <2>2
    <3>2. f[k] = Value(f[k - 1], k) /\ g[k] = f[k]
      BY <1>7, <2>2, <3>1 DEF SearchTo
    <3>3. k <= n \/ (k - 1 \in 0..m /\ k - 1 # m)
      BY <1>0, <1>8, <3>1
    <3>4. k <= n \/ g[k - 1] = f[k - 1]
      BY <3>3
    <3> HIDE DEF g
    <3> QED
      BY <3>2, <3>4
  <2> QED
    BY <2>1, <2>2
<1>11. SearchTo(h, n, m, g)
  <2> HIDE DEF g
  <2> QED
    BY <1>9, <1>10 DEF SearchTo
<1> HIDE DEF g
<1> QED
  BY <1>4, <1>9, <1>11

LEMMA SearchKeeps ==
  ASSUME NEW h, Good(h, {}), NEW n \in Pages, NEW f, SearchTo(h, n, kMaxPages, f)
  PROVE  Searched(h, f[kMaxPages], n, kMaxPages)
<1> DEFINE T == {m \in 0..kMaxPages : ~Searched(h, f[m], n, m)}
<1>0. n \in Nat /\ n > 0 /\ kMaxPages \in Nat
  BY PagesAssumption DEF Pages
<1>1. SUFFICES ASSUME T # {} PROVE FALSE
  BY <1>0
<1>2. T \in SUBSET Nat
  OBVIOUS
<1>3. PICK m \in T : \A y \in T : m <= y
  <2> HIDE DEF T
  <2> QED
    BY <1>1, <1>2, HasLeast
<1>4. m \in 0..kMaxPages /\ ~Searched(h, f[m], n, m)
  OBVIOUS
<1>5. f[m] = IF m <= n THEN [heap |-> h, span |-> NULL] ELSE TryList(f[m - 1], m - 1, n)
  BY <1>4 DEF SearchTo
<1>6. ~(m <= n)
  <2>1. SUFFICES ASSUME m <= n PROVE FALSE
    OBVIOUS
  <2>2. f[m] = [heap |-> h, span |-> NULL]
    BY <1>5, <2>1
  <2>3. Kept(h, h)
    BY DEF Kept, Keep, SameMode
  <2>4. \A len \in n..(m - 1) : FALSE
    BY <1>0, <1>4, <2>1
  <2> QED
    BY <1>4, <2>2, <2>3, <2>4 DEF Searched
<1>7. m - 1 \in 0..kMaxPages /\ m - 1 \notin T /\ m - 1 \in n..(kMaxPages - 1) /\ (m - 1) + 1 = m
  <2>1. m \in 1..kMaxPages /\ ~(m <= m - 1) /\ m - 1 \in n..(kMaxPages - 1) /\ m - 1 \in 0..kMaxPages /\ (m - 1) + 1 = m
    BY <1>0, <1>4, <1>6
  <2> HIDE DEF T
  <2> QED
    BY <1>3, <2>1
<1>8. Searched(h, f[m - 1], n, m - 1)
  BY <1>7
<1>9. f[m] = TryList(f[m - 1], m - 1, n)
  BY <1>5, <1>6
<1>10. Searched(h, f[m], n, (m - 1) + 1)
  <2> HIDE DEF T
  <2> QED
    BY <1>7, <1>8, <1>9, ListTried
<1> QED
  BY <1>4, <1>7, <1>10

\* The best fit on large_ is a span that can give n pages.
LEMMA BestIs ==
  ASSUME NEW h, Good(h, {}), NEW n \in Pages, NEW b, b = BestFit(h, n)
  PROVE  /\ b # NULL => b \in DOMAIN h.span /\ b \in Ids /\ h.span[b].location # InUse /\ n <= h.span[b].length
         /\ b = NULL => \A a \in DOMAIN h.span : h.span[a].location # InUse /\ ListOf(h.span[a].length) = kMaxPages
                                                   => h.span[a].length < n
<1> DEFINE fit == {id \in On(h.normal[kMaxPages]) \union On(h.returned[kMaxPages]) : h.span[id].length >= n}
           better(a, c) == \/ h.span[a].length < h.span[c].length
                           \/ h.span[a].length = h.span[c].length /\ h.span[a].start < h.span[c].start
<1>0. n \in Nat /\ kMaxPages \in 1..kMaxPages
  BY PagesAssumption DEF Pages
<1>1. \A id \in fit : /\ id \in DOMAIN h.span /\ id \in Ids /\ h.span[id].location # InUse
                      /\ h.span[id].length \in Nat /\ h.span[id].length >= n /\ h.span[id].start \in Nat
  <2>1. \A id \in DOMAIN h.span : IsSpan(h.span[id])
    BY DEF Good, Shape
  <2> QED
    BY <1>0, <2>1, OnListIs DEF IsSpan
<1>2. ASSUME NEW a \in DOMAIN h.span, h.span[a].location # InUse, ListOf(h.span[a].length) = kMaxPages, h.span[a].length >= n
      PROVE  a \in fit
  BY <1>2, ListedIs
<1>3. b = IF fit = {} THEN NULL ELSE CHOOSE id \in fit : \A other \in fit \ {id} : better(id, other)
  BY DEF BestFit
<1> HIDE DEF fit
<1>4. CASE fit = {}
  <2>1. b = NULL
    BY <1>3, <1>4
  <2>2. ASSUME NEW a \in DOMAIN h.span, h.span[a].location # InUse, ListOf(h.span[a].length) = kMaxPages
        PROVE  h.span[a].length < n
    <3>1. ~(h.span[a].length >= n)
      BY <1>2, <1>4, <2>2
    <3>2. h.span[a].length \in Nat
      BY DEF Good, Shape, IsSpan
    <3> QED
      BY <1>0, <3>1, <3>2
  <2> QED
    BY <2>1, <2>2
<1>5. CASE fit # {}
  <2> DEFINE lengths == {h.span[id].length : id \in fit}
  <2>1. lengths \in SUBSET Nat /\ lengths # {}
    BY <1>1, <1>5
  <2>2. PICK len \in lengths : \A y \in lengths : len <= y
    <3> HIDE DEF lengths
    <3> QED
      BY <2>1, HasLeast
  <2> DEFINE starts == {h.span[id].start : id \in {i \in fit : h.span[i].length = len}}
  <2>3. starts \in SUBSET Nat /\ starts # {}
    BY <1>1, <2>2
  <2>4. PICK start \in starts : \A y \in starts : start <= y
    <3> HIDE DEF starts
    <3> QED
      BY <2>3, HasLeast
  <2>5. PICK id \in fit : h.span[id].length = len /\ h.span[id].start = start
    BY <2>4
  <2>6. \A other \in fit \ {id} : better(id, other)
    <3>1. SUFFICES ASSUME NEW other \in fit \ {id} PROVE better(id, other)
      OBVIOUS
    <3>2. /\ id \in DOMAIN h.span /\ other \in DOMAIN h.span /\ id # other
          /\ h.span[id].length \in Nat /\ h.span[other].length \in Nat
          /\ h.span[id].start \in Nat /\ h.span[other].start \in Nat
      BY <1>1
    <3>3. h.span[id].length <= h.span[other].length
      BY <2>2, <2>5
    <3>4. h.span[other].length = len => h.span[id].start <= h.span[other].start
      BY <2>4, <2>5
    <3>5. h.span[id].start # h.span[other].start
      <4>1. IsSpan(h.span[id]) /\ IsSpan(h.span[other])
        BY <3>2 DEF Good, Shape
      <4>2. Before(h.span[id], h.span[other]) \/ Before(h.span[other], h.span[id])
        BY <3>2 DEF Good, Tiling, Apart
      <4> QED
        BY <4>1, <4>2 DEF Before, IsSpan
    <3> QED
      BY <2>5, <3>2, <3>3, <3>4, <3>5
  <2>7. b \in fit
    <3> HIDE DEF better
    <3> QED
      BY <1>3, <1>5, <2>6
  <2> QED
    BY <1>1, <2>7 DEF Ids, NULL
<1> QED
  BY <1>4, <1>5

\* A search from heap h for n pages that ended with r.
Search(h, r, n) ==
  /\ Kept(h, r.heap) /\ r.span \in Ids \union {NULL}
  /\ r.span = NULL /\ WithinLimitNow(h, n) =>
       \A a \in DOMAIN h.span : h.span[a].location # InUse => h.span[a].length < n

LEMMA LargeTried ==
  ASSUME NEW h, NEW n \in Pages, Good(h, {}), NEW t, t = AllocLarge(h, n)
  PROVE  /\ Kept(h, t.heap) /\ t.span \in Ids \union {NULL}
         /\ t.span = NULL /\ WithinLimitNow(h, n) =>
              \A a \in DOMAIN h.span : h.span[a].location # InUse /\ ListOf(h.span[a].length) = kMaxPages
                                         => h.span[a].length < n
<1> DEFINE best == BestFit(h, n)
           e == EnsureLimit(h, n)
<1>1. n \in Nat /\ n > 0
  BY DEF Pages
<1>2. Kept(h, h)
  BY DEF Kept, Keep, SameMode
<1>3. /\ best # NULL => best \in DOMAIN h.span /\ best \in Ids /\ h.span[best].location # InUse /\ n <= h.span[best].length
      /\ best = NULL => \A a \in DOMAIN h.span : h.span[a].location # InUse /\ ListOf(h.span[a].length) = kMaxPages
                                                   => h.span[a].length < n
  BY BestIs
<1>4. CASE best = NULL
  <2>1. t = [heap |-> h, span |-> NULL]
    BY <1>4 DEF AllocLarge, TakeBest
  <2> HIDE DEF best
  <2> QED
    BY <1>2, <1>3, <1>4, <2>1
<1>5. CASE best # NULL /\ (h.span[best].location = Normal \/ WithinLimitNow(h, n))
  <2>1. t = CarveSpan(h, best, n)
    BY <1>5 DEF AllocLarge, TakeBest
  <2> HIDE DEF best
  <2>2. MayCarve(h, best, n)
    BY <1>1, <1>3, <1>5 DEF MayCarve, Normal, Returned
  <2>3. Kept(h, t.heap) /\ t.span = best
    BY <2>1, <2>2, Carved
  <2> QED
    BY <1>3, <1>5, <2>3
<1>6. CASE best # NULL /\ h.span[best].location # Normal /\ ~WithinLimitNow(h, n)
  <2>1. t = IF e.ok THEN TakeBest(e.heap, n) ELSE [heap |-> e.heap, span |-> NULL]
    BY <1>6 DEF AllocLarge, TakeWithin
  <2>2. Kept(h, e.heap) /\ (e.ok => WithinLimitNow(e.heap, n))
    BY <1>1, Ensured
  <2> HIDE DEF e, best
  <2>3. Good(e.heap, {})
    BY <2>2 DEF Kept
  <2>4. CASE ~e.ok
    <3>1. t = [heap |-> e.heap, span |-> NULL]
      BY <2>1, <2>4
    <3> QED
      BY <1>6, <2>2, <3>1
  <2>5. CASE e.ok
    <3> DEFINE b == BestFit(e.heap, n)
    <3>1. t = IF b = NULL THEN [heap |-> e.heap, span |-> NULL] ELSE CarveSpan(e.heap, b, n)
      BY <2>1, <2>5 DEF TakeBest
    <3>2. b # NULL => b \in DOMAIN e.heap.span /\ b \in Ids /\ e.heap.span[b].location # InUse /\ n <= e.heap.span[b].length
      BY <2>3, BestIs
    <3> HIDE DEF b
    <3>3. CASE b = NULL
      BY <1>6, <2>2, <3>1, <3>3
    <3>4. CASE b # NULL
      <4>1. MayCarve(e.heap, b, n)
        BY <1>1, <2>2, <2>3, <2>5, <3>2, <3>4 DEF MayCarve
      <4>2. t = CarveSpan(e.heap, b, n)
        BY <3>1, <3>4
      <4>3. Kept(e.heap, t.heap) /\ t.span = b
        BY <4>1, <4>2, Carved
      <4>4. Kept(h, t.heap)
        BY <2>2, <4>3, KeptTwice
      <4> QED
        BY <1>6, <3>2, <3>4, <4>3, <4>4
    <3> QED
      BY <3>3, <3>4
  <2> QED
    BY <2>4, <2>5
<1> QED
  BY <1>4, <1>5, <1>6

LEMMA Searches ==
  ASSUME NEW h, NEW n \in Pages, Good(h, {}), NEW t, t = SearchFreeAndLargeLists(h, n)
  PROVE  Search(h, t, n)
<1> DEFINE Eq(f) == f = [len \in 0..kMaxPages |-> IF len <= n THEN [heap |-> h, span |-> NULL] ELSE TryList(f[len - 1], len - 1, n)]
           at == CHOOSE f : Eq(f)
           r == at[kMaxPages]
<1>0. n \in Nat /\ n > 0 /\ kMaxPages \in Nat
  BY PagesAssumption DEF Pages
<1>1. t = IF r.span # NULL THEN r ELSE AllocLarge(r.heap, n)
  BY DEF SearchFreeAndLargeLists, TryLarge
<1>2. \E f : Eq(f)
  <2>1. PICK f : SearchTo(h, n, kMaxPages, f) /\ f = [k \in 0..kMaxPages |-> f[k]]
    BY <1>0, SearchExists, ZenonT(60)
  <2>2. f = [len \in 0..kMaxPages |-> IF len <= n THEN [heap |-> h, span |-> NULL] ELSE TryList(f[len - 1], len - 1, n)]
    BY <2>1 DEF SearchTo
  <2> QED
    BY <2>2
<1>3. Eq(at)
  BY <1>2
<1> HIDE DEF at
<1>4. SearchTo(h, n, kMaxPages, at)
  BY <1>3, Zenon DEF SearchTo
<1>5. Searched(h, r, n, kMaxPages)
  BY <1>4, SearchKeeps
<1> HIDE DEF r
<1>6. CASE r.span # NULL
  BY <1>1, <1>5, <1>6 DEF Searched, Search
<1>7. CASE r.span = NULL
  <2>1. t = AllocLarge(r.heap, n) /\ Good(r.heap, {}) /\ Kept(h, r.heap)
    BY <1>1, <1>5, <1>7 DEF Searched, Kept
  <2>2. /\ Kept(r.heap, t.heap) /\ t.span \in Ids \union {NULL}
        /\ t.span = NULL /\ WithinLimitNow(r.heap, n) =>
             \A a \in DOMAIN r.heap.span : r.heap.span[a].location # InUse /\ ListOf(r.heap.span[a].length) = kMaxPages
                                        => r.heap.span[a].length < n
    BY <2>1, LargeTried
  <2>3. Kept(h, t.heap)
    BY <2>1, <2>2, KeptTwice
  <2>4. ASSUME t.span = NULL, WithinLimitNow(h, n), NEW a \in DOMAIN h.span, h.span[a].location # InUse
        PROVE  h.span[a].length < n
    <3>1. r.heap = h /\ \A len \in n..(kMaxPages - 1) : h.normal[len] = <<>> /\ h.returned[len] = <<>>
      BY <1>5, <1>7, <2>4 DEF Searched
    <3>2. h.span[a].length \in Nat
      BY DEF Good, Shape, IsSpan
    <3>3. CASE ListOf(h.span[a].length) = kMaxPages
      BY <2>2, <2>4, <3>1, <3>3
    <3>4. CASE ListOf(h.span[a].length) # kMaxPages
      <4>1. ListOf(h.span[a].length) = h.span[a].length /\ h.span[a].length < kMaxPages
        BY <3>2, <3>4 DEF ListOf
      <4>2. a \in On(h.normal[h.span[a].length]) \union On(h.returned[h.span[a].length])
        BY <2>4, <4>1, ListedIs
      <4>3. ASSUME h.span[a].length >= n PROVE FALSE
        <5>1. h.span[a].length \in n..(kMaxPages - 1)
          BY <1>0, <3>2, <4>1, <4>3
        <5>2. h.normal[h.span[a].length] = <<>> /\ h.returned[h.span[a].length] = <<>>
          BY <3>1, <5>1
        <5> QED
          BY <4>2, <5>2 DEF On
      <4> QED
        BY <1>0, <3>2, <4>3
    <3> QED
      BY <3>3, <3>4
  <2> QED
    BY <2>2, <2>3, <2>4 DEF Search
<1> QED
  BY <1>6, <1>7

-----------------------------------------------------------------------------
(* Deletion.                                                                *)

\* The pace of the scavenger.
Paced(h) == h.scavenge \in 0..(NPages + ReleaseDelay)

LEMMA Scavenged ==
  ASSUME NEW h, Good(h, {}), Paced(h), NEW n \in Nat, NEW g, g = IncrementalScavenge(h, n)
  PROVE  Good(g, {}) /\ Keep(h, g) /\ SameMode(h, g) /\ Paced(g)
<1> DEFINE h1 == [h EXCEPT !.scavenge = @ - n]
           r == ReleaseAtLeastNPages(h1, 1)
           next == IF r.released = 0 THEN ReleaseDelay ELSE r.released
           g1 == [r.heap EXCEPT !.scavenge = next]
<1>1. g = IF h1.scavenge >= 0 THEN h1 ELSE g1
  BY DEF IncrementalScavenge
<1>2. IsHeap(h) /\ Fields(h) /\ h.scavenge \in 0..(NPages + ReleaseDelay) /\ NPages \in Nat /\ ReleaseDelay \in Nat
  BY PagesAssumption DEF Good, Shape, Paced
<1>3. IsHeap(h1) /\ Fields(h1) /\ Tally(h, h1) /\ h1.scavenge = h.scavenge - n
  <2>1. \E x : x = h1
    OBVIOUS
  <2>2. PICK x : x = h1
    BY <2>1
  <2>3. x = [h EXCEPT !.scavenge = @ - n]
    BY <2>2
  <2>4. IsHeap(x) /\ Tally(h, x) /\ x.scavenge = h.scavenge - n /\ x.release_index = h.release_index /\ x.works = h.works
    BY <1>2, <2>3 DEF IsHeap, Tally
  <2>5. Fields(x)
    BY <1>2, <2>4 DEF Fields, Tally
  <2> QED
    BY <2>2, <2>4, <2>5
<1> HIDE DEF h1
<1>4. Good(h1, {}) /\ Keep(h, h1) /\ SameMode(h, h1)
  BY <1>3, StayGood
<1>5. CASE h1.scavenge >= 0
  <2>1. g = h1
    BY <1>1, <1>5
  <2> QED
    BY <1>2, <1>3, <1>4, <1>5, <2>1 DEF Paced
<1>6. CASE ~(h1.scavenge >= 0)
  <2>1. g = g1
    BY <1>1, <1>6
  <2>2. GaveBack(h1, r.heap, r.released)
    BY <1>4, Gives
  <2> HIDE DEF r
  <2>3. Good(r.heap, {}) /\ Keep(h1, r.heap) /\ SameMode(h1, r.heap) /\ r.released \in Nat /\ r.heap.unmapped = h1.unmapped + r.released
    BY <2>2 DEF GaveBack
  <2>4. h1.unmapped \in 0..NPages /\ r.heap.unmapped \in 0..NPages
    BY <1>4, <2>3, Balanced
  <2>5. next \in 0..(NPages + ReleaseDelay)
    BY <1>2, <2>3, <2>4
  <2> HIDE DEF next
  <2>6. IsHeap(r.heap) /\ Fields(r.heap)
    BY <2>3 DEF Good, Shape
  <2>7. IsHeap(g) /\ Tally(r.heap, g) /\ g.scavenge = next /\ g.release_index = r.heap.release_index /\ g.works = r.heap.works
    BY <2>1, <2>6 DEF IsHeap, Tally
  <2>8. Fields(g)
    <3>1. g.scavenge \in Int
      BY <2>5, <2>7
    <3>2. Tally(r.heap, g) /\ g.release_index = r.heap.release_index /\ g.works = r.heap.works
      BY <2>7
    <3> QED
      BY <2>6, <3>1, <3>2 DEF Fields, Tally
  <2>9. Good(g, {}) /\ Keep(r.heap, g) /\ SameMode(r.heap, g)
    BY <2>3, <2>7, <2>8, StayGood
  <2> QED
    BY <1>4, <2>3, <2>5, <2>7, <2>9 DEF Paced, Keep, SameMode
<1> QED
  BY <1>5, <1>6

\* Span id gets another size class, and pages of it may lead to it.
Labelled(h, g, id, sc) ==
  LET s == h.span[id]
  IN /\ IsHeap(g)
     /\ g.normal = h.normal /\ g.returned = h.returned /\ g.free = h.free /\ g.unmapped = h.unmapped
     /\ Steady(h, g)
     /\ g.span = [i \in DOMAIN h.span |->
                    IF i = id THEN [start |-> s.start, length |-> s.length, location |-> s.location, sizeclass |-> sc]
                    ELSE h.span[i]]
     /\ g.pagemap \in [0..(NPages + 1) -> Ids \union {NULL}]
     /\ \A pg \in 0..(NPages + 1) : g.pagemap[pg] = h.pagemap[pg] \/ (Has(s, pg) /\ g.pagemap[pg] = id)
     /\ sc # 0 => s.location = InUse /\ \A pg \in 0..(NPages + 1) : Has(s, pg) => g.pagemap[pg] = id

Labelling(h, X, g, id, sc) ==
  sc \in SizeClasses \union {0} /\ Good(h, X) /\ id \in DOMAIN h.span /\ Labelled(h, g, id, sc)

LEMMA StayLabelled ==
  ASSUME NEW h, NEW X, NEW g, NEW id, NEW sc, Labelling(h, X, g, id, sc)
  PROVE  /\ Good(g, X) /\ DOMAIN g.span = DOMAIN h.span /\ SameMode(h, g) /\ g.scavenge = h.scavenge
         /\ \A a \in DOMAIN h.span : a # id => g.span[a] = h.span[a]
         /\ g.span[id].location = h.span[id].location /\ g.span[id].length = h.span[id].length
         /\ g.span[id].start = h.span[id].start /\ g.span[id].sizeclass = sc
<1> DEFINE s == h.span[id]
           u == [start |-> s.start, length |-> s.length, location |-> s.location, sizeclass |-> sc]
<1>0. sc \in SizeClasses \union {0} /\ id \in DOMAIN h.span /\ Good(h, X) /\ Labelled(h, g, id, sc)
  BY DEF Labelling
<1>1. Shape(h) /\ Tiling(h) /\ Settled(h, X) /\ Books(h) /\ IsSpan(s) /\ Fields(h)
  BY <1>0 DEF Good, Shape
<1>2. /\ IsHeap(g) /\ Steady(h, g)
      /\ g.normal = h.normal /\ g.returned = h.returned /\ g.free = h.free /\ g.unmapped = h.unmapped
      /\ g.span = [i \in DOMAIN h.span |-> IF i = id THEN u ELSE h.span[i]]
      /\ g.pagemap \in [0..(NPages + 1) -> Ids \union {NULL}]
      /\ \A pg \in 0..(NPages + 1) : g.pagemap[pg] = h.pagemap[pg] \/ (Has(s, pg) /\ g.pagemap[pg] = id)
      /\ sc # 0 => s.location = InUse /\ \A pg \in 0..(NPages + 1) : Has(s, pg) => g.pagemap[pg] = id
  BY <1>0 DEF Labelled
<1>3. DOMAIN g.span = DOMAIN h.span /\ g.span[id] = u /\ \A a \in DOMAIN h.span : a # id => g.span[a] = h.span[a]
  BY <1>0, <1>2
<1>4. u.start = s.start /\ u.length = s.length /\ u.location = s.location /\ u.sizeclass = sc
      /\ u = [start |-> u.start, length |-> u.length, location |-> u.location, sizeclass |-> u.sizeclass]
  OBVIOUS
<1> HIDE DEF u
<1>5. IsSpan(u)
  BY <1>0, <1>1, <1>4 DEF IsSpan
<1>6. \A a \in DOMAIN h.span : /\ g.span[a].start = h.span[a].start /\ g.span[a].length = h.span[a].length
                              /\ g.span[a].location = h.span[a].location
  BY <1>3, <1>4
<1>7. \A a \in DOMAIN h.span : \A pg : Has(g.span[a], pg) <=> Has(h.span[a], pg)
  BY <1>6 DEF Has
<1>8. Shape(g)
  <2>1. Fields(g)
    BY <1>1, <1>2 DEF Fields, Steady
  <2>2. g.span = [i \in DOMAIN g.span |-> g.span[i]] /\ DOMAIN g.span \subseteq Ids
    BY <1>1, <1>2, <1>3 DEF Shape
  <2>3. \A a \in DOMAIN g.span : IsSpan(g.span[a])
    BY <1>1, <1>3, <1>5 DEF Shape
  <2> QED
    BY <1>2, <2>1, <2>2, <2>3 DEF Shape
<1>9. Apart(g)
  BY <1>1, <1>3, <1>6 DEF Tiling, Apart, Before
<1>10. Mapped(g)
  <2>1. ASSUME NEW a \in DOMAIN h.span
        PROVE  /\ g.pagemap[g.span[a].start] = a /\ g.pagemap[g.span[a].start + g.span[a].length - 1] = a
               /\ g.span[a].sizeclass # 0 =>
                    g.span[a].location = InUse /\ \A pg \in 0..(NPages + 1) : Has(g.span[a], pg) => g.pagemap[pg] = a
    <3>1. IsSpan(h.span[a])
      BY <1>1 DEF Shape
    <3>2. \A pg \in 0..(NPages + 1) : Has(h.span[a], pg) => g.pagemap[pg] = h.pagemap[pg] \/ (a = id /\ g.pagemap[pg] = id)
      <4>1. SUFFICES ASSUME NEW pg \in 0..(NPages + 1), Has(h.span[a], pg), a # id PROVE ~Has(s, pg)
        BY <1>2
      <4>2. pg \in Int
        BY PagesFinite
      <4> QED
        BY <1>0, <1>1, <4>1, <4>2, OneOwner DEF Tiling
    <3>3. /\ Has(h.span[a], h.span[a].start) /\ Has(h.span[a], h.span[a].start + h.span[a].length - 1)
          /\ h.span[a].start \in 0..(NPages + 1) /\ h.span[a].start + h.span[a].length - 1 \in 0..(NPages + 1)
      BY <3>1, PagesFinite DEF Has, IsSpan
    <3>4. /\ h.pagemap[h.span[a].start] = a /\ h.pagemap[h.span[a].start + h.span[a].length - 1] = a
          /\ h.span[a].sizeclass # 0 =>
               h.span[a].location = InUse /\ \A pg \in 0..(NPages + 1) : Has(h.span[a], pg) => h.pagemap[pg] = a
      BY <1>1 DEF Tiling, Mapped
    <3>5. g.pagemap[h.span[a].start] = a /\ g.pagemap[h.span[a].start + h.span[a].length - 1] = a
      BY <3>2, <3>3, <3>4
    <3>6. CASE a = id
      BY <1>2, <1>3, <1>4, <3>5, <3>6, <1>7
    <3>7. CASE a # id
      <4>1. g.span[a] = h.span[a]
        BY <1>3, <3>7
      <4> QED
        BY <3>2, <3>4, <3>5, <3>7, <4>1
    <3> QED
      BY <3>6, <3>7
  <2> QED
    BY <1>3, <2>1 DEF Mapped
<1>11. Located(g)
  <2>1. SUFFICES ASSUME NEW pg \in 0..(NPages + 1), g.pagemap[pg] # NULL PROVE \E a \in DOMAIN h.span : Has(h.span[a], pg)
    BY <1>3, <1>7 DEF Located
  <2> QED
    BY <1>0, <1>1, <1>2, <2>1 DEF Tiling, Located
<1>12. Settled(g, X)
  <2>1. Out(g, X) = Out(h, X)
    BY <1>3 DEF Out
  <2>2. g.aggressive = h.aggressive /\ g.mem = h.mem
    BY <1>2 DEF Steady
  <2>3. \A a \in Out(h, X) : a \in DOMAIN h.span
    BY DEF Out
  <2>4. Touching(g, X)
    BY <1>1, <1>6, <2>1, <2>3 DEF Settled, Touching
  <2>5. AllReturned(g, X)
    BY <1>1, <1>6, <2>1, <2>2, <2>3 DEF Settled, AllReturned
  <2>6. \A loc, list : OfList(g, X, loc, list) = OfList(h, X, loc, list)
    BY <1>6, <2>1, <2>3 DEF OfList
  <2>7. OnLists(g, X)
    BY <1>1, <1>2, <2>6 DEF Settled, OnLists
  <2>8. \A loc : PagesOf(g, X, loc) = PagesOf(h, X, loc)
    BY <1>6, <1>7, <2>1, <2>3 DEF PagesOf
  <2>9. Counts(g, X)
    BY <1>1, <1>2, <2>8 DEF Settled, Counts
  <2>10. MemTrue(g, X)
    BY <1>1, <1>6, <1>7, <2>1, <2>2, <2>3 DEF Settled, MemTrue
  <2> QED
    BY <2>4, <2>5, <2>7, <2>9, <2>10 DEF Settled
<1>13. Books(g)
  <2>1. Spanned(g) = Spanned(h)
    BY <1>3, <1>7 DEF Spanned
  <2> QED
    BY <1>1, <1>2, <2>1 DEF Books, Steady
<1>14. SameMode(h, g) /\ g.scavenge = h.scavenge
  BY <1>2 DEF SameMode, Steady
<1> QED
  BY <1>3, <1>4, <1>8, <1>9, <1>10, <1>11, <1>12, <1>13, <1>14 DEF Good, Tiling

\* All spans in use but id are left alone.
KeepOthers(h, g, id) ==
  \A a \in DOMAIN h.span : a # id /\ h.span[a].location = InUse => a \in DOMAIN g.span /\ g.span[a] = h.span[a]

LEMMA Unlabelled ==
  ASSUME NEW h, NEW id, Good(h, {}), id \in DOMAIN h.span, NEW g, g = [h EXCEPT !.span[id].sizeclass = 0]
  PROVE  Labelled(h, g, id, 0)
<1> DEFINE s == h.span[id]
           u == [s EXCEPT !.sizeclass = 0]
<1>1. IsHeap(h) /\ Fields(h) /\ IsSpan(s) /\ h.span = [i \in DOMAIN h.span |-> h.span[i]]
  BY DEF Good, Shape
<1>2. IsHeap(g) /\ g.normal = h.normal /\ g.returned = h.returned /\ g.free = h.free /\ g.unmapped = h.unmapped
      /\ Steady(h, g) /\ g.pagemap = h.pagemap
  BY <1>1 DEF IsHeap, Steady
<1>3. g.span = [h.span EXCEPT ![id] = u]
  BY <1>1 DEF IsHeap
<1>4. u = [start |-> s.start, length |-> s.length, location |-> s.location, sizeclass |-> 0]
  <2>1. s = [start |-> s.start, length |-> s.length, location |-> s.location, sizeclass |-> s.sizeclass]
    BY <1>1 DEF IsSpan
  <2>2. \E v : v = u
    OBVIOUS
  <2>3. PICK v : v = u
    BY <2>2
  <2>4. v = [s EXCEPT !.sizeclass = 0]
    BY <2>3
  <2> HIDE DEF u, s
  <2>5. v = [start |-> s.start, length |-> s.length, location |-> s.location, sizeclass |-> 0]
    BY <2>1, <2>4
  <2> QED
    BY <2>3, <2>5
<1>5. g.span = [i \in DOMAIN h.span |->
                  IF i = id THEN [start |-> s.start, length |-> s.length, location |-> s.location, sizeclass |-> 0] ELSE h.span[i]]
  <2> HIDE DEF u
  <2> QED
    BY <1>1, <1>3, <1>4
<1>6. g.pagemap \in [0..(NPages + 1) -> Ids \union {NULL}]
  BY <1>1, <1>2 DEF Fields
<1> QED
  BY <1>2, <1>5, <1>6 DEF Labelled

LEMMA Deleted ==
  ASSUME NEW h, NEW id, Good(h, {}), Paced(h), id \in DOMAIN h.span, h.span[id].location = InUse,
         NEW g, g = DeleteFrom(h, id)
  PROVE  Good(g, {}) /\ Paced(g) /\ SameMode(h, g) /\ KeepOthers(h, g, id)
<1> DEFINE a == [h EXCEPT !.span[id].sizeclass = 0]
           b == Relocate(a, id, Normal)
           c == MergeIntoFreeList(b, id)
           n == h.span[id].length
<1>1. g = IncrementalScavenge(c, n) /\ n \in Nat
  BY DEF DeleteFrom, Good, Shape, IsSpan
<1>2. Labelled(h, a, id, 0)
  BY Unlabelled
<1> HIDE DEF a
<1>3. /\ Good(a, {}) /\ DOMAIN a.span = DOMAIN h.span /\ SameMode(h, a) /\ a.scavenge = h.scavenge
      /\ \A i \in DOMAIN h.span : i # id => a.span[i] = h.span[i]
      /\ a.span[id].location = InUse /\ a.span[id].length = n /\ a.span[id].sizeclass = 0
  <2>1. 0 \in SizeClasses \union {0}
    OBVIOUS
  <2>2. /\ Good(a, {}) /\ DOMAIN a.span = DOMAIN h.span /\ SameMode(h, a) /\ a.scavenge = h.scavenge
        /\ \A i \in DOMAIN h.span : i # id => a.span[i] = h.span[i]
        /\ a.span[id].location = h.span[id].location /\ a.span[id].length = h.span[id].length
        /\ a.span[id].start = h.span[id].start /\ a.span[id].sizeclass = 0
    <3>1. Labelling(h, {}, a, id, 0)
      BY <1>2, <2>1 DEF Labelling
    <3> QED
      BY <3>1, StayLabelled
  <2> QED
    BY <2>2
<1>4. Shape(a) /\ Tiling(a) /\ Settled(a, {}) /\ Books(a)
  BY <1>3 DEF Good
<1>5. Settled(a, {id})
  <2>1. Settled(a, {} \union {id})
    BY <1>3, <1>4, TakenUp
  <2>2. {} \union {id} = {id}
    OBVIOUS
  <2> QED
    BY <2>1, <2>2
<1>6. b = Relocate(a, id, Normal)
  OBVIOUS
<1> HIDE DEF b
<1>7. Relocated(a, b, id, Normal)
  BY <1>3, <1>4, <1>6, RelocateIs
<1>8. /\ Shape(b) /\ Tiling(b) /\ DOMAIN b.span = DOMAIN a.span /\ Steady(a, b)
      /\ \A i \in DOMAIN a.span : i # id => b.span[i] = a.span[i]
      /\ b.span[id].sizeclass = 0 /\ b.span[id].location = Normal /\ b.span[id].length = a.span[id].length
      /\ b.span[id].start = a.span[id].start
  <2>1. Normal \in {InUse, Normal, Returned} /\ id \in DOMAIN a.span
    BY <1>3
  <2> QED
    BY <1>3, <1>4, <1>7, <2>1, Moved
<1>9. Settled(b, {id})
  <2>1. Normal \in {InUse, Normal, Returned} /\ id \in DOMAIN a.span /\ id \in {id}
    BY <1>3
  <2>2. \A X : id \in X /\ Settled(a, X) => Settled(b, X)
    BY <1>3, <1>4, <1>7, <2>1, Moved
  <2> QED
    BY <1>5, <2>1, <2>2
<1>10. Books(b)
  <2>1. Normal \in {InUse, Normal, Returned} /\ id \in DOMAIN a.span
    BY <1>3
  <2> QED
    BY <1>3, <1>4, <1>7, <2>1, Moved
<1>11. \A pg \in Pages : Has(b.span[id], pg) => pg \in b.mem
  <2>1. \A pg \in Pages : Has(a.span[id], pg) => pg \in a.mem
    BY <1>3, <1>4 DEF Settled, MemTrue, Out, InUse, Returned
  <2> QED
    BY <1>8, <2>1 DEF Has, Steady
<1>12. Hand(b, id, 0)
  <2>1. Cardinality(PagesIn(b.span[id]) \ b.mem) = 0
    <3>1. PagesIn(b.span[id]) \ b.mem = {}
      BY <1>11 DEF PagesIn
    <3> QED
      BY <3>1, FS_EmptySet
  <2>2. Backing(b, id)
    BY <1>8, <1>11 DEF Backing, Normal, Returned
  <2> QED
    BY <1>3, <1>8, <2>1, <2>2 DEF Hand
<1>13. Good(b, {id})
  BY <1>8, <1>9, <1>10 DEF Good
<1>14. Listing(b, c, id)
  BY <1>12, <1>13, Lists
<1> HIDE DEF c
<1>15. Good(c, {}) /\ Keep(b, c) /\ SameMode(b, c) /\ c.scavenge = b.scavenge
  BY <1>14 DEF Listing
<1>16. Paced(c)
  BY <1>3, <1>8, <1>15 DEF Paced, Steady
<1>17. Good(g, {}) /\ Keep(c, g) /\ SameMode(c, g) /\ Paced(g)
  BY <1>1, <1>15, <1>16, Scavenged
<1>18. SameMode(h, g)
  BY <1>3, <1>8, <1>15, <1>17 DEF SameMode, Steady
<1>19. KeepOthers(h, g, id)
  BY <1>3, <1>8, <1>15, <1>17 DEF KeepOthers, Keep
<1> QED
  BY <1>17, <1>18, <1>19

-----------------------------------------------------------------------------
(* Growing.                                                                 *)

\* The system has n pages from pg on for heap h, within the limit.
MayGrow(h, pg, n) ==
  Good(h, {}) /\ Paced(h) /\ n \in Nat /\ n > 0 /\ pg \in SystemAlloc(h, n) /\ WithinLimitNow(h, n)

LEMMA Unowned ==
  ASSUME NEW h, NEW pg, NEW n, MayGrow(h, pg, n)
  PROVE  /\ pg \in Pages /\ pg \in Nat /\ pg > 0 /\ pg + n <= NPages + 1 /\ pg..(pg + n - 1) \in SUBSET Pages
         /\ pg..(pg + n - 1) \cap (h.mem \union Spanned(h)) = {}
         /\ \A a \in DOMAIN h.span : \A q \in pg..(pg + n - 1) : ~Has(h.span[a], q)
         /\ Cardinality(pg..(pg + n - 1)) = n
<1> DEFINE owned == h.mem \union UNION {Extent(h.span[id]) : id \in DOMAIN h.span}
<1>1. Good(h, {}) /\ n \in Nat /\ n > 0 /\ pg \in Pages /\ pg + n - 1 \in Pages /\ pg..(pg + n - 1) \cap owned = {}
  BY DEF MayGrow, SystemAlloc
<1>2. pg \in Nat /\ pg > 0 /\ pg + n <= NPages + 1 /\ pg..(pg + n - 1) \in SUBSET Pages /\ NPages \in Nat
  BY <1>1, PagesFinite DEF Pages
<1>3. \A a \in DOMAIN h.span : PagesIn(h.span[a]) = Extent(h.span[a])
  BY <1>1, PagesInIs DEF Good, Shape
<1>4. \A a \in DOMAIN h.span : \A q \in pg..(pg + n - 1) : ~Has(h.span[a], q)
  <2>1. SUFFICES ASSUME NEW a \in DOMAIN h.span, NEW q \in pg..(pg + n - 1), Has(h.span[a], q) PROVE FALSE
    OBVIOUS
  <2>2. q \in PagesIn(h.span[a])
    BY <1>2, <2>1 DEF PagesIn
  <2>3. q \in owned
    BY <1>3, <2>2
  <2> QED
    BY <1>1, <2>3
<1>5. pg..(pg + n - 1) \cap (h.mem \union Spanned(h)) = {}
  BY <1>1, <1>4 DEF Spanned
<1>6. Cardinality(pg..(pg + n - 1)) = IF pg > pg + n - 1 THEN 0 ELSE (pg + n - 1) - pg + 1
  BY <1>1, <1>2, FS_Interval
<1> QED
  BY <1>1, <1>2, <1>4, <1>5, <1>6

\* The heap with n pages more from pg on.
LEMMA PagesTaken ==
  ASSUME NEW h, NEW pg, NEW n, MayGrow(h, pg, n), NEW g, g = TakePages(h, pg, n)
  PROVE  /\ Good(g, {}) /\ Paced(g) /\ g.span = h.span /\ g.pagemap = h.pagemap
         /\ g.mem = h.mem \union (pg..(pg + n - 1))
<1> DEFINE run == pg..(pg + n - 1)
<1>1. /\ Good(h, {}) /\ Paced(h) /\ n \in Nat /\ n > 0 /\ WithinLimitNow(h, n)
      /\ IsHeap(h) /\ Fields(h) /\ Shape(h) /\ Tiling(h) /\ Settled(h, {}) /\ Books(h)
  BY DEF MayGrow, Good, Shape
<1>2. run \in SUBSET Pages /\ run \cap (h.mem \union Spanned(h)) = {} /\ Cardinality(run) = n
      /\ \A a \in DOMAIN h.span : \A q \in run : ~Has(h.span[a], q)
  BY Unowned
<1>2a. g = [h EXCEPT !.system = @ + n, !.committed = @ + n, !.mem = @ \union run]
  BY DEF TakePages
<1> HIDE DEF run
<1>3. /\ IsHeap(g) /\ g.span = h.span /\ g.pagemap = h.pagemap /\ g.normal = h.normal /\ g.returned = h.returned
      /\ g.free = h.free /\ g.unmapped = h.unmapped /\ g.committed = h.committed + n /\ g.system = h.system + n
      /\ g.mem = h.mem \union run /\ g.release_index = h.release_index /\ g.scavenge = h.scavenge
      /\ g.aggressive = h.aggressive /\ g.limit = h.limit /\ g.fails = h.fails /\ g.works = h.works
  BY <1>1, <1>2a DEF IsHeap
<1>4. Shape(g)
  <2>1. g.mem \in SUBSET Pages /\ g.committed \in Int /\ g.system \in Int
    BY <1>1, <1>2, <1>3 DEF Fields
  <2>2. Fields(g)
    BY <1>1, <1>3, <2>1 DEF Fields
  <2> QED
    BY <1>1, <1>3, <2>2 DEF Shape
<1>5. Tiling(g)
  BY <1>1, <1>3 DEF Tiling, Apart, Mapped, Located
<1>6. Settled(g, {})
  <2>1. \A a \in Out(h, {}) : \A q \in Pages : Has(h.span[a], q) => (q \in g.mem <=> q \in h.mem)
    BY <1>2, <1>3 DEF Out
  <2>2. Undisturbed(h, {}, g, {})
    BY <1>3, <2>1 DEF Undisturbed, Out
  <2> QED
    BY <1>1, <2>2, StaySettled
<1>7. Books(g)
  <2>1. h.mem \in SUBSET Pages /\ Spanned(h) \in SUBSET Pages /\ Spanned(g) = Spanned(h)
    BY <1>1, <1>3 DEF Fields, Spanned
  <2>2. Cardinality(h.mem \union run) = Cardinality(h.mem) + Cardinality(run)
    <3>1. h.mem \cap run = {}
      BY <1>2
    <3> QED
      BY <1>2, <2>1, <3>1, More
  <2>3. Cardinality((h.mem \union Spanned(h)) \union run) = Cardinality(h.mem \union Spanned(h)) + Cardinality(run)
    <3>1. (h.mem \union Spanned(h)) \cap run = {} /\ h.mem \union Spanned(h) \in SUBSET Pages
      BY <1>2, <2>1
    <3> QED
      BY <1>2, <3>1, More
  <2>4. g.mem \union Spanned(g) = (h.mem \union Spanned(h)) \union run
    BY <1>3, <2>1
  <2>5. g.committed = Cardinality(g.mem) /\ g.system = Cardinality(g.mem \union Spanned(g))
    BY <1>1, <1>2, <1>3, <2>2, <2>3, <2>4 DEF Books
  <2>6. g.limit # 0 => g.committed <= g.limit
    <3>1. h.unmapped + h.committed = h.system /\ h.unmapped \in Int /\ h.committed \in Int /\ h.system \in Int
      BY <1>1, Balanced
    <3>2. h.limit = 0 \/ h.system - h.unmapped + n <= h.limit
      BY <1>1 DEF WithinLimitNow
    <3>3. h.limit \in Int
      BY <1>1 DEF Fields
    <3> QED
      BY <1>1, <1>3, <3>1, <3>2, <3>3
  <2> QED
    BY <2>5, <2>6 DEF Books
<1> QED
  BY <1>1, <1>3, <1>4, <1>5, <1>6, <1>7 DEF Good, Paced, run

\* Heaps k, f and g on the way to the span of the new pages.
Adding(h, k, f, g, pg, n, id) ==
  /\ MayGrow(h, pg, n) /\ id = NewSpanId(h, pg) /\ k = TakePages(h, pg, n)
  /\ f = NewSpan(k, id, [start |-> pg, length |-> n, location |-> InUse, sizeclass |-> 0])
  /\ g = RecordSpan(f, id)

LEMMA SpanAdded ==
  ASSUME NEW h, NEW k, NEW f, NEW g, NEW pg, NEW n, NEW id, Adding(h, k, f, g, pg, n, id)
  PROVE  /\ Good(g, {}) /\ Paced(g) /\ id \in DOMAIN g.span /\ id \notin DOMAIN h.span
         /\ g.span[id].location = InUse /\ \A a \in DOMAIN h.span : a \in DOMAIN g.span /\ g.span[a] = h.span[a]
<1> DEFINE run == pg..(pg + n - 1)
           u == [start |-> pg, length |-> n, location |-> InUse, sizeclass |-> 0]
           last == (pg + n) - 1
<1>0. MayGrow(h, pg, n) /\ id = NewSpanId(h, pg) /\ k = TakePages(h, pg, n) /\ g = RecordSpan(f, id) /\ f = NewSpan(k, id, u)
  BY DEF Adding
<1>1. /\ Good(h, {}) /\ Shape(h) /\ Tiling(h) /\ n \in Nat /\ n > 0
  BY <1>0 DEF MayGrow, Good
<1>2. /\ pg \in Pages /\ pg \in Nat /\ pg > 0 /\ pg + n <= NPages + 1 /\ run \in SUBSET Pages
      /\ \A a \in DOMAIN h.span : \A q \in run : ~Has(h.span[a], q)
  BY <1>0, Unowned
<1>3. /\ Good(k, {}) /\ Paced(k) /\ k.span = h.span /\ k.pagemap = h.pagemap /\ k.mem = h.mem \union run
  BY <1>0, PagesTaken
<1>4. IsHeap(k) /\ Shape(k) /\ Tiling(k) /\ Settled(k, {}) /\ Books(k) /\ Fields(k)
  BY <1>3 DEF Good, Shape
<1>5. id \in Ids /\ id \notin DOMAIN h.span /\ id # NULL
  <2>1. \A a \in DOMAIN h.span : h.span[a].start # pg
    <3>1. SUFFICES ASSUME NEW a \in DOMAIN h.span, h.span[a].start = pg PROVE FALSE
      OBVIOUS
    <3>2. IsSpan(h.span[a]) /\ pg \in run
      BY <1>1, <1>2 DEF Shape
    <3>3. Has(h.span[a], pg)
      BY <3>1, <3>2 DEF Has, IsSpan
    <3> QED
      BY <1>2, <3>2, <3>3
  <2> QED
    BY <1>0, <1>1, <1>2, <2>1, Fresh DEF Tiling, Ids, NULL
<1>6. u.start = pg /\ u.length = n /\ u.location = InUse /\ u.sizeclass = 0
      /\ u = [start |-> u.start, length |-> u.length, location |-> u.location, sizeclass |-> u.sizeclass]
  OBVIOUS
<1>7. f = NewSpan(k, id, u) /\ g = RecordSpan(f, id)
  BY <1>0
<1> HIDE DEF u
<1>8. IsSpan(u)
  BY <1>1, <1>2, <1>6 DEF IsSpan
<1>9. /\ IsHeap(f) /\ Remapped(k, f) /\ f.pagemap = k.pagemap
      /\ DOMAIN f.span = DOMAIN k.span \union {id} /\ f.span = [i \in DOMAIN f.span |-> f.span[i]]
      /\ f.span[id] = u /\ \A i \in DOMAIN k.span : i # id => f.span[i] = k.span[i]
  <2>1. Newer(k, f, id, u)
    BY <1>4, <1>7, NewIs
  <2> QED
    BY <2>1 DEF Newer
<1>10. f.span[id].start = pg /\ EndOf(f.span[id]) - 1 = last
  BY <1>6, <1>9 DEF EndOf
<1>11. /\ IsHeap(g) /\ Remapped(f, g) /\ g.span = f.span
       /\ g.pagemap = [[f.pagemap EXCEPT ![pg] = id] EXCEPT ![last] = id]
  <2> HIDE DEF last
  <2> QED
    BY <1>7, <1>9, <1>10, RecordIs
<1>12. DOMAIN g.span = DOMAIN h.span \union {id} /\ g.span[id] = u /\ \A a \in DOMAIN h.span : g.span[a] = h.span[a]
  BY <1>3, <1>5, <1>9, <1>11
<1>13. /\ pg \in 0..(NPages + 1) /\ last \in 0..(NPages + 1) /\ pg \in run /\ last \in run
       /\ \A q \in 0..(NPages + 1) : Has(u, q) <=> q \in run
       /\ u.start = pg /\ u.start + u.length - 1 = last
  BY <1>1, <1>2, <1>6, PagesFinite DEF Has, Pages
<1> HIDE DEF last, run
<1>14. g.pagemap \in [0..(NPages + 1) -> Ids \union {NULL}]
       /\ \A q \in 0..(NPages + 1) : g.pagemap[q] = IF q = pg \/ q = last THEN id ELSE h.pagemap[q]
  <2> DEFINE m == [f.pagemap EXCEPT ![pg] = id]
  <2>1. f.pagemap \in [0..(NPages + 1) -> Ids \union {NULL}] /\ f.pagemap = h.pagemap
    BY <1>3, <1>4, <1>9 DEF Fields
  <2>2. m \in [0..(NPages + 1) -> Ids \union {NULL}] /\ \A q \in 0..(NPages + 1) : m[q] = IF q = pg THEN id ELSE f.pagemap[q]
    BY <1>5, <1>13, <2>1, Entered
  <2>3. g.pagemap = [m EXCEPT ![last] = id]
    BY <1>11
  <2> HIDE DEF m
  <2>4. g.pagemap \in [0..(NPages + 1) -> Ids \union {NULL}]
        /\ \A q \in 0..(NPages + 1) : g.pagemap[q] = IF q = last THEN id ELSE m[q]
    <3>1. last \in 0..(NPages + 1) /\ id \in Ids /\ m \in [0..(NPages + 1) -> Ids \union {NULL}]
      BY <1>5, <1>13, <2>2
    <3> QED
      BY <2>3, <3>1, Entered
  <2> QED
    BY <2>1, <2>2, <2>4
<1>15. Shape(g)
  <2>1. Fields(g)
    BY <1>4, <1>9, <1>11, <1>14 DEF Fields, Remapped
  <2>2. DOMAIN g.span \subseteq Ids /\ g.span = [i \in DOMAIN g.span |-> g.span[i]]
    BY <1>1, <1>5, <1>9, <1>11, <1>12 DEF Shape
  <2>3. \A a \in DOMAIN g.span : IsSpan(g.span[a])
    BY <1>1, <1>8, <1>12 DEF Shape
  <2> QED
    BY <1>11, <2>1, <2>2, <2>3 DEF Shape
<1>16. Apart(g)
  <2>1. ASSUME NEW a \in DOMAIN h.span PROVE Before(h.span[a], u) \/ Before(u, h.span[a])
    <3>1. IsSpan(h.span[a])
      BY <1>1 DEF Shape
    <3>2. \A q \in 0..(NPages + 1) : Has(u, q) => ~Has(h.span[a], q)
      BY <1>2, <1>13
    <3>3. CASE h.span[a].start <= u.start
      <4>1. u.start \in 0..(NPages + 1) /\ Has(u, u.start)
        BY <1>8, PagesFinite DEF IsSpan, Has
      <4>2. ~Has(h.span[a], u.start)
        BY <3>2, <4>1
      <4> QED
        BY <1>8, <3>1, <3>3, <4>2 DEF Before, Has, IsSpan
    <3>4. CASE ~(h.span[a].start <= u.start)
      <4>1. h.span[a].start \in 0..(NPages + 1) /\ Has(h.span[a], h.span[a].start)
        BY <3>1, PagesFinite DEF IsSpan, Has
      <4>2. ~Has(u, h.span[a].start)
        BY <3>2, <4>1
      <4> QED
        BY <1>8, <3>1, <3>4, <4>2 DEF Before, Has, IsSpan
    <3> QED
      BY <3>3, <3>4
  <2> QED
    BY <1>1, <1>12, <2>1 DEF Tiling, Apart
<1>17. Mapped(g)
  <2>1. ASSUME NEW a \in DOMAIN h.span
        PROVE  /\ g.pagemap[g.span[a].start] = a /\ g.pagemap[g.span[a].start + g.span[a].length - 1] = a
               /\ g.span[a].sizeclass # 0 =>
                    g.span[a].location = InUse /\ \A q \in 0..(NPages + 1) : Has(g.span[a], q) => g.pagemap[q] = a
    <3>1. g.span[a] = h.span[a] /\ IsSpan(h.span[a])
      BY <1>1, <1>12 DEF Shape
    <3>2. ~Has(h.span[a], pg) /\ ~Has(h.span[a], last)
      BY <1>2, <1>13
    <3>3. \A q \in 0..(NPages + 1) : Has(h.span[a], q) => g.pagemap[q] = h.pagemap[q]
      BY <1>14, <3>2
    <3>4. /\ Has(h.span[a], h.span[a].start) /\ Has(h.span[a], h.span[a].start + h.span[a].length - 1)
          /\ h.span[a].start \in 0..(NPages + 1) /\ h.span[a].start + h.span[a].length - 1 \in 0..(NPages + 1)
      BY <3>1, PagesFinite DEF Has, IsSpan
    <3>5. /\ h.pagemap[h.span[a].start] = a /\ h.pagemap[h.span[a].start + h.span[a].length - 1] = a
          /\ h.span[a].sizeclass # 0 =>
               h.span[a].location = InUse /\ \A q \in 0..(NPages + 1) : Has(h.span[a], q) => h.pagemap[q] = a
      BY <1>1 DEF Tiling, Mapped
    <3> QED
      BY <3>1, <3>3, <3>4, <3>5
  <2>2. g.pagemap[u.start] = id /\ g.pagemap[u.start + u.length - 1] = id
    BY <1>13, <1>14
  <2> QED
    BY <1>6, <1>12, <2>1, <2>2 DEF Mapped
<1>18. Located(g)
  <2>1. SUFFICES ASSUME NEW q \in 0..(NPages + 1), g.pagemap[q] # NULL PROVE \E a \in DOMAIN g.span : Has(g.span[a], q)
    BY DEF Located
  <2>2. CASE q = pg \/ q = last
    BY <1>12, <1>13, <2>2
  <2>3. CASE ~(q = pg \/ q = last)
    <3>1. PICK a \in DOMAIN h.span : Has(h.span[a], q)
      BY <1>1, <1>14, <2>1, <2>3 DEF Tiling, Located
    <3> QED
      BY <1>12, <3>1
  <2> QED
    BY <2>2, <2>3
<1>19. Remapped(k, g)
  BY <1>9, <1>11 DEF Remapped
<1>20. Backing(g, id)
  <2>1. \A q \in Pages : q \in 0..(NPages + 1)
    BY PagesFinite DEF Pages
  <2> QED
    BY <1>3, <1>6, <1>12, <1>13, <1>19, <2>1 DEF Backing, Remapped, InUse, Returned
<1>21. Settled(g, {})
  <2>1. Out(g, {id}) = Out(k, {})
    BY <1>3, <1>5, <1>12 DEF Out
  <2>2. Undisturbed(k, {}, g, {id})
    BY <1>3, <1>12, <1>19, <2>1 DEF Undisturbed, Out, Remapped
  <2>3. Settled(g, {id})
    BY <1>4, <2>2, StaySettled
  <2>4. Settled(g, {id} \ {id})
    BY <1>6, <1>12, <1>20, <2>3, LaidDown
  <2>5. {id} \ {id} = {}
    OBVIOUS
  <2> QED
    BY <2>4, <2>5
<1>22. Books(g)
  <2>1. g.mem \union Spanned(g) = k.mem \union Spanned(k)
    <3>1. \A q \in Pages : Has(u, q) => q \in k.mem
      <4>1. \A q \in Pages : q \in 0..(NPages + 1)
        BY PagesFinite DEF Pages
      <4> QED
        BY <1>3, <1>13, <4>1
    <3>2. g.mem = k.mem
      BY <1>19 DEF Remapped
    <3>3. Spanned(g) = Spanned(k) \union {q \in Pages : Has(u, q)}
      BY <1>3, <1>12 DEF Spanned
    <3> QED
      BY <3>1, <3>2, <3>3
  <2> QED
    BY <1>4, <1>19, <2>1 DEF Books, Remapped
<1>23. Paced(g)
  BY <1>3, <1>19 DEF Paced, Remapped
<1> QED
  BY <1>5, <1>6, <1>12, <1>15, <1>16, <1>17, <1>18, <1>21, <1>22, <1>23 DEF Good, Tiling

\* What every call does to the heap: it stays good, and keeps its clients' spans.
Sound(h, g) == Good(g, {}) /\ Paced(g) /\ Keep(h, g)

LEMMA SoundTwice == ASSUME NEW h, NEW g, NEW f, Sound(h, g), Sound(g, f) PROVE Sound(h, f)
BY DEF Sound, Keep

LEMMA KeptSound == ASSUME NEW h, NEW g, Paced(h), Kept(h, g) PROVE Sound(h, g)
BY DEF Sound, Kept, Paced

LEMMA Added ==
  ASSUME NEW h, NEW pg, NEW n, MayGrow(h, pg, n), NEW g, g = AddPages(h, pg, n)
  PROVE  Sound(h, g)
<1> DEFINE id == NewSpanId(h, pg)
           k == TakePages(h, pg, n)
           f == NewSpan(k, id, [start |-> pg, length |-> n, location |-> InUse, sizeclass |-> 0])
           a == RecordSpan(f, id)
<1>1. g = DeleteFrom(a, id)
  BY DEF AddPages
<1>2. Adding(h, k, f, a, pg, n, id)
  BY DEF Adding
<1> HIDE DEF id, k, f, a
<1>3. /\ Good(a, {}) /\ Paced(a) /\ id \in DOMAIN a.span /\ id \notin DOMAIN h.span
      /\ a.span[id].location = InUse /\ \A i \in DOMAIN h.span : i \in DOMAIN a.span /\ a.span[i] = h.span[i]
  BY <1>2, SpanAdded
<1>4. Good(g, {}) /\ Paced(g) /\ KeepOthers(a, g, id)
  BY <1>1, <1>3, Deleted
<1> QED
  BY <1>3, <1>4 DEF Sound, Keep, KeepOthers

LEMMA GrownIs ==
  ASSUME NEW e, Good(e.heap, {}), Paced(e.heap), NEW n \in Nat, n > 0, e.ok => WithinLimitNow(e.heap, n),
         NEW r \in Grown(e, n)
  PROVE  Sound(e.heap, r.heap)
<1>1. e.ok
  BY DEF Grown
<1>2. (\E pg \in SystemAlloc(e.heap, n) : r = [heap |-> AddPages(e.heap, pg, n), ok |-> TRUE])
      \/ (\E pg \in SystemAlloc(e.heap, n) : r = [heap |-> TakePages(e.heap, pg, n), ok |-> FALSE])
  BY <1>1, Zenon DEF Grown
<1>3. ASSUME NEW pg \in SystemAlloc(e.heap, n), r = [heap |-> AddPages(e.heap, pg, n), ok |-> TRUE] PROVE Sound(e.heap, r.heap)
  <2>1. MayGrow(e.heap, pg, n) /\ r.heap = AddPages(e.heap, pg, n)
    BY <1>1, <1>3 DEF MayGrow
  <2> QED
    BY <2>1, Added
<1>4. ASSUME NEW pg \in SystemAlloc(e.heap, n), r = [heap |-> TakePages(e.heap, pg, n), ok |-> FALSE] PROVE Sound(e.heap, r.heap)
  <2>1. MayGrow(e.heap, pg, n) /\ r.heap = TakePages(e.heap, pg, n)
    BY <1>1, <1>4 DEF MayGrow
  <2>2. Good(r.heap, {}) /\ Paced(r.heap) /\ r.heap.span = e.heap.span
    BY <2>1, PagesTaken
  <2> QED
    BY <2>2 DEF Sound, Keep
<1> QED
  BY <1>2, <1>3, <1>4

LEMMA Grows ==
  ASSUME NEW h, Good(h, {}), Paced(h), NEW n \in Pages, NEW r \in GrowHeap(h, n)
  PROVE  Sound(h, r.heap)
<1> DEFINE ask == IF n > kMaxPages THEN n ELSE kMaxPages
           first == EnsureLimit(h, ask)
           again == IF n < ask THEN EnsureLimit(first.heap, n) ELSE first
<1>2. r \in Grown(first, ask) \/ (n < ask /\ r \in Grown(again, n)) \/ r = [heap |-> again.heap, ok |-> FALSE]
  BY DEF GrowHeap
<1>3. n \in Nat /\ n > 0 /\ ask \in Nat /\ ask > 0
  BY PagesAssumption DEF Pages
<1> HIDE DEF ask
<1>4. Kept(h, first.heap) /\ (first.ok => WithinLimitNow(first.heap, ask))
  BY <1>3, Ensured
<1> HIDE DEF first
<1>5. Sound(h, first.heap) /\ Good(first.heap, {}) /\ Paced(first.heap)
  BY <1>4, KeptSound DEF Sound
<1>6. Sound(h, again.heap) /\ Good(again.heap, {}) /\ Paced(again.heap) /\ (n < ask /\ again.ok => WithinLimitNow(again.heap, n))
  <2>1. CASE n < ask
    <3> DEFINE e == EnsureLimit(first.heap, n)
    <3>1. Kept(first.heap, e.heap) /\ (e.ok => WithinLimitNow(e.heap, n))
      BY <1>3, <1>5, Ensured
    <3>2. again = e
      BY <2>1
    <3> HIDE DEF e, again
    <3>3. Sound(first.heap, e.heap)
      BY <1>5, <3>1, KeptSound
    <3>4. Sound(h, e.heap)
      BY <1>5, <3>3, SoundTwice
    <3> QED
      BY <3>1, <3>2, <3>4 DEF Sound
  <2>2. CASE ~(n < ask)
    BY <1>5, <2>2
  <2> QED
    BY <2>1, <2>2
<1> HIDE DEF again
<1>7. CASE r \in Grown(first, ask)
  <2>1. Sound(first.heap, r.heap)
    BY <1>3, <1>4, <1>5, <1>7, GrownIs
  <2> QED
    BY <1>5, <2>1, SoundTwice
<1>8. CASE n < ask /\ r \in Grown(again, n)
  <2>1. Sound(again.heap, r.heap)
    BY <1>3, <1>6, <1>8, GrownIs
  <2> QED
    BY <1>6, <2>1, SoundTwice
<1>9. CASE r = [heap |-> again.heap, ok |-> FALSE]
  BY <1>6, <1>9
<1> QED
  BY <1>2, <1>7, <1>8, <1>9

\* What New does to the heap.
LEMMA NewFound ==
  ASSUME NEW h, Good(h, {}), Paced(h), NEW n \in Pages, NEW r \in NewSpans(h, n)
  PROVE  /\ Sound(h, r.heap) /\ r.span \in Ids \union {NULL}
         /\ r.span = NULL /\ WithinLimitNow(h, n) =>
              \A a \in DOMAIN h.span : h.span[a].location # InUse => h.span[a].length < n
<1> DEFINE first == SearchFreeAndLargeLists(h, n)
           released == ReleaseAtLeastNPages(first.heap, NPages + 1)
           again == SearchFreeAndLargeLists(released.heap, n)
           coalesced == IF first.span = NULL /\ ForcedCoalesce(first.heap, n) THEN again ELSE first
<1>1. r \in IF coalesced.span # NULL THEN {coalesced}
            ELSE {IF g.ok THEN SearchFreeAndLargeLists(g.heap, n) ELSE [heap |-> g.heap, span |-> NULL] :
                    g \in GrowHeap(coalesced.heap, n)}
  BY DEF NewSpans, Growing, Coalescing
<1>2. Search(h, first, n)
  BY Searches
<1> HIDE DEF first
<1>3. Good(first.heap, {}) /\ Paced(first.heap) /\ Sound(h, first.heap)
  <2>1. Kept(h, first.heap)
    BY <1>2 DEF Search
  <2>2. Sound(h, first.heap)
    BY <2>1, KeptSound
  <2> QED
    BY <2>2 DEF Sound
<1>4. Sound(first.heap, again.heap) /\ again.span \in Ids \union {NULL}
  <2>1. GaveBack(first.heap, released.heap, released.released)
    BY <1>3, Gives
  <2> HIDE DEF released
  <2>2. Good(released.heap, {}) /\ Kept(first.heap, released.heap)
    BY <2>1 DEF GaveBack, Kept
  <2>3. Search(released.heap, again, n)
    BY <2>2, Searches
  <2> HIDE DEF again
  <2>4. Kept(first.heap, again.heap)
    BY <2>2, <2>3, KeptTwice DEF Search
  <2> QED
    BY <1>3, <2>3, <2>4, KeptSound DEF Search
<1> HIDE DEF again
<1>5. coalesced.span # NULL \/ first.span = NULL
  OBVIOUS
<1>6. Sound(h, coalesced.heap) /\ coalesced.span \in Ids \union {NULL}
  <2>1. CASE coalesced = first
    <3> HIDE DEF coalesced
    <3> QED
      BY <1>2, <1>3, <2>1 DEF Search
  <2>2. CASE coalesced = again
    <3> HIDE DEF coalesced
    <3> QED
      BY <1>3, <1>4, <2>2, SoundTwice
  <2> QED
    BY <2>1, <2>2
<1>7. first.span = NULL /\ WithinLimitNow(h, n) =>
        \A a \in DOMAIN h.span : h.span[a].location # InUse => h.span[a].length < n
  BY <1>2 DEF Search
<1> HIDE DEF coalesced
<1>8. CASE coalesced.span # NULL
  <2>1. r = coalesced
    BY <1>1, <1>8
  <2> QED
    BY <1>6, <1>8, <2>1
<1>9. CASE coalesced.span = NULL
  <2>1. PICK g \in GrowHeap(coalesced.heap, n) :
          r = IF g.ok THEN SearchFreeAndLargeLists(g.heap, n) ELSE [heap |-> g.heap, span |-> NULL]
    BY <1>1, <1>9
  <2>2. Good(coalesced.heap, {}) /\ Paced(coalesced.heap)
    BY <1>6 DEF Sound
  <2>3. Sound(coalesced.heap, g.heap)
    BY <2>2, Grows
  <2>4. Sound(h, g.heap) /\ Good(g.heap, {}) /\ Paced(g.heap)
    BY <1>6, <2>3, SoundTwice DEF Sound
  <2>5. Sound(h, r.heap) /\ r.span \in Ids \union {NULL}
    <3>1. CASE g.ok
      <4>1. r = SearchFreeAndLargeLists(g.heap, n)
        BY <2>1, <3>1
      <4>2. Search(g.heap, r, n)
        BY <2>4, <4>1, Searches
      <4>3. Sound(g.heap, r.heap)
        BY <2>4, <4>2, KeptSound DEF Search
      <4> QED
        BY <2>4, <4>2, <4>3, SoundTwice DEF Search
    <3>2. CASE ~g.ok
      <4>1. r = [heap |-> g.heap, span |-> NULL]
        BY <2>1, <3>2
      <4> QED
        BY <2>4, <4>1
    <3> QED
      BY <3>1, <3>2
  <2> QED
    BY <1>5, <1>7, <1>9, <2>5
<1> QED
  BY <1>8, <1>9

-----------------------------------------------------------------------------
(* The calls.                                                               *)

\* The SMT translation has no empty string, so the names are behind a definition.
Calls == {"New", "Split", ""}
Results == Calls \X (0..NPages) \X (Ids \union {NULL})

LEMMA CallsAre == "New" \in Calls /\ "Split" \in Calls /\ "" \in Calls
BY Zenon DEF Calls

LEMMA ResultIs ==
  ASSUME NEW call \in Calls, NEW n \in 0..NPages, NEW id \in Ids \union {NULL}
  PROVE  <<call, n, id>> \in Results
BY DEF Results

LEMMA NoResultIs == NoResult \in Results
<1>1. 0 \in 0..NPages
  BY PagesFinite
<1>2. NULL \in Ids \union {NULL}
  OBVIOUS
<1>3. \A call \in Calls : <<call, 0, NULL>> \in Results
  BY <1>1, <1>2, ResultIs
<1>4. <<"", 0, NULL>> \in Results
  BY <1>3, CallsAre, Zenon
<1> QED
  BY <1>4, Zenon DEF NoResult

\* Between two calls no span is in hand.
PagesInv == Good(heap, {}) /\ Paced(heap) /\ result \in Results

LEMMA WorksSet ==
  ASSUME NEW h, Good(h, {}), Paced(h), NEW w \in {0, 1, All}, ~h.fails => w = All, NEW g, g = [h EXCEPT !.works = w]
  PROVE  Sound(h, g) /\ g.span = h.span /\ g.limit = h.limit /\ g.system = h.system /\ g.unmapped = h.unmapped
<1>1. IsHeap(h) /\ Fields(h)
  BY DEF Good, Shape
<1>2. IsHeap(g) /\ Tally(h, g) /\ g.scavenge = h.scavenge /\ g.release_index = h.release_index /\ g.works = w
  BY <1>1 DEF IsHeap, Tally
<1>3. Fields(g)
  BY <1>1, <1>2 DEF Fields, Tally
<1>4. Good(g, {}) /\ Keep(h, g)
  BY <1>2, <1>3, StayGood
<1> QED
  BY <1>2, <1>4 DEF Sound, Paced, Tally

LEMMA WithIs ==
  ASSUME PagesInv, NEW w \in Works, NEW g, g = With(w)
  PROVE  Sound(heap, g) /\ g.span = heap.span /\ (\A n : WithinLimitNow(g, n) <=> WithinLimitNow(heap, n))
<1>1. w \in {0, 1, All} /\ (~heap.fails => w = All) /\ Good(heap, {}) /\ Paced(heap) /\ g = [heap EXCEPT !.works = w]
  BY DEF Works, With, PagesInv, Good, Shape, Fields
<1>2. Sound(heap, g) /\ g.span = heap.span /\ g.limit = heap.limit /\ g.system = heap.system /\ g.unmapped = heap.unmapped
  BY <1>1, WorksSet
<1> QED
  BY <1>2 DEF WithinLimitNow

LEMMA FinishIs ==
  ASSUME NEW h, Good(h, {}), Paced(h), Finish(h)
  PROVE  Good(heap', {}) /\ Paced(heap') /\ heap'.span = h.span
<1> DEFINE g == [h EXCEPT !.works = All]
<1>1. heap' = g
  BY DEF Finish
<1>2. All \in {0, 1, All}
  OBVIOUS
<1>3. \A x : x = g => Good(x, {}) /\ Paced(x) /\ x.span = h.span
  <2>1. SUFFICES ASSUME NEW x, x = [h EXCEPT !.works = All] PROVE Good(x, {}) /\ Paced(x) /\ x.span = h.span
    OBVIOUS
  <2> QED
    BY <1>2, <2>1, WorksSet DEF Sound
<1> HIDE DEF g
<1> QED
  BY <1>1, <1>3

\* What the step of a call leaves behind.
After == Good(heap', {}) /\ Paced(heap') /\ result' \in Results
KeptBut(id) ==
  \A a \in DOMAIN heap.span :
    a # id /\ heap.span[a].location = InUse => a \in DOMAIN heap'.span /\ heap'.span[a] = heap.span[a]

LEMMA NewStep ==
  ASSUME PagesInv, NEW n \in Pages, New(n)
  PROVE  /\ After /\ \A id : KeptBut(id)
         /\ \A a \in DOMAIN heap.span : heap.span[a].location = InUse => a \in DOMAIN heap'.span /\ heap'.span[a] = heap.span[a]
         /\ result' = <<"New", n, NULL>> /\ WithinLimitNow(heap, n) =>
              \A a \in DOMAIN heap.span : heap.span[a].location # InUse => heap.span[a].length < n
<1>1. PICK w \in Works : \E r \in NewSpans(With(w), n) : Finish(r.heap) /\ result' = <<"New", n, r.span>>
  BY DEF New
<1> DEFINE g == With(w)
<1>2. PICK r \in NewSpans(g, n) : Finish(r.heap) /\ result' = <<"New", n, r.span>>
  BY <1>1
<1>3. Sound(heap, g) /\ g.span = heap.span /\ (WithinLimitNow(g, n) <=> WithinLimitNow(heap, n))
  BY WithIs
<1> HIDE DEF g
<1>4. /\ Sound(g, r.heap) /\ r.span \in Ids \union {NULL}
      /\ r.span = NULL /\ WithinLimitNow(g, n) =>
           \A a \in DOMAIN g.span : g.span[a].location # InUse => g.span[a].length < n
  BY <1>3, NewFound DEF Sound
<1>5. Good(heap', {}) /\ Paced(heap') /\ heap'.span = r.heap.span
  BY <1>2, <1>4, FinishIs DEF Sound
<1>6. \A a \in DOMAIN heap.span : heap.span[a].location = InUse => a \in DOMAIN heap'.span /\ heap'.span[a] = heap.span[a]
  BY <1>3, <1>4, <1>5 DEF Sound, Keep
<1>7. n \in 0..NPages
  BY PagesFinite DEF Pages
<1>8. After
  <2>1. result' \in Results
    <3>1. \A call \in Calls : <<call, n, r.span>> \in Results
      BY <1>4, <1>7, ResultIs
    <3> QED
      BY <1>2, <3>1, CallsAre, Zenon
  <2> QED
    BY <1>5, <2>1 DEF After
<1>9. result' = <<"New", n, NULL>> => r.span = NULL
  BY <1>2
<1> QED
  BY <1>3, <1>4, <1>6, <1>8, <1>9 DEF KeptBut

LEMMA DeleteStep == ASSUME PagesInv, NEW id \in Ids, Delete(id) PROVE After /\ KeptBut(id)
<1>1. id \in DOMAIN heap.span /\ heap.span[id].location = InUse /\ result' = NoResult
  BY DEF Delete, Clients
<1>2. PICK w \in Works : Finish(DeleteFrom(With(w), id))
  BY DEF Delete
<1> DEFINE g == With(w)
           d == DeleteFrom(g, id)
<1>3. Sound(heap, g) /\ g.span = heap.span
  BY WithIs
<1> HIDE DEF g
<1>4. Good(d, {}) /\ Paced(d) /\ KeepOthers(g, d, id)
  BY <1>1, <1>3, Deleted DEF Sound
<1>5. Finish(d)
  BY <1>2 DEF g
<1> HIDE DEF d
<1>6. Good(heap', {}) /\ Paced(heap') /\ heap'.span = d.span
  BY <1>4, <1>5, FinishIs
<1>7. NoResult \in Results
  BY NoResultIs
<1> QED
  BY <1>1, <1>3, <1>4, <1>6, <1>7 DEF After, KeptBut, KeepOthers

LEMMA ReleaseStep == ASSUME PagesInv, NEW n, ReleasePages(n) PROVE After /\ \A id : KeptBut(id)
<1>1. PICK w \in Works : Finish(ReleaseAtLeastNPages(With(w), n).heap)
  BY DEF ReleasePages
<1> DEFINE g == With(w)
           r == ReleaseAtLeastNPages(g, n)
<1>2. Sound(heap, g) /\ g.span = heap.span
  BY WithIs
<1>3. Finish(r.heap)
  BY <1>1
<1> HIDE DEF g
<1>4. GaveBack(g, r.heap, r.released)
  BY <1>2, Gives DEF Sound
<1> HIDE DEF r
<1>5. Good(r.heap, {}) /\ Paced(r.heap) /\ Keep(g, r.heap)
  BY <1>2, <1>4 DEF GaveBack, Sound, Paced
<1>6. Good(heap', {}) /\ Paced(heap') /\ heap'.span = r.heap.span
  BY <1>3, <1>5, FinishIs
<1>7. NoResult \in Results /\ result' = NoResult
  BY NoResultIs DEF ReleasePages
<1> QED
  BY <1>2, <1>5, <1>6, <1>7 DEF After, KeptBut, Keep

\* The client's span is cut in two.
LEMMA Divided ==
  ASSUME NEW h, Good(h, {}), Paced(h), NEW id \in DOMAIN h.span, h.span[id].location = InUse, h.span[id].sizeclass = 0,
         NEW n \in Pages, n < h.span[id].length, NEW left, left = NewSpanId(h, h.span[id].start + n),
         NEW g, g = Cut(h, id, n, left, InUse)
  PROVE  Good(g, {}) /\ Paced(g) /\ KeepOthers(h, g, id) /\ left \in Ids
<1> DEFINE s == h.span[id]
<1>1. Shape(h) /\ Tiling(h) /\ Settled(h, {}) /\ Books(h) /\ IsSpan(s) /\ n \in Nat /\ n > 0
  BY DEF Good, Shape, Pages
<1>2. left \in Ids /\ left \notin DOMAIN h.span
  <2>1. s.start + n \in Pages /\ s.start + n \in Int /\ Has(s, s.start + n)
    BY <1>1, PagesFinite DEF IsSpan, Pages, Has
  <2>2. \A a \in DOMAIN h.span : h.span[a].start # s.start + n
    <3>1. SUFFICES ASSUME NEW a \in DOMAIN h.span, h.span[a].start = s.start + n PROVE FALSE
      OBVIOUS
    <3>2. IsSpan(h.span[a])
      BY <1>1 DEF Shape
    <3>3. a # id /\ Has(h.span[a], s.start + n)
      BY <1>1, <3>1, <3>2 DEF IsSpan, Has
    <3> QED
      BY <1>1, <2>1, <3>3, OneOwner DEF Tiling
  <2> HIDE DEF s
  <2> QED
    BY <1>1, <2>1, <2>2, Fresh DEF Tiling, s
<1>3. MayCut(h, id, n, left) /\ InUse \in {InUse, Normal, Returned}
  BY <1>1, <1>2 DEF MayCut
<1>4. Cutting(h, g, id, n, left, InUse)
  BY <1>1, <1>2, CutIs
<1>5. /\ Shape(g) /\ Tiling(g) /\ Spanned(g) = Spanned(h) /\ Steady(h, g)
      /\ DOMAIN g.span = DOMAIN h.span \union {left} /\ id # left
      /\ \A a \in DOMAIN h.span : a # id => g.span[a] = h.span[a]
      /\ g.span[id].location = InUse /\ g.span[left].location = InUse
      /\ \A pg \in Int : Has(s, pg) <=> Has(g.span[id], pg) \/ Has(g.span[left], pg)
  BY <1>3, <1>4, Parted, SMTT(30)
<1>6. Settled(g, {id, left})
  <2>1. \A X : id \in X /\ Settled(h, X) => Settled(g, X \union {left})
    BY <1>3, <1>4, Parted
  <2>2. Settled(h, {} \union {id})
    BY <1>1, TakenUp
  <2>3. {} \union {id} = {id} /\ {id} \union {left} = {id, left}
    OBVIOUS
  <2> QED
    BY <2>1, <2>2, <2>3
<1>7. Backing(g, id) /\ Backing(g, left)
  <2>1. \A pg \in Pages : Has(s, pg) => pg \in h.mem
    BY <1>1 DEF Settled, MemTrue, Out, InUse, Returned
  <2>2. \A pg \in Pages : pg \in Int
    BY DEF Pages
  <2>3. g.mem = h.mem
    BY <1>5 DEF Steady
  <2> QED
    BY <1>5, <2>1, <2>2, <2>3 DEF Backing, InUse, Returned
<1>8. Settled(g, {})
  <2>1. id \in DOMAIN g.span /\ left \in DOMAIN g.span
    BY <1>5
  <2>2. Settled(g, {id, left} \ {left})
    BY <1>5, <1>6, <1>7, <2>1, LaidDown
  <2>3. Settled(g, ({id, left} \ {left}) \ {id})
    BY <1>5, <1>7, <2>1, <2>2, LaidDown
  <2>4. ({id, left} \ {left}) \ {id} = {}
    OBVIOUS
  <2> QED
    BY <2>3, <2>4
<1>9. Books(g)
  BY <1>1, <1>5 DEF Books, Steady
<1>10. Paced(g)
  BY <1>5 DEF Steady, Paced
<1> QED
  BY <1>2, <1>5, <1>8, <1>9, <1>10 DEF Good, KeepOthers

LEMMA SplitStep == ASSUME PagesInv, NEW id \in Ids, NEW n \in Pages, Split(id, n) PROVE After /\ KeptBut(id)
<1> DEFINE left == NewSpanId(heap, heap.span[id].start + n)
           g == Cut(heap, id, n, left, InUse)
<1>1. /\ id \in DOMAIN heap.span /\ heap.span[id].location = InUse /\ heap.span[id].sizeclass = 0 /\ n < heap.span[id].length
      /\ Finish(g) /\ result' = <<"Split", n, left>>
  BY DEF Split, Clients
<1>2. Good(g, {}) /\ Paced(g) /\ KeepOthers(heap, g, id) /\ left \in Ids
  BY <1>1, Divided DEF PagesInv
<1> HIDE DEF g, left
<1>3. Good(heap', {}) /\ Paced(heap') /\ heap'.span = g.span
  BY <1>1, <1>2, FinishIs
<1>4. n \in 0..NPages
  BY PagesFinite DEF Pages
<1>5. result' \in Results
  <2>1. \A call \in Calls : <<call, n, left>> \in Results
    BY <1>2, <1>4, ResultIs
  <2> QED
    BY <1>1, <2>1, CallsAre, Zenon
<1>6. After
  BY <1>3, <1>5 DEF After
<1> QED
  BY <1>2, <1>3, <1>6 DEF KeptBut, KeepOthers

Registering(h, g, id, sc) ==
  g = [h EXCEPT !.span[id].sizeclass = sc,
                !.pagemap = [pg \in DOMAIN @ |-> IF pg \in InteriorOf(h.span[id]) THEN id ELSE @[pg]]]

LEMMA Registered ==
  ASSUME NEW h, Good(h, {}), NEW id \in DOMAIN h.span, h.span[id].location = InUse, NEW sc, NEW g, Registering(h, g, id, sc)
  PROVE  Labelled(h, g, id, sc)
<1> DEFINE s == h.span[id]
           u == [s EXCEPT !.sizeclass = sc]
           map == [pg \in DOMAIN h.pagemap |-> IF pg \in InteriorOf(s) THEN id ELSE h.pagemap[pg]]
<1>1. IsHeap(h) /\ Fields(h) /\ IsSpan(s) /\ h.span = [i \in DOMAIN h.span |-> h.span[i]] /\ id \in Ids
  BY DEF Good, Shape
<1>2. g = [h EXCEPT !.span[id].sizeclass = sc, !.pagemap = map]
  BY DEF Registering
<1> HIDE DEF map
<1>3. IsHeap(g) /\ g.normal = h.normal /\ g.returned = h.returned /\ g.free = h.free /\ g.unmapped = h.unmapped
      /\ Steady(h, g) /\ g.pagemap = map
  <2>1. IsHeap(g)
    BY <1>1, <1>2 DEF IsHeap
  <2>2. g.normal = h.normal /\ g.returned = h.returned /\ g.free = h.free /\ g.unmapped = h.unmapped
    BY <1>2
  <2>3. Steady(h, g)
    BY <1>2 DEF Steady
  <2>4. g.pagemap = map
    BY <1>1, <1>2 DEF IsHeap
  <2> QED
    BY <2>1, <2>2, <2>3, <2>4
<1>4. g.span = [h.span EXCEPT ![id] = u]
  BY <1>1, <1>2 DEF IsHeap
<1>5. u = [start |-> s.start, length |-> s.length, location |-> s.location, sizeclass |-> sc]
  <2>1. s = [start |-> s.start, length |-> s.length, location |-> s.location, sizeclass |-> s.sizeclass]
    BY <1>1 DEF IsSpan
  <2>2. \E v : v = u
    OBVIOUS
  <2>3. PICK v : v = u
    BY <2>2
  <2>4. v = [s EXCEPT !.sizeclass = sc]
    BY <2>3
  <2> HIDE DEF u, s
  <2>5. v = [start |-> s.start, length |-> s.length, location |-> s.location, sizeclass |-> sc]
    BY <2>1, <2>4
  <2> QED
    BY <2>3, <2>5
<1>6. g.span = [i \in DOMAIN h.span |->
                  IF i = id THEN [start |-> s.start, length |-> s.length, location |-> s.location, sizeclass |-> sc] ELSE h.span[i]]
  <2> HIDE DEF u
  <2> QED
    BY <1>1, <1>4, <1>5
<1>7. DOMAIN h.pagemap = 0..(NPages + 1) /\ \A pg \in 0..(NPages + 1) : h.pagemap[pg] \in Ids \union {NULL}
  BY <1>1 DEF Fields
<1>8. /\ map \in [0..(NPages + 1) -> Ids \union {NULL}]
      /\ \A pg \in 0..(NPages + 1) : map[pg] = IF pg \in InteriorOf(s) THEN id ELSE h.pagemap[pg]
  BY <1>1, <1>7 DEF map
<1>9. \A pg \in 0..(NPages + 1) : Has(s, pg) => map[pg] = id
  <2>1. SUFFICES ASSUME NEW pg \in 0..(NPages + 1), Has(s, pg), pg \notin InteriorOf(s) PROVE h.pagemap[pg] = id
    BY <1>8
  <2>2. pg = s.start \/ pg = s.start + s.length - 1
    BY <1>1, <2>1 DEF InteriorOf, EndOf, Has, IsSpan
  <2> QED
    BY <2>2 DEF Good, Tiling, Mapped
<1>10. \A pg \in 0..(NPages + 1) : map[pg] = h.pagemap[pg] \/ (Has(s, pg) /\ map[pg] = id)
  <2>1. \A pg \in 0..(NPages + 1) : pg \in InteriorOf(s) => Has(s, pg)
    BY <1>1 DEF InteriorOf, EndOf, Has, IsSpan
  <2> QED
    BY <1>8, <2>1
<1> QED
  BY <1>3, <1>6, <1>8, <1>9, <1>10 DEF Labelled

LEMMA RegisterStep ==
  ASSUME PagesInv, NEW id \in Ids, NEW sc \in SizeClasses, RegisterSizeClass(id, sc)
  PROVE  After /\ KeptBut(id)
<1> DEFINE g == [heap EXCEPT !.span[id].sizeclass = sc,
                             !.pagemap = [pg \in DOMAIN @ |-> IF pg \in InteriorOf(heap.span[id]) THEN id ELSE @[pg]]]
<1>1. id \in DOMAIN heap.span /\ heap.span[id].location = InUse /\ Finish(g) /\ result' = NoResult
  BY DEF RegisterSizeClass, Clients
<1>2. Good(heap, {}) /\ Paced(heap)
  BY DEF PagesInv
<1>3. Registering(heap, g, id, sc)
  BY DEF Registering
<1> HIDE DEF g
<1>3a. Labelled(heap, g, id, sc)
  BY <1>1, <1>2, <1>3, Registered
<1>4. Labelling(heap, {}, g, id, sc)
  BY <1>1, <1>2, <1>3a DEF Labelling
<1>5. /\ Good(g, {}) /\ DOMAIN g.span = DOMAIN heap.span /\ g.scavenge = heap.scavenge
      /\ \A a \in DOMAIN heap.span : a # id => g.span[a] = heap.span[a]
  BY <1>4, StayLabelled
<1>6. Paced(g)
  BY <1>2, <1>5 DEF Paced
<1>7. Good(heap', {}) /\ Paced(heap') /\ heap'.span = g.span
  BY <1>1, <1>5, <1>6, FinishIs
<1>8. NoResult \in Results
  BY NoResultIs
<1> QED
  BY <1>1, <1>5, <1>7, <1>8 DEF After, KeptBut

\* A heap without pages is good.
LEMMA EmptyGood ==
  ASSUME NEW m \in Modes, NEW h,
         h = [span |-> <<>>, pagemap |-> [pg \in 0..(NPages + 1) |-> NULL],
              normal |-> EmptyLists, returned |-> EmptyLists,
              free |-> 0, unmapped |-> 0, committed |-> 0, system |-> 0,
              mem |-> {}, release_index |-> kMaxPages, scavenge |-> 0,
              aggressive |-> m.aggressive, limit |-> m.limit, fails |-> m.fails, works |-> All]
  PROVE  Good(h, {}) /\ Paced(h)
<1>1. m.aggressive \in BOOLEAN /\ m.limit \in Nat /\ m.fails \in BOOLEAN /\ (m.aggressive => ~m.fails)
  BY PagesAssumption
<1>2. kMaxPages \in Nat /\ kMaxPages > 0 /\ NPages \in Nat /\ ReleaseDelay \in Nat
  BY PagesAssumption
<1>3. IsHeap(h)
  BY DEF IsHeap
<1>4. /\ h.span = <<>> /\ h.normal = EmptyLists /\ h.returned = EmptyLists /\ h.mem = {}
      /\ h.pagemap = [pg \in 0..(NPages + 1) |-> NULL]
      /\ h.free = 0 /\ h.unmapped = 0 /\ h.committed = 0 /\ h.system = 0 /\ h.release_index = kMaxPages /\ h.scavenge = 0
      /\ h.limit = m.limit /\ h.works = All
  OBVIOUS
<1>5. h.aggressive = m.aggressive /\ h.fails = m.fails
  BY Zenon
<1> HIDE DEF All
<1>6. DOMAIN h.span = {} /\ h.span = [id \in DOMAIN h.span |-> h.span[id]]
  BY <1>4
<1>7. EmptyLists \in [1..kMaxPages -> Seq(Ids)] /\ \A list \in 1..kMaxPages : EmptyLists[list] = <<>>
  BY <1>2 DEF EmptyLists
<1>8. Fields(h)
  <2>1. h.pagemap \in [0..(NPages + 1) -> Ids \union {NULL}]
    BY <1>4
  <2>2. h.aggressive \in BOOLEAN /\ h.fails \in BOOLEAN /\ (h.aggressive => ~h.fails) /\ (~h.fails => h.works = All)
    BY <1>1, <1>4, <1>5, Zenon
  <2>3. h.release_index \in 0..(kMaxPages + 1)
    BY <1>2, <1>4
  <2> QED
    BY <1>1, <1>4, <1>7, <2>1, <2>2, <2>3 DEF Fields
<1>9. Shape(h)
  BY <1>3, <1>6, <1>8 DEF Shape
<1>10. Tiling(h)
  BY <1>4, <1>6 DEF Tiling, Apart, Mapped, Located
<1>11. Settled(h, {})
  <2>1. Out(h, {}) = {}
    BY <1>6 DEF Out
  <2>2. Touching(h, {}) /\ AllReturned(h, {}) /\ MemTrue(h, {})
    BY <2>1 DEF Touching, AllReturned, MemTrue
  <2>3. OnLists(h, {})
    <3>1. On(<<>>) = {} /\ NoneTwice(<<>>)
      BY DEF On, NoneTwice
    <3>2. \A loc, list : OfList(h, {}, loc, list) = {}
      BY <2>1 DEF OfList
    <3> QED
      BY <1>4, <1>7, <3>1, <3>2 DEF OnLists
  <2>4. Counts(h, {})
    <3>1. \A loc : PagesOf(h, {}, loc) = {}
      BY <2>1 DEF PagesOf
    <3> QED
      BY <1>4, <3>1, FS_EmptySet DEF Counts
  <2> QED
    BY <2>2, <2>3, <2>4 DEF Settled
<1>12. Books(h)
  <2>1. h.mem \union Spanned(h) = {}
    BY <1>4, <1>6 DEF Spanned
  <2>2. Cardinality(h.mem) = 0 /\ Cardinality(h.mem \union Spanned(h)) = 0
    BY <1>4, <2>1, FS_EmptySet
  <2>3. h.committed = 0 /\ h.system = 0 /\ h.limit \in Nat
    BY <1>1, <1>4
  <2> QED
    BY <2>2, <2>3 DEF Books
<1> QED
  BY <1>2, <1>4, <1>9, <1>10, <1>11, <1>12 DEF Good, Paced

LEMMA PagesStart == PagesInit => PagesInv
<1> SUFFICES ASSUME PagesInit PROVE PagesInv
  OBVIOUS
<1>1. PICK m \in Modes :
        heap = [span |-> <<>>, pagemap |-> [pg \in 0..(NPages + 1) |-> NULL],
                normal |-> EmptyLists, returned |-> EmptyLists,
                free |-> 0, unmapped |-> 0, committed |-> 0, system |-> 0,
                mem |-> {}, release_index |-> kMaxPages, scavenge |-> 0,
                aggressive |-> m.aggressive, limit |-> m.limit, fails |-> m.fails, works |-> All]
  BY Zenon DEF PagesInit
<1>2. Good(heap, {}) /\ Paced(heap)
  BY <1>1, EmptyGood
<1>3. result \in Results
  BY NoResultIs DEF PagesInit
<1> QED
  BY <1>2, <1>3 DEF PagesInv

\* Every call keeps the invariant.
LEMMA PagesStep == ASSUME Toggles = {}, PagesInv, [PagesNext]_pagesVars PROVE PagesInv'
<1>1. CASE UNCHANGED pagesVars
  BY <1>1 DEF PagesInv, pagesVars
<1>2. ASSUME PagesNext PROVE PagesInv'
  <2>1. ASSUME After PROVE PagesInv'
    BY <2>1 DEF After, PagesInv
  <2>2. ASSUME NEW n \in Pages, New(n) PROVE PagesInv'
    BY <2>1, <2>2, NewStep
  <2>3. ASSUME NEW n \in Pages, ReleasePages(n) PROVE PagesInv'
    BY <2>1, <2>3, ReleaseStep
  <2>4. ASSUME NEW id \in Ids, Delete(id) PROVE PagesInv'
    BY <2>1, <2>4, DeleteStep
  <2>5. ASSUME NEW id \in Ids, NEW n \in Pages, Split(id, n) PROVE PagesInv'
    BY <2>1, <2>5, SplitStep
  <2>6. ASSUME NEW id \in Ids, NEW sc \in SizeClasses, RegisterSizeClass(id, sc) PROVE PagesInv'
    BY <2>1, <2>6, RegisterStep
  <2> QED
    BY <1>2, <2>2, <2>3, <2>4, <2>5, <2>6, Zenon DEF PagesNext
<1> QED
  BY <1>1, <1>2

-----------------------------------------------------------------------------
(* The invariant implies the properties.                                    *)

LEMMA HasIsExtent ==
  ASSUME NEW s, IsSpan(s)
  PROVE  /\ \A pg \in Int : pg \in Extent(s) <=> Has(s, pg)
         /\ Extent(s) \subseteq Pages /\ EndOf(s) = s.start + s.length /\ EndOf(s) - 1 \in Pages
         /\ EndOf(s) \in 0..(NPages + 1) /\ s.start \in Pages /\ s.length \in Pages /\ s.start < EndOf(s)
BY PagesFinite DEF IsSpan, Has, Extent, EndOf, Pages

LEMMA TypesSound == ASSUME PagesInv PROVE PagesTypeOK
<1>1. Good(heap, {}) /\ Paced(heap) /\ Shape(heap) /\ Fields(heap)
  BY DEF PagesInv, Good, Shape
<1>2. DOMAIN heap.span \subseteq Ids
  BY <1>1 DEF Shape
<1>3. \A s \in Spans : s \in SpanType /\ EndOf(s) - 1 \in Pages
  <2>1. SUFFICES ASSUME NEW s \in Spans PROVE s \in SpanType /\ EndOf(s) - 1 \in Pages
    OBVIOUS
  <2>2. IsSpan(s)
    BY <1>1 DEF Shape, Spans
  <2>3. s.start \in Pages /\ s.length \in Pages /\ EndOf(s) - 1 \in Pages
    BY <2>2, HasIsExtent
  <2> QED
    BY <2>2, <2>3 DEF IsSpan, SpanType
<1>4. heap.pagemap \in [0..(NPages + 1) -> Ids \union {NULL}] /\ heap.mem \subseteq Pages /\ heap.release_index \in 0..(kMaxPages + 1)
  BY <1>1 DEF Fields
<1>5. {heap.free, heap.unmapped, heap.committed, heap.system} \subseteq 0..NPages
  BY <1>1, Balanced
<1>6. heap.scavenge \in 0..(NPages + ReleaseDelay)
  BY <1>1 DEF Paced
<1>7. result \in {"New", "Split", ""} \X (0..NPages) \X (Ids \union {NULL})
  BY Zenon DEF PagesInv, Results, Calls
<1> QED
  BY <1>2, <1>3, <1>4, <1>5, <1>6, <1>7, Zenon DEF PagesTypeOK

LEMMA DescribedSound == ASSUME PagesInv PROVE Described
<1>1. Good(heap, {}) /\ Shape(heap) /\ Tiling(heap)
  BY DEF PagesInv, Good
<1>2. SUFFICES ASSUME NEW id \in DOMAIN heap.span
      PROVE  LET s == heap.span[id] IN
             /\ \A other \in DOMAIN heap.span \ {id} : Extent(s) \cap Extent(heap.span[other]) = {}
             /\ heap.pagemap[s.start] = id /\ heap.pagemap[EndOf(s) - 1] = id
             /\ s.sizeclass # 0 => \A pg \in Extent(s) : heap.pagemap[pg] = id
             /\ LET prev == heap.pagemap[s.start - 1]
                    next == heap.pagemap[EndOf(s)]
                IN /\ prev # NULL => prev \in DOMAIN heap.span /\ s.start = EndOf(heap.span[prev])
                   /\ next # NULL => next \in DOMAIN heap.span /\ heap.span[next].start = EndOf(s)
  BY DEF Described
<1> DEFINE s == heap.span[id]
<1>3. IsSpan(s)
  BY <1>1 DEF Shape
<1>4. /\ \A pg \in Int : pg \in Extent(s) <=> Has(s, pg)
      /\ Extent(s) \subseteq Pages /\ EndOf(s) = s.start + s.length
  BY <1>3, HasIsExtent
<1>5. \A pg \in Pages : pg \in Int /\ pg \in 0..(NPages + 1)
  BY PagesFinite DEF Pages
<1>6. ASSUME NEW other \in DOMAIN heap.span \ {id} PROVE Extent(s) \cap Extent(heap.span[other]) = {}
  <2>1. IsSpan(heap.span[other])
    BY <1>1 DEF Shape
  <2>2. \A pg \in Int : pg \in Extent(heap.span[other]) <=> Has(heap.span[other], pg)
    BY <2>1, HasIsExtent
  <2>3. \A pg \in Int : Has(s, pg) => ~Has(heap.span[other], pg)
    BY <1>1, OneOwner DEF Tiling
  <2> QED
    BY <1>4, <1>5, <2>2, <2>3
<1>7. /\ heap.pagemap[s.start] = id /\ heap.pagemap[s.start + s.length - 1] = id
      /\ s.sizeclass # 0 => \A pg \in 0..(NPages + 1) : Has(s, pg) => heap.pagemap[pg] = id
  BY <1>1 DEF Tiling, Mapped
<1>8. EndOf(s) - 1 = s.start + s.length - 1
  BY <1>3, <1>4 DEF IsSpan
<1>9. s.sizeclass # 0 => \A pg \in Extent(s) : heap.pagemap[pg] = id
  BY <1>4, <1>5, <1>7
<1>10. ASSUME heap.pagemap[s.start - 1] # NULL
       PROVE  heap.pagemap[s.start - 1] \in DOMAIN heap.span /\ s.start = EndOf(heap.span[heap.pagemap[s.start - 1]])
  <2> DEFINE p == heap.pagemap[s.start - 1]
  <2>1. p = DescriptorOf(heap, IF "prev" = "prev" THEN heap.span[id].start - 1 ELSE heap.span[id].start + heap.span[id].length)
    BY DEF DescriptorOf
  <2> HIDE DEF p
  <2>2. p # NULL => Adjacent(heap, id, p, "prev")
    BY <1>1, <2>1, NeighbourFound
  <2>3. p # NULL
    BY <1>10 DEF p
  <2>4. p \in DOMAIN heap.span /\ heap.span[p].start + heap.span[p].length = s.start
    BY <2>2, <2>3 DEF Adjacent
  <2>5. p \in DOMAIN heap.span /\ s.start = EndOf(heap.span[p])
    BY <2>4 DEF EndOf
  <2> QED
    BY <2>5 DEF p
<1>11. ASSUME heap.pagemap[EndOf(s)] # NULL
       PROVE  heap.pagemap[EndOf(s)] \in DOMAIN heap.span /\ heap.span[heap.pagemap[EndOf(s)]].start = EndOf(s)
  <2> DEFINE p == heap.pagemap[EndOf(s)]
  <2>1. p = DescriptorOf(heap, IF "next" = "prev" THEN heap.span[id].start - 1 ELSE heap.span[id].start + heap.span[id].length)
    BY <1>4 DEF DescriptorOf
  <2> HIDE DEF p
  <2>2. p # NULL => Adjacent(heap, id, p, "next")
    BY <1>1, <2>1, NeighbourFound
  <2>3. p # NULL
    BY <1>11 DEF p
  <2>4. p \in DOMAIN heap.span /\ s.start + s.length = heap.span[p].start
    BY <2>2, <2>3 DEF Adjacent
  <2> QED
    BY <1>4, <2>4 DEF p
<1> QED
  BY <1>6, <1>7, <1>8, <1>9, <1>10, <1>11

LEMMA RangesSound == ASSUME PagesInv PROVE RangesComplete
<1>1. Good(heap, {}) /\ Shape(heap) /\ Tiling(heap)
  BY DEF PagesInv, Good
<1>2. \A id \in DOMAIN heap.span :
        /\ IsSpan(heap.span[id]) /\ EndOf(heap.span[id]) = heap.span[id].start + heap.span[id].length
        /\ heap.span[id].start \in 0..(NPages + 1) /\ EndOf(heap.span[id]) \in 0..(NPages + 1)
        /\ heap.span[id].start < EndOf(heap.span[id]) /\ heap.pagemap[heap.span[id].start] = id /\ id # NULL
  <2>1. SUFFICES ASSUME NEW id \in DOMAIN heap.span
        PROVE  /\ IsSpan(heap.span[id]) /\ EndOf(heap.span[id]) = heap.span[id].start + heap.span[id].length
               /\ heap.span[id].start \in 0..(NPages + 1) /\ EndOf(heap.span[id]) \in 0..(NPages + 1)
               /\ heap.span[id].start < EndOf(heap.span[id]) /\ heap.pagemap[heap.span[id].start] = id /\ id # NULL
    OBVIOUS
  <2>2. IsSpan(heap.span[id]) /\ heap.pagemap[heap.span[id].start] = id /\ id # NULL
    BY <1>1 DEF Shape, Tiling, Mapped, Ids, NULL
  <2>3. /\ EndOf(heap.span[id]) = heap.span[id].start + heap.span[id].length
        /\ EndOf(heap.span[id]) \in 0..(NPages + 1) /\ heap.span[id].start \in Pages
        /\ heap.span[id].start < EndOf(heap.span[id])
    BY <2>2, HasIsExtent
  <2>4. heap.span[id].start \in 0..(NPages + 1)
    BY <2>3, PagesFinite DEF Pages
  <2> QED
    BY <2>2, <2>3, <2>4
<1>3. SUFFICES ASSUME NEW from \in {0} \union {EndOf(s) : s \in Spans}
      PROVE  LET next == GetNextRange(heap, from)
                 later == {id \in DOMAIN heap.span : heap.span[id].start >= from}
             IN IF later = {} THEN next = NULL
                ELSE next \in later /\ \A id \in later : heap.span[next].start <= heap.span[id].start
  BY DEF RangesComplete
<1> DEFINE next == GetNextRange(heap, from)
           later == {id \in DOMAIN heap.span : heap.span[id].start >= from}
           known == {pg \in from..(NPages + 1) : heap.pagemap[pg] # NULL}
\* No span reaches across the page from.
<1>4. from \in 0..(NPages + 1) /\ \A id \in DOMAIN heap.span : heap.span[id].start >= from \/ EndOf(heap.span[id]) <= from
  <2>1. CASE from = 0
    BY <1>2, <2>1, PagesFinite
  <2>2. CASE from \in {EndOf(s) : s \in Spans}
    <3>1. PICK b \in DOMAIN heap.span : from = EndOf(heap.span[b])
      BY <2>2 DEF Spans
    <3>2. ASSUME NEW id \in DOMAIN heap.span PROVE heap.span[id].start >= from \/ EndOf(heap.span[id]) <= from
      <4>1. CASE id = b
        BY <1>2, <3>1, <4>1
      <4>2. CASE id # b
        <5>1. Before(heap.span[id], heap.span[b]) \/ Before(heap.span[b], heap.span[id])
          BY <1>1, <4>2 DEF Tiling, Apart
        <5> QED
          BY <1>2, <3>1, <5>1 DEF Before
      <4> QED
        BY <4>1, <4>2
    <3> QED
      BY <1>2, <3>1, <3>2
  <2> QED
    BY <1>3, <2>1, <2>2
<1>5. ASSUME NEW id \in later PROVE heap.span[id].start \in known
  BY <1>2, <1>4
<1>6. ASSUME NEW pg \in known PROVE \E a \in later : Has(heap.span[a], pg) /\ heap.span[a].start <= pg
  <2>1. pg \in 0..(NPages + 1) /\ pg \in Int /\ from \in Int /\ from <= pg
    BY <1>4, PagesFinite
  <2>2. PICK a \in DOMAIN heap.span : Has(heap.span[a], pg)
    BY <1>1, <2>1 DEF Tiling, Located
  <2>3. heap.span[a].start >= from
    BY <1>2, <1>4, <2>1, <2>2 DEF Has
  <2> QED
    BY <2>2, <2>3 DEF Has
<1>7. next = IF known = {} THEN NULL ELSE heap.pagemap[CHOOSE pg \in known : \A q \in known : pg <= q]
  BY DEF GetNextRange
<1>8. CASE later = {}
  <2>1. known = {}
    BY <1>6, <1>8
  <2> QED
    BY <1>7, <1>8, <2>1
<1>9. CASE later # {}
  <2> DEFINE m == CHOOSE pg \in known : \A q \in known : pg <= q
  <2>1. known # {} /\ known \in SUBSET Nat
    BY <1>4, <1>5, <1>9, PagesFinite
  <2>2. m \in known /\ \A q \in known : m <= q
    <3>1. \E x \in known : \A y \in known : x <= y
      <4> HIDE DEF known
      <4> QED
        BY <2>1, HasLeast
    <3> HIDE DEF known
    <3> QED
      BY <3>1
  <2>3. next = heap.pagemap[m]
    BY <1>7, <2>1
  <2> HIDE DEF m, next
  <2>4. PICK a \in later : Has(heap.span[a], m) /\ heap.span[a].start <= m
    BY <1>6, <2>2
  <2>5. heap.span[a].start \in known
    BY <1>5
  <2>6. heap.span[a].start = m
    BY <1>2, <2>1, <2>2, <2>4, <2>5
  <2>7. next = a
    BY <1>2, <2>3, <2>6
  <2>8. \A id \in later : m <= heap.span[id].start
    BY <1>5, <2>2
  <2> QED
    BY <1>9, <2>6, <2>7, <2>8 DEF next
<1> QED
  BY <1>8, <1>9

LEMMA OutIs == ASSUME NEW h PROVE Out(h, {}) = DOMAIN h.span
BY DEF Out

LEMMA CoalescedSound == ASSUME PagesInv PROVE Coalesced
<1>1. Touching(heap, {}) /\ Out(heap, {}) = DOMAIN heap.span
  BY OutIs DEF PagesInv, Good, Settled
<1> QED
  BY <1>1 DEF Touching, Coalesced, Spans, EndOf

LEMMA ListedSound == ASSUME PagesInv PROVE Listed
<1>1. OnLists(heap, {}) /\ Out(heap, {}) = DOMAIN heap.span
  BY OutIs DEF PagesInv, Good, Settled
<1>2. \A loc, list : OfList(heap, {}, loc, list) = FreeSpans(loc, list)
  BY <1>1 DEF OfList, FreeSpans
<1> QED
  BY <1>1, <1>2 DEF OnLists, Listed

LEMMA SpanFacts ==
  ASSUME PagesInv, NEW id \in DOMAIN heap.span
  PROVE  IsSpan(heap.span[id]) /\ \A pg \in Pages : pg \in Extent(heap.span[id]) <=> Has(heap.span[id], pg)
<1>1. IsSpan(heap.span[id])
  BY DEF PagesInv, Good, Shape
<1>2. \A pg \in Int : pg \in Extent(heap.span[id]) <=> Has(heap.span[id], pg)
  BY <1>1, HasIsExtent
<1> QED
  BY <1>1, <1>2 DEF Pages

LEMMA StatsSound == ASSUME PagesInv PROVE StatsTrue
<1>1. Good(heap, {}) /\ Counts(heap, {}) /\ Books(heap) /\ Out(heap, {}) = DOMAIN heap.span
  BY OutIs DEF PagesInv, Good, Settled
<1>2. ASSUME NEW loc PROVE PagesAt(loc) = PagesOf(heap, {}, loc)
  BY <1>1, SpanFacts DEF PagesAt, PagesOf, Spans
<1>3. heap.unmapped + heap.committed = heap.system
  BY <1>1, Balanced
<1> QED
  BY <1>1, <1>2, <1>3 DEF Counts, Books, StatsTrue

LEMMA BackedSound == ASSUME PagesInv PROVE Backed
<1>1. MemTrue(heap, {}) /\ Out(heap, {}) = DOMAIN heap.span
  BY OutIs DEF PagesInv, Good, Settled
<1>2. SUFFICES ASSUME NEW id \in DOMAIN heap.span, heap.span[id].location # Returned PROVE Extent(heap.span[id]) \subseteq heap.mem
  BY DEF Backed, Spans
<1>3. IsSpan(heap.span[id]) /\ \A pg \in Pages : pg \in Extent(heap.span[id]) <=> Has(heap.span[id], pg)
  BY SpanFacts
<1>4. Extent(heap.span[id]) \subseteq Pages
  BY <1>3, HasIsExtent
<1> QED
  BY <1>1, <1>2, <1>3, <1>4 DEF MemTrue

LEMMA PagesImplied == PagesInv => PagesSound
<1> SUFFICES ASSUME PagesInv PROVE PagesSound
  OBVIOUS
<1>1. WithinLimit
  BY DEF PagesInv, Good, Books, WithinLimit
<1> QED
  BY <1>1, TypesSound, DescribedSound, RangesSound, CoalescedSound, ListedSound, StatsSound, BackedSound DEF PagesSound

\* Clients keep their spans, and New fails only for a reason.
LEMMA ClientsKept == ASSUME Toggles = {}, PagesInv, [PagesNext]_pagesVars PROVE KeepsClients
<1>1. SUFFICES ASSUME NEW id \in Clients,
                      ~(id \in DOMAIN heap'.span /\ heap'.span[id] = heap.span[id]), ~Delete(id),
                      ~(\E n \in Pages : Split(id, n)), ~(\E sc \in SizeClasses : RegisterSizeClass(id, sc))
      PROVE  FALSE
  BY DEF KeepsClients
<1>2. id \in DOMAIN heap.span /\ heap.span[id].location = InUse
  BY DEF Clients
<1>3. PagesNext
  BY <1>1, <1>2 DEF pagesVars
<1>4. ASSUME NEW other, other # id, KeptBut(other) PROVE FALSE
  BY <1>1, <1>2, <1>4 DEF KeptBut
<1>5. ASSUME NEW n \in Pages, New(n) PROVE FALSE
  BY <1>1, <1>2, <1>5, NewStep
<1>6. ASSUME NEW n \in Pages, ReleasePages(n) PROVE FALSE
  <2>1. KeptBut(id + 1) /\ id + 1 # id
    BY <1>2, <1>6, ReleaseStep DEF PagesInv, Good, Shape, Ids
  <2> QED
    BY <1>4, <2>1
<1>7. ASSUME NEW other \in Ids, Delete(other) PROVE FALSE
  BY <1>1, <1>4, <1>7, DeleteStep
<1>8. ASSUME NEW other \in Ids, NEW n \in Pages, Split(other, n) PROVE FALSE
  BY <1>1, <1>4, <1>8, SplitStep
<1>9. ASSUME NEW other \in Ids, NEW sc \in SizeClasses, RegisterSizeClass(other, sc) PROVE FALSE
  BY <1>1, <1>4, <1>9, RegisterStep
<1> QED
  BY <1>3, <1>5, <1>6, <1>7, <1>8, <1>9, Zenon DEF PagesNext

LEMMA FailureReason == ASSUME Toggles = {}, PagesInv, PagesNext PROVE FailsForReason
<1>1. SUFFICES ASSUME NEW n \in Pages, NEW s \in Spans, s.location # InUse, s.length >= n, result' = <<"New", n, NULL>>
      PROVE  heap.limit # 0 /\ heap.system - heap.unmapped + n > heap.limit
  BY DEF FailsForReason
<1>2. PICK a \in DOMAIN heap.span : s = heap.span[a]
  BY DEF Spans
<1>3. heap.limit \in Nat /\ heap.system \in Int /\ heap.unmapped \in Int /\ n \in Nat /\ n > 0 /\ s.length \in Nat
  <2>1. heap.limit \in Nat /\ heap.system \in Int /\ heap.unmapped \in Int
    BY DEF PagesInv, Good, Shape, Fields
  <2>2. s.length \in Nat
    BY <1>2, SpanFacts DEF IsSpan
  <2> QED
    BY <2>1, <2>2 DEF Pages
<1>4. result' # NoResult
  <2>1. \A call : <<call, 0, NULL>> # <<"New", n, NULL>>
    BY <1>3
  <2> QED
    BY <1>1, <2>1, Zenon DEF NoResult
<1>5. ASSUME NEW m \in Pages, New(m) PROVE m = n
  BY <1>1, <1>5 DEF New
<1>6. ASSUME NEW m \in Pages, ReleasePages(m) PROVE FALSE
  BY <1>4, <1>6 DEF ReleasePages
<1>7. ASSUME NEW id \in Ids, Delete(id) PROVE FALSE
  BY <1>4, <1>7 DEF Delete
<1>8. ASSUME NEW id \in Ids, NEW m \in Pages, Split(id, m) PROVE FALSE
  BY <1>1, <1>8 DEF Split
<1>9. ASSUME NEW id \in Ids, NEW sc \in SizeClasses, RegisterSizeClass(id, sc) PROVE FALSE
  BY <1>4, <1>9 DEF RegisterSizeClass
<1>10. New(n)
  BY <1>5, <1>6, <1>7, <1>8, <1>9, Zenon DEF PagesNext
<1>11. ~WithinLimitNow(heap, n)
  BY <1>1, <1>2, <1>3, <1>10, NewStep
<1> QED
  BY <1>3, <1>11 DEF WithinLimitNow

\* Whatever the pages, the mode and the calls, the page heap is sound: its
\* spans do not overlap and the page map finds them and their neighbours, free
\* spans are merged and on the list of their length, the statistics count the
\* pages the system backs, every page of a client is backed, and the limit
\* holds (New, Delete, Split, RegisterSizeClass and the releases).  The mode is
\* set before the first call: SetAggressiveDecommit in between breaks the
\* statistics, as the run over AssertedStats shows.
THEOREM PagesTrue == ASSUME Toggles = {} PROVE PagesSpec => []PagesSound
<1>1. PagesInit => PagesInv
  BY PagesStart
<1>2. PagesInv /\ [PagesNext]_pagesVars => PagesInv'
  BY PagesStep
<1>3. PagesInv => PagesSound
  BY PagesImplied
<1> QED
  BY <1>1, <1>2, <1>3, PTL DEF PagesSpec

\* No release, merge or allocation for somebody else changes a span in use,
\* and New gives up while a free span is long enough only when the heap limit
\* forbids to commit its pages.
THEOREM SpansStay == ASSUME Toggles = {} PROVE PagesSpec => SpansKept
<1>1. PagesInit => PagesInv
  BY PagesStart
<1>2. PagesInv /\ [PagesNext]_pagesVars => PagesInv'
  BY PagesStep
<1>3. PagesInv /\ [PagesNext]_pagesVars => [KeepsClients /\ FailsForReason]_pagesVars
  BY ClientsKept, FailureReason
<1> QED
  BY <1>1, <1>2, <1>3, PTL DEF PagesSpec, SpansKept
=============================================================================
