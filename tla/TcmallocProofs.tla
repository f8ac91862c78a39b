---------------------------- MODULE TcmallocProofs ---------------------------
(***************************************************************************)
(* Malloc: every object suits the request, apart from all others, and is    *)
(* freed to the class it came from (ObjectsSuit), for any memory, any       *)
(* classes, any size of the page cache and any number of threads.           *)
(*                                                                          *)
(* ThreadCacheSpace: the heaps of all threads and the cache space they      *)
(* share, for any threads, heaps and sizes: the books balance, the next     *)
(* victim is alive, and a thread has one heap, which is its own.            *)
(***************************************************************************)
EXTENDS Malloc, ThreadCacheSpace, FiniteSetTheorems, SequenceTheorems, WellFoundedInduction, TLAPS

-----------------------------------------------------------------------------
(* Arithmetic.                                                              *)

LEMMA Products == \A a, b \in Nat : a * b \in Nat
  OBVIOUS

LEMMA Monotone ==
  ASSUME NEW a \in Nat, NEW b \in Nat, NEW k \in Nat, a <= b
  PROVE  a * k <= b * k
<1>1. b - a \in Nat
  OBVIOUS
<1>2. (b - a) * k \in Nat
  BY <1>1, Products
<1>. QED  BY <1>2

LEMMA Divides ==
  ASSUME NEW d \in Nat \ {0}, NEW x \in Nat, NEW r \in 0..(d - 1)
  PROVE  (d * x + r) \div d = x /\ (d * x + r) % d = r
  OBVIOUS

LEMMA Division ==
  ASSUME NEW p \in Nat, NEW d \in Nat \ {0}
  PROVE  /\ p \div d \in Nat /\ p % d \in 0..(d - 1)
         /\ p = d * (p \div d) + (p % d)
  OBVIOUS

LEMMA Multiple == ASSUME NEW d \in Nat \ {0}, NEW x \in Nat PROVE (d * x) % d = 0
<1>1. (d * x + 0) % d = 0 /\ d * x + 0 = d * x
  BY Divides, Products
<1>. QED  BY <1>1

LEMMA Divided ==
  ASSUME NEW p \in Nat, NEW d \in Nat \ {0}, p % d = 0
  PROVE  p \div d \in Nat /\ p = d * (p \div d)
  BY Division

LEMMA Constants ==
  /\ MemoryPages \in Nat /\ kPageSize \in Nat \ {0} /\ Slots \in Nat \ {0} /\ MaxLive \in Nat
  /\ Classes = 1..Len(ClassSize) /\ Len(ClassSize) \in Nat \ {0} /\ kMaxSize \in Nat \ {0}
  /\ \A c \in Classes : ClassSize[c] \in Nat \ {0} /\ ClassPages[c] \in Nat \ {0}
                        /\ ClassSize[c] <= kMaxSize
<1>1. Len(ClassSize) \in Nat \ {0} /\ Classes = 1..Len(ClassSize)
  BY MallocAssumption DEF Classes
<1>2. \A c \in Classes : ClassSize[c] \in Nat \ {0} /\ ClassPages[c] \in Nat \ {0}
  BY <1>1, MallocAssumption
<1>3. ASSUME NEW c \in Classes  PROVE ClassSize[c] <= kMaxSize
  <2>1. c = Len(ClassSize) \/ c < Len(ClassSize)
    BY <1>1
  <2>2. Len(ClassSize) \in Classes
    BY <1>1
  <2>. QED  BY <1>2, <2>1, <2>2, MallocAssumption DEF kMaxSize
<1>4. kMaxSize \in Nat \ {0}
  BY <1>1, <1>2 DEF kMaxSize
<1>. QED  BY <1>1, <1>2, <1>3, <1>4, MallocAssumption

\* A non-empty set of numbers has a least, a bounded one a greatest.
LEMMA HasLeast == ASSUME NEW T \in SUBSET Nat, T # {} PROVE \E x \in T : \A y \in T : x <= y
<1>1. \A a, b \in Nat : a < b => <<a, b>> \in OpToRel(<, Nat)
  BY DEF OpToRel
<1>2. PICK x \in T : \A y \in T : ~(<<y, x>> \in OpToRel(<, Nat))
  BY NatLessThanWellFounded, WFMin
<1>3. \A y \in T : ~(y < x)
  BY <1>1, <1>2
<1>. QED  BY <1>3

LEMMA MinIs ==
  ASSUME NEW S \in SUBSET Nat, S # {}
  PROVE  Min(S) \in S /\ \A x \in S : Min(S) <= x
<1>1. \E x \in S : \A y \in S : x <= y
  BY HasLeast
<1>. QED  BY <1>1 DEF Min

LEMMA MaxIs ==
  ASSUME NEW n \in Nat, NEW S \in SUBSET (0..n), S # {}
  PROVE  Max(S) \in S /\ \A x \in S : x <= Max(S)
<1>. DEFINE T == {n - x : x \in S}
<1>1. T \in SUBSET Nat /\ T # {}
  <2>1. \A x \in S : x \in Nat /\ n - x \in Nat
    OBVIOUS
  <2>. QED  BY <2>1
<1>2. \E y \in T : \A z \in T : y <= z
  <2>. HIDE DEF T
  <2>. QED  BY <1>1, HasLeast
<1>3. PICK m \in S : \A z \in T : n - m <= z
  BY <1>2
<1>4. ASSUME NEW x \in S  PROVE x <= m
  <2>1. n - m <= n - x
    BY <1>3
  <2>. QED  BY <2>1
<1>. QED  BY <1>4 DEF Max

LEMMA Quotient ==
  ASSUME NEW p \in Nat, NEW k \in Nat \ {0}, NEW x \in Nat
  PROVE  x <= p \div k <=> x * k <= p
<1>. DEFINE q == p \div k
<1>1. q \in Nat /\ p >= k * q /\ p < k * q + k
  BY Division
<1>. HIDE DEF q
<1>2. ASSUME x <= q  PROVE x * k <= p
  BY <1>1, <1>2, Monotone
<1>3. ASSUME q + 1 <= x  PROVE p < x * k
  <2>1. (q + 1) * k <= x * k
    BY <1>1, <1>3, Monotone
  <2>2. (q + 1) * k = k * q + k
    BY <1>1
  <2>. QED  BY <1>1, <2>1, <2>2, Products
<1>. QED  BY <1>1, <1>2, <1>3, Products DEF q

-----------------------------------------------------------------------------
(* Spans, from their first byte to the one after their last.                *)

Span == [start : Nat, length : Nat \ {0}, sizeclass : {0} \cup Classes, sample : BOOLEAN]
Lo(s) == s.start * kPageSize
Hi(s) == (s.start + s.length) * kPageSize
Bytes(s) == s.length * kPageSize
Disjoint(s, u) == s.start + s.length <= u.start \/ u.start + u.length <= s.start

SpansOK(ss) ==
  /\ ss \subseteq Span
  /\ \A s \in ss : s.start + s.length <= MemoryPages
  /\ \A s, u \in ss : s # u => Disjoint(s, u)

LEMMA SpanBounds ==
  ASSUME NEW s \in Span
  PROVE  /\ Lo(s) \in Nat /\ Hi(s) \in Nat /\ Bytes(s) \in Nat \ {0}
         /\ Hi(s) = Lo(s) + Bytes(s)
<1>1. s.start \in Nat /\ s.length \in Nat \ {0} /\ kPageSize \in Nat \ {0}
  BY Constants DEF Span
<1>2. s.start * kPageSize \in Nat /\ (s.length - 1) * kPageSize \in Nat
  BY <1>1, Products
<1>3. s.length * kPageSize = (s.length - 1) * kPageSize + kPageSize
  BY <1>1
<1>4. (s.start + s.length) * kPageSize = s.start * kPageSize + s.length * kPageSize
  BY <1>1
<1>. QED  BY <1>1, <1>2, <1>3, <1>4 DEF Lo, Hi, Bytes

\* An address is in the bytes of a span when its page is in the pages.
LEMMA PageInSpan ==
  ASSUME NEW s \in Span, NEW p \in Nat
  PROVE  PageOf(p) \in Nat /\ (PageOf(p) \in PagesIn(s) <=> Lo(s) <= p /\ p < Hi(s))
<1>1. s.start \in Nat /\ s.length \in Nat \ {0} /\ kPageSize \in Nat \ {0}
  BY Constants DEF Span
<1>2. PageOf(p) \in Nat
  BY <1>1, Division DEF PageOf
<1>3. s.start <= PageOf(p) <=> Lo(s) <= p
  BY <1>1, Quotient DEF PageOf, Lo
<1>4. s.start + s.length <= PageOf(p) <=> Hi(s) <= p
  BY <1>1, Quotient, SMTT(30) DEF PageOf, Hi
<1>. QED  BY <1>1, <1>2, <1>3, <1>4, SpanBounds DEF PagesIn

LEMMA DisjointPages ==
  ASSUME NEW s \in Span, NEW u \in Span
  PROVE  Disjoint(s, u) <=> PagesIn(s) \cap PagesIn(u) = {}
<1>1. s.start \in Nat /\ s.length \in Nat \ {0} /\ u.start \in Nat /\ u.length \in Nat \ {0}
  BY DEF Span
<1>2. ASSUME ~Disjoint(s, u)  PROVE \E page \in PagesIn(s) : page \in PagesIn(u)
  <2>1. CASE s.start <= u.start
    BY <1>1, <1>2, <2>1 DEF Disjoint, PagesIn
  <2>2. CASE u.start <= s.start
    BY <1>1, <1>2, <2>2 DEF Disjoint, PagesIn
  <2>. QED  BY <1>1, <2>1, <2>2
<1>3. ASSUME Disjoint(s, u), NEW page \in PagesIn(s), page \in PagesIn(u)  PROVE FALSE
  BY <1>1, <1>3 DEF Disjoint, PagesIn
<1>. QED  BY <1>2, <1>3

LEMMA DisjointBytes ==
  ASSUME NEW s \in Span, NEW u \in Span, Disjoint(s, u)
  PROVE  Hi(s) <= Lo(u) \/ Hi(u) <= Lo(s)
<1>1. s.start \in Nat /\ s.length \in Nat \ {0} /\ u.start \in Nat /\ u.length \in Nat \ {0}
  BY DEF Span
<1>2. s.start + s.length <= u.start => Hi(s) <= Lo(u)
  BY <1>1, Monotone, Constants DEF Lo, Hi
<1>3. u.start + u.length <= s.start => Hi(u) <= Lo(s)
  BY <1>1, Monotone, Constants DEF Lo, Hi
<1>. QED  BY <1>2, <1>3 DEF Disjoint

\* The page map finds the span of an address.
LEMMA TheSpan ==
  ASSUME NEW ss, SpansOK(ss), NEW s \in ss, NEW p \in Nat, Lo(s) <= p, p < Hi(s)
  PROVE  GetDescriptor(ss, PageOf(p)) = s
<1>1. PageOf(p) \in PagesIn(s)
  BY PageInSpan DEF SpansOK
<1>2. ASSUME NEW u \in ss, PageOf(p) \in PagesIn(u)  PROVE u = s
  BY <1>1, <1>2, DisjointPages DEF SpansOK
<1>. QED  BY <1>1, <1>2 DEF GetDescriptor

-----------------------------------------------------------------------------
(* The inductive invariant.                                                 *)

CacheOK(ss, c) ==
  /\ c \in [0..(Slots - 1) -> [page : Int, class : {0} \cup Classes]]
  /\ \A s \in ss : \A page \in PagesIn(s) :
       s.sizeclass # 0 \/ page = s.start => GetSizeClassIfCached(c, page) \in {0, s.sizeclass}

Object == [p : Nat, size : Nat, class : {0} \cup Classes, align : Nat \ {0}, by : {"malloc", "other"}]
RoomFor(s, class) == IF class # 0 THEN ClassSize[class] ELSE Bytes(s)

\* Address p of a class is in span s; a large object is at its start.
Fits(s, p, class) ==
  /\ Lo(s) <= p /\ p + RoomFor(s, class) <= Hi(s)
  /\ s.sizeclass = class /\ (class = 0 => p = Lo(s))

\* Address p of a class is not object o, nor within it or around it.
Away(p, class, o) ==
  /\ o.p # p
  /\ class # 0 /\ o.class = class => p + ClassSize[class] <= o.p \/ o.p + ClassSize[class] <= p

\* An object that free may be told the size of, and that is not at the start of a
\* page, has the class of its size.
Hinted(o) == o.by = "malloc" /\ o.p % kPageSize # 0 /\ o.size <= kMaxSize => o.class = SizeClass(o.size)

ObjectsOK(ss, lv) ==
  /\ lv \subseteq Object /\ IsFiniteSet(lv) /\ Cardinality(lv) <= MaxLive
  /\ \A o \in lv : /\ \E s \in ss : Fits(s, o.p, o.class) /\ o.size <= RoomFor(s, o.class)
                   /\ o.p % o.align = 0 /\ Hinted(o)
  /\ \A o, u \in lv : o # u => Away(o.p, o.class, u)
  /\ \A s \in ss : s.sizeclass = 0 => \E o \in lv : o.p = Lo(s)

HeldIn(pd, o) == \A t \in Threads : pd[t] # Idle => pd[t].o # o
Calls == {Idle} \cup [op : {"new"}, o : Object] \cup [op : {"free"}, o : Object, sized : BOOLEAN]
PendOK(lv, pd) ==
  /\ pd \in [Threads -> Calls]
  /\ \A t \in Threads : pd[t] # Idle =>
       /\ pd[t].o \in lv
       /\ pd[t].op = "free" /\ pd[t].sized => pd[t].o.by = "malloc" /\ pd[t].o.p % kPageSize # 0
  /\ \A t, u \in Threads : t # u /\ pd[t] # Idle /\ pd[u] # Idle => pd[t].o # pd[u].o

HooksOK(lv, hk, pd) ==
  /\ \A h \in hk : \E o \in lv : HeldIn(pd, o) /\ h = <<o.p, o.size>>
  /\ \A o \in lv : HeldIn(pd, o) => <<o.p, o.size>> \in hk

MallocIInv ==
  /\ SpansOK(spans) /\ CacheOK(spans, cache) /\ ObjectsOK(spans, live)
  /\ PendOK(live, pend) /\ HooksOK(live, hooked, pend)

-----------------------------------------------------------------------------
(* Classes and the cache.                                                   *)

LEMMA ClassFits ==
  ASSUME NEW n \in Nat, n <= kMaxSize
  PROVE  SizeClass(n) \in Classes /\ n <= ClassSize[SizeClass(n)]
<1>. DEFINE S == {c \in Classes : ClassSize[c] >= n}
<1>1. Len(ClassSize) \in S
  BY Constants DEF kMaxSize
<1>2. S \subseteq Nat
  BY Constants
<1>3. Min(S) \in S
  BY <1>1, <1>2, MinIs
<1>. QED  BY <1>3 DEF SizeClass

LEMMA AlignedClassFits ==
  ASSUME NEW n \in Nat, n <= kMaxSize, NEW align, AlignedClasses(align, n) # {}
  PROVE  LET class == Min(AlignedClasses(align, n))
         IN class \in Classes /\ n <= ClassSize[class] /\ ClassSize[class] % align = 0
<1>. DEFINE S == AlignedClasses(align, n)
            class == Min(S)
<1>1. S \subseteq Nat /\ S # {}
  BY Constants DEF AlignedClasses
<1>2. class \in S
  BY <1>1, MinIs
<1>3. class \in Classes /\ class >= SizeClass(n) /\ ClassSize[class] % align = 0
  BY <1>2 DEF AlignedClasses
<1>. HIDE DEF class
<1>4. SizeClass(n) \in Classes /\ n <= ClassSize[SizeClass(n)]
  BY ClassFits
<1>5. ClassSize[class] >= ClassSize[SizeClass(n)]
  BY <1>3, <1>4, Constants, MallocAssumption, SMTT(30)
<1>6. n <= ClassSize[class]
  BY <1>3, <1>4, <1>5, Constants
<1>. QED  BY <1>3, <1>6 DEF class

LEMMA SlotOf == \A q \in Nat : q % Slots \in 0..(Slots - 1)
  BY Constants, Division

\* What the cache says after one entry, or those of a span, are written.
LEMMA AfterPut ==
  ASSUME NEW c \in [0..(Slots - 1) -> [page : Int, class : {0} \cup Classes]],
         NEW page \in Nat, NEW class \in {0} \cup Classes
  PROVE  /\ Put(c, page, class) \in [0..(Slots - 1) -> [page : Int, class : {0} \cup Classes]]
         /\ GetSizeClassIfCached(Put(c, page, class), page) = class
         /\ \A q \in Nat \ {page} :
              GetSizeClassIfCached(Put(c, page, class), q) \in {0, GetSizeClassIfCached(c, q)}
<1>1. \A q \in Nat : q % Slots \in 0..(Slots - 1)
  BY SlotOf
<1>. DEFINE j == page % Slots
            d == Put(c, page, class)
<1>2. j \in 0..(Slots - 1) /\ d = [c EXCEPT ![j] = [page |-> page, class |-> class]]
  BY <1>1 DEF Put
<1>3. GetSizeClassIfCached(d, page) = IF d[j].page = page THEN d[j].class ELSE 0
  BY DEF GetSizeClassIfCached
<1>. HIDE DEF j, d
<1>4. d[j] = [page |-> page, class |-> class] /\ \A i \in 0..(Slots - 1) : i # j => d[i] = c[i]
  BY <1>2
<1>5. d \in [0..(Slots - 1) -> [page : Int, class : {0} \cup Classes]]
  BY <1>2
<1>6. ASSUME NEW q \in Nat \ {page}
      PROVE  GetSizeClassIfCached(d, q) \in {0, GetSizeClassIfCached(c, q)}
  <2>. DEFINE i == q % Slots
  <2>1. i \in 0..(Slots - 1)
    BY <1>1
  <2>2. /\ GetSizeClassIfCached(d, q) = IF d[i].page = q THEN d[i].class ELSE 0
        /\ GetSizeClassIfCached(c, q) = IF c[i].page = q THEN c[i].class ELSE 0
    BY DEF GetSizeClassIfCached
  <2>. HIDE DEF i
  <2>. QED  BY <1>4, <2>1, <2>2
<1>. QED  BY <1>3, <1>4, <1>5, <1>6 DEF d

LEMMA AfterPutAll ==
  ASSUME NEW c \in [0..(Slots - 1) -> [page : Int, class : {0} \cup Classes]], NEW s \in Span
  PROVE  /\ PutAll(c, s) \in [0..(Slots - 1) -> [page : Int, class : {0} \cup Classes]]
         /\ \A q \in PagesIn(s) : GetSizeClassIfCached(PutAll(c, s), q) \in {0, s.sizeclass}
         /\ \A q \in Nat \ PagesIn(s) :
              GetSizeClassIfCached(PutAll(c, s), q) \in {0, GetSizeClassIfCached(c, q)}
<1>. DEFINE d == PutAll(c, s)
<1>1. s.start \in Nat /\ s.length \in Nat \ {0} /\ s.sizeclass \in {0} \cup Classes
  BY DEF Span
<1>2. PagesIn(s) \subseteq Nat /\ PagesIn(s) \in SUBSET (0..(s.start + s.length))
  BY <1>1 DEF PagesIn
<1>3. ASSUME NEW i \in 0..(Slots - 1)
      PROVE  \/ d[i] = c[i] /\ \A q \in PagesIn(s) : q % Slots # i
             \/ \E m \in PagesIn(s) : d[i] = [page |-> m, class |-> s.sizeclass]
  <2>. DEFINE ps == {page \in PagesIn(s) : page % Slots = i}
  <2>1. d[i] = IF ps = {} THEN c[i] ELSE [page |-> Max(ps), class |-> s.sizeclass]
    BY DEF PutAll
  <2>2. ps \in SUBSET (0..(s.start + s.length)) /\ ps \subseteq PagesIn(s)
    BY <1>2
  <2>3. CASE ps = {}
    BY <2>1, <2>3
  <2>4. CASE ps # {}
    <3>. HIDE DEF ps
    <3>. DEFINE n == s.start + s.length
    <3>0. n \in Nat /\ ps \in SUBSET (0..n)
      BY <1>1, <2>2
    <3>. HIDE DEF n
    <3>1. Max(ps) \in ps
      BY <2>4, <3>0, MaxIs
    <3>. QED  BY <2>1, <2>2, <2>4, <3>1
  <2>. QED  BY <2>3, <2>4
<1>4. DOMAIN d = 0..(Slots - 1) /\ d = [i \in DOMAIN d |-> d[i]]
  BY DEF PutAll
<1>. HIDE DEF d
<1>5. ASSUME NEW i \in 0..(Slots - 1)  PROVE d[i] \in [page : Int, class : {0} \cup Classes]
  <2>1. CASE d[i] = c[i]
    BY <2>1
  <2>2. ASSUME NEW m \in PagesIn(s), d[i] = [page |-> m, class |-> s.sizeclass]
        PROVE  d[i] \in [page : Int, class : {0} \cup Classes]
    BY <1>1, <1>2, <2>2
  <2>. QED  BY <1>3, <2>1, <2>2
<1>6. ASSUME NEW q \in Nat
      PROVE  /\ q \in PagesIn(s) => GetSizeClassIfCached(d, q) \in {0, s.sizeclass}
             /\ q \notin PagesIn(s) => GetSizeClassIfCached(d, q) \in {0, GetSizeClassIfCached(c, q)}
  <2>. DEFINE i == q % Slots
  <2>1. i \in 0..(Slots - 1)
    BY SlotOf
  <2>2. /\ GetSizeClassIfCached(d, q) = IF d[i].page = q THEN d[i].class ELSE 0
        /\ GetSizeClassIfCached(c, q) = IF c[i].page = q THEN c[i].class ELSE 0
    BY DEF GetSizeClassIfCached
  <2>3. q \in PagesIn(s) => \E m \in PagesIn(s) : d[i] = [page |-> m, class |-> s.sizeclass]
    BY <1>3, <2>1
  <2>4. d[i] = c[i] \/ \E m \in PagesIn(s) : d[i] = [page |-> m, class |-> s.sizeclass]
    BY <1>3, <2>1
  <2>. HIDE DEF i
  <2>5. ASSUME NEW m \in PagesIn(s), d[i] = [page |-> m, class |-> s.sizeclass]
        PROVE  /\ GetSizeClassIfCached(d, q) \in {0, s.sizeclass}
               /\ q \notin PagesIn(s) => GetSizeClassIfCached(d, q) = 0
    BY <2>2, <2>5
  <2>6. d[i] = c[i] => GetSizeClassIfCached(d, q) = GetSizeClassIfCached(c, q)
    BY <2>2
  <2>. QED  BY <2>3, <2>4, <2>5, <2>6
<1>. QED  BY <1>2, <1>4, <1>5, <1>6 DEF d

-----------------------------------------------------------------------------
(* The outcome of an allocation: address r.p in r.spans is free.            *)

Outcome(r, n) ==
  /\ SpansOK(r.spans) /\ spans \subseteq r.spans /\ CacheOK(r.spans, r.cache)
  /\ r.class \in {0} \cup Classes /\ r.p \in Nat
  /\ \E s \in r.spans : Fits(s, r.p, r.class) /\ n <= RoomFor(s, r.class)
  /\ \A o \in live : Away(r.p, r.class, o)
  /\ \A s \in r.spans \ spans : s.sizeclass = 0 => r.p = Lo(s)

LEMMA RoomBounds ==
  ASSUME NEW s \in Span, NEW class \in {0} \cup Classes
  PROVE  RoomFor(s, class) \in Nat \ {0}
  BY SpanBounds, Constants DEF RoomFor

\* The room of an object is that of its class or its span.
LEMMA RoomIs ==
  ASSUME NEW ss, SpansOK(ss), NEW s \in ss, NEW o \in Object, Fits(s, o.p, o.class)
  PROVE  o.p < Hi(s) /\ GetDescriptor(ss, PageOf(o.p)) = s
<1>1. s \in Span /\ o.p \in Nat /\ o.class \in {0} \cup Classes
  BY DEF SpansOK, Object
<1>2. RoomFor(s, o.class) \in Nat \ {0} /\ Hi(s) \in Nat
  BY <1>1, RoomBounds, SpanBounds
<1>3. Lo(s) <= o.p /\ o.p < Hi(s)
  BY <1>1, <1>2 DEF Fits
<1>. QED  BY <1>1, <1>3, TheSpan

\* A span apart from all others: it can be added, with a cache that is true of it,
\* and every address in it is free.
Spare(s) == s \in Span /\ s.start + s.length <= MemoryPages /\ \A u \in spans : Disjoint(s, u)

LEMMA SpareOutcome ==
  ASSUME SpansOK(spans), ObjectsOK(spans, live), NEW c, CacheOK(spans, c),
         NEW s, Spare(s), NEW d, NEW p \in Nat, Fits(s, p, s.sizeclass),
         d \in [0..(Slots - 1) -> [page : Int, class : {0} \cup Classes]],
         \A q \in PagesIn(s) : s.sizeclass # 0 \/ q = s.start => GetSizeClassIfCached(d, q) \in {0, s.sizeclass},
         \A q \in Nat \ PagesIn(s) : GetSizeClassIfCached(d, q) \in {0, GetSizeClassIfCached(c, q)},
         NEW n, n <= RoomFor(s, s.sizeclass)
  PROVE  Outcome([spans |-> spans \cup {s}, cache |-> d, p |-> p, class |-> s.sizeclass], n)
<1>. DEFINE ss == spans \cup {s}
<1>1. s \in Span /\ s.sizeclass \in {0} \cup Classes
  BY DEF Spare, Span
<1>2. SpansOK(ss)
  BY DEF Spare, SpansOK, Disjoint
<1>3. ASSUME NEW u \in spans, NEW page \in PagesIn(u), u.sizeclass # 0 \/ page = u.start
      PROVE  GetSizeClassIfCached(d, page) \in {0, u.sizeclass}
  <2>1. page \in Nat
    BY DEF SpansOK, Span, PagesIn
  <2>2. page \notin PagesIn(s)
    BY <1>1, DisjointPages DEF SpansOK, Spare
  <2>. QED  BY <1>3, <2>1, <2>2 DEF CacheOK
<1>4. CacheOK(ss, d)
  BY <1>3 DEF CacheOK
<1>5. ASSUME NEW o \in live  PROVE Away(p, s.sizeclass, o)
  <2>1. PICK u \in spans : Fits(u, o.p, o.class)
    BY DEF ObjectsOK
  <2>2. u \in Span /\ o \in Object /\ o.p \in Nat /\ o.class \in {0} \cup Classes
    BY DEF SpansOK, ObjectsOK, Object
  <2>3. Hi(s) <= Lo(u) \/ Hi(u) <= Lo(s)
    BY <1>1, <2>2, DisjointBytes DEF Spare
  <2>4. RoomFor(s, s.sizeclass) \in Nat \ {0} /\ RoomFor(u, o.class) \in Nat \ {0}
    BY <1>1, <2>2, RoomBounds
  <2>5. /\ Lo(s) <= p /\ p + RoomFor(s, s.sizeclass) <= Hi(s)
        /\ Lo(u) <= o.p /\ o.p + RoomFor(u, o.class) <= Hi(u)
    BY <2>1 DEF Fits
  <2>6. /\ Lo(s) \in Nat /\ Hi(s) \in Nat /\ Lo(u) \in Nat /\ Hi(u) \in Nat
    BY <1>1, <2>2, SpanBounds
  <2>7. o.p # p
    BY <2>2, <2>3, <2>4, <2>5, <2>6
  <2>8. p + RoomFor(s, s.sizeclass) <= o.p \/ o.p + RoomFor(u, o.class) <= p
    BY <2>2, <2>3, <2>4, <2>5, <2>6
  <2>9. ASSUME s.sizeclass # 0, o.class = s.sizeclass
        PROVE  RoomFor(s, s.sizeclass) = ClassSize[s.sizeclass] /\ RoomFor(u, o.class) = ClassSize[s.sizeclass]
    BY <2>9 DEF RoomFor
  <2>. QED  BY <2>7, <2>8, <2>9 DEF Away
<1>. DEFINE r == [spans |-> ss, cache |-> d, p |-> p, class |-> s.sizeclass]
<1>6. r.spans = ss /\ r.cache = d /\ r.p = p /\ r.class = s.sizeclass
  OBVIOUS
<1>7. \A u \in ss \ spans : u = s
  OBVIOUS
<1>8. s \in ss /\ spans \subseteq ss
  OBVIOUS
<1>9. s.sizeclass = 0 => p = Lo(s)
  BY DEF Fits
<1>. HIDE DEF r, ss
<1>10. Outcome(r, n)
  BY <1>1, <1>2, <1>4, <1>5, <1>6, <1>7, <1>8, <1>9 DEF Outcome
<1>. QED  BY <1>10 DEF r, ss

LEMMA RunsSpare ==
  ASSUME SpansOK(spans), NEW m \in Nat \ {0}, NEW s \in Runs(m)
  PROVE  Spare(s) /\ s.sizeclass = 0 /\ s.length = m
<1>1. PICK i \in 0..(MemoryPages - m) :
        /\ s = [start |-> i, length |-> m, sizeclass |-> 0, sample |-> FALSE]
        /\ \A u \in spans : PagesIn(u) \cap (i..(i + m - 1)) = {}
  BY DEF Runs
<1>2. s \in Span /\ s.start + s.length <= MemoryPages
  BY <1>1, Constants DEF Span
<1>3. PagesIn(s) = i..(i + m - 1)
  BY <1>1 DEF PagesIn
<1>4. ASSUME NEW u \in spans  PROVE Disjoint(s, u)
  <2>1. PagesIn(s) \cap PagesIn(u) = {}
    BY <1>1, <1>3
  <2>. QED  BY <1>2, <2>1, DisjointPages DEF SpansOK
<1>. QED  BY <1>1, <1>2, <1>4 DEF Spare

\* A span for one object, at its first byte.
LEMMA LargeOutcome ==
  ASSUME SpansOK(spans), ObjectsOK(spans, live), NEW c, CacheOK(spans, c),
         NEW s, Spare(s), s.sizeclass = 0, NEW n, n <= Bytes(s)
  PROVE  Outcome(Large(c, s), n) /\ Large(c, s).p = Lo(s) /\ Large(c, s).class = 0
<1>. DEFINE d == Put(c, s.start, 0)
<1>1. s \in Span /\ s.start \in Nat /\ s.length \in Nat \ {0} /\ c \in [0..(Slots - 1) -> [page : Int, class : {0} \cup Classes]]
  BY DEF Spare, Span, CacheOK
<1>2. /\ d \in [0..(Slots - 1) -> [page : Int, class : {0} \cup Classes]]
      /\ GetSizeClassIfCached(d, s.start) = 0
      /\ \A q \in Nat \ {s.start} : GetSizeClassIfCached(d, q) \in {0, GetSizeClassIfCached(c, q)}
  BY <1>1, AfterPut
<1>3. s.start \in PagesIn(s)
  BY <1>1 DEF PagesIn
<1>4. Fits(s, Lo(s), 0) /\ Lo(s) \in Nat
  BY <1>1, SpanBounds DEF Fits, RoomFor
<1>5. Outcome([spans |-> spans \cup {s}, cache |-> d, p |-> Lo(s), class |-> s.sizeclass], n)
  <2>. HIDE DEF d
  <2>1. \A q \in Nat \ PagesIn(s) : GetSizeClassIfCached(d, q) \in {0, GetSizeClassIfCached(c, q)}
    BY <1>2, <1>3
  <2>2. \A q \in PagesIn(s) : s.sizeclass # 0 \/ q = s.start => GetSizeClassIfCached(d, q) \in {0, s.sizeclass}
    BY <1>2
  <2>3. n <= RoomFor(s, s.sizeclass)
    BY DEF RoomFor
  <2>. QED  BY <1>2, <1>4, <2>1, <2>2, <2>3, SpareOutcome
<1>6. Large(c, s) = [spans |-> spans \cup {s}, cache |-> d, p |-> Lo(s), class |-> s.sizeclass]
  BY DEF Large, CachedSpan, Lo
<1>. QED  BY <1>5, <1>6

\* Address p has every alignment that pages and the slots of a class have.
AlignedAs(p, class) == \A d \in Nat \ {0} : kPageSize % d = 0 /\ ClassSize[class] % d = 0 => p % d = 0

\* A slot of a span of a class.
LEMMA SlotFits ==
  ASSUME NEW class \in Classes, NEW s \in Span, s.sizeclass = class, NEW p \in Objects(s, class)
  PROVE  p \in Nat /\ Fits(s, p, class) /\ AlignedAs(p, class)
<1>. DEFINE size == ClassSize[class]
            m == Bytes(s) \div size
<1>1. size \in Nat \ {0} /\ Bytes(s) \in Nat /\ Lo(s) \in Nat /\ Hi(s) = Lo(s) + Bytes(s) /\ class # 0
  BY Constants, SpanBounds
<1>2. m \in Nat /\ size * m <= Bytes(s)
  <2>. HIDE DEF size
  <2>1. \A x \in Nat : x \div size \in Nat /\ size * (x \div size) <= x
    BY <1>1, Division
  <2>. QED  BY <1>1, <2>1
<1>3. PICK i \in 0..(m - 1) : p = Lo(s) + i * size
  BY DEF Objects, Lo, Bytes
<1>. HIDE DEF size, m
<1>4. i \in Nat /\ i + 1 \in Nat /\ i + 1 <= m
  BY <1>2
<1>5. (i + 1) * size <= m * size
  BY <1>1, <1>2, <1>4, Monotone
<1>6. i * size \in Nat /\ (i + 1) * size = i * size + size /\ m * size = size * m
  BY <1>1, <1>2, <1>4, Products
<1>7. p \in Nat /\ Lo(s) <= p /\ p + size <= Hi(s)
  BY <1>1, <1>2, <1>3, <1>5, <1>6
<1>8. RoomFor(s, class) = size
  BY <1>1 DEF RoomFor, size
<1>9. s.start \in Nat /\ p = s.start * kPageSize + i * size /\ kPageSize \in Nat
  BY <1>3, Constants DEF Lo, Span
<1>10. ASSUME NEW d \in Nat \ {0}, kPageSize % d = 0, size % d = 0  PROVE p % d = 0
  <2>. DEFINE x == kPageSize \div d
              y == size \div d
  <2>1. x \in Nat /\ kPageSize = d * x
    BY <1>9, <1>10, Divided
  <2>2. y \in Nat /\ size = d * y
    BY <1>1, <1>10, Divided
  <2>. HIDE DEF x, y
  <2>3. s.start * x \in Nat /\ i * y \in Nat
    BY <1>4, <1>9, <2>1, <2>2, Products
  <2>4. s.start * (d * x) = d * (s.start * x) /\ i * (d * y) = d * (i * y)
    BY <1>4, <1>9, <2>1, <2>2
  <2>. DEFINE z == s.start * x + i * y
  <2>5. z \in Nat /\ d * z = d * (s.start * x) + d * (i * y)
    BY <2>3
  <2>6. p = d * z
    BY <1>9, <2>1, <2>2, <2>4, <2>5
  <2>. HIDE DEF z
  <2>7. (d * z) % d = 0
    BY <2>5, Multiple
  <2>. QED  BY <2>6, <2>7, Zenon
<1>. QED  BY <1>1, <1>7, <1>8, <1>10 DEF Fits, AlignedAs, size

\* A free slot of a span in use.
LEMMA FreeSlotAway ==
  ASSUME SpansOK(spans), ObjectsOK(spans, live), NEW class \in Classes, NEW p \in Nat,
         ~Used(p, ClassSize[class]), NEW o \in live
  PROVE  Away(p, class, o)
<1>1. PICK u \in spans : Fits(u, o.p, o.class)
  BY DEF ObjectsOK
<1>2. o \in Object /\ o.p \in Nat /\ o.class \in {0} \cup Classes /\ u \in Span
  BY DEF ObjectsOK, Object, SpansOK
<1>3. GetDescriptor(spans, PageOf(o.p)) = u
  BY <1>1, <1>2, RoomIs
<1>4. Room(o) = RoomFor(u, o.class)
  BY <1>3 DEF Room, RoomFor, Bytes
<1>5. Room(o) \in Nat \ {0}
  BY <1>2, <1>4, RoomBounds
<1>6. ClassSize[class] \in Nat \ {0}
  BY Constants
<1>7. ~(o.p < p + ClassSize[class] /\ p < o.p + Room(o))
  BY DEF Used
<1>8. o.class = class => Room(o) = ClassSize[class]
  BY Constants DEF Room
<1>. QED  BY <1>2, <1>5, <1>6, <1>7, <1>8 DEF Away

LEMMA SmallOutcome ==
  ASSUME SpansOK(spans), ObjectsOK(spans, live), NEW c, CacheOK(spans, c),
         NEW class \in Classes, NEW n \in Nat, n <= ClassSize[class], NEW r \in Small(c, class)
  PROVE  Outcome(r, n) /\ r.class = class /\ AlignedAs(r.p, class)
<1>0. class # 0 /\ ClassPages[class] \in Nat \ {0}
  BY Constants
<1>1. ASSUME NEW s \in spans, s.sizeclass = class, NEW p \in Objects(s, class), ~Used(p, ClassSize[class]),
             r = [spans |-> spans, cache |-> c, p |-> p, class |-> class]
      PROVE  Outcome(r, n) /\ r.class = class /\ AlignedAs(r.p, class)
  <2>1. s \in Span
    BY DEF SpansOK
  <2>2. p \in Nat /\ Fits(s, p, class) /\ AlignedAs(p, class)
    BY <1>1, <2>1, SlotFits
  <2>3. \A o \in live : Away(p, class, o)
    BY <1>1, <2>2, FreeSlotAway
  <2>4. r.spans = spans /\ r.cache = c /\ r.p = p /\ r.class = class
    BY <1>1
  <2>5. n <= RoomFor(s, class)
    BY <1>0 DEF RoomFor
  <2>. QED  BY <2>2, <2>3, <2>4, <2>5 DEF Outcome
<1>2. ASSUME NEW run \in Runs(ClassPages[class]), NEW s, s = [run EXCEPT !.sizeclass = class],
             NEW p \in Objects(s, class),
             r = [spans |-> spans \cup {s}, cache |-> PutAll(c, s), p |-> p, class |-> class]
      PROVE  Outcome(r, n) /\ r.class = class /\ AlignedAs(r.p, class)
  <2>1. Spare(run)
    BY <1>0, RunsSpare
  <2>2. s \in Span /\ s.sizeclass = class /\ Spare(s)
    BY <1>2, <2>1 DEF Spare, Span, Disjoint
  <2>3. p \in Nat /\ Fits(s, p, class) /\ AlignedAs(p, class)
    BY <1>2, <2>2, SlotFits
  <2>. DEFINE d == PutAll(c, s)
  <2>4. /\ d \in [0..(Slots - 1) -> [page : Int, class : {0} \cup Classes]]
        /\ \A q \in PagesIn(s) : GetSizeClassIfCached(d, q) \in {0, s.sizeclass}
        /\ \A q \in Nat \ PagesIn(s) : GetSizeClassIfCached(d, q) \in {0, GetSizeClassIfCached(c, q)}
    BY <2>2, AfterPutAll DEF CacheOK
  <2>5. n <= RoomFor(s, s.sizeclass)
    BY <1>0, <2>2 DEF RoomFor
  <2>6. Outcome([spans |-> spans \cup {s}, cache |-> d, p |-> p, class |-> s.sizeclass], n)
    <3>. HIDE DEF d
    <3>. QED  BY <2>2, <2>3, <2>4, <2>5, SpareOutcome
  <2>. QED  BY <1>2, <2>2, <2>3, <2>6
<1>3. CASE r \in {[spans |-> spans, cache |-> c, p |-> p, class |-> class] :
                    p \in {q \in UNION {Objects(s, class) : s \in {s \in spans : s.sizeclass = class}} :
                             ~Used(q, ClassSize[class])}}
  BY <1>1, <1>3
<1>4. CASE r \in UNION {LET s == [run EXCEPT !.sizeclass = class]
                        IN {[spans |-> spans \cup {s}, cache |-> PutAll(c, s), p |-> p, class |-> class] : p \in Objects(s, class)} :
                          run \in Runs(ClassPages[class])}
  BY <1>2, <1>4
<1>. QED  BY <1>3, <1>4 DEF Small

LEMMA EnoughPages ==
  ASSUME NEW n \in Nat \ {0}
  PROVE  PagesOf(n) \in Nat \ {0} /\ n <= PagesOf(n) * kPageSize
<1>1. kPageSize \in Nat \ {0} /\ n + kPageSize - 1 \in Nat
  BY Constants
<1>. DEFINE q == PagesOf(n)
<1>2. q \in Nat /\ n + kPageSize - 1 >= kPageSize * q /\ n + kPageSize - 1 < kPageSize * q + kPageSize
  BY <1>1, Division DEF PagesOf
<1>. HIDE DEF q
<1>3. n <= kPageSize * q /\ kPageSize * q = q * kPageSize /\ kPageSize * q \in Nat
  BY <1>1, <1>2, Products
<1>4. q # 0
  BY <1>1, <1>3
<1>. QED  BY <1>2, <1>3, <1>4 DEF q

LEMMA SampledOutcome ==
  ASSUME SpansOK(spans), ObjectsOK(spans, live), NEW c, CacheOK(spans, c),
         NEW n \in Nat, NEW m \in Nat, n <= m, NEW r \in Sampled(c, m)
  PROVE  Outcome(r, n) /\ r.class = 0 /\ \E s \in Span : r.p = Lo(s)
<1>. DEFINE b == IF m = 0 THEN 1 ELSE m
<1>1. PICK run \in Runs(PagesOf(b)) : r = Large(c, [run EXCEPT !.sample = TRUE])
  BY DEF Sampled
<1>. DEFINE s == [run EXCEPT !.sample = TRUE]
<1>2. PagesOf(b) \in Nat \ {0} /\ n <= PagesOf(b) * kPageSize
  BY EnoughPages, Constants
<1>3. Spare(run) /\ run.sizeclass = 0 /\ run.length = PagesOf(b)
  BY <1>2, RunsSpare
<1>4. s \in Span /\ Spare(s) /\ s.sizeclass = 0 /\ s.length = PagesOf(b)
  BY <1>3 DEF Spare, Span, Disjoint
<1>5. n <= Bytes(s)
  BY <1>2, <1>4 DEF Bytes
<1>. HIDE DEF s
<1>6. Outcome(Large(c, s), n) /\ Large(c, s).p = Lo(s) /\ Large(c, s).class = 0
  BY <1>4, <1>5, LargeOutcome
<1>. QED  BY <1>1, <1>4, <1>6 DEF s

LEMMA StartAligned ==
  ASSUME NEW s \in Span, NEW a \in Nat \ {0}, kPageSize % a = 0
  PROVE  Lo(s) % a = 0
<1>1. s.start \in Nat /\ kPageSize \in Nat
  BY Constants DEF Span
<1>. DEFINE x == kPageSize \div a
<1>2. x \in Nat /\ kPageSize = a * x
  BY <1>1, Divided
<1>. HIDE DEF x
<1>3. s.start * x \in Nat /\ s.start * (a * x) = a * (s.start * x)
  BY <1>1, <1>2, Products
<1>4. (a * (s.start * x)) % a = 0
  BY <1>3, Multiple
<1>. QED  BY <1>2, <1>3, <1>4 DEF Lo

LEMMA PageAligned == kPageSize % kPageSize = 0 /\ \A s \in Span : Lo(s) % kPageSize = 0
<1>1. (kPageSize * 1) % kPageSize = 0
  BY Constants, Multiple
<1>2. kPageSize * 1 = kPageSize
  BY Constants
<1>3. kPageSize % kPageSize = 0
  BY <1>1, <1>2
<1>. QED  BY <1>3, StartAligned, Constants

\* malloc: enough room, of the class of the size unless at the start of a page,
\* with every alignment that the page and the class have.
LEMMA MallocOutcome ==
  ASSUME SpansOK(spans), ObjectsOK(spans, live), NEW c, CacheOK(spans, c),
         NEW n \in Nat, NEW r \in do_malloc(c, n)
  PROVE  /\ Outcome(r, n)
         /\ r.p % kPageSize # 0 /\ n <= kMaxSize => r.class = SizeClass(n)
         /\ \A a \in Nat \ {0} : kPageSize % a = 0 /\ (n <= kMaxSize => ClassSize[SizeClass(n)] % a = 0) => r.p % a = 0
<1>1. ASSUME Outcome(r, n), NEW s \in Span, r.p = Lo(s)
      PROVE  /\ Outcome(r, n)
             /\ r.p % kPageSize # 0 /\ n <= kMaxSize => r.class = SizeClass(n)
             /\ \A a \in Nat \ {0} : kPageSize % a = 0 /\ (n <= kMaxSize => ClassSize[SizeClass(n)] % a = 0) => r.p % a = 0
  BY <1>1, StartAligned, PageAligned
<1>2. CASE n <= kMaxSize /\ r \in Small(c, SizeClass(n))
  <2>. DEFINE class == SizeClass(n)
  <2>1. class \in Classes /\ n <= ClassSize[class]
    BY <1>2, ClassFits
  <2>2. Outcome(r, n) /\ r.class = class /\ AlignedAs(r.p, class)
    BY <1>2, <2>1, SmallOutcome
  <2>3. ASSUME NEW a \in Nat \ {0}, kPageSize % a = 0, ClassSize[class] % a = 0  PROVE r.p % a = 0
    BY <2>2, <2>3 DEF AlignedAs
  <2>. QED  BY <1>2, <2>2, <2>3
<1>3. CASE n <= kMaxSize /\ r \in Sampled(c, ClassSize[SizeClass(n)])
  <2>1. SizeClass(n) \in Classes /\ n <= ClassSize[SizeClass(n)] /\ ClassSize[SizeClass(n)] \in Nat
    BY <1>3, ClassFits, Constants
  <2>2. Outcome(r, n) /\ \E s \in Span : r.p = Lo(s)
    BY <1>3, <2>1, SampledOutcome
  <2>. QED  BY <1>1, <2>2
<1>4. CASE n > kMaxSize /\ r \in Sampled(c, n)
  <2>1. Outcome(r, n) /\ \E s \in Span : r.p = Lo(s)
    BY <1>4, SampledOutcome
  <2>. QED  BY <1>1, <2>1
<1>5. CASE n > kMaxSize /\ r \in {Large(c, s) : s \in Runs(PagesOf(n))}
  <2>1. PICK s \in Runs(PagesOf(n)) : r = Large(c, s)
    BY <1>5
  <2>2. n \in Nat \ {0} /\ PagesOf(n) \in Nat \ {0} /\ n <= PagesOf(n) * kPageSize
    BY <1>5, Constants, EnoughPages
  <2>3. Spare(s) /\ s \in Span /\ s.sizeclass = 0 /\ n <= Bytes(s)
    BY <2>2, RunsSpare DEF Spare, Bytes
  <2>4. Outcome(r, n) /\ r.p = Lo(s)
    BY <2>1, <2>3, LargeOutcome
  <2>. QED  BY <1>1, <2>3, <2>4
<1>. QED  BY <1>2, <1>3, <1>4, <1>5, Constants DEF do_malloc

\* Among as many pages as an alignment has, one is aligned.
LEMMA AlignedPage ==
  ASSUME NEW m \in Nat \ {0}, NEW start \in Nat
  PROVE  \E j \in 0..(m - 1), x \in Nat : start + j = m * x
<1>. DEFINE q == start \div m
            r == start % m
<1>1. q \in Nat /\ r \in 0..(m - 1) /\ start = m * q + r
  BY Division
<1>. HIDE DEF q, r
<1>2. CASE r = 0
  BY <1>1, <1>2
<1>3. CASE r # 0
  <2>1. m - r \in 0..(m - 1) /\ q + 1 \in Nat
    BY <1>1, <1>3
  <2>2. m * (q + 1) = m * q + m
    BY <1>1
  <2>3. start + (m - r) = m * (q + 1)
    BY <1>1, <2>2, Products
  <2>. QED  BY <2>1, <2>3
<1>. QED  BY <1>2, <1>3

\* The aligned part of a run has pages enough.
LEMMA CarveFits ==
  ASSUME SpansOK(spans), NEW n \in Nat \ {0}, NEW align \in Nat \ {0},
         align > kPageSize, align % kPageSize = 0, NEW u \in Carve(align, n)
  PROVE  Spare(u) /\ u.sizeclass = 0 /\ n <= Bytes(u) /\ Lo(u) % align = 0
<1>. DEFINE m == align \div kPageSize
            k == kPageSize
<1>1. k \in Nat \ {0} /\ m \in Nat /\ align = k * m
  BY Constants, Divided
<1>2. m # 0
  BY <1>1
<1>3. PICK s \in Runs(PagesOf(n + align)) :
        u = LET skip == Min({i \in 0..(s.length - 1) : ((s.start + i) * kPageSize) % align = 0})
            IN [s EXCEPT !.start = @ + skip, !.length = PagesOf(n)]
  BY DEF Carve
<1>. HIDE DEF m
<1>4. PagesOf(n) \in Nat \ {0} /\ n <= PagesOf(n) * k /\ PagesOf(n + align) \in Nat \ {0}
  BY EnoughPages
<1>5. PagesOf(n + align) = PagesOf(n) + m
  <2>. DEFINE q == PagesOf(n)
              r == (n + k - 1) % k
  <2>0. n + k - 1 \in Nat /\ q = (n + k - 1) \div k
    BY <1>1 DEF PagesOf
  <2>1. q \in Nat /\ r \in 0..(k - 1) /\ n + k - 1 = k * q + r
    <3>. DEFINE z == n + k - 1
    <3>1. z \in Nat /\ q = z \div k /\ r = z % k
      BY <2>0
    <3>. HIDE DEF z, q, r, k
    <3>2. z \div k \in Nat /\ z % k \in 0..(k - 1) /\ z = k * (z \div k) + (z % k)
      BY <1>1, <3>1, Division
    <3>3. q \in Nat /\ r \in 0..(k - 1) /\ z = k * q + r
      BY <3>1, <3>2, Zenon
    <3>. QED  BY <3>3 DEF z
  <2>. HIDE DEF q, r
  <2>2. n + align + k - 1 = k * (q + m) + r /\ q + m \in Nat
    BY <1>1, <2>1
  <2>3. (k * (q + m) + r) \div k = q + m
    BY <1>1, <2>1, <2>2, Divides, ZenonT(60)
  <2>4. PagesOf(n + align) = q + m
    BY <2>2, <2>3 DEF PagesOf
  <2>. QED  BY <2>4 DEF q
<1>6. Spare(s) /\ s \in Span /\ s.sizeclass = 0 /\ s.length = PagesOf(n) + m /\ s.start \in Nat
  BY <1>4, <1>5, RunsSpare DEF Spare, Span
<1>. DEFINE T == {i \in 0..(s.length - 1) : ((s.start + i) * kPageSize) % align = 0}
            skip == Min(T)
<1>7. PICK j \in 0..(m - 1), x \in Nat : s.start + j = m * x
  BY <1>1, <1>2, <1>6, AlignedPage
<1>8. (s.start + j) * k = align * x
  BY <1>1, <1>6, <1>7
<1>9. (align * x) % align = 0
  BY Multiple
<1>10. j \in T
  BY <1>4, <1>6, <1>8, <1>9, <1>1
<1>11. skip \in T /\ skip <= j
  <2>1. T \in SUBSET Nat /\ T # {}
    BY <1>10
  <2>. HIDE DEF T
  <2>. QED  BY <1>10, <2>1, MinIs
<1>12. skip \in Nat /\ ((s.start + skip) * k) % align = 0
  <2>. HIDE DEF skip
  <2>. QED  BY <1>11
<1>13. u = [s EXCEPT !.start = @ + skip, !.length = PagesOf(n)]
  BY <1>3
<1>. HIDE DEF skip, T, k
<1>14. skip \in Nat /\ skip <= m - 1
  BY <1>1, <1>11, <1>12
<1>15. u.start = s.start + skip /\ u.length = PagesOf(n) /\ u.sizeclass = 0 /\ u \in Span
  <2>. DEFINE a == s.start + skip
              b == PagesOf(n)
  <2>1. a \in Nat /\ b \in Nat \ {0} /\ u = [s EXCEPT !.start = a, !.length = b]
    BY <1>4, <1>6, <1>13, <1>14
  <2>. HIDE DEF a, b
  <2>2. u.start = a /\ u.length = b /\ u.sizeclass = 0 /\ u \in Span
    BY <1>6, <2>1 DEF Span
  <2>. QED  BY <2>2 DEF a, b
<1>16. u.start >= s.start /\ u.start + u.length <= s.start + s.length
  BY <1>1, <1>4, <1>6, <1>15, <1>14
<1>17. u.start + u.length <= MemoryPages
  BY <1>1, <1>4, <1>6, <1>15, <1>16, <1>14, Constants, SMTT(30) DEF Spare
<1>18. ASSUME NEW v \in spans  PROVE Disjoint(u, v)
  <2>1. Disjoint(s, v) /\ v.start \in Nat /\ v.length \in Nat
    BY <1>6 DEF Spare, SpansOK, Span
  <2>. QED  BY <1>1, <1>4, <1>6, <1>15, <1>16, <1>14, <2>1 DEF Disjoint
<1>. QED  BY <1>4, <1>12, <1>15, <1>17, <1>18 DEF Spare, Lo, Bytes, k

LEMMA MemalignOutcome ==
  ASSUME SpansOK(spans), ObjectsOK(spans, live), CacheOK(spans, cache),
         NEW n \in Nat, NEW align \in Aligns, NEW r \in do_memalign(cache, align, n)
  PROVE  Outcome(r, n) /\ r.p % align = 0
<1>. DEFINE size == IF n = 0 THEN 1 ELSE n
<1>1. size \in Nat \ {0} /\ n <= size /\ align \in Nat \ {0} /\ kPageSize \in Nat \ {0}
  BY Constants, MallocAssumption
<1>2. (align <= kPageSize => kPageSize % align = 0) /\ (align > kPageSize => align % kPageSize = 0)
  BY MallocAssumption
<1>3. CASE align <= (IF n > kMaxSize THEN kPageSize ELSE Alignment[size]) /\ r \in do_malloc(cache, n)
  <2>1. ASSUME n <= kMaxSize  PROVE align <= kPageSize /\ ClassSize[SizeClass(n)] % align = 0
    <3>1. size \in 1..kMaxSize /\ align <= Alignment[size]
      BY <1>1, <1>3, <2>1, Constants
    <3>2. Alignment[size] \in 1..kPageSize /\ ClassSize[SizeClass(size)] % align = 0
      BY <3>1, MallocAssumption
    <3>3. SizeClass(n) = SizeClass(size)
      <4>1. {c \in Classes : ClassSize[c] >= n} = {c \in Classes : ClassSize[c] >= size}
        BY Constants
      <4>. QED  BY <4>1 DEF SizeClass
    <3>. QED  BY <1>1, <3>1, <3>2, <3>3
  <2>2. align <= kPageSize
    BY <1>3, <2>1, Constants
  <2>. QED  BY <1>1, <1>2, <1>3, <2>1, <2>2, MallocOutcome
<1>4. CASE /\ size <= kMaxSize /\ align < kPageSize /\ AlignedClasses(align, size) # {}
           /\ r \in Small(cache, Min(AlignedClasses(align, size)))
  <2>. DEFINE class == Min(AlignedClasses(align, size))
  <2>1. class \in Classes /\ size <= ClassSize[class] /\ ClassSize[class] % align = 0
    BY <1>1, <1>4, AlignedClassFits
  <2>. HIDE DEF class
  <2>2. n <= ClassSize[class] /\ ClassSize[class] \in Nat
    BY <1>1, <2>1, Constants
  <2>3. r \in Small(cache, class)
    BY <1>4 DEF class
  <2>4. Outcome(r, n) /\ AlignedAs(r.p, class)
    BY <2>1, <2>2, <2>3, SmallOutcome
  <2>5. kPageSize % align = 0
    BY <1>1, <1>2, <1>4
  <2>. QED  BY <1>1, <2>1, <2>4, <2>5 DEF AlignedAs
<1>5. CASE align <= kPageSize /\ r \in {Large(cache, s) : s \in Runs(PagesOf(size))}
  <2>1. PICK s \in Runs(PagesOf(size)) : r = Large(cache, s)
    BY <1>5
  <2>2. PagesOf(size) \in Nat \ {0} /\ size <= PagesOf(size) * kPageSize
    BY <1>1, EnoughPages
  <2>. HIDE DEF size
  <2>3. Spare(s) /\ s \in Span /\ s.sizeclass = 0 /\ Bytes(s) = PagesOf(size) * kPageSize /\ Bytes(s) \in Nat
    BY <2>2, RunsSpare, SpanBounds DEF Spare, Bytes
  <2>4. n <= Bytes(s)
    BY <1>1, <2>2, <2>3
  <2>5. Outcome(r, n) /\ r.p = Lo(s)
    BY <2>1, <2>3, <2>4, LargeOutcome
  <2>. QED  BY <1>1, <1>2, <1>5, <2>3, <2>5, StartAligned
<1>6. CASE align > kPageSize /\ r \in {Large(cache, s) : s \in Carve(align, size)}
  <2>1. PICK s \in Carve(align, size) : r = Large(cache, s)
    BY <1>6
  <2>. HIDE DEF size
  <2>2. Spare(s) /\ s \in Span /\ s.sizeclass = 0 /\ size <= Bytes(s) /\ Lo(s) % align = 0
    BY <1>1, <1>2, <1>6, CarveFits DEF Spare
  <2>3. n <= Bytes(s)
    BY <1>1, <2>2, SpanBounds
  <2>4. Outcome(r, n) /\ r.p = Lo(s)
    BY <2>1, <2>2, <2>3, LargeOutcome
  <2>. QED  BY <2>2, <2>4
<1>. QED  BY <1>1, <1>3, <1>4, <1>5, <1>6 DEF do_memalign

-----------------------------------------------------------------------------
(* What the steps do to the parts of the invariant.                         *)

LEMMA HeldIs == \A o : Held(o) <=> HeldIn(pend, o)
  BY DEF Held, HeldIn

\* An object is added at the outcome of an allocation.
LEMMA AddObject ==
  ASSUME ObjectsOK(spans, live), NEW n \in Nat, NEW r, Outcome(r, n), Cardinality(live) < MaxLive,
         NEW o \in Object, o.p = r.p, o.class = r.class, o.size <= n, o.p % o.align = 0, Hinted(o)
  PROVE  ObjectsOK(r.spans, live \cup {o}) /\ o \notin live
<1>1. \A u \in live : Away(o.p, o.class, u) /\ Away(u.p, u.class, o) /\ u # o
  BY DEF Outcome, Away
<1>2. IsFiniteSet(live \cup {o}) /\ Cardinality(live \cup {o}) <= MaxLive
  <2>1. IsFiniteSet(live) /\ Cardinality(live) \in Nat
    BY FS_CardinalityType DEF ObjectsOK
  <2>2. IsFiniteSet(live \cup {o}) /\ Cardinality(live \cup {o}) = Cardinality(live) + 1
    BY <1>1, <2>1, FS_AddElement
  <2>3. Cardinality(live) + 1 <= MaxLive
    BY <2>1, Constants
  <2>. QED  BY <2>2, <2>3
<1>3. \E s \in r.spans : Fits(s, o.p, o.class) /\ o.size <= RoomFor(s, o.class)
  <2>1. PICK s \in r.spans : Fits(s, r.p, r.class) /\ n <= RoomFor(s, r.class)
    BY DEF Outcome
  <2>2. RoomFor(s, r.class) \in Nat /\ o.size \in Nat
    BY RoomBounds DEF Outcome, SpansOK, Object
  <2>3. o.size <= RoomFor(s, r.class)
    BY <2>1, <2>2
  <2>. QED  BY <2>1, <2>3
<1>4. ASSUME NEW s \in r.spans, s.sizeclass = 0  PROVE \E u \in live \cup {o} : u.p = Lo(s)
  BY <1>4 DEF Outcome, ObjectsOK
<1>5. spans \subseteq r.spans
  BY DEF Outcome
<1>6. live \cup {o} \subseteq Object
  BY DEF ObjectsOK
<1>7. ASSUME NEW u \in live \cup {o}
      PROVE  /\ \E s \in r.spans : Fits(s, u.p, u.class) /\ u.size <= RoomFor(s, u.class)
             /\ u.p % u.align = 0 /\ Hinted(u)
  BY <1>3, <1>5 DEF ObjectsOK
<1>8. ASSUME NEW u \in live \cup {o}, NEW v \in live \cup {o}, u # v  PROVE Away(u.p, u.class, v)
  BY <1>1, <1>8 DEF ObjectsOK
<1>. QED  BY <1>1, <1>2, <1>4, <1>6, <1>7, <1>8 DEF ObjectsOK

\* The span of an object, and whose it is if it has no class.
LEMMA SpanOfObject ==
  ASSUME SpansOK(spans), ObjectsOK(spans, live), NEW o \in live
  PROVE  \E s \in spans :
           /\ Fits(s, o.p, o.class) /\ GetDescriptor(spans, PageOf(o.p)) = s /\ PageOf(o.p) \in PagesIn(s)
           /\ s.sizeclass = 0 => PageOf(o.p) = s.start
           /\ \A u \in live : PageOf(u.p) \in PagesIn(s) /\ s.sizeclass = 0 => u = o
<1>1. PICK s \in spans : Fits(s, o.p, o.class)
  BY DEF ObjectsOK
<1>2. s \in Span /\ o \in Object /\ o.p \in Nat
  BY DEF SpansOK, ObjectsOK, Object
<1>3. o.p < Hi(s) /\ GetDescriptor(spans, PageOf(o.p)) = s
  BY <1>1, <1>2, RoomIs
<1>4. Lo(s) <= o.p /\ PageOf(o.p) \in PagesIn(s)
  BY <1>1, <1>2, <1>3, PageInSpan DEF Fits
<1>5. ASSUME s.sizeclass = 0  PROVE PageOf(o.p) = s.start
  <2>1. o.p = s.start * kPageSize /\ s.start \in Nat /\ kPageSize \in Nat \ {0}
    BY <1>1, <1>2, <1>5, Constants DEF Fits, Lo, Span
  <2>2. (kPageSize * s.start + 0) \div kPageSize = s.start
    BY <2>1, Divides
  <2>3. kPageSize * s.start + 0 = s.start * kPageSize
    BY <2>1, Products
  <2>. QED  BY <2>1, <2>2, <2>3 DEF PageOf
<1>6. ASSUME NEW u \in live, PageOf(u.p) \in PagesIn(s), s.sizeclass = 0  PROVE u = o
  <2>1. PICK v \in spans : Fits(v, u.p, u.class)
    BY DEF ObjectsOK
  <2>2. v \in Span /\ u \in Object /\ u.p \in Nat
    BY DEF SpansOK, ObjectsOK, Object
  <2>3. u.p < Hi(v) /\ GetDescriptor(spans, PageOf(u.p)) = v
    BY <2>1, <2>2, RoomIs
  <2>4. GetDescriptor(spans, PageOf(u.p)) = s
    BY <1>2, <1>6, <2>2, PageInSpan, TheSpan
  <2>5. u.p = Lo(s) /\ o.p = Lo(s)
    BY <1>1, <1>6, <2>1, <2>3, <2>4 DEF Fits
  <2>. QED  BY <2>5 DEF ObjectsOK, Away
<1>. QED  BY <1>1, <1>3, <1>4, <1>5, <1>6

\* The class found for an object, and the cache then.
LEMMA ClassOfRight ==
  ASSUME SpansOK(spans), CacheOK(spans, cache), ObjectsOK(spans, live), NEW o \in live
  PROVE  ClassOf(o)[1] = o.class /\ CacheOK(spans, ClassOf(o)[2])
<1>1. PICK s \in spans : /\ Fits(s, o.p, o.class) /\ GetDescriptor(spans, PageOf(o.p)) = s /\ PageOf(o.p) \in PagesIn(s)
                         /\ s.sizeclass = 0 => PageOf(o.p) = s.start
  BY SpanOfObject
<1>. DEFINE page == PageOf(o.p)
            cached == GetSizeClassIfCached(cache, page)
            d == Put(cache, page, s.sizeclass)
<1>2. s.sizeclass = o.class /\ cached \in {0, s.sizeclass}
  BY <1>1 DEF Fits, CacheOK
<1>3. page \in Nat /\ s \in Span /\ s.sizeclass \in {0} \cup Classes
  BY PageInSpan DEF SpansOK, ObjectsOK, Object, Span
<1>4. /\ d \in [0..(Slots - 1) -> [page : Int, class : {0} \cup Classes]]
      /\ GetSizeClassIfCached(d, page) = s.sizeclass
      /\ \A q \in Nat \ {page} : GetSizeClassIfCached(d, q) \in {0, GetSizeClassIfCached(cache, q)}
  BY <1>3, AfterPut DEF CacheOK
<1>5. ClassOf(o) = IF cached # 0 THEN <<cached, cache>> ELSE <<s.sizeclass, d>>
  BY <1>1 DEF ClassOf
<1>. HIDE DEF d, cached, page
<1>6. ASSUME NEW u \in spans, NEW q \in PagesIn(u), u.sizeclass # 0 \/ q = u.start
      PROVE  GetSizeClassIfCached(d, q) \in {0, u.sizeclass}
  <2>1. q \in Nat
    BY DEF SpansOK, Span, PagesIn
  <2>2. q = page => u = s
    BY <1>1, DisjointPages DEF SpansOK, page
  <2>. QED  BY <1>4, <1>6, <2>1, <2>2 DEF CacheOK
<1>7. CacheOK(spans, d)
  BY <1>4, <1>6 DEF CacheOK
<1>. QED  BY <1>2, <1>5, <1>7

\* A thread begins or ends a call about an object.
LEMMA PendAdd ==
  ASSUME PendOK(live, pend), live \subseteq live', NEW t \in Threads, pend[t] = Idle,
         NEW call \in Calls, call # Idle, call.o \in live', HeldIn(pend, call.o),
         call.op = "free" /\ call.sized => call.o.by = "malloc" /\ call.o.p % kPageSize # 0,
         pend' = [pend EXCEPT ![t] = call]
  PROVE  PendOK(live', pend') /\ \A o : HeldIn(pend', o) <=> HeldIn(pend, o) /\ o # call.o
<1>1. pend' \in [Threads -> Calls] /\ pend'[t] = call /\ \A u \in Threads \ {t} : pend'[u] = pend[u]
  BY DEF PendOK
<1>2. PendOK(live', pend')
  BY <1>1 DEF PendOK, HeldIn
<1>3. \A o : HeldIn(pend', o) <=> HeldIn(pend, o) /\ o # call.o
  BY <1>1 DEF HeldIn
<1>. QED  BY <1>2, <1>3

LEMMA PendDrop ==
  ASSUME PendOK(live, pend), NEW t \in Threads, pend[t] # Idle,
         live \ {pend[t].o} \subseteq live', pend' = [pend EXCEPT ![t] = Idle]
  PROVE  PendOK(live', pend') /\ \A o : HeldIn(pend', o) <=> HeldIn(pend, o) \/ o = pend[t].o
<1>1. pend' \in [Threads -> Calls] /\ pend'[t] = Idle /\ \A u \in Threads \ {t} : pend'[u] = pend[u]
  BY DEF PendOK, Calls
<1>2. PendOK(live', pend')
  BY <1>1 DEF PendOK
<1>3. \A o : HeldIn(pend', o) <=> HeldIn(pend, o) \/ o = pend[t].o
  BY <1>1 DEF HeldIn, PendOK
<1>. QED  BY <1>2, <1>3

-----------------------------------------------------------------------------
(* Every step keeps the invariant.                                          *)

LEMMA InitInv == MallocInit => MallocIInv
<1>. SUFFICES ASSUME MallocInit  PROVE MallocIInv
  OBVIOUS
<1>1. SpansOK(spans)
  BY DEF MallocInit, SpansOK
<1>2. CacheOK(spans, cache)
  BY DEF MallocInit, CacheOK, Nothing
<1>3. ObjectsOK(spans, live)
  BY FS_EmptySet, Constants DEF MallocInit, ObjectsOK
<1>4. PendOK(live, pend)
  BY DEF MallocInit, PendOK, Calls
<1>5. HooksOK(live, hooked, pend)
  BY DEF MallocInit, HooksOK
<1>. QED  BY <1>1, <1>2, <1>3, <1>4, <1>5 DEF MallocIInv

LEMMA AllocInv == ASSUME MallocIInv, NEW t \in Threads, Alloc(t) PROVE MallocIInv'
<1>. DEFINE object(n, align, r) == [p |-> r.p, size |-> n, class |-> r.class, align |-> align,
                                    by |-> IF align = 1 THEN "malloc" ELSE "other"]
<1>0. PICK n \in Sizes, align \in Aligns \cup {1} :
        \E r \in IF align = 1 THEN do_malloc(cache, n) ELSE do_memalign(cache, align, n) :
          /\ spans' = r.spans /\ cache' = r.cache /\ live' = live \cup {object(n, align, r)}
          /\ pend' = [pend EXCEPT ![t] = [op |-> "new", o |-> object(n, align, r)]]
  BY DEF Alloc
<1>1. PICK r \in IF align = 1 THEN do_malloc(cache, n) ELSE do_memalign(cache, align, n) :
        /\ spans' = r.spans /\ cache' = r.cache /\ live' = live \cup {object(n, align, r)}
        /\ pend' = [pend EXCEPT ![t] = [op |-> "new", o |-> object(n, align, r)]]
  BY <1>0
<1>. DEFINE o == object(n, align, r)
<1>2. pend[t] = Idle /\ Cardinality(live) < MaxLive /\ hooked' = hooked
  BY DEF Alloc
<1>3. n \in Nat /\ align \in Nat \ {0}
  BY MallocAssumption
<1>4. Outcome(r, n) /\ r.p % align = 0 /\ (align = 1 /\ r.p % kPageSize # 0 /\ n <= kMaxSize => r.class = SizeClass(n))
  <2>1. CASE align = 1
    <3>1. Outcome(r, n) /\ (r.p % kPageSize # 0 /\ n <= kMaxSize => r.class = SizeClass(n))
      BY <1>1, <1>3, <2>1, MallocOutcome DEF MallocIInv
    <3>2. r.p % 1 = 0
      BY <3>1, Division DEF Outcome
    <3>. QED  BY <2>1, <3>1, <3>2
  <2>2. CASE align # 1
    BY <1>1, <1>3, <2>2, MemalignOutcome DEF MallocIInv
  <2>. QED  BY <2>1, <2>2
<1>5. o \in Object /\ o.p = r.p /\ o.class = r.class /\ o.size = n /\ o.p % o.align = 0 /\ Hinted(o)
  BY <1>1, <1>3, <1>4 DEF Object, Outcome, Hinted
<1>. HIDE DEF o
<1>6. ObjectsOK(r.spans, live \cup {o}) /\ o \notin live
  <2>1. o.size <= n
    BY <1>3, <1>5
  <2>. QED  BY <1>2, <1>3, <1>4, <1>5, <2>1, AddObject DEF MallocIInv
<1>. DEFINE call == [op |-> "new", o |-> o]
<1>7. call \in Calls /\ call # Idle /\ call.o = o /\ call.op = "new"
  BY <1>5 DEF Calls, Idle
<1>8. HeldIn(pend, o)
  BY <1>6 DEF HeldIn, MallocIInv, PendOK
<1>. HIDE DEF call
<1>9. PendOK(live', pend') /\ \A u : HeldIn(pend', u) <=> HeldIn(pend, u) /\ u # o
  <2>1. PendOK(live, pend) /\ live \subseteq live' /\ call.o \in live' /\ pend[t] = Idle /\ HeldIn(pend, call.o)
    BY <1>1, <1>2, <1>7, <1>8 DEF MallocIInv, o
  <2>2. pend' = [pend EXCEPT ![t] = call]
    BY <1>1 DEF call, o
  <2>3. call.op = "free" /\ call.sized => call.o.by = "malloc" /\ call.o.p % kPageSize # 0
    BY <1>7
  <2>4. PendOK(live', pend') /\ \A u : HeldIn(pend', u) <=> HeldIn(pend, u) /\ u # call.o
    BY <1>7, <2>1, <2>2, <2>3, PendAdd
  <2>. QED  BY <1>7, <2>4
<1>10. HooksOK(live', hooked', pend')
  <2>1. live' = live \cup {o}
    BY <1>1 DEF o
  <2>. QED  BY <1>2, <1>6, <1>9, <2>1 DEF MallocIInv, HooksOK
<1>11. SpansOK(spans') /\ CacheOK(spans', cache') /\ ObjectsOK(spans', live')
  BY <1>1, <1>4, <1>6, Zenon DEF Outcome, o
<1>. QED  BY <1>9, <1>10, <1>11 DEF MallocIInv

LEMMA NewHookInv == ASSUME MallocIInv, NEW t \in Threads, NewHook(t) PROVE MallocIInv'
<1>1. /\ pend[t].op = "new" /\ hooked' = hooked \cup {<<pend[t].o.p, pend[t].o.size>>}
      /\ pend' = [pend EXCEPT ![t] = Idle] /\ spans' = spans /\ live' = live /\ cache' = cache
  BY DEF NewHook
<1>2. pend[t] # Idle /\ pend[t].o \in live
  BY <1>1 DEF Idle, MallocIInv, PendOK
<1>3. PendOK(live', pend') /\ \A u : HeldIn(pend', u) <=> HeldIn(pend, u) \/ u = pend[t].o
  BY <1>1, <1>2, PendDrop DEF MallocIInv
<1>4. HooksOK(live', hooked', pend')
  BY <1>1, <1>2, <1>3 DEF MallocIInv, HooksOK
<1>. QED  BY <1>1, <1>3, <1>4 DEF MallocIInv

\* Two objects with one address are one.
LEMMA OneObject ==
  ASSUME MallocIInv, NEW o \in live, NEW u \in live, o.p = u.p
  PROVE  o = u
  BY DEF MallocIInv, ObjectsOK, Away

LEMMA FreeInv == ASSUME MallocIInv, NEW t \in Threads, Free(t) PROVE MallocIInv'
<1>1. PICK o \in live, sized \in BOOLEAN :
        /\ Held(o) /\ (sized => o.by = "malloc")
        /\ hooked' = hooked \ {<<o.p, o.size>>}
        /\ pend' = [pend EXCEPT ![t] = [op |-> "free", o |-> o, sized |-> sized /\ o.p % kPageSize # 0]]
  BY DEF Free
<1>2. pend[t] = Idle /\ spans' = spans /\ live' = live /\ cache' = cache
  BY DEF Free
<1>. DEFINE both == sized /\ o.p % kPageSize # 0
            call == [op |-> "free", o |-> o, sized |-> both]
<1>3. both \in BOOLEAN /\ (both => o.by = "malloc" /\ o.p % kPageSize # 0)
  BY <1>1
<1>4. o \in Object
  BY DEF MallocIInv, ObjectsOK
<1>. HIDE DEF both
<1>5. call \in Calls /\ call # Idle /\ call.o = o /\ call.op = "free" /\ call.sized = both
  BY <1>3, <1>4 DEF Calls, Idle
<1>. HIDE DEF call
<1>6. pend' = [pend EXCEPT ![t] = call]
  BY <1>1 DEF call, both
<1>7. PendOK(live', pend') /\ \A u : HeldIn(pend', u) <=> HeldIn(pend, u) /\ u # o
  <2>1. PendOK(live, pend) /\ live \subseteq live' /\ call.o \in live' /\ pend[t] = Idle /\ HeldIn(pend, call.o)
    BY <1>1, <1>2, <1>5, HeldIs DEF MallocIInv
  <2>2. call.op = "free" /\ call.sized => call.o.by = "malloc" /\ call.o.p % kPageSize # 0
    BY <1>3, <1>5
  <2>3. PendOK(live', pend') /\ \A u : HeldIn(pend', u) <=> HeldIn(pend, u) /\ u # call.o
    BY <1>5, <1>6, <2>1, <2>2, PendAdd
  <2>. QED  BY <1>5, <2>3
<1>8. ASSUME NEW h \in hooked'  PROVE \E u \in live' : HeldIn(pend', u) /\ h = <<u.p, u.size>>
  <2>1. PICK u \in live : HeldIn(pend, u) /\ h = <<u.p, u.size>>
    BY <1>1 DEF MallocIInv, HooksOK
  <2>2. u # o
    BY <1>1, <2>1
  <2>. QED  BY <1>2, <1>7, <2>1, <2>2
<1>9. ASSUME NEW u \in live', HeldIn(pend', u)  PROVE <<u.p, u.size>> \in hooked'
  <2>1. u \in live /\ HeldIn(pend, u) /\ u # o
    BY <1>2, <1>7, <1>9
  <2>2. u.p # o.p
    BY <2>1, OneObject
  <2>. QED  BY <1>1, <2>1, <2>2 DEF MallocIInv, HooksOK
<1>. QED  BY <1>2, <1>7, <1>8, <1>9 DEF MallocIInv, HooksOK

\* A free, hinted or not, finds the class the object was taken from.
LEMMA FreedClassRight ==
  ASSUME MallocIInv, NEW t \in Threads, pend[t].op = "free"
  PROVE  FreedClass(t)[1] = pend[t].o.class /\ CacheOK(spans, FreedClass(t)[2])
<1>. DEFINE o == pend[t].o
<1>1. pend[t] # Idle /\ o \in live /\ (pend[t].sized => o.by = "malloc" /\ o.p % kPageSize # 0)
  BY DEF Idle, MallocIInv, PendOK
<1>2. ClassOf(o)[1] = o.class /\ CacheOK(spans, ClassOf(o)[2])
  BY <1>1, ClassOfRight DEF MallocIInv
<1>3. pend[t].sized /\ o.size <= kMaxSize => o.class = SizeClass(o.size)
  BY <1>1 DEF MallocIInv, ObjectsOK, Hinted
<1>. QED  BY <1>2, <1>3 DEF FreedClass, MallocIInv

LEMMA DoFreeInv == ASSUME MallocIInv, NEW t \in Threads, do_free(t) PROVE MallocIInv'
<1>. DEFINE o == pend[t].o
<1>1. /\ pend[t].op = "free" /\ cache' = FreedClass(t)[2] /\ hooked' = hooked
      /\ spans' = IF FreedClass(t)[1] # 0 THEN spans ELSE spans \ {GetDescriptor(spans, PageOf(o.p))}
      /\ live' = live \ {o} /\ pend' = [pend EXCEPT ![t] = Idle]
  BY DEF do_free
<1>2. pend[t] # Idle /\ o \in live
  BY <1>1 DEF Idle, MallocIInv, PendOK
<1>3. PICK s \in spans :
        /\ Fits(s, o.p, o.class) /\ GetDescriptor(spans, PageOf(o.p)) = s
        /\ \A u \in live : PageOf(u.p) \in PagesIn(s) /\ s.sizeclass = 0 => u = o
  BY <1>2, SpanOfObject DEF MallocIInv
<1>4. spans' = (IF o.class # 0 THEN spans ELSE spans \ {s}) /\ CacheOK(spans, cache') /\ s.sizeclass = o.class
  BY <1>1, <1>3, FreedClassRight DEF Fits
<1>5. SpansOK(spans') /\ CacheOK(spans', cache') /\ spans' \subseteq spans
  BY <1>4 DEF MallocIInv, SpansOK, CacheOK
<1>6. PendOK(live', pend') /\ \A u : HeldIn(pend', u) <=> HeldIn(pend, u) \/ u = o
  BY <1>1, <1>2, PendDrop DEF MallocIInv
<1>7. \A u : HeldIn(pend, u) => u # o
  BY <1>2 DEF HeldIn
<1>. HIDE DEF o
<1>8. HooksOK(live', hooked', pend')
  BY <1>1, <1>6, <1>7 DEF MallocIInv, HooksOK
<1>9. IsFiniteSet(live') /\ Cardinality(live') <= MaxLive
  <2>1. IsFiniteSet(live) /\ Cardinality(live) \in Nat /\ Cardinality(live) <= MaxLive
    BY FS_CardinalityType DEF MallocIInv, ObjectsOK
  <2>2. IsFiniteSet(live') /\ Cardinality(live') <= Cardinality(live) /\ Cardinality(live') \in Nat
    BY <1>1, <2>1, FS_Subset, FS_CardinalityType
  <2>. QED  BY <2>1, <2>2, Constants
<1>10. ASSUME NEW u \in live'
       PROVE  \E v \in spans' : Fits(v, u.p, u.class) /\ u.size <= RoomFor(v, u.class)
  <2>1. u \in live /\ u # o
    BY <1>1
  <2>2. PICK v \in spans : Fits(v, u.p, u.class) /\ u.size <= RoomFor(v, u.class)
    BY <2>1 DEF MallocIInv, ObjectsOK
  <2>3. PageOf(u.p) \in PagesIn(v)
    <3>1. v \in Span /\ u \in Object /\ u.p \in Nat
      BY <2>1 DEF MallocIInv, SpansOK, ObjectsOK, Object
    <3>2. u.p < Hi(v) /\ Lo(v) <= u.p
      BY <2>2, <3>1, RoomIs DEF MallocIInv, Fits
    <3>. QED  BY <3>1, <3>2, PageInSpan
  <2>4. o.class = 0 => v # s
    BY <1>3, <1>4, <2>1, <2>3
  <2>. QED  BY <1>4, <2>2, <2>4
<1>11. ASSUME NEW v \in spans', v.sizeclass = 0  PROVE \E u \in live' : u.p = Lo(v)
  <2>1. v \in spans /\ (v = s => o.class # 0)
    BY <1>4, <1>5
  <2>2. PICK u \in live : u.p = Lo(v)
    BY <1>11, <2>1 DEF MallocIInv, ObjectsOK
  <2>3. u # o
    <3>1. v \in Span /\ Lo(v) \in Nat /\ Lo(v) < Hi(v)
      BY <2>1, SpanBounds DEF MallocIInv, SpansOK
    <3>2. GetDescriptor(spans, PageOf(u.p)) = v
      BY <2>1, <2>2, <3>1, TheSpan DEF MallocIInv
    <3>. QED  BY <1>3, <1>4, <1>11, <2>1, <3>2
  <2>. QED  BY <1>1, <2>2, <2>3
<1>12. ObjectsOK(spans', live')
  BY <1>1, <1>9, <1>10, <1>11 DEF MallocIInv, ObjectsOK
<1>. QED  BY <1>5, <1>6, <1>8, <1>12 DEF MallocIInv

LEMMA ReturnSpanInv == ASSUME MallocIInv, ReturnSpan PROVE MallocIInv'
<1>1. PICK s \in spans : /\ s.sizeclass # 0 /\ \A o \in live : PageOf(o.p) \notin PagesIn(s)
                         /\ spans' = spans \ {s}
  BY DEF ReturnSpan
<1>2. live' = live /\ cache' = cache /\ hooked' = hooked /\ pend' = pend
  BY DEF ReturnSpan
<1>3. SpansOK(spans') /\ CacheOK(spans', cache')
  BY <1>1, <1>2 DEF MallocIInv, SpansOK, CacheOK
<1>4. ASSUME NEW u \in live
      PROVE  \E v \in spans' : Fits(v, u.p, u.class) /\ u.size <= RoomFor(v, u.class)
  <2>1. PICK v \in spans : Fits(v, u.p, u.class) /\ u.size <= RoomFor(v, u.class)
    BY DEF MallocIInv, ObjectsOK
  <2>2. v \in Span /\ u \in Object /\ u.p \in Nat
    BY DEF MallocIInv, SpansOK, ObjectsOK, Object
  <2>3. u.p < Hi(v) /\ Lo(v) <= u.p
    BY <2>1, <2>2, RoomIs DEF MallocIInv, Fits
  <2>4. v # s
    BY <1>1, <2>2, <2>3, PageInSpan
  <2>. QED  BY <1>1, <2>1, <2>4
<1>5. ObjectsOK(spans', live')
  BY <1>1, <1>2, <1>4 DEF MallocIInv, ObjectsOK
<1>. QED  BY <1>2, <1>3, <1>5 DEF MallocIInv

\* realloc in place: object o has another size.
LEMMA KeepInv ==
  ASSUME MallocIInv, NEW o \in live, Held(o), NEW n \in Nat,
         \A s \in spans : Fits(s, o.p, o.class) => n <= RoomFor(s, o.class),
         live' = (live \ {o}) \cup {[o EXCEPT !.size = n, !.by = "other", !.align = 1]},
         hooked' = (hooked \ {<<o.p, o.size>>}) \cup {<<o.p, n>>},
         CacheOK(spans, cache'), spans' = spans, pend' = pend
  PROVE  MallocIInv'
<1>. DEFINE w == [o EXCEPT !.size = n, !.by = "other", !.align = 1]
<1>1. o \in Object
  BY DEF MallocIInv, ObjectsOK
<1>2. w \in Object /\ w.p = o.p /\ w.class = o.class /\ w.size = n /\ w.align = 1 /\ w.by = "other"
  <2>1. o = [p |-> o.p, size |-> o.size, class |-> o.class, align |-> o.align, by |-> o.by]
    BY <1>1 DEF Object
  <2>. DEFINE x == [o EXCEPT !.size = n]
              y == [x EXCEPT !.by = "other"]
  <2>2. x = [p |-> o.p, size |-> n, class |-> o.class, align |-> o.align, by |-> o.by]
    BY <2>1
  <2>3. y = [p |-> o.p, size |-> n, class |-> o.class, align |-> o.align, by |-> "other"]
    <3>. HIDE DEF x
    <3>. QED  BY <2>2
  <2>4. w = [y EXCEPT !.align = 1]
    OBVIOUS
  <2>5. w = [p |-> o.p, size |-> n, class |-> o.class, align |-> 1, by |-> "other"]
    <3>. HIDE DEF w, y
    <3>. QED  BY <2>3, <2>4
  <2>. HIDE DEF w
  <2>. QED  BY <1>1, <2>5 DEF Object
<1>3. live' = (live \ {o}) \cup {w}
  OBVIOUS
<1>. HIDE DEF w
<1>4. \A u \in live : u.p = o.p => u = o
  BY OneObject
<1>5. \A t \in Threads : pend[t] # Idle => pend[t].o \in live /\ pend[t].o # o
  BY HeldIs DEF HeldIn, MallocIInv, PendOK
<1>6. PendOK(live', pend')
  BY <1>3, <1>5 DEF MallocIInv, PendOK
<1>7. HeldIn(pend, w)
  BY <1>2, <1>4, <1>5 DEF HeldIn
<1>8. HooksOK(live', hooked', pend')
  <2>1. ASSUME NEW h \in hooked'  PROVE \E u \in live' : HeldIn(pend', u) /\ h = <<u.p, u.size>>
    <3>1. CASE h = <<o.p, n>>
      BY <1>2, <1>3, <1>7, <3>1
    <3>2. CASE h \in hooked /\ h # <<o.p, o.size>>
      BY <1>3, <3>2 DEF MallocIInv, HooksOK
    <3>. QED  BY <2>1, <3>1, <3>2
  <2>2. ASSUME NEW u \in live', HeldIn(pend', u)  PROVE <<u.p, u.size>> \in hooked'
    <3>1. CASE u = w
      BY <1>2, <3>1
    <3>2. CASE u \in live /\ u # o
      <4>1. <<u.p, u.size>> \in hooked
        BY <2>2, <3>2 DEF MallocIInv, HooksOK
      <4>. QED  BY <1>4, <3>2, <4>1
    <3>. QED  BY <1>3, <3>1, <3>2
  <2>. QED  BY <2>1, <2>2 DEF HooksOK
<1>9. IsFiniteSet(live') /\ Cardinality(live') <= MaxLive
  <2>1. IsFiniteSet(live) /\ Cardinality(live) \in Nat /\ Cardinality(live) <= MaxLive
    BY FS_CardinalityType DEF MallocIInv, ObjectsOK
  <2>2. IsFiniteSet(live \ {o}) /\ Cardinality(live \ {o}) = Cardinality(live) - 1
    BY <2>1, FS_RemoveElement
  <2>3. /\ IsFiniteSet((live \ {o}) \cup {w})
        /\ Cardinality((live \ {o}) \cup {w}) \in {Cardinality(live) - 1, Cardinality(live)}
    <3>1. CASE w \in live \ {o}
      <4>1. (live \ {o}) \cup {w} = live \ {o}
        BY <3>1
      <4>. QED  BY <2>2, <4>1
    <3>2. CASE w \notin live \ {o}
      <4>. DEFINE rest == live \ {o}
      <4>1. IsFiniteSet(rest) /\ Cardinality(rest) = Cardinality(live) - 1 /\ w \notin rest
        BY <2>2, <3>2
      <4>. HIDE DEF rest
      <4>2. IsFiniteSet(rest \cup {w}) /\ Cardinality(rest \cup {w}) = Cardinality(rest) + 1
        BY <4>1, FS_AddElement
      <4>3. Cardinality(rest \cup {w}) = Cardinality(live)
        BY <2>1, <4>1, <4>2
      <4>. QED  BY <4>2, <4>3 DEF rest
    <3>. QED  BY <3>1, <3>2
  <2>4. \A x \in {Cardinality(live) - 1, Cardinality(live)} : x <= MaxLive
    BY <2>1, Constants
  <2>. QED  BY <1>3, <2>3, <2>4
<1>10. ASSUME NEW u \in live'
       PROVE  /\ \E s \in spans : Fits(s, u.p, u.class) /\ u.size <= RoomFor(s, u.class)
              /\ u.p % u.align = 0 /\ Hinted(u)
  <2>1. CASE u = w
    <3>1. PICK s \in spans : Fits(s, o.p, o.class)
      BY DEF MallocIInv, ObjectsOK
    <3>2. w.p % w.align = 0
      <4>1. o.p % 1 = 0
        BY <1>1, Division DEF Object
      <4>. QED  BY <1>2, <4>1
    <3>. QED  BY <1>2, <2>1, <3>1, <3>2 DEF Hinted
  <2>2. CASE u \in live
    BY <2>2 DEF MallocIInv, ObjectsOK
  <2>. QED  BY <1>3, <2>1, <2>2
<1>11. ASSUME NEW u \in live', NEW v \in live', u # v  PROVE Away(u.p, u.class, v)
  BY <1>2, <1>3, <1>4, <1>11 DEF MallocIInv, ObjectsOK, Away
<1>12. ASSUME NEW s \in spans, s.sizeclass = 0  PROVE \E u \in live' : u.p = Lo(s)
  BY <1>2, <1>3, <1>12 DEF MallocIInv, ObjectsOK
<1>13. live' \subseteq Object
  BY <1>2, <1>3 DEF MallocIInv, ObjectsOK
<1>14. ObjectsOK(spans', live')
  BY <1>9, <1>10, <1>11, <1>12, <1>13 DEF ObjectsOK
<1>. QED  BY <1>6, <1>8, <1>14 DEF MallocIInv

\* realloc elsewhere: the new object is there, the free of the old one is due.
LEMMA MoveInv ==
  ASSUME MallocIInv, NEW t \in Threads, pend[t] = Idle, NEW o \in live, Held(o), NEW n \in Nat,
         NEW m \in Nat, n <= m, NEW r, Outcome(r, m), Cardinality(live) < MaxLive, Move(t, o, n, r)
  PROVE  MallocIInv'
<1>. DEFINE w == [p |-> r.p, size |-> n, class |-> r.class, align |-> 1, by |-> "other"]
            call == [op |-> "free", o |-> o, sized |-> FALSE]
<1>1. /\ spans' = r.spans /\ cache' = r.cache /\ live' = live \cup {w} /\ pend' = [pend EXCEPT ![t] = call]
      /\ hooked' = (hooked \ {<<o.p, o.size>>}) \cup {<<w.p, w.size>>}
  BY DEF Move
<1>2. w \in Object /\ w.p = r.p /\ w.class = r.class /\ w.size = n /\ w.align = 1 /\ w.by = "other"
  BY DEF Object, Outcome
<1>3. o \in Object
  BY DEF MallocIInv, ObjectsOK
<1>4. call \in Calls /\ call # Idle /\ call.o = o /\ call.op = "free" /\ call.sized = FALSE
  BY <1>3 DEF Calls, Idle
<1>. HIDE DEF w, call
<1>5. w.p % w.align = 0 /\ Hinted(w) /\ w.size <= m
  <2>1. r.p % 1 = 0
    BY Division DEF Outcome
  <2>. QED  BY <1>2, <2>1 DEF Hinted
<1>6. ObjectsOK(r.spans, live \cup {w}) /\ w \notin live
  BY <1>2, <1>5, AddObject DEF MallocIInv
<1>7. PendOK(live', pend') /\ \A u : HeldIn(pend', u) <=> HeldIn(pend, u) /\ u # o
  <2>1. PendOK(live, pend) /\ live \subseteq live' /\ call.o \in live' /\ HeldIn(pend, call.o)
    BY <1>1, <1>4, HeldIs DEF MallocIInv
  <2>2. PendOK(live', pend') /\ \A u : HeldIn(pend', u) <=> HeldIn(pend, u) /\ u # call.o
    BY <1>1, <1>4, <2>1, PendAdd
  <2>. QED  BY <1>4, <2>2
<1>8. HeldIn(pend, w) /\ w # o
  BY <1>6 DEF HeldIn, MallocIInv, PendOK
<1>9. HooksOK(live', hooked', pend')
  <2>1. ASSUME NEW h \in hooked'  PROVE \E u \in live' : HeldIn(pend', u) /\ h = <<u.p, u.size>>
    <3>1. CASE h = <<w.p, w.size>>
      BY <1>1, <1>7, <1>8, <3>1
    <3>2. CASE h \in hooked /\ h # <<o.p, o.size>>
      <4>1. PICK u \in live : HeldIn(pend, u) /\ h = <<u.p, u.size>>
        BY <3>2 DEF MallocIInv, HooksOK
      <4>. QED  BY <1>1, <1>7, <3>2, <4>1
    <3>. QED  BY <1>1, <2>1, <3>1, <3>2
  <2>2. ASSUME NEW u \in live', HeldIn(pend', u)  PROVE <<u.p, u.size>> \in hooked'
    <3>1. CASE u = w
      BY <1>1, <3>1
    <3>2. CASE u \in live
      <4>1. HeldIn(pend, u) /\ u # o
        BY <1>7, <2>2
      <4>2. u.p # o.p
        BY <3>2, <4>1, OneObject
      <4>. QED  BY <1>1, <3>2, <4>1, <4>2 DEF MallocIInv, HooksOK
    <3>. QED  BY <1>1, <3>1, <3>2
  <2>. QED  BY <2>1, <2>2 DEF HooksOK
<1>10. SpansOK(spans') /\ CacheOK(spans', cache') /\ ObjectsOK(spans', live')
  BY <1>1, <1>6 DEF Outcome
<1>. QED  BY <1>7, <1>9, <1>10 DEF MallocIInv

LEMMA ReallocInv == ASSUME MallocIInv, NEW t \in Threads, Realloc(t) PROVE MallocIInv'
<1>. DEFINE C(o) == IF ClassOf(o)[1] # 0 THEN ClassOf(o)[2] ELSE cache
            Old(o) == IF ClassOf(o)[1] # 0 THEN ClassSize[ClassOf(o)[1]]
                      ELSE GetDescriptor(spans, PageOf(o.p)).length * kPageSize
            Tiny(o, n) == IF n > Old(o) /\ n < Old(o) + (Old(o) \div 4)
                            THEN do_malloc(C(o), Old(o) + (Old(o) \div 4)) ELSE {}
<1>1. PICK o \in live, n \in Sizes \ {0} :
        /\ Held(o)
        /\ IF Keeps(Old(o), n)
             THEN /\ live' = (live \ {o}) \cup {[o EXCEPT !.size = n, !.by = "other", !.align = 1]}
                  /\ hooked' = (hooked \ {<<o.p, o.size>>}) \cup {<<o.p, n>>}
                  /\ cache' = C(o) /\ UNCHANGED <<spans, pend>>
             ELSE /\ Cardinality(live) < MaxLive
                  /\ \E r \in IF Tiny(o, n) = {} THEN do_malloc(C(o), n) ELSE Tiny(o, n) : Move(t, o, n, r)
  BY DEF Realloc
<1>2. pend[t] = Idle /\ n \in Nat
  BY MallocAssumption DEF Realloc
<1>3. PICK s \in spans : Fits(s, o.p, o.class) /\ GetDescriptor(spans, PageOf(o.p)) = s
  BY SpanOfObject DEF MallocIInv
<1>. DEFINE c == C(o)
            old == Old(o)
<1>4. ClassOf(o)[1] = o.class /\ CacheOK(spans, c)
  BY ClassOfRight DEF MallocIInv
<1>5. \A v \in spans : Fits(v, o.p, o.class) => old = RoomFor(v, o.class)
  <2>1. o \in Object
    BY DEF MallocIInv, ObjectsOK
  <2>2. ASSUME NEW v \in spans, Fits(v, o.p, o.class)  PROVE v = s
    BY <1>3, <2>1, <2>2, RoomIs DEF MallocIInv
  <2>. QED  BY <1>3, <1>4, <2>2 DEF RoomFor, Bytes
<1>6. old \in Nat
  BY <1>3, <1>5, RoomBounds DEF MallocIInv, SpansOK, ObjectsOK, Object
<1>. HIDE DEF C, Old
<1>7. CASE Keeps(old, n)
  <2>1. \A v \in spans : Fits(v, o.p, o.class) => n <= RoomFor(v, o.class)
    BY <1>5, <1>7 DEF Keeps
  <2>. QED  BY <1>1, <1>2, <1>4, <1>7, <2>1, KeepInv
<1>8. CASE ~Keeps(old, n)
  <2>1. Cardinality(live) < MaxLive
    BY <1>1, <1>8
  <2>2. PICK r \in IF Tiny(o, n) = {} THEN do_malloc(c, n) ELSE Tiny(o, n) : Move(t, o, n, r)
    BY <1>1, <1>8
  <2>3. \E m \in Nat : n <= m /\ Outcome(r, m)
    <3>1. CASE r \in do_malloc(c, n)
      BY <1>2, <1>4, <3>1, MallocOutcome DEF MallocIInv
    <3>2. CASE n < old + (old \div 4) /\ r \in do_malloc(c, old + (old \div 4))
      <4>1. old \div 4 \in Nat
        BY <1>6, Division
      <4>. DEFINE m == old + (old \div 4)
      <4>2. m \in Nat /\ n <= m
        BY <1>2, <1>6, <3>2, <4>1
      <4>. HIDE DEF m
      <4>3. r \in do_malloc(c, m)
        BY <3>2 DEF m
      <4>4. Outcome(r, m)
        BY <1>4, <4>2, <4>3, MallocOutcome DEF MallocIInv
      <4>. QED  BY <4>2, <4>4
    <3>. QED  BY <2>2, <3>1, <3>2
  <2>. QED  BY <1>1, <1>2, <2>1, <2>2, <2>3, MoveInv
<1>. QED  BY <1>7, <1>8

\* MallocIInv: the cache is true of every page free may ask about, each span without
\* a class has its object, and pending calls are about objects of their own.
THEOREM MallocInvariant == MallocSpec => []MallocIInv
<1>1. MallocIInv /\ [MallocNext]_mallocVars => MallocIInv'
  <2>. SUFFICES ASSUME MallocIInv, [MallocNext]_mallocVars  PROVE MallocIInv'
    OBVIOUS
  <2>1. ASSUME NEW t \in Threads, Alloc(t) \/ NewHook(t) \/ Free(t) \/ do_free(t) \/ Realloc(t)
        PROVE  MallocIInv'
    BY <2>1, AllocInv, NewHookInv, FreeInv, DoFreeInv, ReallocInv
  <2>2. CASE ReturnSpan
    BY <2>2, ReturnSpanInv
  <2>3. CASE UNCHANGED mallocVars
    BY <2>3 DEF mallocVars, MallocIInv
  <2>. QED  BY <2>1, <2>2, <2>3 DEF MallocNext
<1>. QED  BY <1>1, InitInv, PTL DEF MallocSpec

-----------------------------------------------------------------------------
(* What the runs check.                                                     *)

LEMMA TypesFollow == MallocIInv => MallocTypeOK
<1>. SUFFICES ASSUME MallocIInv  PROVE MallocTypeOK
  OBVIOUS
<1>1. ASSUME NEW s \in spans  PROVE PagesIn(s) \subseteq 0..(MemoryPages - 1) /\ s.sizeclass \in {0} \cup Classes
  <2>1. s.start \in Nat /\ s.length \in Nat \ {0} /\ s.start + s.length <= MemoryPages /\ s.sizeclass \in {0} \cup Classes
    BY DEF MallocIInv, SpansOK, Span
  <2>. QED  BY <2>1, Constants DEF PagesIn
<1>2. ASSUME NEW s \in spans, NEW u \in spans, s # u  PROVE PagesIn(s) \cap PagesIn(u) = {}
  BY <1>2, DisjointPages DEF MallocIInv, SpansOK
<1>. QED  BY <1>1, <1>2 DEF MallocTypeOK, MallocIInv, ObjectsOK

LEMMA SuitsFollows == MallocIInv => Suits
<1>. SUFFICES ASSUME MallocIInv, NEW o \in live
     PROVE  /\ \E s \in spans : s.start * kPageSize <= o.p /\ o.p + Room(o) <= (s.start + s.length) * kPageSize
            /\ o.size <= Room(o) /\ o.p % o.align = 0
            /\ \A u \in live \ {o} : o.p + Room(o) <= u.p \/ u.p + Room(u) <= o.p
  BY DEF Suits
<1>1. ASSUME NEW u \in live
      PROVE  \E s \in spans : Fits(s, u.p, u.class) /\ u.size <= RoomFor(s, u.class) /\ Room(u) = RoomFor(s, u.class)
  <2>1. PICK s \in spans : Fits(s, u.p, u.class) /\ u.size <= RoomFor(s, u.class)
    BY DEF MallocIInv, ObjectsOK
  <2>2. GetDescriptor(spans, PageOf(u.p)) = s
    BY <2>1, RoomIs DEF MallocIInv, ObjectsOK
  <2>. QED  BY <2>1, <2>2 DEF Room, RoomFor, Bytes
<1>2. PICK s \in spans : Fits(s, o.p, o.class) /\ o.size <= RoomFor(s, o.class) /\ Room(o) = RoomFor(s, o.class)
  BY <1>1
<1>3. ASSUME NEW u \in live \ {o}  PROVE o.p + Room(o) <= u.p \/ u.p + Room(u) <= o.p
  <2>1. PICK v \in spans : Fits(v, u.p, u.class) /\ Room(u) = RoomFor(v, u.class)
    BY <1>1
  <2>2. /\ s \in Span /\ v \in Span /\ o.p \in Nat /\ u.p \in Nat
        /\ o.class \in {0} \cup Classes /\ u.class \in {0} \cup Classes
    BY DEF MallocIInv, SpansOK, ObjectsOK, Object
  <2>3. Room(o) \in Nat /\ Room(u) \in Nat
    BY <1>2, <2>1, <2>2, RoomBounds
  <2>4. CASE s = v
    <3>1. Away(o.p, o.class, u) /\ o.class = u.class
      BY <1>2, <2>1, <2>4 DEF MallocIInv, ObjectsOK, Fits
    <3>2. o.class # 0
      BY <1>2, <2>1, <2>4, <3>1 DEF Fits, Away
    <3>3. Room(o) = ClassSize[o.class] /\ Room(u) = ClassSize[o.class]
      BY <3>1, <3>2 DEF Room
    <3>. QED  BY <3>1, <3>2, <3>3 DEF Away
  <2>5. CASE s # v
    <3>1. Hi(s) <= Lo(v) \/ Hi(v) <= Lo(s)
      BY <2>2, <2>5, DisjointBytes DEF MallocIInv, SpansOK
    <3>2. Lo(s) <= o.p /\ o.p + Room(o) <= Hi(s) /\ Lo(v) <= u.p /\ u.p + Room(u) <= Hi(v)
      BY <1>2, <2>1 DEF Fits
    <3>3. Lo(s) \in Nat /\ Hi(s) \in Nat /\ Lo(v) \in Nat /\ Hi(v) \in Nat
      BY <2>2, SpanBounds
    <3>. QED  BY <2>2, <2>3, <3>1, <3>2, <3>3
  <2>. QED  BY <2>4, <2>5
<1>4. o.p % o.align = 0
  BY DEF MallocIInv, ObjectsOK
<1>. QED  BY <1>2, <1>3, <1>4 DEF Fits, Lo, Hi

LEMMA CacheFollows == MallocIInv => CacheTrue
<1>. SUFFICES ASSUME MallocIInv, NEW o \in live
     PROVE  GetSizeClassIfCached(cache, PageOf(o.p)) \in {0, GetDescriptor(spans, PageOf(o.p)).sizeclass}
  BY DEF CacheTrue
<1>1. PICK s \in spans : /\ GetDescriptor(spans, PageOf(o.p)) = s /\ PageOf(o.p) \in PagesIn(s)
                         /\ s.sizeclass = 0 => PageOf(o.p) = s.start
  BY SpanOfObject DEF MallocIInv
<1>. QED  BY <1>1 DEF MallocIInv, CacheOK

LEMMA OwnedFollows == MallocIInv => LargeOwned
<1>. SUFFICES ASSUME MallocIInv, NEW s \in spans, s.sizeclass = 0
     PROVE  /\ Cardinality({o \in live : PageOf(o.p) \in PagesIn(s)}) = 1
            /\ \E o \in live : o.p = s.start * kPageSize
  BY DEF LargeOwned
<1>1. PICK o \in live : o.p = Lo(s)
  BY DEF MallocIInv, ObjectsOK
<1>2. s \in Span /\ o.p \in Nat /\ Lo(s) < Hi(s)
  BY <1>1, SpanBounds DEF MallocIInv, SpansOK, ObjectsOK, Object
<1>3. PageOf(o.p) \in PagesIn(s) /\ GetDescriptor(spans, PageOf(o.p)) = s
  BY <1>1, <1>2, PageInSpan, TheSpan DEF MallocIInv
<1>4. \A u \in live : PageOf(u.p) \in PagesIn(s) => u = o
  BY <1>3, SpanOfObject DEF MallocIInv
<1>5. {u \in live : PageOf(u.p) \in PagesIn(s)} = {o}
  BY <1>3, <1>4
<1>. QED  BY <1>1, <1>5, FS_Singleton DEF Lo

\* ObjectsSuit: no two objects overlap, each suits its request, and a free with or
\* without a size finds the class of the object in spite of entries of the page cache
\* that nobody removed (tcmalloc.cc:1152-1502, packed-cache-inl.h:160-180).
THEOREM ObjectsAlwaysSuit == MallocSpec => []ObjectsSuit
<1>1. MallocIInv => FreesRight
  BY FreedClassRight DEF FreesRight
<1>2. MallocIInv => HooksTrue
  <2>. SUFFICES ASSUME MallocIInv  PROVE HooksTrue
    OBVIOUS
  <2>1. ASSUME NEW h \in hooked  PROVE \E o \in live : o.p = h[1] /\ o.size = h[2]
    <3>1. PICK o \in live : h = <<o.p, o.size>>
      BY DEF MallocIInv, HooksOK
    <3>. QED  BY <3>1
  <2>2. \A o \in live : Held(o) => <<o.p, o.size>> \in hooked
    BY HeldIs DEF MallocIInv, HooksOK
  <2>. QED  BY <2>1, <2>2 DEF HooksTrue
<1>3. MallocIInv => ObjectsSuit
  BY <1>1, <1>2, TypesFollow, SuitsFollows, CacheFollows, OwnedFollows DEF ObjectsSuit
<1>. QED  BY <1>3, MallocInvariant, PTL

-----------------------------------------------------------------------------
(* Sums over the list of heaps.                                             *)

\* Two functions that take the same steps from a to b differ by the same at both ends.
Alike(f, g, a, b) ==
  /\ a \in Nat /\ b \in Nat /\ a <= b
  /\ \A i \in a..b : f[i] \in Int /\ g[i] \in Int
  /\ \A i \in a..b : i # a => f[i] - f[i - 1] = g[i] - g[i - 1]

LEMMA SameSteps ==
  ASSUME NEW a, NEW b, NEW f, NEW g, Alike(f, g, a, b)
  PROVE  f[b] - f[a] = g[b] - g[a]
<1> USE DEF Alike
<1> DEFINE T == {i \in a..b : f[i] - f[a] # g[i] - g[a]}
<1>1. CASE T = {}
  BY <1>1
<1>2. CASE T # {}
  <2>0. T \in SUBSET Nat
    OBVIOUS
  <2>1. PICK x \in T : \A y \in T : x <= y
    <3> HIDE DEF T
    <3> QED
      BY <1>2, <2>0, HasLeast
  <2>2. x \in a..b /\ f[x] - f[a] # g[x] - g[a]
    OBVIOUS
  <2>3. x # a
    BY <2>2
  <2>4. x - 1 \in a..b
    BY <2>2, <2>3
  <2>5. f[x - 1] - f[a] = g[x - 1] - g[a]
    BY <2>1, <2>4
  <2>6. f[x] - f[x - 1] = g[x] - g[x - 1]
    BY <2>2, <2>3
  <2>7. a \in a..b
    OBVIOUS
  <2> QED
    BY <2>2, <2>4, <2>5, <2>6, <2>7
<1> QED
  BY <1>1, <1>2

\* The partial sums exist.
LEMMA SumsExist ==
  ASSUME NEW S, NEW hs \in Seq(S), NEW size \in [S -> Int], NEW n \in 0..Len(hs)
  PROVE  \E f \in [0..n -> Int] : f = [i \in 0..n |-> IF i = 0 THEN 0 ELSE f[i - 1] + size[hs[i]]]
<1> DEFINE Sums(m, f) == f \in [0..m -> Int] /\ f = [i \in 0..m |-> IF i = 0 THEN 0 ELSE f[i - 1] + size[hs[i]]]
           T == {m \in 0..Len(hs) : ~\E f : Sums(m, f)}
<1>1. CASE T = {}
  BY <1>1
<1>2. CASE T # {}
  <2>0. T \in SUBSET Nat
    OBVIOUS
  <2>1. PICK m \in T : \A y \in T : m <= y
    <3> HIDE DEF T
    <3> QED
      BY <1>2, <2>0, HasLeast
  <2>2. m # 0
    <3>1. Sums(0, [i \in 0..0 |-> 0])
      OBVIOUS
    <3> QED
      BY <3>1
  <2>3. m - 1 \in 0..Len(hs) /\ m - 1 \notin T
    <3>1. m \in 1..Len(hs) /\ Len(hs) \in Nat
      BY <2>2
    <3>2. ~(m <= m - 1)
      BY <3>1
    <3> HIDE DEF T
    <3> QED
      BY <2>1, <3>1, <3>2
  <2>4. PICK f : Sums(m - 1, f)
    BY <2>3
  <2> DEFINE g == [i \in 0..m |-> IF i = m THEN f[m - 1] + size[hs[m]] ELSE f[i]]
  <2>5. m \in 1..Len(hs) /\ hs[m] \in S /\ size[hs[m]] \in Int
    BY <2>1, <2>2
  <2>6. f \in [0..(m - 1) -> Int] /\ \A i \in 0..(m - 1) : f[i] = IF i = 0 THEN 0 ELSE f[i - 1] + size[hs[i]]
    BY <2>4
  <2>7. g \in [0..m -> Int]
    BY <2>5, <2>6
  <2>8. ASSUME NEW i \in 0..m PROVE g[i] = IF i = 0 THEN 0 ELSE g[i - 1] + size[hs[i]]
    <3>1. CASE i = m
      <4>1. g[i] = f[m - 1] + size[hs[m]] /\ g[m - 1] = f[m - 1]
        BY <2>5, <3>1
      <4> QED
        BY <2>5, <3>1, <4>1
    <3>2. CASE i # m
      <4>1. i \in 0..(m - 1) /\ g[i] = f[i]
        BY <2>5, <3>2
      <4>2. i # 0 => g[i - 1] = f[i - 1]
        BY <2>5, <3>2
      <4> QED
        BY <2>6, <4>1, <4>2
    <3> QED
      BY <3>1, <3>2
  <2> HIDE DEF g
  <2>9. g = [i \in 0..m |-> IF i = 0 THEN 0 ELSE g[i - 1] + size[hs[i]]]
    BY <2>7, <2>8
  <2>10. Sums(m, g)
    BY <2>7, <2>9
  <2> QED
    BY <2>1, <2>10
<1> QED
  BY <1>1, <1>2

\* Total adds up the sizes of the heaps in the list: its partial sums.
LEMMA TotalIs ==
  ASSUME NEW S, NEW hs \in Seq(S), NEW size \in [S -> Int]
  PROVE  \E f \in [0..Len(hs) -> Int] :
           f[0] = 0 /\ (\A i \in 1..Len(hs) : f[i] - f[i - 1] = size[hs[i]]) /\ Total(hs, size) = f[Len(hs)]
<1> DEFINE n == Len(hs)
           Eq(f) == f = [i \in 0..n |-> IF i = 0 THEN 0 ELSE f[i - 1] + size[hs[i]]]
           sum == CHOOSE f : Eq(f)
<1>0. n \in Nat
  OBVIOUS
<1>1. \E f \in [0..n -> Int] : Eq(f)
  <2>1. n \in 0..Len(hs)
    BY <1>0
  <2> QED
    BY <2>1, SumsExist, ZenonT(60)
<1>2. Eq(sum)
  BY <1>1
<1>3. Total(hs, size) = sum[n]
  BY DEF Total
<1>4. PICK f \in [0..n -> Int] : Eq(f)
  BY <1>1
<1>4a. ASSUME NEW F, Eq(F) PROVE F[0] = 0 /\ \A i \in 1..n : F[i] = F[i - 1] + size[hs[i]]
  <2>1. \A i \in 0..n : F[i] = IF i = 0 THEN 0 ELSE F[i - 1] + size[hs[i]]
    BY <1>4a, Zenon
  <2> QED
    BY <1>0, <2>1
<1> HIDE DEF sum
<1>5. /\ sum[0] = 0 /\ \A i \in 1..n : sum[i] = sum[i - 1] + size[hs[i]]
      /\ f[0] = 0 /\ \A i \in 1..n : f[i] = f[i - 1] + size[hs[i]]
  <2> HIDE DEF Eq
  <2> QED
    BY <1>2, <1>4, <1>4a
<1> DEFINE T == {i \in 0..n : sum[i] # f[i]}
<1>6. T = {}
  <2>1. SUFFICES ASSUME T # {} PROVE FALSE
    OBVIOUS
  <2>1a. T \in SUBSET Nat
    BY <1>0
  <2>2. PICK x \in T : \A y \in T : x <= y
    <3> HIDE DEF T
    <3> QED
      BY <2>1, <2>1a, HasLeast
  <2>3. x \in 1..n
    BY <1>0, <1>5, <2>2
  <2>4. x - 1 \in 0..n /\ x - 1 \notin T
    BY <1>0, <2>2, <2>3
  <2>5. sum[x] = f[x]
    BY <1>5, <2>3, <2>4
  <2> QED
    BY <2>2, <2>5
<1>7. sum[n] = f[n]
  BY <1>0, <1>6
<1>8. \A i \in 1..n : f[i] - f[i - 1] = size[hs[i]]
  <2>1. SUFFICES ASSUME NEW i \in 1..n PROVE f[i] - f[i - 1] = size[hs[i]]
    OBVIOUS
  <2>2. f[i] \in Int /\ f[i - 1] \in Int /\ size[hs[i]] \in Int /\ f[i] = f[i - 1] + size[hs[i]]
    <3>1. i \in 0..n /\ i - 1 \in 0..n /\ hs[i] \in S
      BY <1>0
    <3> QED
      BY <1>5, <3>1
  <2> QED
    BY <2>2
<1> QED
  BY <1>3, <1>5, <1>7, <1>8

LEMMA TotalInt ==
  ASSUME NEW S, NEW hs \in Seq(S), NEW size \in [S -> Int]
  PROVE  Total(hs, size) \in Int /\ (hs = <<>> => Total(hs, size) = 0)
<1>1. PICK f \in [0..Len(hs) -> Int] : f[0] = 0 /\ Total(hs, size) = f[Len(hs)]
  BY TotalIs
<1>2. Len(hs) \in 0..Len(hs) /\ (hs = <<>> => Len(hs) = 0)
  OBVIOUS
<1> QED
  BY <1>1, <1>2

\* What is not in the list does not count.
LEMMA TotalElsewhere ==
  ASSUME NEW S, NEW hs \in Seq(S), NEW size \in [S -> Int], NEW other \in [S -> Int],
         \A i \in 1..Len(hs) : other[hs[i]] = size[hs[i]]
  PROVE  Total(hs, other) = Total(hs, size)
<1> DEFINE n == Len(hs)
<1>0. n \in Nat
  OBVIOUS
<1>1. PICK f \in [0..n -> Int] : f[0] = 0 /\ (\A i \in 1..n : f[i] - f[i - 1] = size[hs[i]]) /\ Total(hs, size) = f[n]
  BY TotalIs
<1>2. PICK g \in [0..n -> Int] : g[0] = 0 /\ (\A i \in 1..n : g[i] - g[i - 1] = other[hs[i]]) /\ Total(hs, other) = g[n]
  BY TotalIs
<1> HIDE DEF n
<1>3. \A i \in 0..n : f[i] \in Int /\ g[i] \in Int
  BY <1>1, <1>2
<1>4. \A i \in 0..n : i # 0 => f[i] - f[i - 1] = g[i] - g[i - 1]
  <2>1. \A i \in 1..n : other[hs[i]] = size[hs[i]]
    BY DEF n
  <2>2. \A i \in 0..n : i # 0 => i \in 1..n
    BY <1>0
  <2> QED
    BY <1>1, <1>2, <2>1, <2>2
<1>5. f[n] - f[0] = g[n] - g[0]
  <2>1. 0 \in Nat /\ 0 <= n
    BY <1>0
  <2> QED
    <3>1. Alike(f, g, 0, n)
      BY <1>0, <1>3, <1>4, <2>1 DEF Alike
    <3> QED
      BY <3>1, SameSteps, ZenonT(60)
<1> QED
  BY <1>0, <1>1, <1>2, <1>3, <1>5

\* One heap, which is in the list once, gets another size.
LEMMA TotalUpdated ==
  ASSUME NEW S, NEW hs \in Seq(S), NEW size \in [S -> Int], NEW k \in 1..Len(hs), NEW v \in Int,
         \A i \in 1..Len(hs) : hs[i] = hs[k] => i = k
  PROVE  Total(hs, [size EXCEPT ![hs[k]] = v]) = Total(hs, size) + v - size[hs[k]]
<1> DEFINE n == Len(hs)
           other == [size EXCEPT ![hs[k]] = v]
<1>0. n \in Nat /\ k \in Nat /\ k >= 1 /\ k <= n
  OBVIOUS
<1>a. hs[k] \in S /\ \A i \in 1..n : hs[i] \in S
  OBVIOUS
<1>b. other \in [S -> Int]
  OBVIOUS
<1>c. \A i \in 1..n : i # k => other[hs[i]] = size[hs[i]]
  BY <1>a
<1>d. other[hs[k]] = v /\ size[hs[k]] \in Int
  BY <1>a
<1> HIDE DEF other
<1>1. PICK f \in [0..n -> Int] : f[0] = 0 /\ (\A i \in 1..n : f[i] - f[i - 1] = size[hs[i]]) /\ Total(hs, size) = f[n]
  BY TotalIs
<1>2. PICK g \in [0..n -> Int] : g[0] = 0 /\ (\A i \in 1..n : g[i] - g[i - 1] = other[hs[i]]) /\ Total(hs, other) = g[n]
  BY <1>b, TotalIs
<1> HIDE DEF n
<1>3. \A i \in 0..n : f[i] \in Int /\ g[i] \in Int
  BY <1>1, <1>2
<1>4. \A i \in 1..n : i # k => f[i] - f[i - 1] = g[i] - g[i - 1]
  BY <1>1, <1>2, <1>c
<1>5. f[k - 1] - f[0] = g[k - 1] - g[0]
  <2>1. \A i \in 0..(k - 1) : f[i] \in Int /\ g[i] \in Int
    BY <1>0, <1>3
  <2>2. \A i \in 0..(k - 1) : i # 0 => f[i] - f[i - 1] = g[i] - g[i - 1]
    BY <1>0, <1>4
  <2>3. 0 \in Nat /\ k - 1 \in Nat /\ 0 <= k - 1
    BY <1>0
  <2> QED
    <3>1. Alike(f, g, 0, k - 1)
      BY <2>1, <2>2, <2>3 DEF Alike
    <3> QED
      BY <3>1, SameSteps
<1>6. f[n] - f[k] = g[n] - g[k]
  <2>1. \A i \in k..n : f[i] \in Int /\ g[i] \in Int
    BY <1>0, <1>3
  <2>2. \A i \in k..n : i # k => f[i] - f[i - 1] = g[i] - g[i - 1]
    BY <1>0, <1>4
  <2> QED
    <3>1. Alike(f, g, k, n)
      BY <1>0, <2>1, <2>2 DEF Alike
    <3> QED
      BY <3>1, SameSteps
<1>7. f[k] - f[k - 1] = size[hs[k]] /\ g[k] - g[k - 1] = v
  <2>1. k \in 1..n
    BY <1>0
  <2> QED
    BY <1>1, <1>2, <1>d, <2>1
<1>8. 0 \in 0..n /\ k \in 0..n /\ k - 1 \in 0..n /\ n \in 0..n
  BY <1>0
<1> DEFINE old == size[hs[k]]
<1>9. g[n] = f[n] + v - old
  <2>1. f[n] \in Int /\ f[k] \in Int /\ f[k - 1] \in Int /\ g[n] \in Int /\ g[k] \in Int /\ g[k - 1] \in Int /\ old \in Int
    BY <1>3, <1>8, <1>d
  <2>2. f[0] = 0 /\ g[0] = 0 /\ f[k] - f[k - 1] = old
    BY <1>1, <1>2, <1>7
  <2> DEFINE fn == f[n]  fk == f[k]  fp == f[k - 1]  gn == g[n]  gk == g[k]  gp == g[k - 1]
  <2>3. fn \in Int /\ fk \in Int /\ fp \in Int /\ gn \in Int /\ gk \in Int /\ gp \in Int /\ old \in Int
    BY <2>1
  <2>4. fp = gp /\ fn - fk = gn - gk /\ fk - fp = old /\ gk - gp = v
    BY <1>5, <1>6, <1>7, <2>1, <2>2
  <2> HIDE DEF old, fn, fk, fp, gn, gk, gp
  <2>5. gn = fn + v - old
    BY <2>3, <2>4
  <2> QED
    BY <2>5 DEF fn, gn
<1> QED
  BY <1>1, <1>2, <1>9 DEF other

\* A new heap comes to the front.
LEMMA TotalPrepended ==
  ASSUME NEW S, NEW hs \in Seq(S), NEW size \in [S -> Int], NEW h \in S
  PROVE  Total(<<h>> \o hs, size) = size[h] + Total(hs, size)
<1> DEFINE n == Len(hs)
           longer == <<h>> \o hs
<1>0. n \in Nat /\ longer \in Seq(S) /\ Len(longer) = n + 1
  OBVIOUS
<1>a. longer[1] = h /\ \A i \in 2..(n + 1) : longer[i] = hs[i - 1]
  OBVIOUS
<1>1. PICK f \in [0..n -> Int] : f[0] = 0 /\ (\A i \in 1..n : f[i] - f[i - 1] = size[hs[i]]) /\ Total(hs, size) = f[n]
  BY TotalIs
<1> HIDE DEF longer
<1>2. PICK g \in [0..(n + 1) -> Int] : g[0] = 0 /\ (\A i \in 1..(n + 1) : g[i] - g[i - 1] = size[longer[i]]) /\ Total(longer, size) = g[n + 1]
  BY <1>0, TotalIs, SMTT(30)
<1> HIDE DEF n
<1> DEFINE k == [i \in 1..(n + 1) |-> f[i - 1]]
<1>3. \A i \in 1..(n + 1) : k[i] \in Int /\ g[i] \in Int
  <2>1. \A i \in 1..(n + 1) : i - 1 \in 0..n /\ i \in 0..(n + 1)
    BY <1>0
  <2> QED
    BY <1>1, <1>2, <2>1
<1>4. \A i \in 1..(n + 1) : i # 1 => k[i] - k[i - 1] = g[i] - g[i - 1]
  <2>1. SUFFICES ASSUME NEW i \in 1..(n + 1), i # 1 PROVE k[i] - k[i - 1] = g[i] - g[i - 1]
    OBVIOUS
  <2>2. i \in 2..(n + 1) /\ i - 1 \in 1..n /\ i \in 1..(n + 1) /\ i - 1 \in 1..(n + 1)
    BY <1>0, <2>1
  <2>3. k[i] = f[i - 1] /\ k[i - 1] = f[i - 1 - 1]
    BY <2>2
  <2>4. f[i - 1] - f[i - 1 - 1] = size[hs[i - 1]]
    BY <1>1, <2>2
  <2>5. g[i] - g[i - 1] = size[hs[i - 1]]
    BY <1>2, <1>a, <2>2
  <2> QED
    BY <2>3, <2>4, <2>5
<1>5. k[1] = f[0] /\ k[n + 1] = f[n]
  BY <1>0
<1> HIDE DEF k
<1>6. k[n + 1] - k[1] = g[n + 1] - g[1]
  <2>1. 1 \in Nat /\ n + 1 \in Nat /\ 1 <= n + 1
    BY <1>0
  <2> QED
    <3>1. Alike(k, g, 1, n + 1)
      BY <1>3, <1>4, <2>1 DEF Alike
    <3> QED
      BY <3>1, SameSteps
<1>7. g[1] - g[0] = size[h] /\ g[0] = 0
  BY <1>0, <1>2, <1>a
<1>8. g[1] \in Int /\ g[n + 1] \in Int /\ f[n] \in Int /\ f[0] = 0
  BY <1>0, <1>1, <1>2
<1>9. g[n + 1] = size[h] + f[n]
  BY <1>5, <1>6, <1>7, <1>8
<1> QED
  BY <1>1, <1>2, <1>9 DEF longer

\* A heap is taken out of the list.
Out(hs, k) == [i \in 1..(Len(hs) - 1) |-> IF i < k THEN hs[i] ELSE hs[i + 1]]

LEMMA TotalWithout ==
  ASSUME NEW S, NEW hs \in Seq(S), NEW size \in [S -> Int], NEW k \in 1..Len(hs)
  PROVE  Out(hs, k) \in Seq(S) /\ Total(Out(hs, k), size) = Total(hs, size) - size[hs[k]]
<1> DEFINE n == Len(hs)
           rest == Out(hs, k)
<1>r. rest = [i \in 1..(n - 1) |-> IF i < k THEN hs[i] ELSE hs[i + 1]]
  BY DEF Out
<1> HIDE DEF rest
<1>0. n \in Nat /\ k \in Nat /\ k >= 1 /\ k <= n /\ hs[k] \in S
  OBVIOUS
<1>a. \A i \in 1..(n - 1) : (IF i < k THEN hs[i] ELSE hs[i + 1]) \in S
  BY <1>0
<1>b. rest \in Seq(S) /\ Len(rest) = n - 1
  BY <1>0, <1>a, <1>r
<1>c. \A i \in 1..(n - 1) : rest[i] = IF i < k THEN hs[i] ELSE hs[i + 1]
  BY <1>r
<1>1. PICK f \in [0..n -> Int] : f[0] = 0 /\ (\A i \in 1..n : f[i] - f[i - 1] = size[hs[i]]) /\ Total(hs, size) = f[n]
  BY TotalIs
<1>2. PICK g \in [0..(n - 1) -> Int] : g[0] = 0 /\ (\A i \in 1..(n - 1) : g[i] - g[i - 1] = size[rest[i]]) /\ Total(rest, size) = g[n - 1]
  <2>1. \E g \in [0..Len(rest) -> Int] : g[0] = 0 /\ (\A i \in 1..Len(rest) : g[i] - g[i - 1] = size[rest[i]]) /\ Total(rest, size) = g[Len(rest)]
    BY <1>b, TotalIs
  <2> HIDE DEF n
  <2> QED
    BY <1>b, <2>1
<1> HIDE DEF n
<1> DEFINE m == [i \in k..n |-> g[i - 1]]
<1>3. (\A i \in 0..n : f[i] \in Int) /\ (\A i \in 0..(n - 1) : g[i] \in Int)
  BY <1>1, <1>2
<1>4. f[k - 1] - f[0] = g[k - 1] - g[0]
  <2>1. \A i \in 0..(k - 1) : f[i] \in Int /\ g[i] \in Int
    BY <1>0, <1>3
  <2>2. \A i \in 0..(k - 1) : i # 0 => f[i] - f[i - 1] = g[i] - g[i - 1]
    <3>1. SUFFICES ASSUME NEW i \in 0..(k - 1), i # 0 PROVE f[i] - f[i - 1] = g[i] - g[i - 1]
      OBVIOUS
    <3>2. i \in 1..n /\ i \in 1..(n - 1) /\ i < k
      BY <1>0, <3>1
    <3>3. rest[i] = hs[i]
      BY <1>c, <3>2
    <3>4. g[i] - g[i - 1] = size[rest[i]]
      BY <1>2, <3>2
    <3> QED
      BY <1>1, <3>2, <3>3, <3>4
  <2>3. 0 \in Nat /\ k - 1 \in Nat /\ 0 <= k - 1
    BY <1>0
  <2> QED
    <3>1. Alike(f, g, 0, k - 1)
      BY <2>1, <2>2, <2>3 DEF Alike
    <3> QED
      BY <3>1, SameSteps
<1>5. \A i \in k..n : f[i] \in Int /\ m[i] \in Int
  <2>1. \A i \in k..n : i - 1 \in 0..(n - 1) /\ i \in 0..n
    BY <1>0
  <2> QED
    BY <1>3, <2>1
<1>6. \A i \in k..n : i # k => f[i] - f[i - 1] = m[i] - m[i - 1]
  <2>1. SUFFICES ASSUME NEW i \in k..n, i # k PROVE f[i] - f[i - 1] = m[i] - m[i - 1]
    OBVIOUS
  <2>2. i \in 1..n /\ i - 1 \in 1..(n - 1) /\ ~(i - 1 < k) /\ i \in k..n /\ i - 1 \in k..n
    BY <1>0, <2>1
  <2>3. m[i] = g[i - 1] /\ m[i - 1] = g[i - 1 - 1]
    BY <2>2
  <2>4. rest[i - 1] = hs[i]
    <3>1. rest[i - 1] = hs[i - 1 + 1]
      BY <1>c, <2>2
    <3>2. i - 1 + 1 = i
      BY <2>2
    <3> QED
      BY <3>1, <3>2
  <2>5. f[i] - f[i - 1] = size[hs[i]]
    BY <1>1, <2>2
  <2>6. g[i - 1] - g[i - 1 - 1] = size[rest[i - 1]]
    BY <1>2, <2>2
  <2> QED
    BY <2>3, <2>4, <2>5, <2>6
<1>7. m[k] = g[k - 1] /\ m[n] = g[n - 1]
  BY <1>0
<1> HIDE DEF m
<1>8. f[n] - f[k] = m[n] - m[k]
  <2>1. Alike(f, m, k, n)
    BY <1>0, <1>5, <1>6 DEF Alike
  <2> QED
    BY <2>1, SameSteps
<1>9. f[k] - f[k - 1] = size[hs[k]]
  BY <1>0, <1>1
<1>10. size[hs[k]] \in Int /\ f[n] \in Int /\ f[k] \in Int /\ f[k - 1] \in Int /\ g[k - 1] \in Int /\ g[n - 1] \in Int
  <2>1. size[hs[k]] \in Int
    BY <1>3, SMTT(30)
  <2>2. f[n] \in Int /\ f[k] \in Int /\ f[k - 1] \in Int
    BY <1>0, <1>3, SMTT(30)
  <2>3. g[k - 1] \in Int /\ g[n - 1] \in Int
    BY <1>0, <1>3, SMTT(30)
  <2> QED
    BY <2>1, <2>2, <2>3
<1> DEFINE old == size[hs[k]]
<1>11. g[n - 1] = f[n] - old
  <2>1. old \in Int /\ f[k] - f[k - 1] = old /\ f[0] = 0 /\ g[0] = 0
    BY <1>1, <1>2, <1>9, <1>10
  <2> DEFINE fn == f[n]  fk == f[k]  fp == f[k - 1]  gn == g[n - 1]  gp == g[k - 1]
  <2>2. fn \in Int /\ fk \in Int /\ fp \in Int /\ gn \in Int /\ gp \in Int /\ old \in Int
    BY <1>10
  <2>3. fp = gp /\ fn - fk = gn - gp /\ fk - fp = old
    BY <1>4, <1>7, <1>8, <1>10, <2>1
  <2> HIDE DEF old, fn, fk, fp, gn, gp
  <2>4. gn = fn - old
    BY <2>2, <2>3
  <2> QED
    BY <2>4 DEF fn, gn
<1> QED
  BY <1>1, <1>2, <1>11, <1>b DEF rest

-----------------------------------------------------------------------------
(* The search for a victim, and what one increase does to the books.        *)

ListOK(hs) == hs \in Seq(Heaps) /\ \A i, j \in DOMAIN hs : hs[i] = hs[j] => i = j

AccountOK(a) == a.size \in [Heaps -> Nat] /\ a.unclaimed \in Int /\ a.steal \in Live \cup {NoHeap}

LEMMA Places ==
  ASSUME ListOK(heaps), NEW h \in Live
  PROVE  Place(h) \in 1..Len(heaps) /\ heaps[Place(h)] = h /\ h \in Heaps /\ NextOf(h) \in Live \cup {NoHeap}
<1>1. DOMAIN heaps = 1..Len(heaps) /\ Len(heaps) \in Nat
  BY DEF ListOK
<1>2. PICK i \in DOMAIN heaps : heaps[i] = h
  BY DEF Live
<1>3. Place(h) \in DOMAIN heaps /\ heaps[Place(h)] = h
  BY <1>2 DEF Place
<1>4. h \in Heaps
  BY <1>1, <1>2 DEF ListOK
<1>5. CASE Place(h) = Len(heaps)
  BY <1>1, <1>3, <1>4, <1>5 DEF NextOf
<1>6. CASE Place(h) # Len(heaps)
  <2>1. Place(h) + 1 \in DOMAIN heaps
    BY <1>1, <1>3, <1>6
  <2>2. heaps[Place(h) + 1] \in Live
    BY <2>1 DEF Live
  <2> QED
    BY <1>1, <1>3, <1>4, <1>6, <2>2 DEF NextOf
<1> QED
  BY <1>5, <1>6

LEMMA Remains == \A x \in Nat, n \in Nat \ {0} : x % n \in 0..(n - 1)
  OBVIOUS

\* The search does not fall off the list.
LEMMA LooksAtHeaps ==
  ASSUME ListOK(heaps), heaps # <<>>, NEW a, AccountOK(a), NEW i \in Nat
  PROVE  Looked(a, i) \in Live
<1> DEFINE n == Len(heaps)
           x == (IF a.steal = NoHeap THEN 0 ELSE Place(a.steal) - 1) + i
<1>1. n \in Nat \ {0} /\ DOMAIN heaps = 1..n
  BY DEF ListOK
<1>2. x \in Nat
  <2>1. CASE a.steal = NoHeap
    BY <2>1
  <2>2. CASE a.steal # NoHeap
    <3>1. a.steal \in Live
      BY <2>2 DEF AccountOK
    <3>2. Place(a.steal) \in 1..n
      BY <3>1, Places
    <3> QED
      BY <1>1, <2>2, <3>2
  <2> QED
    BY <2>1, <2>2
<1>3. Looked(a, i) = heaps[1 + (x % n)]
  BY DEF Looked
<1> HIDE DEF x, n
<1>4. x % n \in 0..(n - 1)
  BY <1>1, <1>2, Remains
<1>5. 1 + (x % n) \in DOMAIN heaps
  BY <1>1, <1>4
<1> QED
  BY <1>3, <1>5 DEF Live

\* What one increase for heap h may make of account a.
Taken(a, b, h) ==
  b.size = [a.size EXCEPT ![h] = @ + kStealAmount] /\ b.unclaimed = a.unclaimed - kStealAmount
Refused(a, b) == b.size = a.size /\ b.unclaimed = a.unclaimed
Moved(a, b, g, h) ==
  /\ g # h /\ a.size[g] > kMinThreadCacheSize /\ b.unclaimed = a.unclaimed
  /\ b.size = [a.size EXCEPT ![g] = @ - kStealAmount, ![h] = @ + kStealAmount]

LEMMA Increased ==
  ASSUME ListOK(heaps), NEW a, AccountOK(a), NEW h \in Heaps, heaps # <<>> \/ a.unclaimed > 0,
         NEW b, b = IncreaseCacheLimitLocked(a, h)
  PROVE  AccountOK(b) /\ (Taken(a, b, h) \/ Refused(a, b) \/ \E g \in Live : Moved(a, b, g, h))
<1> DEFINE good == {i \in 0..(Tries - 1) : Robs(a, h, i)}
           i == CHOOSE i \in good : \A j \in good : i <= j
           from == Looked(a, i)
<1>0. /\ kStealAmount \in Nat /\ kMinThreadCacheSize \in Nat /\ kStealAmount <= kMinThreadCacheSize
      /\ Tries \in Nat \ {0} /\ NoHeap \notin Heaps
  BY SpaceAssumption
<1>1. CASE a.unclaimed > 0
  <2>1. b = [steal |-> a.steal, size |-> [a.size EXCEPT ![h] = @ + kStealAmount], unclaimed |-> a.unclaimed - kStealAmount]
    BY <1>1 DEF IncreaseCacheLimitLocked
  <2>2. b.steal = a.steal /\ b.unclaimed = a.unclaimed - kStealAmount /\ b.size = [a.size EXCEPT ![h] = @ + kStealAmount]
    BY <2>1
  <2>3. [a.size EXCEPT ![h] = @ + kStealAmount] \in [Heaps -> Nat]
    BY <1>0 DEF AccountOK
  <2> QED
    BY <1>0, <2>2, <2>3 DEF AccountOK, Taken
<1>2. CASE ~(a.unclaimed > 0) /\ good = {}
  <2>1. b = [steal |-> NextOf(Looked(a, Tries - 1)), size |-> a.size, unclaimed |-> a.unclaimed]
    BY <1>2, Zenon DEF IncreaseCacheLimitLocked
  <2>2. Looked(a, Tries - 1) \in Live
    <3>1. Tries - 1 \in Nat
      BY <1>0
    <3> QED
      BY <1>2, <3>1, LooksAtHeaps
  <2>3. NextOf(Looked(a, Tries - 1)) \in Live \cup {NoHeap}
    BY <2>2, Places
  <2> HIDE DEF good
  <2> QED
    BY <2>1, <2>3 DEF AccountOK, Refused
<1>3. CASE ~(a.unclaimed > 0) /\ good # {}
  <2>1. b = [steal |-> NextOf(from), size |-> [a.size EXCEPT ![from] = @ - kStealAmount, ![h] = @ + kStealAmount], unclaimed |-> a.unclaimed]
    BY <1>3, Zenon DEF IncreaseCacheLimitLocked
  <2>2. i \in good
    <3>0. good \in SUBSET Nat
      BY <1>0
    <3> HIDE DEF good
    <3>1. \E x \in good : \A y \in good : x <= y
      BY <1>3, <3>0, HasLeast
    <3> QED
      BY <3>1
  <2>3. i \in Nat /\ Robs(a, h, i)
    BY <1>0, <2>2
  <2>4. from \in Live
    BY <1>3, <2>3, LooksAtHeaps
  <2>5. from # h /\ a.size[from] > kMinThreadCacheSize
    BY <2>3 DEF Robs
  <2> HIDE DEF from
  <2>6. NextOf(from) \in Live \cup {NoHeap} /\ from \in Heaps
    BY <2>4, Places
  <2>7. b.steal = NextOf(from) /\ b.unclaimed = a.unclaimed /\ b.size = [a.size EXCEPT ![from] = @ - kStealAmount, ![h] = @ + kStealAmount]
    BY <2>1
  <2>8. [a.size EXCEPT ![from] = @ - kStealAmount, ![h] = @ + kStealAmount] \in [Heaps -> Nat]
    <3>1. a.size \in [Heaps -> Nat]
      BY DEF AccountOK
    <3>2. a.size[from] - kStealAmount \in Nat
      BY <1>0, <2>5, <2>6, <3>1
    <3> QED
      BY <1>0, <2>6, <3>1, <3>2
  <2> QED
    BY <2>4, <2>5, <2>6, <2>7, <2>8 DEF AccountOK, Moved
<1> QED
  BY <1>1, <1>2, <1>3

\* size with v for heap h.
SetOne(size, h, v) == [size EXCEPT ![h] = v]

LEMMA TotalSet ==
  ASSUME NEW hs, ListOK(hs), NEW size \in [Heaps -> Int], NEW h \in {hs[i] : i \in DOMAIN hs}, NEW v \in Int
  PROVE  /\ SetOne(size, h, v) \in [Heaps -> Int]
         /\ Total(hs, SetOne(size, h, v)) = Total(hs, size) + v - size[h]
<1>1. hs \in Seq(Heaps) /\ DOMAIN hs = 1..Len(hs)
  BY DEF ListOK
<1>2. PICK k \in 1..Len(hs) : hs[k] = h
  BY <1>1
<1>3. \A i \in 1..Len(hs) : hs[i] = hs[k] => i = k
  BY <1>1 DEF ListOK
<1>4. Total(hs, [size EXCEPT ![hs[k]] = v]) = Total(hs, size) + v - size[hs[k]]
  BY <1>1, <1>3, TotalUpdated, Zenon
<1> QED
  BY <1>2, <1>4 DEF SetOne

\* The books over a list that has h and all heaps: what is taken or moved stays in them.
LEMMA IncreaseBalances ==
  ASSUME ListOK(heaps), NEW a, AccountOK(a), NEW hs, ListOK(hs), NEW h \in {hs[i] : i \in DOMAIN hs},
         Live \subseteq {hs[i] : i \in DOMAIN hs}, heaps # <<>> \/ a.unclaimed > 0,
         NEW b, b = IncreaseCacheLimitLocked(a, h)
  PROVE  AccountOK(b) /\ b.unclaimed + Total(hs, b.size) = a.unclaimed + Total(hs, a.size)
<1>0. kStealAmount \in Nat /\ hs \in Seq(Heaps) /\ DOMAIN hs = 1..Len(hs) /\ h \in Heaps
  BY SpaceAssumption DEF ListOK
<1>1. AccountOK(b) /\ (Taken(a, b, h) \/ Refused(a, b) \/ \E g \in Live : Moved(a, b, g, h))
  BY <1>0, Increased
<1>2. a.size \in [Heaps -> Int] /\ a.unclaimed \in Int /\ a.size[h] \in Int
  BY <1>0 DEF AccountOK
<1>5. Total(hs, a.size) \in Int
  BY <1>0, <1>2, TotalInt
<1>6. CASE Taken(a, b, h)
  <2> DEFINE v == a.size[h] + kStealAmount
  <2>1. v \in Int /\ b.size = SetOne(a.size, h, v) /\ b.unclaimed = a.unclaimed - kStealAmount
    BY <1>0, <1>2, <1>6 DEF Taken, SetOne
  <2>2. Total(hs, b.size) = Total(hs, a.size) + v - a.size[h]
    <3> HIDE DEF v
    <3>1. Total(hs, SetOne(a.size, h, v)) = Total(hs, a.size) + v - a.size[h]
      <4>1. v \in Int /\ a.size \in [Heaps -> Int]
        BY <1>2, <2>1
      <4> QED
        BY <4>1, TotalSet
    <3> QED
      BY <2>1, <3>1, Zenon
  <2> DEFINE old == a.size[h]  was == Total(hs, a.size)  now == Total(hs, b.size)  free == a.unclaimed  left == b.unclaimed
  <2>3. now = was + (old + kStealAmount) - old /\ left = free - kStealAmount
    BY <2>1, <2>2, Zenon
  <2>4. old \in Int /\ was \in Int /\ free \in Int
    BY <1>2, <1>5
  <2> HIDE DEF old, was, now, free, left
  <2>5. left + now = free + was
    BY <1>0, <2>3, <2>4
  <2> QED
    BY <1>1, <2>5 DEF now, was, free, left
<1>7. CASE Refused(a, b)
  BY <1>1, <1>7 DEF Refused
<1>8. ASSUME NEW g \in Live, Moved(a, b, g, h)
      PROVE  b.unclaimed + Total(hs, b.size) = a.unclaimed + Total(hs, a.size)
  <2> DEFINE u == a.size[g] - kStealAmount
             v == a.size[h] + kStealAmount
             mid == SetOne(a.size, g, u)
  <2>1. g \in Heaps /\ g # h /\ a.size[g] \in Int
    BY <1>2, <1>8, Places DEF Moved
  <2>2. u \in Int /\ v \in Int
    BY <1>0, <1>2, <2>1
  <2>3. mid[h] = a.size[h]
    BY <1>0, <1>2, <2>1 DEF SetOne
  <2>4. b.size = SetOne(mid, h, v) /\ b.unclaimed = a.unclaimed
    BY <1>0, <1>2, <1>8, <2>1 DEF Moved, SetOne
  <2>5. mid \in [Heaps -> Int] /\ Total(hs, mid) = Total(hs, a.size) + u - a.size[g]
    <3> HIDE DEF u
    <3> QED
      BY <1>2, <2>2, TotalSet, ZenonT(60)
  <2>6. Total(hs, b.size) = Total(hs, mid) + v - mid[h]
    <3> HIDE DEF mid, v
    <3>1. Total(hs, SetOne(mid, h, v)) = Total(hs, mid) + v - mid[h]
      BY <2>2, <2>5, TotalSet
    <3> QED
      BY <2>4, <3>1, Zenon
  <2> HIDE DEF mid
  <2> QED
    BY <1>0, <1>2, <1>5, <2>1, <2>3, <2>4, <2>5, <2>6, SMTT(30)
<1> QED
  BY <1>1, <1>6, <1>7, <1>8

\* The heaps in a list.
In(hs) == {hs[i] : i \in DOMAIN hs}

LEMMA Prepends ==
  ASSUME ListOK(heaps), NEW h \in Heaps \ Live
  PROVE  ListOK(<<h>> \o heaps) /\ In(<<h>> \o heaps) = Live \cup {h}
<1> DEFINE n == Len(heaps)
           hs == <<h>> \o heaps
<1>1. n \in Nat /\ DOMAIN heaps = 1..n /\ heaps \in Seq(Heaps)
  BY DEF ListOK
<1>2. hs \in Seq(Heaps) /\ DOMAIN hs = 1..(n + 1) /\ hs[1] = h /\ \A i \in 2..(n + 1) : hs[i] = heaps[i - 1]
  BY <1>1
<1> HIDE DEF hs, n
<1>3. \A i \in 2..(n + 1) : i - 1 \in DOMAIN heaps /\ hs[i] \in Live /\ hs[i] # h
  <2>1. \A i \in 2..(n + 1) : i - 1 \in DOMAIN heaps
    BY <1>1
  <2> QED
    BY <1>2, <2>1 DEF Live
<1>4. ASSUME NEW i \in 1..(n + 1), NEW j \in 1..(n + 1), hs[i] = hs[j] PROVE i = j
  <2>1. CASE i = 1 \/ j = 1
    BY <1>1, <1>2, <1>3, <1>4, <2>1
  <2>2. CASE i # 1 /\ j # 1
    <3>1. i \in 2..(n + 1) /\ j \in 2..(n + 1)
      BY <1>1, <2>2
    <3>2. heaps[i - 1] = heaps[j - 1] /\ i - 1 \in DOMAIN heaps /\ j - 1 \in DOMAIN heaps
      BY <1>2, <1>3, <1>4, <3>1
    <3>3. i - 1 = j - 1
      BY <3>2 DEF ListOK
    <3> QED
      BY <3>1, <3>3
  <2> QED
    BY <2>1, <2>2
<1>5. In(hs) \subseteq Live \cup {h}
  <2>1. SUFFICES ASSUME NEW i \in 1..(n + 1) PROVE hs[i] \in Live \cup {h}
    BY <1>2 DEF In
  <2>2. i = 1 \/ i \in 2..(n + 1)
    BY <1>1
  <2> QED
    BY <1>2, <1>3, <2>2
<1>6. Live \cup {h} \subseteq In(hs)
  <2>1. h \in In(hs)
    <3>1. 1 \in DOMAIN hs
      BY <1>1, <1>2
    <3> QED
      BY <1>2, <3>1 DEF In
  <2>2. ASSUME NEW i \in DOMAIN heaps PROVE heaps[i] \in In(hs)
    <3>1. i + 1 \in 2..(n + 1) /\ i + 1 \in DOMAIN hs /\ i + 1 - 1 = i
      BY <1>1, <1>2
    <3>2. hs[i + 1] = heaps[i]
      <4>1. PICK j \in 2..(n + 1) : j = i + 1
        BY <3>1
      <4>2. hs[j] = heaps[j - 1] /\ j - 1 = i
        BY <1>1, <1>2, <4>1
      <4> QED
        BY <4>1, <4>2
    <3> QED
      BY <3>1, <3>2 DEF In
  <2> QED
    BY <2>1, <2>2 DEF Live
<1> QED
  BY <1>2, <1>4, <1>5, <1>6 DEF ListOK, hs

LEMMA TakesOut ==
  ASSUME ListOK(heaps), NEW h \in Live, NEW size \in [Heaps -> Int]
  PROVE  /\ ListOK(Without(h)) /\ In(Without(h)) = Live \ {h}
         /\ Total(Without(h), size) = Total(heaps, size) - size[h]
<1> DEFINE n == Len(heaps)
           k == Place(h)
           hs == Without(h)
<1>1. n \in Nat /\ DOMAIN heaps = 1..n /\ heaps \in Seq(Heaps)
  BY DEF ListOK
<1>2. k \in 1..n /\ heaps[k] = h
  BY Places
<1>3. hs = [i \in 1..(n - 1) |-> IF i < k THEN heaps[i] ELSE heaps[i + 1]]
  BY DEF Without
<1>4. hs \in Seq(Heaps) /\ Total(hs, size) = Total(heaps, size) - size[heaps[k]]
  <2> HIDE DEF k, hs
  <2>1. k \in 1..Len(heaps) /\ heaps \in Seq(Heaps) /\ hs = Out(heaps, k)
    BY <1>1, <1>2, <1>3 DEF Out
  <2>2. Out(heaps, k) \in Seq(Heaps) /\ Total(Out(heaps, k), size) = Total(heaps, size) - size[heaps[k]]
    BY <2>1, TotalWithout
  <2> QED
    BY <2>1, <2>2
<1>5. DOMAIN hs = 1..(n - 1) /\ \A i \in 1..(n - 1) : hs[i] = IF i < k THEN heaps[i] ELSE heaps[i + 1]
  BY <1>3
<1> HIDE DEF hs, k, n
<1>6. \A i, j \in 1..n : heaps[i] = heaps[j] => i = j
  BY <1>1 DEF ListOK
<1>7. ASSUME NEW i \in 1..(n - 1), NEW j \in 1..(n - 1), hs[i] = hs[j] PROVE i = j
  <2> DEFINE p == IF i < k THEN i ELSE i + 1
             q == IF j < k THEN j ELSE j + 1
  <2>1. p \in 1..n /\ q \in 1..n /\ (p = q => i = j)
    BY <1>1, <1>2
  <2>2. hs[i] = heaps[p] /\ hs[j] = heaps[q]
    BY <1>5
  <2> HIDE DEF p, q
  <2> QED
    BY <1>6, <1>7, <2>1, <2>2
<1>8. ASSUME NEW i \in 1..(n - 1) PROVE hs[i] \in Live \ {h}
  <2> DEFINE p == IF i < k THEN i ELSE i + 1
  <2>1. p \in 1..n /\ p # k
    BY <1>1, <1>2
  <2>2. hs[i] = heaps[p]
    BY <1>5
  <2> HIDE DEF p
  <2>3. heaps[p] # heaps[k]
    BY <1>2, <1>6, <2>1
  <2> QED
    BY <1>1, <1>2, <2>1, <2>2, <2>3 DEF Live
<1>9. ASSUME NEW i \in 1..n, heaps[i] # h PROVE heaps[i] \in In(hs)
  <2> DEFINE p == IF i < k THEN i ELSE i - 1
  <2>1. i # k
    BY <1>2, <1>9
  <2>2. p \in 1..(n - 1) /\ (IF p < k THEN p ELSE p + 1) = i
    BY <1>1, <1>2, <2>1
  <2>3. hs[p] = IF p < k THEN heaps[p] ELSE heaps[p + 1]
    <3> HIDE DEF p
    <3> QED
      BY <1>5, <2>2
  <2>4. hs[p] = heaps[i]
    <3>1. CASE i < k
      BY <1>1, <1>2, <2>3, <3>1
    <3>2. CASE ~(i < k)
      <4>1. p = i - 1 /\ ~(p < k) /\ p + 1 = i
        BY <1>1, <1>2, <2>1, <3>2
      <4> HIDE DEF p
      <4> QED
        BY <2>3, <4>1
    <3> QED
      BY <3>1, <3>2
  <2> HIDE DEF p
  <2> QED
    BY <1>5, <2>2, <2>4 DEF In
<1>10. In(hs) = Live \ {h}
  BY <1>1, <1>5, <1>8, <1>9 DEF In, Live
<1> QED
  BY <1>2, <1>4, <1>5, <1>7, <1>10 DEF ListOK, hs

-----------------------------------------------------------------------------
(* The books: the list of heaps and the account.                            *)

Books ==
  /\ ListOK(heaps) /\ AccountOK(Account) /\ Accounted
  /\ overall_thread_cache_size_ \in Nat \ {0} /\ per_thread_cache_size_ \in kMinThreadCacheSize..kMaxThreadCacheSize

\* Whoever enters the empty list finds space.
LEMMA EmptyHasSpace == ASSUME Books PROVE heaps # <<>> \/ Account.unclaimed > 0
<1>1. max_size_ \in [Heaps -> Int] /\ unclaimed_cache_space_ \in Int /\ Account.unclaimed = unclaimed_cache_space_
  BY DEF Books, AccountOK, Account
<1>2. heaps = <<>> => Claimed(max_size_) = 0
  BY <1>1, TotalInt DEF Books, ListOK, Claimed
<1> QED
  BY <1>1, <1>2 DEF Books, Accounted

LEMMA BooksUnread == ASSUME Books, UNCHANGED <<heaps, shared, sizes>> PROVE Books' /\ Live' = Live
  BY DEF Books, ListOK, AccountOK, Account, Accounted, Claimed, Total, Live, shared, sizes

\* The books that follow from an account for the list that follows.
LEMMA Booked ==
  ASSUME Books, UNCHANGED sizes, NEW a, Book(a), ListOK(heaps'), a.size \in [Heaps -> Nat], a.unclaimed \in Int,
         a.steal \in In(heaps') \cup {NoHeap}, a.unclaimed + Total(heaps', a.size) = overall_thread_cache_size_
  PROVE  Books' /\ Live' = In(heaps')
<1>1. Live' = In(heaps')
  BY DEF Live, In
<1>2. ListOK(heaps)'
  BY DEF ListOK
<1>3. AccountOK(Account)'
  BY <1>1 DEF AccountOK, Account, Book
<1>4. Accounted'
  BY DEF Accounted, Claimed, Book, sizes
<1> QED
  BY <1>1, <1>2, <1>3, <1>4 DEF Books, sizes

LEMMA BooksIncrease ==
  ASSUME Books, UNCHANGED <<heaps, sizes>>, NEW h \in Live, Book(IncreaseCacheLimitLocked(Account, h))
  PROVE  Books' /\ Live' = Live
<1> DEFINE b == IncreaseCacheLimitLocked(Account, h)
<1>1. ListOK(heaps) /\ AccountOK(Account) /\ Live = In(heaps)
  BY DEF Books, Live, In
<1>2. Account.size = max_size_ /\ Account.unclaimed = unclaimed_cache_space_
  BY DEF Account
<1>3. AccountOK(b) /\ b.unclaimed + Total(heaps, b.size) = Account.unclaimed + Total(heaps, Account.size)
  <2>1. h \in {heaps[i] : i \in DOMAIN heaps} /\ Live \subseteq {heaps[i] : i \in DOMAIN heaps}
    BY DEF Live
  <2>2. heaps # <<>> \/ Account.unclaimed > 0
    BY EmptyHasSpace
  <2> HIDE DEF b
  <2> QED
    BY <1>1, <2>1, <2>2, IncreaseBalances DEF b
<1> HIDE DEF b
<1>4. b.unclaimed + Total(heaps, b.size) = overall_thread_cache_size_
  BY <1>2, <1>3 DEF Books, Accounted, Claimed
<1>5. heaps' = heaps /\ Book(b) /\ UNCHANGED sizes
  BY DEF b
<1> QED
  BY <1>1, <1>3, <1>4, <1>5, Booked DEF AccountOK

\* ThreadCache::Init, for the list with the new heap.
LEMMA InitBalances ==
  ASSUME ListOK(heaps), NEW a, AccountOK(a), NEW h \in Heaps \ Live, heaps # <<>> \/ a.unclaimed > 0,
         NEW b, b = InitHeap(a, h)
  PROVE  AccountOK(b) /\ b.unclaimed + Total(<<h>> \o heaps, b.size) = a.unclaimed + Total(heaps, a.size)
<1> DEFINE hs == <<h>> \o heaps
           zero == [a.size EXCEPT ![h] = 0]
           a0 == [steal |-> a.steal, size |-> zero, unclaimed |-> a.unclaimed]
           c == IncreaseCacheLimitLocked(a0, h)
<1>0. ListOK(hs) /\ In(hs) = Live \cup {h} /\ kMinThreadCacheSize \in Nat
  BY Prepends, SpaceAssumption
<1>1. zero \in [Heaps -> Nat] /\ zero[h] = 0 /\ \A i \in 1..Len(heaps) : zero[heaps[i]] = a.size[heaps[i]]
  <2>1. \A i \in 1..Len(heaps) : heaps[i] \in Live /\ heaps[i] \in Heaps
    BY DEF Live, ListOK
  <2> QED
    BY <2>1 DEF AccountOK
<1>2. a0.steal = a.steal /\ a0.size = zero /\ a0.unclaimed = a.unclaimed /\ AccountOK(a0)
  BY <1>1 DEF AccountOK
<1>3. Total(hs, zero) = Total(heaps, a.size)
  <2> HIDE DEF zero
  <2>1. heaps \in Seq(Heaps) /\ a.size \in [Heaps -> Int] /\ zero \in [Heaps -> Int] /\ h \in Heaps
    BY <1>1 DEF ListOK, AccountOK
  <2>2. Total(hs, zero) = zero[h] + Total(heaps, zero)
    BY <2>1, TotalPrepended, ZenonT(60)
  <2>3. Total(heaps, zero) = Total(heaps, a.size)
    BY <1>1, <2>1, TotalElsewhere, SMTT(30)
  <2>4. Total(heaps, zero) \in Int
    BY <2>1, TotalInt
  <2> QED
    BY <1>1, <2>2, <2>3, <2>4
<1> HIDE DEF zero, a0, hs
<1>4. AccountOK(c) /\ c.unclaimed + Total(hs, c.size) = a0.unclaimed + Total(hs, a0.size)
  <2>1. h \in {hs[i] : i \in DOMAIN hs} /\ Live \subseteq {hs[i] : i \in DOMAIN hs}
    BY <1>0 DEF In
  <2>2. heaps # <<>> \/ a0.unclaimed > 0
    BY <1>2
  <2> HIDE DEF c
  <2> QED
    BY <1>0, <1>2, <2>1, <2>2, IncreaseBalances DEF c
<1>5. b = IF c.size[h] = 0
             THEN [steal |-> c.steal, size |-> [c.size EXCEPT ![h] = kMinThreadCacheSize], unclaimed |-> c.unclaimed - kMinThreadCacheSize]
             ELSE c
  BY DEF InitHeap, a0, zero
<1> HIDE DEF c
<1>6. c.unclaimed + Total(hs, c.size) = a.unclaimed + Total(heaps, a.size)
  BY <1>2, <1>3, <1>4
<1>7. CASE c.size[h] # 0
  BY <1>4, <1>5, <1>6, <1>7 DEF hs
<1>8. CASE c.size[h] = 0
  <2>1. b.steal = c.steal /\ b.size = SetOne(c.size, h, kMinThreadCacheSize) /\ b.unclaimed = c.unclaimed - kMinThreadCacheSize
    BY <1>5, <1>8 DEF SetOne
  <2>2. c.size \in [Heaps -> Int] /\ c.size \in [Heaps -> Nat] /\ c.unclaimed \in Int /\ c.steal \in Live \cup {NoHeap}
    BY <1>4 DEF AccountOK
  <2>3. b.size \in [Heaps -> Nat]
    BY <1>0, <2>1, <2>2 DEF SetOne
  <2>4. AccountOK(b)
    BY <1>0, <2>1, <2>2, <2>3 DEF AccountOK
  <2>5. Total(hs, SetOne(c.size, h, kMinThreadCacheSize)) = Total(hs, c.size) + kMinThreadCacheSize - c.size[h]
    <3>1. h \in {hs[i] : i \in DOMAIN hs} /\ kMinThreadCacheSize \in Int
      BY <1>0 DEF In
    <3>2. ListOK(hs)
      BY <1>0
    <3> HIDE DEF hs
    <3>3. ASSUME NEW size \in [Heaps -> Int], NEW v \in Int
          PROVE  Total(hs, SetOne(size, h, v)) = Total(hs, size) + v - size[h]
      BY <3>1, <3>2, TotalSet
    <3> QED
      BY <2>2, <3>1, <3>3
  <2>6. Total(hs, c.size) \in Int
    BY <1>0, <2>2, TotalInt DEF ListOK
  <2> DEFINE was == Total(hs, c.size)  now == Total(hs, b.size)  free == c.unclaimed  left == b.unclaimed
  <2>7. was \in Int /\ free \in Int /\ now = was + kMinThreadCacheSize /\ left = free - kMinThreadCacheSize
    <3>1. now = Total(hs, SetOne(c.size, h, kMinThreadCacheSize))
      BY <2>1, Zenon
    <3> QED
      BY <1>0, <1>8, <2>1, <2>2, <2>5, <2>6, <3>1
  <2> HIDE DEF was, now, free, left
  <2>8. left + now = free + was
    BY <1>0, <2>7
  <2>9. b.unclaimed + Total(hs, b.size) = c.unclaimed + Total(hs, c.size)
    BY <2>8, Zenon DEF was, now, free, left
  <2> QED
    BY <1>6, <2>4, <2>9, Zenon DEF hs
<1> QED
  BY <1>7, <1>8

LEMMA BooksNewHeap ==
  ASSUME Books, UNCHANGED sizes, NEW t, NEW h \in Heaps \ Live, NewHeap(t, h)
  PROVE  Books' /\ Live' = Live \cup {h}
<1> DEFINE a == InitHeap(Account, h)
           b == IF heaps = <<>> THEN [steal |-> h, size |-> a.size, unclaimed |-> a.unclaimed] ELSE a
<1>1. ListOK(heaps) /\ AccountOK(Account) /\ (heaps # <<>> \/ Account.unclaimed > 0)
  BY EmptyHasSpace DEF Books
<1>2. AccountOK(a) /\ a.unclaimed + Total(<<h>> \o heaps, a.size) = Account.unclaimed + Total(heaps, Account.size)
  <2> HIDE DEF a
  <2> QED
    BY <1>1, InitBalances DEF a
<1>3. heaps' = <<h>> \o heaps /\ Book(b)
  BY DEF NewHeap
<1> HIDE DEF a
<1>4. b.size = a.size /\ b.unclaimed = a.unclaimed /\ b.steal \in Live \cup {h} \cup {NoHeap}
  BY <1>2 DEF AccountOK
<1> HIDE DEF b
<1>5. Account.unclaimed + Total(heaps, Account.size) = overall_thread_cache_size_
  BY DEF Books, Accounted, Claimed, Account
<1>6. b.size \in [Heaps -> Nat] /\ b.unclaimed \in Int
  BY <1>2, <1>4 DEF AccountOK
<1>7. ListOK(heaps') /\ In(heaps') = Live \cup {h}
  BY <1>1, <1>3, Prepends
<1>8. b.unclaimed + Total(heaps', b.size) = overall_thread_cache_size_
  BY <1>2, <1>3, <1>4, <1>5, Zenon
<1> QED
  BY <1>3, <1>4, <1>6, <1>7, <1>8, Booked

LEMMA BooksDelete ==
  ASSUME Books, UNCHANGED sizes, NEW h \in Live, DeleteCache(h)
  PROVE  Books' /\ Live' = Live \ {h}
<1> DEFINE rest == Without(h)
           steal == IF next_memory_steal_ = h THEN NextOf(h) ELSE next_memory_steal_
           victim == IF steal = NoHeap /\ rest # <<>> THEN Head(rest) ELSE steal
           size == [max_size_ EXCEPT ![h] = 0]
           a == [steal |-> victim, size |-> size, unclaimed |-> unclaimed_cache_space_ + max_size_[h]]
<1>0. ListOK(heaps) /\ max_size_ \in [Heaps -> Nat] /\ unclaimed_cache_space_ \in Int /\ next_memory_steal_ \in Live \cup {NoHeap}
  BY DEF Books, AccountOK, Account
<1>1. h \in Heaps /\ NextOf(h) \in Live \cup {NoHeap}
  BY <1>0, Places
<1>2. max_size_ \in [Heaps -> Int] /\ size \in [Heaps -> Nat] /\ max_size_[h] \in Nat
  BY <1>0, <1>1
<1>3. ListOK(rest) /\ In(rest) = Live \ {h} /\ Total(rest, max_size_) = Total(heaps, max_size_) - max_size_[h]
  <2> HIDE DEF rest
  <2> QED
    BY <1>0, <1>2, TakesOut DEF rest
<1>4. Total(rest, size) = Total(rest, max_size_)
  <2>1. rest \in Seq(Heaps) /\ \A i \in 1..Len(rest) : rest[i] \in In(rest)
    BY <1>3 DEF ListOK, In
  <2> HIDE DEF rest
  <2>2. \A i \in 1..Len(rest) : size[rest[i]] = max_size_[rest[i]]
    BY <1>2, <1>3, <2>1
  <2>3. size \in [Heaps -> Int]
    BY <1>2
  <2> HIDE DEF size
  <2> QED
    BY <1>2, <2>1, <2>2, <2>3, TotalElsewhere, ZenonT(60)
<1>5. NextOf(h) # h
  <2>1. Place(h) \in DOMAIN heaps /\ heaps[Place(h)] = h /\ DOMAIN heaps = 1..Len(heaps) /\ Len(heaps) \in Nat
    BY <1>0, Places DEF ListOK
  <2>2. CASE Place(h) = Len(heaps)
    BY <1>1, <2>2, SpaceAssumption DEF NextOf
  <2>3. CASE Place(h) # Len(heaps)
    <3>1. Place(h) + 1 \in DOMAIN heaps /\ Place(h) + 1 # Place(h)
      BY <2>1, <2>3
    <3>2. heaps[Place(h) + 1] # heaps[Place(h)]
      BY <1>0, <2>1, <3>1 DEF ListOK
    <3> QED
      BY <2>1, <2>3, <3>2 DEF NextOf
  <2> QED
    BY <2>2, <2>3
<1>6. steal \in (Live \ {h}) \cup {NoHeap}
  BY <1>0, <1>1, <1>5, SpaceAssumption
<1>7. victim \in In(rest) \cup {NoHeap}
  <2>1. CASE steal = NoHeap /\ rest # <<>>
    <3>1. 1 \in DOMAIN rest /\ Head(rest) = rest[1]
      BY <1>3, <2>1 DEF ListOK
    <3> HIDE DEF rest, steal
    <3> QED
      BY <2>1, <3>1 DEF In
  <2>2. CASE ~(steal = NoHeap /\ rest # <<>>)
    <3> HIDE DEF rest, steal
    <3> QED
      BY <1>3, <1>6, <2>2
  <2> QED
    BY <2>1, <2>2
<1>8. heaps' = rest /\ Book(a)
  BY DEF DeleteCache, Book
<1>9. unclaimed_cache_space_ + Total(heaps, max_size_) = overall_thread_cache_size_ /\ Total(heaps, max_size_) \in Int
  BY <1>0, <1>2, TotalInt DEF Books, Accounted, Claimed, ListOK
<1>10. a.steal = victim /\ a.size = size /\ a.unclaimed = unclaimed_cache_space_ + max_size_[h]
  BY Zenon
<1> HIDE DEF rest, victim, size, a
<1>11. a.unclaimed + Total(rest, a.size) = overall_thread_cache_size_
  BY <1>0, <1>2, <1>3, <1>4, <1>9, <1>10
<1>12. a.unclaimed \in Int
  BY <1>0, <1>2, <1>10
<1> QED
  BY <1>2, <1>3, <1>7, <1>8, <1>10, <1>11, <1>12, Booked

LEMMA Scales == \A m \in Nat, s \in Nat, p \in Nat \ {0} : (m * s) \div p \in Nat
<1>1. \A m \in Nat, s \in Nat : m * s \in Nat
  OBVIOUS
<1>2. \A x \in Nat, p \in Nat \ {0} : x \div p \in Nat
  OBVIOUS
<1> QED
  BY <1>1, <1>2

LEMMA BooksRecompute ==
  ASSUME Books, NEW n \in Overall, UNCHANGED <<heaps, next_memory_steal_>>, overall_thread_cache_size_' = n, RecomputePerThreadCacheSize(n)
  PROVE  Books' /\ Live' = Live
<1> DEFINE space == Clip(n \div (IF heaps = <<>> THEN 1 ELSE Len(heaps)))
           scaled == [h \in Heaps |-> IF h \in Live /\ space < per_thread_cache_size_
                                        THEN (max_size_[h] * space) \div per_thread_cache_size_
                                        ELSE max_size_[h]]
<1>0. /\ n \in Nat \ {0} /\ kMinThreadCacheSize \in Nat \ {0} /\ kMaxThreadCacheSize \in Nat /\ kMinThreadCacheSize <= kMaxThreadCacheSize
      /\ ListOK(heaps) /\ heaps \in Seq(Heaps) /\ max_size_ \in [Heaps -> Nat]
      /\ per_thread_cache_size_ \in kMinThreadCacheSize..kMaxThreadCacheSize
  BY SpaceAssumption DEF Books, ListOK, AccountOK, Account
<1>1. space \in kMinThreadCacheSize..kMaxThreadCacheSize
  <2> DEFINE q == n \div (IF heaps = <<>> THEN 1 ELSE Len(heaps))
  <2>1. q \in Int
    BY <1>0
  <2> HIDE DEF q
  <2>2. Clip(q) \in kMinThreadCacheSize..kMaxThreadCacheSize
    BY <1>0, <2>1 DEF Clip
  <2> QED
    BY <2>2 DEF q
<1> HIDE DEF space
<1>2. scaled \in [Heaps -> Nat]
  <2>1. \A h \in Heaps : (max_size_[h] * space) \div per_thread_cache_size_ \in Nat
    <3>1. \A h \in Heaps : max_size_[h] \in Nat
      BY <1>0
    <3>2. space \in Nat /\ per_thread_cache_size_ \in Nat \ {0}
      BY <1>0, <1>1
    <3> QED
      BY <3>1, <3>2, Scales, Zenon
  <2> QED
    BY <1>0, <2>1
<1>3. max_size_' = scaled /\ unclaimed_cache_space_' = n - Total(heaps, scaled) /\ per_thread_cache_size_' = space
  BY DEF RecomputePerThreadCacheSize, Claimed, space
<1> HIDE DEF scaled
<1>4. Total(heaps, scaled) \in Int
  <2>1. scaled \in [Heaps -> Int]
    BY <1>2
  <2> QED
    BY <1>0, <2>1, TotalInt
<1>5. heaps' = heaps /\ next_memory_steal_' = next_memory_steal_ /\ Live' = Live
  BY DEF Live
<1>6. ListOK(heaps)'
  BY <1>0, <1>5 DEF ListOK
<1>7. AccountOK(Account)'
  BY <1>0, <1>2, <1>3, <1>4, <1>5 DEF AccountOK, Account, Books
<1>8. Accounted'
  <2>1. Claimed(max_size_)' = Total(heaps, scaled)
    BY <1>3, <1>5 DEF Claimed
  <2>2. unclaimed_cache_space_' = n - Total(heaps, scaled)
    BY <1>3
  <2>3. unclaimed_cache_space_' + Claimed(max_size_)' = n
    BY <1>0, <1>4, <2>1, <2>2
  <2> QED
    BY <2>3 DEF Accounted
<1> QED
  BY <1>0, <1>1, <1>3, <1>5, <1>6, <1>7, <1>8 DEF Books

-----------------------------------------------------------------------------
(* The threads and their heaps.                                             *)

ThreadTypes ==
  /\ tid_ \in [Heaps -> Owners \cup {NoHeap}] /\ in_setspecific_ \in [Heaps -> BOOLEAN]
  /\ tls \in [Owners -> Heaps \cup {NoHeap}] /\ key \in [Owners -> Heaps \cup {NoHeap}] /\ self \in [Owners -> Heaps \cup {NoHeap}]
  /\ pc \in [Owners -> {"runs", "sets", "idles"}] /\ rounds \in [Owners -> 0..(Rounds + 1)]

\* What one thread t may rely on.
Owns(t) ==
  /\ \A g, h \in Live : tid_[g] = t /\ tid_[h] = t => g = h
  /\ tls[t] # NoHeap => tls[t] \in Live /\ tid_[tls[t]] = t
  /\ key[t] # NoHeap => key[t] \in Live /\ tid_[key[t]] = t
  /\ pc[t] # "runs" => self[t] \in Live /\ tid_[self[t]] = t /\ in_setspecific_[self[t]]

ThreadsTrue == Live \subseteq Heaps /\ NoHeap \notin Heaps /\ ThreadTypes /\ \A t \in Owners : Owns(t)

\* pthread_setspecific is entered for a heap of the thread's own.
LEMMA ThreadsEnter ==
  ASSUME ThreadTypes, Live' \subseteq Heaps, NoHeap \notin Heaps, NEW t \in Owners, NEW h \in Live', Enter(t, h), tid_'[h] = t,
         tid_' \in [Heaps -> Owners \cup {NoHeap}], UNCHANGED <<tls, key, rounds>>,
         \A u \in Owners :
           /\ \A f, g \in Live' : tid_'[f] = u /\ tid_'[g] = u => f = g
           /\ tls[u] # NoHeap => tls[u] \in Live' /\ tid_'[tls[u]] = u
           /\ key[u] # NoHeap => key[u] \in Live' /\ tid_'[key[u]] = u
           /\ pc[u] # "runs" => self[u] \in Live' /\ tid_'[self[u]] = u /\ in_setspecific_[self[u]]
  PROVE  ThreadsTrue'
<1>1. CASE in_setspecific_[h] \/ ~tsd_inited_
  <2>1. UNCHANGED <<in_setspecific_, pc, self>>
    BY <1>1 DEF Enter
  <2>2. ThreadTypes'
    BY <2>1 DEF ThreadTypes
  <2> QED
    BY <2>1, <2>2 DEF ThreadsTrue, Owns
<1>2. CASE ~(in_setspecific_[h] \/ ~tsd_inited_)
  <2>1. /\ in_setspecific_' = [in_setspecific_ EXCEPT ![h] = TRUE]
        /\ pc' = [pc EXCEPT ![t] = "sets"] /\ self' = [self EXCEPT ![t] = h]
    BY <1>2 DEF Enter
  <2>2. ThreadTypes'
    BY <2>1 DEF ThreadTypes
  <2>3. ASSUME NEW u \in Owners PROVE Owns(u)'
    <3>1. CASE u = t
      BY <2>1, <3>1 DEF Owns, ThreadTypes
    <3>2. CASE u # t
      <4>1. pc'[u] = pc[u] /\ self'[u] = self[u] /\ \A g \in Heaps : in_setspecific_[g] => in_setspecific_'[g]
        BY <2>1, <3>2 DEF ThreadTypes
      <4> QED
        BY <4>1 DEF Owns, ThreadTypes
    <3> QED
      BY <3>1, <3>2
  <2> QED
    BY <2>2, <2>3 DEF ThreadsTrue
<1> QED
  BY <1>1, <1>2

LEMMA ThreadsFind ==
  ASSUME ThreadsTrue, Live' = Live, NEW t \in Owners, NEW h \in Owned(t), Enter(t, h), UNCHANGED <<tid_, tls, key, rounds>>
  PROVE  ThreadsTrue'
<1>1. h \in Live' /\ tid_'[h] = t /\ ThreadTypes /\ NoHeap \notin Heaps /\ Live' \subseteq Heaps /\ tid_' \in [Heaps -> Owners \cup {NoHeap}]
  BY DEF Owned, ThreadsTrue, ThreadTypes
<1>2. \A u \in Owners : Owns(u)
  BY DEF ThreadsTrue
<1>3. ASSUME NEW u \in Owners
      PROVE  /\ \A f, g \in Live' : tid_'[f] = u /\ tid_'[g] = u => f = g
             /\ tls[u] # NoHeap => tls[u] \in Live' /\ tid_'[tls[u]] = u
             /\ key[u] # NoHeap => key[u] \in Live' /\ tid_'[key[u]] = u
             /\ pc[u] # "runs" => self[u] \in Live' /\ tid_'[self[u]] = u /\ in_setspecific_[self[u]]
  BY <1>2 DEF Owns
<1> QED
  BY <1>1, <1>3, ThreadsEnter

LEMMA ThreadsNew ==
  ASSUME ThreadsTrue, NEW t \in Owners, Owned(t) = {}, NEW h \in Heaps \ Live, Live' = Live \cup {h},
         tid_' = [tid_ EXCEPT ![h] = t], Enter(t, h), UNCHANGED <<tls, key, rounds>>
  PROVE  ThreadsTrue'
<1>1. h \in Live' /\ tid_'[h] = t /\ ThreadTypes /\ NoHeap \notin Heaps /\ Live' \subseteq Heaps /\ tid_' \in [Heaps -> Owners \cup {NoHeap}]
  BY DEF ThreadsTrue, ThreadTypes
<1>2. (\A u \in Owners : Owns(u)) /\ (\A g \in Live : tid_[g] # t /\ tid_'[g] = tid_[g])
  BY DEF ThreadsTrue, Owned, ThreadTypes
<1>3. ASSUME NEW u \in Owners
      PROVE  /\ \A f, g \in Live' : tid_'[f] = u /\ tid_'[g] = u => f = g
             /\ tls[u] # NoHeap => tls[u] \in Live' /\ tid_'[tls[u]] = u
             /\ key[u] # NoHeap => key[u] \in Live' /\ tid_'[key[u]] = u
             /\ pc[u] # "runs" => self[u] \in Live' /\ tid_'[self[u]] = u /\ in_setspecific_[self[u]]
  BY <1>1, <1>2 DEF Owns
<1> QED
  BY <1>1, <1>3, ThreadsEnter

LEMMA ThreadsSetDone ==
  ASSUME ThreadsTrue, Live' = Live, NEW t \in Owners, SetDone(t)
  PROVE  ThreadsTrue'
<1>1. /\ pc[t] = "sets" /\ key' = [key EXCEPT ![t] = self[t]] /\ tls' = [tls EXCEPT ![t] = self[t]]
      /\ in_setspecific_' = [in_setspecific_ EXCEPT ![self[t]] = FALSE]
      /\ pc' = [pc EXCEPT ![t] = "runs"] /\ self' = [self EXCEPT ![t] = NoHeap] /\ tid_' = tid_ /\ rounds' = rounds
  BY DEF SetDone
<1>2. ThreadTypes /\ Owns(t) /\ self[t] \in Live /\ tid_[self[t]] = t
  BY <1>1 DEF ThreadsTrue, Owns
<1>3. ThreadTypes'
  BY <1>1, <1>2 DEF ThreadTypes
<1>4. ASSUME NEW u \in Owners PROVE Owns(u)'
  <2>1. Owns(u)
    BY DEF ThreadsTrue
  <2>2. CASE u = t
    BY <1>1, <1>2, <2>1, <2>2 DEF Owns, ThreadTypes
  <2>3. CASE u # t
    <3>1. pc'[u] = pc[u] /\ self'[u] = self[u] /\ tls'[u] = tls[u] /\ key'[u] = key[u]
      BY <1>1, <1>2, <2>3 DEF ThreadTypes
    <3>2. pc[u] # "runs" => in_setspecific_'[self[u]] = in_setspecific_[self[u]]
      BY <1>1, <1>2, <2>1, <2>3 DEF Owns, ThreadTypes, ThreadsTrue
    <3>3. tid_' = tid_ /\ Live' = Live
      BY <1>1
    <3>4. pc[u] # "runs" => self[u] \in Live /\ tid_[self[u]] = u /\ in_setspecific_'[self[u]]
      BY <2>1, <3>2 DEF Owns
    <3> QED
      BY <2>1, <3>1, <3>3, <3>4 DEF Owns
  <2> QED
    BY <2>2, <2>3
<1> QED
  BY <1>3, <1>4 DEF ThreadsTrue

LEMMA ThreadsBecomeIdle ==
  ASSUME ThreadsTrue, Live' = Live, NEW t \in Owners, BecomeIdle(t)
  PROVE  ThreadsTrue'
<1>1. /\ tls[t] # NoHeap /\ ~in_setspecific_[tls[t]]
      /\ in_setspecific_' = [in_setspecific_ EXCEPT ![tls[t]] = TRUE]
      /\ pc' = [pc EXCEPT ![t] = "idles"] /\ self' = [self EXCEPT ![t] = tls[t]] /\ UNCHANGED <<tid_, tls, key, rounds>>
  BY DEF BecomeIdle
<1>2. ThreadTypes /\ Owns(t) /\ tls[t] \in Live /\ tid_[tls[t]] = t
  BY <1>1 DEF ThreadsTrue, Owns
<1>3. ThreadTypes'
  BY <1>1, <1>2 DEF ThreadTypes
<1>4. ASSUME NEW u \in Owners PROVE Owns(u)'
  <2>1. Owns(u)
    BY DEF ThreadsTrue
  <2>2. CASE u = t
    BY <1>1, <1>2, <2>1, <2>2 DEF Owns, ThreadTypes, ThreadsTrue
  <2>3. CASE u # t
    <3>1. pc'[u] = pc[u] /\ self'[u] = self[u]
      BY <1>1, <1>2, <2>3 DEF ThreadTypes
    <3>2. \A g \in Live : in_setspecific_[g] => in_setspecific_'[g]
      BY <1>1, <1>2 DEF ThreadTypes, ThreadsTrue
    <3> QED
      BY <1>1, <2>1, <3>1, <3>2 DEF Owns
  <2> QED
    BY <2>2, <2>3
<1> QED
  BY <1>3, <1>4 DEF ThreadsTrue

\* A heap of the thread's own leaves the list; nobody else has it.
LEMMA ThreadsLoses ==
  ASSUME ThreadsTrue, NEW t \in Owners, NEW h \in Live, tid_[h] = t, Live' = Live \ {h}, tid_' = [tid_ EXCEPT ![h] = NoHeap],
         tls' = [tls EXCEPT ![t] = NoHeap], key' = [key EXCEPT ![t] = NoHeap],
         in_setspecific_' \in [Heaps -> BOOLEAN], \A g \in Heaps \ {h} : in_setspecific_'[g] = in_setspecific_[g],
         pc' \in [Owners -> {"runs", "sets", "idles"}], self' \in [Owners -> Heaps \cup {NoHeap}], pc'[t] = "runs",
         \A u \in Owners \ {t} : pc'[u] = pc[u] /\ self'[u] = self[u], rounds' \in [Owners -> 0..(Rounds + 1)]
  PROVE  ThreadsTrue'
<1>1. ThreadTypes /\ Live \subseteq Heaps /\ NoHeap \notin Heaps /\ \A u \in Owners : Owns(u)
  BY DEF ThreadsTrue
<1>2. ThreadTypes'
  BY <1>1 DEF ThreadTypes
<1>3. \A g \in Live' : g \in Live /\ g \in Heaps \ {h} /\ tid_'[g] = tid_[g]
  BY <1>1 DEF ThreadTypes
<1>4. ASSUME NEW u \in Owners PROVE Owns(u)'
  <2>1. Owns(u)
    BY <1>1
  <2>2. CASE u = t
    <3>1. tls'[u] = NoHeap /\ key'[u] = NoHeap /\ pc'[u] = "runs"
      BY <1>1, <2>2 DEF ThreadTypes
    <3> QED
      BY <1>3, <2>1, <3>1 DEF Owns
  <2>3. CASE u # t
    <3>1. pc'[u] = pc[u] /\ self'[u] = self[u] /\ tls'[u] = tls[u] /\ key'[u] = key[u]
      BY <1>1, <2>3 DEF ThreadTypes
    <3>2. \A g \in Live : tid_[g] = u => g \in Live' /\ tid_'[g] = u /\ in_setspecific_'[g] = in_setspecific_[g]
      BY <1>1, <1>3, <2>3
    <3> QED
      BY <1>3, <2>1, <3>1, <3>2 DEF Owns
  <2> QED
    BY <2>2, <2>3
<1> QED
  BY <1>1, <1>2, <1>4 DEF ThreadsTrue

LEMMA ThreadsForget ==
  ASSUME ThreadsTrue, Live' = Live, NEW t \in Owners, ThreadEnds(t) \/ Reused(t)
  PROVE  ThreadsTrue'
<1>1. /\ UNCHANGED <<tid_, in_setspecific_, pc, self>> /\ rounds' \in [Owners -> 0..(Rounds + 1)]
      /\ tls' \in [Owners -> Heaps \cup {NoHeap}] /\ key' \in [Owners -> Heaps \cup {NoHeap}]
      /\ \A u \in Owners : tls'[u] \in {tls[u], NoHeap} /\ key'[u] \in {key[u], NoHeap}
  <2>1. ThreadTypes /\ Rounds \in Nat
    BY SpaceAssumption DEF ThreadsTrue
  <2>2. CASE ThreadEnds(t)
    BY <2>1, <2>2 DEF ThreadEnds, ThreadTypes
  <2>3. CASE Reused(t)
    BY <2>1, <2>3 DEF Reused, ThreadTypes
  <2> QED
    BY <2>2, <2>3
<1>2. ThreadTypes'
  BY <1>1 DEF ThreadTypes, ThreadsTrue
<1>3. ASSUME NEW u \in Owners PROVE Owns(u)'
  BY <1>1 DEF Owns, ThreadsTrue
<1> QED
  BY <1>2, <1>3 DEF ThreadsTrue

LEMMA ThreadsUnread ==
  ASSUME ThreadsTrue, Live' = Live, UNCHANGED <<tid_, in_setspecific_, thread>>
  PROVE  ThreadsTrue'
  BY DEF ThreadsTrue, ThreadTypes, Owns, thread

-----------------------------------------------------------------------------
(* All of it, step by step.                                                 *)

SpaceIInv == Books /\ ThreadsTrue

LEMMA InvariantMeans == ASSUME SpaceIInv PROVE CachesTrue
<1>1. Books /\ ThreadsTrue /\ ListOK(heaps) /\ AccountOK(Account) /\ Accounted
  BY DEF SpaceIInv, Books
<1>2. SpaceTypeOK
  BY <1>1 DEF SpaceTypeOK, Books, ListOK, AccountOK, Account, ThreadsTrue, ThreadTypes
<1>3. StealLive
  <2>1. heaps = <<>> => unclaimed_cache_space_ > 0
    BY <1>1, EmptyHasSpace DEF Account
  <2> QED
    BY <1>1, <2>1 DEF StealLive, AccountOK, Account
<1>4. OwnHeap
  BY <1>1 DEF OwnHeap, Owned, ThreadsTrue, Owns
<1> QED
  BY <1>1, <1>2, <1>3, <1>4 DEF CachesTrue

LEMMA Start == ASSUME SpaceInit PROVE SpaceIInv
<1>1. heaps = <<>> /\ Live = {} /\ ListOK(heaps)
  BY DEF SpaceInit, Live, ListOK
<1>2. AccountOK(Account)
  BY SpaceAssumption DEF SpaceInit, AccountOK, Account
<1>3. Accounted
  <2>1. max_size_ \in [Heaps -> Int]
    BY DEF SpaceInit
  <2>2. Claimed(max_size_) = 0
    BY <1>1, <2>1, TotalInt DEF Claimed, ListOK
  <2> QED
    BY <2>2, SpaceAssumption DEF Accounted, SpaceInit
<1>4. Books
  BY <1>1, <1>2, <1>3, SpaceAssumption DEF Books, SpaceInit
<1>5. ThreadTypes
  BY SpaceAssumption DEF ThreadTypes, SpaceInit
<1>6. ThreadsTrue
  BY <1>1, <1>5, SpaceAssumption DEF ThreadsTrue, Owns, SpaceInit
<1> QED
  BY <1>4, <1>6 DEF SpaceIInv

LEMMA StepCreate ==
  ASSUME SpaceIInv, NEW t \in Owners, CreateCacheIfNecessary(t)
  PROVE  SpaceIInv'
<1>0. Books /\ ThreadsTrue /\ UNCHANGED <<sizes, tls, key, rounds>>
  BY DEF SpaceIInv, CreateCacheIfNecessary
<1>1. ASSUME NEW h \in Owned(t), Enter(t, h), UNCHANGED <<heaps, shared, tid_>> PROVE SpaceIInv'
  <2>1. Books' /\ Live' = Live
    BY <1>0, <1>1, BooksUnread
  <2>2. ThreadsTrue'
    BY <1>0, <1>1, <2>1, ThreadsFind
  <2> QED
    BY <2>1, <2>2 DEF SpaceIInv
<1>2. ASSUME Owned(t) = {}, NEW h \in Heaps \ Live, NewHeap(t, h), Enter(t, h) PROVE SpaceIInv'
  <2>1. Books' /\ Live' = Live \cup {h}
    BY <1>0, <1>2, BooksNewHeap
  <2>2. tid_' = [tid_ EXCEPT ![h] = t]
    BY <1>2 DEF NewHeap
  <2>3. ThreadsTrue'
    BY <1>0, <1>2, <2>1, <2>2, ThreadsNew
  <2> QED
    BY <2>1, <2>3 DEF SpaceIInv
<1> QED
  BY <1>1, <1>2 DEF CreateCacheIfNecessary

\* DeleteCache of a heap of thread t, which forgets it.
LEMMA StepDelete ==
  ASSUME SpaceIInv, NEW t \in Owners, NEW h \in Live, tid_[h] = t, DeleteCache(h), UNCHANGED sizes,
         tls' = [tls EXCEPT ![t] = NoHeap], key' = [key EXCEPT ![t] = NoHeap],
         in_setspecific_' \in [Heaps -> BOOLEAN], \A g \in Heaps \ {h} : in_setspecific_'[g] = in_setspecific_[g],
         pc' \in [Owners -> {"runs", "sets", "idles"}], self' \in [Owners -> Heaps \cup {NoHeap}], pc'[t] = "runs",
         \A u \in Owners \ {t} : pc'[u] = pc[u] /\ self'[u] = self[u], rounds' \in [Owners -> 0..(Rounds + 1)]
  PROVE  SpaceIInv'
<1>1. Books' /\ Live' = Live \ {h}
  BY BooksDelete DEF SpaceIInv
<1>2. tid_' = [tid_ EXCEPT ![h] = NoHeap]
  BY DEF DeleteCache
<1>3. ThreadsTrue'
  BY <1>1, <1>2, ThreadsLoses DEF SpaceIInv
<1> QED
  BY <1>1, <1>3 DEF SpaceIInv

LEMMA StepIdleDone ==
  ASSUME SpaceIInv, NEW t \in Owners, IdleDone(t)
  PROVE  SpaceIInv'
<1>1. /\ pc[t] = "idles" /\ key' = [key EXCEPT ![t] = NoHeap] /\ tls' = [tls EXCEPT ![t] = NoHeap]
      /\ in_setspecific_' = [in_setspecific_ EXCEPT ![self[t]] = FALSE] /\ DeleteCache(self[t])
      /\ pc' = [pc EXCEPT ![t] = "runs"] /\ self' = [self EXCEPT ![t] = NoHeap] /\ UNCHANGED <<sizes, rounds>>
  BY DEF IdleDone
<1>2. ThreadTypes /\ Owns(t) /\ Live \subseteq Heaps
  BY DEF SpaceIInv, ThreadsTrue
<1>3. self[t] \in Live /\ tid_[self[t]] = t
  BY <1>1, <1>2 DEF Owns
<1>4. in_setspecific_' \in [Heaps -> BOOLEAN] /\ \A g \in Heaps \ {self[t]} : in_setspecific_'[g] = in_setspecific_[g]
  BY <1>1, <1>2 DEF ThreadTypes
<1>5. pc' \in [Owners -> {"runs", "sets", "idles"}] /\ self' \in [Owners -> Heaps \cup {NoHeap}] /\ pc'[t] = "runs"
  BY <1>1, <1>2 DEF ThreadTypes
<1>6. \A u \in Owners \ {t} : pc'[u] = pc[u] /\ self'[u] = self[u]
  BY <1>1, <1>2 DEF ThreadTypes
<1>7. rounds' \in [Owners -> 0..(Rounds + 1)]
  BY <1>1, <1>2 DEF ThreadTypes
<1> QED
  BY <1>1, <1>3, <1>4, <1>5, <1>6, <1>7, StepDelete

LEMMA StepDestroy ==
  ASSUME SpaceIInv, NEW t \in Owners, DestroyThreadCache(t)
  PROVE  SpaceIInv'
<1>1. /\ pc[t] = "runs" /\ rounds[t] > 1 /\ key[t] # NoHeap /\ DeleteCache(key[t])
      /\ key' = [key EXCEPT ![t] = NoHeap] /\ tls' = [tls EXCEPT ![t] = NoHeap]
      /\ rounds' = [rounds EXCEPT ![t] = @ - 1] /\ UNCHANGED <<sizes, in_setspecific_, pc, self>>
  BY DEF DestroyThreadCache
<1>2. ThreadTypes /\ Owns(t) /\ Rounds \in Nat
  BY SpaceAssumption DEF SpaceIInv, ThreadsTrue
<1>3. key[t] \in Live /\ tid_[key[t]] = t
  BY <1>1, <1>2 DEF Owns
<1>4. /\ in_setspecific_' \in [Heaps -> BOOLEAN] /\ pc' \in [Owners -> {"runs", "sets", "idles"}]
      /\ self' \in [Owners -> Heaps \cup {NoHeap}] /\ pc'[t] = "runs"
  BY <1>1, <1>2 DEF ThreadTypes
<1>5. rounds' \in [Owners -> 0..(Rounds + 1)]
  BY <1>1, <1>2 DEF ThreadTypes
<1>6. (\A g \in Heaps \ {key[t]} : in_setspecific_'[g] = in_setspecific_[g]) /\ \A u \in Owners \ {t} : pc'[u] = pc[u] /\ self'[u] = self[u]
  BY <1>1
<1> QED
  BY <1>1, <1>3, <1>4, <1>5, <1>6, StepDelete

LEMMA Step == ASSUME SpaceIInv, [SpaceNext]_spaceVars PROVE SpaceIInv'
<1>0. Books /\ ThreadsTrue
  BY DEF SpaceIInv
<1>1. ASSUME NEW t \in Owners, CreateCacheIfNecessary(t) PROVE SpaceIInv'
  BY <1>1, StepCreate
<1>2. ASSUME NEW t \in Owners, SetDone(t) PROVE SpaceIInv'
  <2>1. Books' /\ Live' = Live
    BY <1>0, <1>2, BooksUnread DEF SetDone
  <2> QED
    BY <1>0, <1>2, <2>1, ThreadsSetDone DEF SpaceIInv
<1>3. ASSUME NEW t \in Owners, IncreaseCacheLimit(t) PROVE SpaceIInv'
  <2>1. tls[t] \in Live
    BY <1>0, <1>3 DEF IncreaseCacheLimit, ThreadsTrue, Owns
  <2>2. Books' /\ Live' = Live
    BY <1>0, <1>3, <2>1, BooksIncrease DEF IncreaseCacheLimit
  <2>3. ThreadsTrue'
    BY <1>0, <1>3, <2>2, ThreadsUnread DEF IncreaseCacheLimit
  <2> QED
    BY <2>2, <2>3 DEF SpaceIInv
<1>4. ASSUME NEW t \in Owners, BecomeIdle(t) PROVE SpaceIInv'
  <2>1. Books' /\ Live' = Live
    BY <1>0, <1>4, BooksUnread DEF BecomeIdle
  <2> QED
    BY <1>0, <1>4, <2>1, ThreadsBecomeIdle DEF SpaceIInv
<1>5. ASSUME NEW t \in Owners, IdleDone(t) PROVE SpaceIInv'
  BY <1>5, StepIdleDone
<1>6. ASSUME NEW t \in Owners, ThreadEnds(t) \/ Reused(t) PROVE SpaceIInv'
  <2>1. Books' /\ Live' = Live
    BY <1>0, <1>6, BooksUnread DEF ThreadEnds, Reused
  <2> QED
    BY <1>0, <1>6, <2>1, ThreadsForget DEF SpaceIInv
<1>7. ASSUME NEW t \in Owners, DestroyThreadCache(t) PROVE SpaceIInv'
  BY <1>7, StepDestroy
<1>8. CASE InitTSD
  <2>1. Books' /\ Live' = Live
    BY <1>0, <1>8, BooksUnread DEF InitTSD
  <2>2. ThreadsTrue'
    BY <1>0, <1>8, <2>1, ThreadsUnread DEF InitTSD
  <2> QED
    BY <2>1, <2>2 DEF SpaceIInv
<1>9. CASE set_overall_thread_cache_size
  <2>1. PICK n \in Overall : /\ overall_thread_cache_size_' = n /\ RecomputePerThreadCacheSize(n)
                             /\ UNCHANGED <<heaps, next_memory_steal_, tid_, in_setspecific_, tsd_inited_, thread>>
    BY <1>9 DEF set_overall_thread_cache_size
  <2>2. Books' /\ Live' = Live
    BY <1>0, <2>1, BooksRecompute
  <2>3. ThreadsTrue'
    BY <1>0, <2>1, <2>2, ThreadsUnread
  <2> QED
    BY <2>2, <2>3 DEF SpaceIInv
<1>10. CASE UNCHANGED spaceVars
  <2>1. Books' /\ Live' = Live
    BY <1>0, <1>10, BooksUnread DEF spaceVars
  <2>2. ThreadsTrue'
    BY <1>0, <1>10, <2>1, ThreadsUnread DEF spaceVars
  <2> QED
    BY <2>1, <2>2 DEF SpaceIInv
<1> QED
  BY <1>1, <1>2, <1>3, <1>4, <1>5, <1>6, <1>7, <1>8, <1>9, <1>10 DEF SpaceNext

\* Whatever is stolen, scaled, lent to new heaps and given back by dead ones, the
\* unclaimed space and the claims of the heaps in the list add up to the overall
\* size, the next victim is in the list, and a thread has one heap, its own.
THEOREM SpaceTrue == SpaceSpec => []CachesTrue
<1>1. SpaceInit => SpaceIInv
  BY Start
<1>2. SpaceIInv /\ [SpaceNext]_spaceVars => SpaceIInv'
  BY Step
<1>3. SpaceIInv => CachesTrue
  BY InvariantMeans
<1> QED
  BY <1>1, <1>2, <1>3, PTL DEF SpaceSpec

=============================================================================
