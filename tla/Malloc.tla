------------------------------- MODULE Malloc -------------------------------
(***************************************************************************)
(* The allocation functions (tcmalloc.cc) over spans of pages: malloc small *)
(* and large, sampled, memalign, realloc, free with and without a size      *)
(* hint, the hooks called around them, and the lossy cache from pages to    *)
(* size classes (packed-cache-inl.h) that free consults before the page     *)
(* map.  Page heap and free lists are external: any free run of pages, any  *)
(* free object of a class.  Memory counts in small units.                   *)
(***************************************************************************)
EXTENDS Integers, FiniteSets, FiniteSetsExt, Sequences

CONSTANTS
  Threads,
  MemoryPages, kPageSize, \* memory: pages 0 .. MemoryPages - 1
  Slots,                  \* entries of the page cache: pages share them
  ClassSize, ClassPages,  \* class_to_size, class_to_pages
  Alignment,              \* AlignmentForSize, by size up to kMaxSize
  Sizes, Aligns,          \* requests
  MaxLive                 \* bound: objects at once

kMaxSize == ClassSize[Len(ClassSize)]
Classes == DOMAIN ClassSize

VARIABLES
  spans,   \* spans in use: [start, length, sizeclass (0: one large object), sample]
  live,    \* objects: [p, size, class, align, by]: address, size asked for, class taken,
           \* alignment asked for, and whether malloc or another function gave it
  cache,   \* pagemap_cache_, by slot: [page, class]
  hooked,  \* what the hooks have been told: set of <<address, size>>
  pend     \* by thread: "idle", or an object whose new hook or whose free is due
mallocVars == <<spans, live, cache, hooked, pend>>

Nothing == [page |-> -1, class |-> 0]
Idle == [op |-> "idle"]

MallocInit ==
  /\ spans = {} /\ live = {} /\ hooked = {}
  /\ cache = [i \in 0..(Slots - 1) |-> Nothing]
  /\ pend = [t \in Threads |-> Idle]

-----------------------------------------------------------------------------
(* Pages, classes and the cache.                                            *)

PagesOf(bytes) == (bytes + kPageSize - 1) \div kPageSize
PageOf(p) == p \div kPageSize
PagesIn(s) == s.start..(s.start + s.length - 1)
SizeClass(n) == Min({c \in Classes : ClassSize[c] >= n})

\* Classes grow; sizes of classes, pages and alignments are as InitSizeClasses and
\* AlignmentForSize make them, alignments are powers of two.
ASSUME MallocAssumption ==
  /\ MemoryPages \in Nat /\ {kPageSize, Slots} \subseteq Nat \ {0} /\ MaxLive \in Nat
  /\ ClassSize \in Seq(Nat \ {0}) /\ ClassSize # <<>> /\ ClassPages \in [Classes -> Nat \ {0}]
  /\ \A c, d \in Classes : c < d => ClassSize[c] < ClassSize[d]
  /\ Alignment \in [1..kMaxSize -> 1..kPageSize]
  /\ Sizes \subseteq Nat /\ Aligns \subseteq Nat \ {0}
  /\ \A a \in Aligns : /\ a <= kPageSize => kPageSize % a = 0
                       /\ a > kPageSize => a % kPageSize = 0
                       /\ \A n \in 1..kMaxSize : a <= Alignment[n] => ClassSize[SizeClass(n)] % a = 0

\* pageheap()->New(n): any run of n free pages.
Runs(n) == {[start |-> i, length |-> n, sizeclass |-> 0, sample |-> FALSE] :
              i \in {i \in 0..(MemoryPages - n) : \A s \in spans : PagesIn(s) \cap (i..(i + n - 1)) = {}}}
GetDescriptor(ss, page) == CHOOSE s \in ss : page \in PagesIn(s)

Put(c, page, class) == [c EXCEPT ![page % Slots] = [page |-> page, class |-> class]]
GetSizeClassIfCached(c, page) == IF c[page % Slots].page = page THEN c[page % Slots].class ELSE 0
PutAll(c, s) == [i \in DOMAIN c |->
  LET ps == {page \in PagesIn(s) : page % Slots = i} IN IF ps = {} THEN c[i] ELSE [page |-> Max(ps), class |-> s.sizeclass]]

\* The cache after SpanToMallocResult.
CachedSpan(c, s) == Put(c, s.start, 0)

\* The outcome of an allocation, with the cache c before it: [spans, cache, p, class].
Large(c, s) == [spans |-> spans \cup {s}, cache |-> CachedSpan(c, s), p |-> s.start * kPageSize, class |-> 0]

Room(o) == IF o.class # 0 THEN ClassSize[o.class] ELSE GetDescriptor(spans, PageOf(o.p)).length * kPageSize
Used(p, n) == \E o \in live : o.p < p + n /\ p < o.p + Room(o)
Objects(s, class) ==
  {s.start * kPageSize + i * ClassSize[class] : i \in 0..(((s.length * kPageSize) \div ClassSize[class]) - 1)}
\* heap->Allocate: a free object of a span of the class, or of a new one (Populate).
Small(c, class) ==
  {[spans |-> spans, cache |-> c, p |-> p, class |-> class] :
     p \in {q \in UNION {Objects(s, class) : s \in {s \in spans : s.sizeclass = class}} : ~Used(q, ClassSize[class])}}
  \cup UNION {LET s == [run EXCEPT !.sizeclass = class]
              IN {[spans |-> spans \cup {s}, cache |-> PutAll(c, s), p |-> p, class |-> class] : p \in Objects(s, class)} :
                run \in Runs(ClassPages[class])}

\* DoSampledAllocation: a span of its own.
Sampled(c, n) == {Large(c, [s EXCEPT !.sample = TRUE]) : s \in Runs(PagesOf(IF n = 0 THEN 1 ELSE n))}

do_malloc(c, n) ==
  IF n <= kMaxSize THEN Small(c, SizeClass(n)) \cup Sampled(c, ClassSize[SizeClass(n)])
  ELSE {Large(c, s) : s \in Runs(PagesOf(n))} \cup Sampled(c, n)

\* A run of pages for size and alignment, the rest given back.
Carve(align, n) ==
  {LET skip == Min({k \in 0..(s.length - 1) : ((s.start + k) * kPageSize) % align = 0})
   IN [s EXCEPT !.start = @ + skip, !.length = PagesOf(n)] : s \in Runs(PagesOf(n + align))}

AlignedClasses(align, n) == {c \in Classes : c >= SizeClass(n) /\ ClassSize[c] % align = 0}
do_memalign(c, align, n) ==
  LET size == IF n = 0 THEN 1 ELSE n IN
  IF align <= (IF n > kMaxSize THEN kPageSize ELSE Alignment[size]) THEN do_malloc(c, n)
  ELSE IF size <= kMaxSize /\ align < kPageSize /\ AlignedClasses(align, size) # {}
         THEN Small(c, Min(AlignedClasses(align, size)))
  ELSE IF align <= kPageSize THEN {Large(c, s) : s \in Runs(PagesOf(size))}
  ELSE {Large(c, s) : s \in Carve(align, size)}

-----------------------------------------------------------------------------
(* The calls of thread t.                                                   *)

Held(o) == o \notin {pend[t].o : t \in {u \in Threads : pend[u] # Idle}}

\* tc_malloc, tc_new and tc_memalign up to the hook; nothing changes if there
\* is no memory.
Alloc(t) ==
  /\ pend[t] = Idle /\ Cardinality(live) < MaxLive
  /\ \E n \in Sizes, align \in Aligns \cup {1} :
       \E r \in IF align = 1 THEN do_malloc(cache, n) ELSE do_memalign(cache, align, n) :
         LET o == [p |-> r.p, size |-> n, class |-> r.class, align |-> align,
                   by |-> IF align = 1 THEN "malloc" ELSE "other"]
         IN /\ spans' = r.spans /\ cache' = r.cache /\ live' = live \cup {o}
            /\ pend' = [pend EXCEPT ![t] = [op |-> "new", o |-> o]]
  /\ UNCHANGED hooked

\* MallocHook::InvokeNewHook.
NewHook(t) ==
  /\ pend[t].op = "new"
  /\ hooked' = hooked \cup {<<pend[t].o.p, pend[t].o.size>>}
  /\ pend' = [pend EXCEPT ![t] = Idle]
  /\ UNCHANGED <<spans, live, cache>>

\* Mutant: the hint is used for page-aligned objects too.
FreeHinted(t) ==
  /\ pend[t] = Idle
  /\ \E o \in live, sized \in BOOLEAN :
       /\ Held(o) /\ (sized => o.by = "malloc")
       /\ hooked' = hooked \ {<<o.p, o.size>>}
       /\ pend' = [pend EXCEPT ![t] = [op |-> "free", o |-> o, sized |-> sized]]
  /\ UNCHANGED <<spans, live, cache>>
\* MallocHook::InvokeDeleteHook, at the start of every free; sized: tc_free_sized,
\* for objects of operator new.
Free(t) ==
  /\ pend[t] = Idle
  /\ \E o \in live, sized \in BOOLEAN :
       /\ Held(o) /\ (sized => o.by = "malloc")
       /\ hooked' = hooked \ {<<o.p, o.size>>}
       /\ pend' = [pend EXCEPT ![t] = [op |-> "free", o |-> o, sized |-> sized /\ o.p % kPageSize # 0]]
  /\ UNCHANGED <<spans, live, cache>>

\* The class that do_free_helper or GetSizeWithCallback finds, and the cache then.
ClassOf(o) ==
  LET page == PageOf(o.p)
      cached == GetSizeClassIfCached(cache, page)
      class == GetDescriptor(spans, page).sizeclass
  IN IF cached # 0 THEN <<cached, cache>> ELSE <<class, Put(cache, page, class)>>
FreedClass(t) ==
  LET o == pend[t].o
  IN IF pend[t].sized /\ o.size <= kMaxSize THEN <<SizeClass(o.size), cache>> ELSE ClassOf(o)

\* do_free_with_callback
do_free(t) ==
  /\ pend[t].op = "free"
  /\ cache' = FreedClass(t)[2]
  /\ spans' = IF FreedClass(t)[1] # 0 THEN spans ELSE spans \ {GetDescriptor(spans, PageOf(pend[t].o.p))}
  /\ live' = live \ {pend[t].o}
  /\ pend' = [pend EXCEPT ![t] = Idle]
  /\ UNCHANGED hooked

\* The central list gives a span back that has no object in use.
ReturnSpan ==
  /\ \E s \in spans : /\ s.sizeclass # 0 /\ \A o \in live : PageOf(o.p) \notin PagesIn(s)
                      /\ spans' = spans \ {s}
  /\ UNCHANGED <<live, cache, hooked, pend>>

\* do_realloc keeps the object in place.
Keeps(old, n) == n <= old /\ n >= old \div 2

\* Object o moves to r: both hooks are called, the free of o is due.
Move(t, o, n, r) ==
  /\ spans' = r.spans /\ cache' = r.cache
  /\ live' = live \cup {[p |-> r.p, size |-> n, class |-> r.class, align |-> 1, by |-> "other"]}
  /\ hooked' = (hooked \ {<<o.p, o.size>>}) \cup {<<r.p, n>>}
  /\ pend' = [pend EXCEPT ![t] = [op |-> "free", o |-> o, sized |-> FALSE]]

\* do_realloc; to grow a little it first asks for a quarter more than there was.
Realloc(t) ==
  /\ pend[t] = Idle
  /\ \E o \in live, n \in Sizes \ {0} :
       LET c == IF ClassOf(o)[1] # 0 THEN ClassOf(o)[2] ELSE cache
           old == IF ClassOf(o)[1] # 0 THEN ClassSize[ClassOf(o)[1]]
                  ELSE GetDescriptor(spans, PageOf(o.p)).length * kPageSize
           tiny == IF n > old /\ n < old + old \div 4 THEN do_malloc(c, old + old \div 4) ELSE {}
       IN /\ Held(o)
          /\ IF Keeps(old, n)
               THEN /\ live' = (live \ {o}) \cup {[o EXCEPT !.size = n, !.by = "other", !.align = 1]}
                    /\ hooked' = (hooked \ {<<o.p, o.size>>}) \cup {<<o.p, n>>}
                    /\ cache' = c /\ UNCHANGED <<spans, pend>>
               ELSE /\ Cardinality(live) < MaxLive
                    /\ \E r \in IF tiny = {} THEN do_malloc(c, n) ELSE tiny : Move(t, o, n, r)

MallocNext == (\E t \in Threads : Alloc(t) \/ NewHook(t) \/ Free(t) \/ do_free(t) \/ Realloc(t)) \/ ReturnSpan
MallocSpec == MallocInit /\ [][MallocNext]_mallocVars

-----------------------------------------------------------------------------
(* Properties.                                                              *)

MallocTypeOK ==
  /\ \A s \in spans : PagesIn(s) \subseteq 0..(MemoryPages - 1) /\ s.sizeclass \in {0} \cup Classes
  /\ \A s, u \in spans : s # u => PagesIn(s) \cap PagesIn(u) = {}
  /\ Cardinality(live) <= MaxLive

\* Live objects lie in spans, have the room and the alignment asked for, and do
\* not overlap, whichever function gave them.
Suits ==
  \A o \in live :
    /\ \E s \in spans : s.start * kPageSize <= o.p /\ o.p + Room(o) <= (s.start + s.length) * kPageSize
    /\ o.size <= Room(o) /\ o.p % o.align = 0
    /\ \A u \in live \ {o} : o.p + Room(o) <= u.p \/ u.p + Room(u) <= o.p

\* CheckCachedSizeClass: for a page of a live object the cache knows nothing or
\* the truth, although nobody removes the entries of a deleted span.
CacheTrue ==
  \A o \in live : GetSizeClassIfCached(cache, PageOf(o.p)) \in {0, GetDescriptor(spans, PageOf(o.p)).sizeclass}

\* A free, hinted or not, finds the class the object was taken from.
FreesRight == \A t \in Threads : pend[t].op = "free" => FreedClass(t)[1] = pend[t].o.class

\* A span without a class belongs to one object at its start: it is neither
\* lost by a free nor shared.
LargeOwned ==
  \A s \in spans : s.sizeclass = 0 => Cardinality({o \in live : PageOf(o.p) \in PagesIn(s)}) = 1
                                      /\ \E o \in live : o.p = s.start * kPageSize

\* The hooks' view of the heap: what they have been told of is live, once, with
\* its last size, and only calls in progress are missing.
HooksTrue ==
  /\ \A h \in hooked : \E o \in live : o.p = h[1] /\ o.size = h[2]
  /\ \A o \in live : Held(o) => <<o.p, o.size>> \in hooked

\* Objects do not overlap, suit the request and are freed to the class they came
\* from, whatever the page cache says; the hooks know them all.
ObjectsSuit == MallocTypeOK /\ Suits /\ CacheTrue /\ FreesRight /\ LargeOwned /\ HooksTrue
=============================================================================
