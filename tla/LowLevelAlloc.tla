---------------------------- MODULE LowLevelAlloc ----------------------------
(***************************************************************************)
(* One arena of base/low_level_alloc.cc: a first-fit allocator whose free   *)
(* blocks lie in a skip list by address.  Addresses and sizes count units   *)
(* of roundup; a header takes one, the least block two.  The lock of the    *)
(* arena makes a section one step; it is free while pages are mapped.       *)
(***************************************************************************)
EXTENDS Integers, FiniteSets, FiniteSetsExt, Sequences, SequencesExt

CONSTANTS
  Threads,
  Region, Regions, \* units of a mapping, their number: bounds memory
  Requests,        \* req_rnd, the rounded sizes asked for
  Top,             \* bound: levels of the skip list (29)
  MaxRandom        \* bound: values of Random()

Addresses == 1..(Region * Regions)
First == 0                       \* &arena->freelist
Null == Region * Regions + 1    \* 0 in next[], where no address is lower
MinSize == 2

VARIABLES
  a,       \* the arena: levels of its head; by block next, height, size and magic;
           \* allocation_count; broken: a RAW_CHECK failed
  mapped,  \* first addresses of the mapped regions
  asked    \* by thread: the request during which it maps pages, or 0
vars == <<a, mapped, asked>>

Empty == [levels |-> 0, next |-> [b \in Addresses \cup {First} |-> [l \in 1..Top |-> Null]],
          height |-> [b \in Addresses |-> 0], size |-> [b \in Addresses |-> 0],
          magic |-> [b \in Addresses |-> "none"], count |-> 0, broken |-> FALSE]

Init == a = Empty /\ mapped = {} /\ asked = [t \in Threads |-> 0]

-----------------------------------------------------------------------------
(* The skip list.                                                           *)

IntLog2(n) == CHOOSE r \in 0..Region : n \div 2^r <= MinSize /\ \A q \in 0..(r - 1) : n \div 2^q > MinSize
\* LLA_SkiplistLevels; Random() has given r, or 1 is taken for it.
Levels(n, r) == Min({IntLog2(n) + r, 4 * n - 5, Top})

\* prev[] of LLA_SkiplistSearch for e: the last block before e on each level.
Search(s, e) ==
  LET step(prev, l) ==
        LET walk[p \in {First} \cup Addresses] == IF s.next[p][l] < e THEN walk[s.next[p][l]] ELSE p
        IN <<IF l > s.levels THEN First ELSE walk[IF l = Top THEN First ELSE prev[1]]>> \o prev
  IN FoldLeft(step, <<>>, [i \in 1..Top |-> Top + 1 - i])
UpTo(n) == [i \in 1..n |-> i]

Insert(s, e, height) ==
  LET prev == Search(s, e)
      link(next, l) == [next EXCEPT ![e][l] = next[prev[l]][l], ![prev[l]][l] = e]
  IN [s EXCEPT !.levels = Max({@, height}), !.height[e] = height, !.next = FoldLeft(link, @, UpTo(height))]

Delete(s, e) ==
  LET prev == Search(s, e)
      unlink(next, l) ==
        IF \A k \in 1..l : s.next[prev[k]][k] = e THEN [next EXCEPT ![prev[l]][l] = s.next[e][l]] ELSE next
      next == FoldLeft(unlink, s.next, UpTo(s.height[e]))
  IN [s EXCEPT !.broken = @ \/ s.next[prev[1]][1] # e, !.next = next,
        !.levels = Max({0} \cup {l \in 1..s.levels : next[First][l] # Null})]

-----------------------------------------------------------------------------
(* The free list.                                                           *)

Coalesce(s, b, r) ==
  LET n == s.next[b][1]
      merged == Delete([s EXCEPT !.size[b] = @ + s.size[n], !.magic[n] = "none"], n)
      joined == Delete(merged, b)
  IN IF b # First /\ n # Null /\ b + s.size[b] = n
       THEN Insert(joined, b, Levels(joined.size[b], r))
       ELSE s

\* r: what the calls of Random() return, one after the other.
AddToFreelist(s, b, r) ==
  LET inserted == Insert(s, b, Levels(s.size[b], r[1]))
      after == Coalesce([inserted EXCEPT !.magic[b] = "free"], b, r[2])
  IN Coalesce([after EXCEPT !.broken = @ \/ s.magic[b] # "allocated"], Search(s, b)[1], r[3])
Randoms == [1..4 -> 1..MaxRandom]

\* The first block of at least n units, among those on the least level that
\* such a block has; Null if there is none.
Found(s, n) ==
  LET i == Levels(n, 1)
      find[p \in {First} \cup Addresses] ==
        LET b == s.next[p][i] IN IF b = Null \/ s.size[b] >= n THEN b ELSE find[b]
  IN IF i > s.levels THEN Null ELSE find[First]

\* Mutant: the rest of a split block starts one unit early.
TakeOverlapping(s, b, n, r) ==
  LET out == Delete(s, b)
      rest == b + n - 1
      cut == [out EXCEPT !.size[rest] = out.size[b] - n + 1, !.size[b] = n, !.magic[rest] = "allocated"]
      split == IF n + MinSize <= out.size[b] THEN AddToFreelist(cut, rest, r) ELSE out
  IN [split EXCEPT !.magic[b] = "allocated", !.count = @ + 1]
\* The end of DoAllocWithArena: block b gives n units.
Take(s, b, n, r) ==
  LET out == Delete(s, b)
      rest == b + n
      cut == [out EXCEPT !.size[rest] = out.size[b] - n, !.size[b] = n, !.magic[rest] = "allocated"]
      split == IF n + MinSize <= out.size[b] THEN AddToFreelist(cut, rest, r) ELSE out
  IN [split EXCEPT !.magic[b] = "allocated", !.count = @ + 1]

-----------------------------------------------------------------------------
(* The calls.                                                               *)

\* DoAllocWithArena up to its result or to the mapping of pages (a failing
\* mmap ends the program: the bound on memory keeps from asking for more).
Alloc(t) ==
  \E n \in Requests :
    /\ asked[t] = 0
    /\ IF Found(a, n) # Null
         THEN (\E r \in Randoms : a' = Take(a, Found(a, n), n, r)) /\ UNCHANGED <<mapped, asked>>
         ELSE /\ Cardinality(mapped) + Cardinality({u \in Threads : asked[u] # 0}) < Regions
              /\ asked' = [asked EXCEPT ![t] = n] /\ UNCHANGED <<a, mapped>>

\* The pages have come, anywhere; the lock is taken again, the pages are freed
\* into the arena and the loop goes on.
Mapped(t) ==
  /\ asked[t] # 0
  /\ \E p \in {Region * i + 1 : i \in 0..(Regions - 1)} \ mapped, r \in Randoms :
       LET fresh == [a EXCEPT !.size[p] = Region, !.magic[p] = "allocated"]
           s == AddToFreelist(fresh, p, r)
       IN /\ mapped' = mapped \cup {p}
          /\ IF Found(s, asked[t]) # Null
               THEN a' = Take(s, Found(s, asked[t]), asked[t], <<r[4], r[1], r[2]>>) /\ asked' = [asked EXCEPT ![t] = 0]
               ELSE a' = s /\ UNCHANGED asked

Free ==
  \E b \in Addresses, r \in Randoms :
    /\ a.magic[b] = "allocated"
    /\ a' = [AddToFreelist(a, b, r) EXCEPT !.count = @ - 1]
    /\ UNCHANGED <<mapped, asked>>

\* The owner deletes the empty arena and makes a new one.
DeleteArena ==
  /\ a.count = 0 /\ asked = [t \in Threads |-> 0] /\ mapped # {}
  /\ a' = Empty /\ mapped' = {}
  /\ UNCHANGED asked

Next == (\E t \in Threads : Alloc(t) \/ Mapped(t)) \/ Free \/ DeleteArena
Spec == Init /\ [][Next]_vars

-----------------------------------------------------------------------------
(* Properties.                                                              *)

Of(magic) == {b \in Addresses : a.magic[b] = magic}
Blocks == Of("free") \cup Of("allocated")

TypeOK ==
  /\ a.levels \in 0..Top /\ a.count \in Nat /\ asked \in [Threads -> {0} \cup Requests]
  /\ \A b \in Blocks : a.size[b] \in MinSize..(Region * Regions)

\* None of the checks of Next(), AddToFreelist and LLA_SkiplistDelete fails.
ChecksHold == ~a.broken /\ a.count = Cardinality(Of("allocated"))

\* The blocks, free and allocated, tile the mapped memory: nothing is lost by
\* splitting and coalescing, nothing overlaps.
Tiled ==
  \A u \in Addresses :
    Cardinality({b \in Blocks : u \in b..(b + a.size[b] - 1)}) =
      (IF \E p \in mapped : u \in p..(p + Region - 1) THEN 1 ELSE 0)

\* No two free blocks touch (the check "malformed freelist" of Next()).
Coalesced == \A b \in Of("free") : b + a.size[b] \notin Of("free")

\* Level l of the skip list links exactly the free blocks of at least that
\* height, in the order of their addresses, and the head is as high as they are.
SkipList ==
  /\ a.levels = Max({0} \cup {a.height[b] : b \in Of("free")})
  /\ \A l \in 1..Top : \A p \in {First} \cup {b \in Of("free") : a.height[b] >= l} :
       a.next[p][l] = Min({Null} \cup {b \in Of("free") : b > p /\ a.height[b] >= l})

\* When all is freed only whole mappings are left, so that DeleteArena can give
\* them back (its checks of size and alignment).
EmptyIsWhole ==
  a.count = 0 => \A b \in Of("free") : b \in mapped /\ a.size[b] % Region = 0
\* The state without what stands in blocks that are none any more.
Seen ==
  LET kept(f) == [b \in Blocks |-> f[b]]
  IN <<[a EXCEPT !.size = kept(@), !.height = [b \in Of("free") |-> @[b]],
                 !.next = [b \in Of("free") \cup {First} |-> [l \in 1..(IF b = First THEN Top ELSE a.height[b]) |-> @[b][l]]]],
       mapped, asked>>
=============================================================================
