----------------------------- MODULE ThreadCache -----------------------------
(***************************************************************************)
(* The free lists of one thread's cache (thread_cache.h, thread_cache.cc):  *)
(* allocation, deallocation, the growth and shrinking of max_length_, the   *)
(* low-water marks and the scavenger.  A thread alone uses its lists; other *)
(* threads only change max_size_ (ThreadCacheSpace).  Objects of a class    *)
(* are alike, so a list is its length.  The central lists are external:     *)
(* they deliver any part of what is asked for, and take everything.         *)
(***************************************************************************)
EXTENDS Integers, Sequences, SequencesExt

CONSTANTS
  Classes,      \* 1 .. the number of size classes
  Bytes, Batch, \* ByteSizeForClass, num_objects_to_move, by class
  kMaxDynamicFreeListLength, kMaxOverages,
  MaxSizes,     \* the values max_size_ takes
  MaxHeld       \* bound: frees stop when a list is this long

VARIABLES
  list,       \* list_[cl]: length, lowater, max_length, length_overages
  size_, max_size_,
  least,      \* history: least length since the last scavenge
  moved       \* history: <<class, number>> of the ranges given to or taken
              \* from the central lists by the last call
vars == <<list, size_, max_size_, least, moved>>

Lesser(a, b)  == IF a <= b THEN a ELSE b
Greater(a, b) == IF a >= b THEN a ELSE b

Init ==
  /\ list = [c \in Classes |-> [length |-> 0, lowater |-> 0, max_length |-> 1, overages |-> 0]]
  /\ size_ = 0
  /\ max_size_ \in MaxSizes
  /\ least = [c \in Classes |-> 0]
  /\ moved = <<>>

-----------------------------------------------------------------------------
(* FreeList.  A state s of the cache is [list, size, moved].                *)

Push(l, n) == [l EXCEPT !.length = @ + n]
Pop(l, n)  == [l EXCEPT !.length = @ - n, !.lowater = Lesser(@, l.length - n)]

Now == [list |-> list, size |-> size_, moved |-> <<>>]

\* N objects in ranges of a batch and a rest.
Ranges(c, n) ==
  LET full == (n - 1) \div Batch[c]
  IN [i \in 1..(full + 1) |-> <<c, IF i <= full THEN Batch[c] ELSE n - full * Batch[c]>>]

\* Mutant: size_ is lowered by what was asked for.
ReleaseAsked(s, c, wanted) ==
  LET n == Lesser(wanted, s.list[c].length)
  IN [s EXCEPT !.list[c] = Pop(@, n), !.size = @ - wanted * Bytes[c], !.moved = @ \o Ranges(c, n)]
ReleaseToCentralCache(s, c, wanted) ==
  LET n == Lesser(wanted, s.list[c].length)
  IN [s EXCEPT !.list[c] = Pop(@, n), !.size = @ - n * Bytes[c], !.moved = @ \o Ranges(c, n)]

ListTooLong(s, c) ==
  LET l == s.list[c]
      r == ReleaseToCentralCache(s, c, Batch[c])
  IN IF l.max_length < Batch[c]
       THEN [r EXCEPT !.list[c].max_length = @ + 1]
     ELSE IF l.max_length > Batch[c]
       THEN IF l.overages + 1 > kMaxOverages
              THEN [r EXCEPT !.list[c].max_length = @ - Batch[c], !.list[c].overages = 0]
              ELSE [r EXCEPT !.list[c].overages = @ + 1]
     ELSE r

\* The scavenger's work on one list.
ScavengeList(s, c) ==
  LET low == s.list[c].lowater
      r == ReleaseToCentralCache(s, c, IF low > 1 THEN low \div 2 ELSE 1)
      shrunk == IF r.list[c].max_length > Batch[c]
                  THEN [r EXCEPT !.list[c].max_length = Greater(@ - Batch[c], Batch[c])]
                  ELSE r
      done == IF low > 0 THEN shrunk ELSE s
  IN [done EXCEPT !.list[c].lowater = done.list[c].length]

Scavenge(s) == FoldLeft(ScavengeList, s, [c \in Classes |-> c])

\* What FetchFromCentralCache makes of max_length.
Grown(l, c) ==
  LET longer == Lesser(l.max_length + Batch[c], kMaxDynamicFreeListLength)
  IN IF l.max_length < Batch[c] THEN l.max_length + 1 ELSE longer - (longer % Batch[c])

Become(s) == list' = s.list /\ size_' = s.size /\ moved' = s.moved
Lows(s) == [c \in Classes |-> Lesser(least[c], s.list[c].length)]

-----------------------------------------------------------------------------
(* The calls.                                                               *)

Pops(c) ==
  /\ list[c].length > 0
  /\ LET s == [Now EXCEPT !.list[c] = Pop(@, 1), !.size = @ - Bytes[c]]
     IN Become(s) /\ least' = Lows(s)

\* The list is empty: the central list delivers n objects, one for the
\* program; max_length grows even if it delivers none.
FetchFromCentralCache(c) ==
  /\ list[c].length = 0
  /\ \E n \in 0..Lesser(list[c].max_length, Batch[c]) :
       LET kept == Greater(n - 1, 0)
       IN /\ Become([list |-> [list EXCEPT ![c] = [Push(@, kept) EXCEPT !.max_length = Grown(list[c], c)]],
                  size |-> size_ + kept * Bytes[c],
                  moved |-> IF n = 0 THEN <<>> ELSE << <<c, n>> >>])
          /\ least' = least

Allocate(c) ==
  /\ Pops(c) \/ FetchFromCentralCache(c)
  /\ UNCHANGED max_size_

\* Deallocate, of an object of any thread; the scavenger also asks for more max_size_.
Deallocate(c) ==
  /\ list[c].length < MaxHeld
  /\ LET pushed == [Now EXCEPT !.list[c] = Push(@, 1), !.size = @ + Bytes[c]]
         l == pushed.list[c]
         s == IF l.length > l.max_length THEN ListTooLong(pushed, c) ELSE pushed
     IN IF s.size >= max_size_ /\ (l.length > l.max_length \/ pushed.size >= max_size_)
          THEN /\ Become(Scavenge(s))
               /\ least' = [d \in Classes |-> Scavenge(s).list[d].length]
               /\ max_size_' \in {m \in MaxSizes : m >= max_size_}
          ELSE /\ Become(s)
               /\ least' = Lows(s)
               /\ UNCHANGED max_size_

\* Another thread steals from max_size_, or RecomputePerThreadCacheSize scales it.
Stolen ==
  /\ max_size_' \in {m \in MaxSizes : m < max_size_}
  /\ moved' = <<>>
  /\ UNCHANGED <<list, size_, least>>

\* Cleanup (BecomeTemporarilyIdle, or the end of the thread).
CleanList(s, c) == IF s.list[c].length > 0 THEN ReleaseToCentralCache(s, c, s.list[c].length) ELSE s
Cleanup ==
  LET s == FoldLeft(CleanList, Now, [c \in Classes |-> c]) IN
  /\ Become(s) /\ least' = Lows(s)
  /\ UNCHANGED max_size_

Next == \/ \E c \in Classes : Allocate(c) \/ Deallocate(c)
        \/ Stolen \/ Cleanup

Spec == Init /\ [][Next]_vars

-----------------------------------------------------------------------------
(* Properties.                                                              *)

\* The types of the lists: lengths and size_ are never negative.
TypeOK ==
  /\ \A c \in Classes :
       /\ list[c].length \in 0..MaxHeld
       /\ list[c].lowater \in Nat /\ list[c].overages \in 0..kMaxOverages
       /\ list[c].max_length \in Nat
  /\ size_ \in Nat /\ max_size_ \in MaxSizes

\* size_, which decides when to scavenge, is changed far from the lists and by
\* amounts computed before ranges are moved: it is what the lists hold.
SizeTrue == size_ = FoldLeft(LAMBDA n, c : n + list[c].length * Bytes[c], 0, [c \in Classes |-> c])

\* A low-water mark is the least length of the list since the last scavenge:
\* what the scavenger drops was really of no use.
LowWaterTrue == \A c \in Classes : list[c].lowater = least[c]

\* max_length_ starts slowly, then moves in whole batches, stays at least 1 (so
\* that a fetch asks for something) and never exceeds its limit.
MaxLengthShape ==
  \A c \in Classes :
    LET m == list[c].max_length IN
    /\ m \in 1..kMaxDynamicFreeListLength
    /\ m < Batch[c] \/ m % Batch[c] = 0

\* Only ranges of 1 .. num_objects_to_move objects go to or come from a central
\* list, whose transfer cache takes whole batches only.
RangesFit == \A i \in 1..Len(moved) : moved[i][2] \in 1..Batch[moved[i][1]]

=============================================================================
