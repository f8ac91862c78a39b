------------------------------- MODULE SizeMap -------------------------------
(***************************************************************************)
(* The size classes (common.cc, common.h): SizeMap::Init, one size of its   *)
(* first loop after the other, and the mapping from sizes to classes that   *)
(* it fills, with the program's own constants.                              *)
(***************************************************************************)
EXTENDS Integers, Sequences, FiniteSetsExt, TLC

CONSTANTS
  Builds,      \* builds of the program, [page, align, classes]: kPageSize,
               \* kMinAlign and kNumClasses
  Transfers    \* values of TCMALLOC_TRANSFER_NUM_OBJ

kMaxSize == 256 * 1024
kAlignment == 8
kMaxSmallSize == 1024

VARIABLES
  build, transfer,
  size,                \* of the loop
  class_to_size_, class_to_pages_, \* sequences: class 1 first
  class_array_         \* <<>> until it is filled
vars == <<build, transfer, size, class_to_size_, class_to_pages_, class_array_>>

-----------------------------------------------------------------------------
(* The helpers.                                                             *)

LgFloor(n) == CHOOSE l \in 0..31 : 2^l <= n /\ n < 2^(l + 1)

AlignmentForSize(s) ==
  LET wanted == IF s > kMaxSize THEN build.page
                ELSE IF s >= 128 THEN 2^LgFloor(s) \div 8
                ELSE IF s >= build.align THEN build.align
                ELSE kAlignment
  IN IF wanted > build.page THEN build.page ELSE wanted

\* The quotient of two ints in C, for the negative values of the variable.
Quarter(n) == IF n >= 0 THEN n \div 4 ELSE -((-n) \div 4)
NumMoveSize(s) ==
  LET num == IF 65536 \div s < 2 THEN 2 ELSE 65536 \div s
  IN IF num > transfer THEN transfer ELSE num

\* Mutant: the second class of small objects begins a step late.
ClassIndexLate(s) == IF s <= kMaxSmallSize THEN (s + 7) \div 8 ELSE (s + 126 + 120 * 128) \div 128
ClassIndex(s) == IF s <= kMaxSmallSize THEN (s + 7) \div 8 ELSE (s + 127 + 120 * 128) \div 128

Bytes(pages) == pages * build.page

\* Pages of a span of objects of size s: the least number with at most an
\* eighth left over and enough objects for a quarter of a transfer.
PagesFor(s) ==
  LET good(n) == /\ Bytes(n) % s <= Bytes(n) \div 8
                 /\ Bytes(n) \div s >= Quarter(NumMoveSize(s))
  IN CHOOSE n \in 1..256 : good(n) /\ \A m \in 1..(n - 1) : ~good(m)

Objects(pages, s) == Bytes(pages) \div s

-----------------------------------------------------------------------------
(* SizeMap::Init.                                                           *)

Init ==
  /\ build \in Builds /\ transfer \in Transfers
  /\ size = kAlignment
  /\ class_to_size_ = <<>> /\ class_to_pages_ = <<>> /\ class_array_ = <<>>

\* The size joins the class before it: as many pages and as many objects.
Merges(pages) ==
  LET last == Len(class_to_pages_)
  IN /\ last > 0 /\ pages = class_to_pages_[last]
     /\ Objects(pages, size) = Objects(pages, class_to_size_[last])

NextSize ==
  /\ size <= kMaxSize
  /\ LET pages == PagesFor(size)
     IN IF Merges(pages)
          THEN /\ class_to_size_' = [class_to_size_ EXCEPT ![Len(class_to_size_)] = size]
               /\ UNCHANGED class_to_pages_
          ELSE /\ class_to_size_' = Append(class_to_size_, size)
               /\ class_to_pages_' = Append(class_to_pages_, pages)
  /\ size' = size + AlignmentForSize(size)
  /\ UNCHANGED <<build, transfer, class_array_>>

\* The class written last to an entry: that of the greatest multiple of
\* kAlignment with this index.
Entry(i) ==
  LET s == IF i <= 128 THEN 8 * i ELSE 128 * (i - 120)
  IN Min({c \in DOMAIN class_to_size_ : class_to_size_[c] >= s})

FillArray ==
  /\ size > kMaxSize /\ class_array_ = <<>>
  /\ class_array_' = [i \in 0..ClassIndex(kMaxSize) |-> Entry(i)]
  /\ UNCHANGED <<build, transfer, size, class_to_size_, class_to_pages_>>

Next == NextSize \/ FillArray
Spec == Init /\ [][Next]_vars

Done == class_array_ # <<>>
SizeClass(s) == class_array_[ClassIndex(s)]
num_objects_to_move(c) == NumMoveSize(class_to_size_[c])

-----------------------------------------------------------------------------
(* Properties.                                                              *)

\* The tables are parallel, and classes grow.
TypeOK ==
  /\ Len(class_to_size_) = Len(class_to_pages_)
  /\ \A c \in 2..Len(class_to_size_) : class_to_size_[c - 1] < class_to_size_[c]

\* Every request up to kMaxSize, not only the ones the code checks itself, is
\* served from the smallest class that holds it, across the seam of the two
\* index formulas.
SmallestFit ==
  Done => \A s \in 0..kMaxSize :
    (s % 8 \in {0, 1, 7}) =>
      LET c == SizeClass(s)
      IN s <= class_to_size_[c] /\ (c > 1 => class_to_size_[c - 1] < s)

\* A span wastes at most an eighth of itself, also after classes were merged.
SpanWaste ==
  \A c \in DOMAIN class_to_size_ :
    LET bytes == Bytes(class_to_pages_[c])
    IN 8 * (bytes % class_to_size_[c]) <= bytes

\* Objects of at least kMinAlign bytes are aligned to it in their span, those
\* of 128 bytes and more to an eighth of a power of two.
Aligned ==
  \A c \in DOMAIN class_to_size_ :
    LET s == class_to_size_[c] IN
    /\ s % kAlignment = 0 /\ (s >= build.align => s % build.align = 0)
    /\ s >= 128 /\ s < 8 * build.page => s % (2^LgFloor(s) \div 8) = 0

\* A span has objects for a quarter of a transfer, whatever was merged.
SpansFeedTransfers ==
  \A c \in DOMAIN class_to_size_ :
    Objects(class_to_pages_[c], class_to_size_[c]) >= Quarter(num_objects_to_move(c))

\* tests/tcmalloc_unittest.sh:37: tuning TCMALLOC_TRANSFER_NUM_OBJ "should not
\* change program behavior, just performance".  Init ends the program unless it
\* found kNumClasses classes, class 0 included.
RightNumber == Done => Len(class_to_size_) + 1 = build.classes
=============================================================================
