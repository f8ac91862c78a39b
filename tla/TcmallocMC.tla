----------------------------- MODULE TcmallocMC ------------------------------
(***************************************************************************)
(* Model-checking instances of the parts of tcmalloc's allocation path.  The *)
(* parts share no variable, so one moves at a time: part names it, and the   *)
(* others stay where they start.                                            *)
(***************************************************************************)
EXTENDS Malloc, ThreadCacheSpace, PageHeap, TLC

CONSTANTS t1, t2, heap1, heap2
VARIABLES part,
          list, size_, list_max_size, least, moved,      \* ThreadCache
          build, transfer, size, class_to_size_, class_to_pages_, class_array_   \* SizeMap

\* PageHeap: releases and the page map may fail; a limit; aggressive decommit.
Plain == [limit |-> 0, aggressive |-> FALSE, fails |-> TRUE]
AllModes == {Plain, [Plain EXCEPT !.fails = FALSE, !.limit = 3], [Plain EXCEPT !.fails = FALSE, !.aggressive = TRUE]}
\* For the run that switches aggressive decommit.
QuietMode == {[Plain EXCEPT !.fails = FALSE]}
\* A class moved in batches of three, and one of twice the size moved one by one.
Cache == INSTANCE ThreadCache WITH Classes <- 1..2, Bytes <- <<1, 2>>, Batch <- <<3, 1>>,
                                   kMaxDynamicFreeListLength <- 7, kMaxOverages <- 1, MaxSizes <- {4, 7}, MaxHeld <- 9,
                                   max_size_ <- list_max_size
\* Every build of common.h: the page sizes and their classes, the two alignments.
SizeTable == INSTANCE SizeMap WITH Transfers <- {40, 512, 4096},
           Builds <- {[page |-> p[1], align |-> a[1], classes |-> a[2] + p[2]] :
                        p \in {<<8192, 79>>, <<32768, 69>>, <<65536, 73>>}, a \in {<<8, 16>>, <<16, 9>>}}
\* Malloc: pages of four units; classes of one, three and four, the second with
\* spans of three pages.
SmallSizes == <<1, 3, 4>>
SmallSpans == <<1, 3, 1>>
SmallAlignments == <<1, 1, 1, 2>>

CacheVars == <<list, size_, list_max_size, least, moved>>
SizeTableVars == <<build, transfer, size, class_to_size_, class_to_pages_, class_array_>>
vars == <<part, pagesVars, CacheVars, spaceVars, SizeTableVars, mallocVars>>

Init == /\ part \in {"Pages", "Cache", "Space", "SizeTable", "Malloc"}
        /\ PagesInit /\ (part = "Pages" \/ heap.fails)
        /\ SpaceInit /\ MallocInit
        /\ Cache!Init /\ (part = "Cache" \/ list_max_size = 4)
        /\ SizeTable!Init /\ (part = "SizeTable" \/ <<build.page, build.align, transfer>> = <<8192, 8, 512>>)
Next == /\ UNCHANGED part
        /\ \/ part = "SizeTable" /\ SizeTable!Done /\ UNCHANGED vars  \* made once
           \/ part = "Pages" /\ PagesNext /\ UNCHANGED <<CacheVars, spaceVars, SizeTableVars, mallocVars>>
           \/ part = "Cache" /\ Cache!Next /\ UNCHANGED <<pagesVars, spaceVars, SizeTableVars, mallocVars>>
           \/ part = "Space" /\ SpaceNext /\ UNCHANGED <<pagesVars, CacheVars, SizeTableVars, mallocVars>>
           \/ part = "SizeTable" /\ SizeTable!Next /\ UNCHANGED <<pagesVars, CacheVars, spaceVars, mallocVars>>
           \/ part = "Malloc" /\ MallocNext /\ UNCHANGED <<pagesVars, CacheVars, spaceVars, SizeTableVars>>
Spec == Init /\ [][Next]_vars

\* The result of the last call of PageHeap is written by every call and read by none.
View == <<part, heap, CacheVars, spaceVars, SizeTableVars, mallocVars>>
\* Threads are interchangeable.
Symmetry == Permutations({t1, t2})

------------------------------------------------------------------------------
\* SizeMap: every size gets the smallest class that holds it; classes waste
\* little, are aligned, feed a transfer, and are as many as the build expects.
\* ThreadCache: size_ and the low-water marks tell the truth about the lists of the
\* classes, max_length_ moves in batches, ranges fit the transfer cache.
ClassesFit ==
  /\ part = "SizeTable" => /\ SizeTable!TypeOK /\ SizeTable!SmallestFit /\ SizeTable!SpanWaste /\ SizeTable!Aligned
                           /\ SizeTable!SpansFeedTransfers /\ SizeTable!RightNumber
  /\ part = "Cache" => Cache!TypeOK /\ Cache!SizeTrue /\ Cache!LowWaterTrue /\ Cache!MaxLengthShape /\ Cache!RangesFit
=============================================================================
