----------------------------- MODULE LiveRanges -----------------------------
(***************************************************************************)
(* What memory a leak check reads as live: the writable rows of             *)
(* /proc/self/maps, less the regions that were mapped through the hooks     *)
(* (the heap among them), and of each stack the part in use.                *)
(***************************************************************************)
EXTENDS Naturals, FiniteSets

CONSTANTS MaxAddress,           \* the last unit of memory
          RowChoices,           \* rows of /proc/self/maps
          RegionChoices,        \* regions of MemoryRegionMap
          Stacks                \* the stack pointers of the threads
Addresses == 0..MaxAddress
\* Rows and regions are spans of memory that is not empty, each apart from the others of its kind.
Apart(spans) == \A r, s \in spans : r = s \/ r.end <= s.start \/ s.end <= r.start
Laid(spans) == Apart(spans) /\ \A s \in spans : s.start \in Addresses /\ s.end \in 1..(MaxAddress + 1) /\ s.start < s.end
ASSUME RangesAssumption ==
  /\ MaxAddress \in Nat /\ Stacks \subseteq Addresses
  /\ \A choice \in RowChoices : Laid(choice) /\ choice \subseteq [start : Nat, end : Nat]
  /\ \A choice \in RegionChoices : Laid(choice) /\ choice \subseteq [start : Nat, end : Nat, special : BOOLEAN]

VARIABLES stack_direction,  \* where stacks grow: to "low" or to "high" addresses
          rows,     \* the rows as recorded
          regions,  \* MemoryRegionMap: [start, end, special: mapped by libpthread, libdl or ld]
          library_live_objects,  \* [start, end) of what is left of the rows
          stack_regions,         \* the regions marked as stacks
          live,                  \* THREAD_DATA: what is read of the stacks
          stacks,                \* the stack pointers still to be registered
          left                   \* the regions still to be subtracted
rangesVars == <<stack_direction, rows, regions, library_live_objects, stack_regions, live, stacks, left>>

Span(s, e) == [start |-> s, end |-> e]
Cells(spans) == {a \in Addresses : \E s \in spans : s.start <= a /\ a < s.end}
InRegion(top) == {r \in regions : r.start <= top /\ top < r.end}
\* Around a stack pointer outside of every region: as far as row and regions let.
Around(top) == {a \in Cells(rows) : \E row \in rows :
  /\ {a, top} \subseteq Cells({row})
  /\ \A b \in Addresses : (a <= b /\ b <= top) \/ (top <= b /\ b <= a) => b \notin Cells(regions)}
\* Each thread has a stack of its own.
OwnStacks == \A t, u \in Stacks : t # u => InRegion(t) \cap InRegion(u) = {} /\ u \notin Around(t)
RangesInit ==
        /\ stack_direction \in {"low", "high"} /\ rows \in RowChoices /\ regions \in RegionChoices /\ OwnStacks
        /\ library_live_objects = rows /\ live = {} /\ stack_regions = {}
        /\ stacks = Stacks /\ left = regions

\* The part of a stack in use, from its top.
InUse(top, s, e) == IF stack_direction = "low" THEN Span(top, e) ELSE Span(s, top)
\* The ends of the stack in a row: the nearest regions around its top.
StackEnd(top, row) == LET above == {r.start : r \in {r \in regions : top < r.start /\ r.start < row.end}} IN
                      IF above = {} THEN row.end ELSE CHOOSE a \in above : \A b \in above : a <= b
StackStart(top, row) == LET below == {r.end : r \in {r \in regions : row.start < r.end /\ r.end <= top}} IN
                        IF below = {} THEN row.start ELSE CHOOSE a \in below : \A b \in below : a >= b

RegisterStackInRegion(top) == \E r \in regions :
  /\ r.start <= top /\ top < r.end
  /\ stack_regions' = stack_regions \cup {r} /\ live' = live \cup {InUse(top, r.start, r.end)}
  /\ UNCHANGED library_live_objects
RegisterStackInRow(top) == \E row \in library_live_objects :
  /\ \A r \in regions : ~(r.start <= top /\ top < r.end)
  /\ row.start <= top /\ top < row.end
  /\ LET s == StackStart(top, row)  e == StackEnd(top, row) IN
     /\ live' = live \cup {InUse(top, s, e)}
     /\ library_live_objects' = (library_live_objects \ {row}) \cup (IF s # row.start THEN {Span(row.start, s)} ELSE {})
                                                              \cup (IF e # row.end THEN {Span(e, row.end)} ELSE {})
  /\ UNCHANGED stack_regions
\* Not found: an error is logged.
RegisterStackLost(top) == /\ top \notin Cells(regions) \cup Cells(library_live_objects)
                          /\ UNCHANGED <<library_live_objects, stack_regions, live>>
RegisterStackLocked == \E top \in stacks :
  /\ RegisterStackInRegion(top) \/ RegisterStackInRow(top) \/ RegisterStackLost(top)
  /\ stacks' = stacks \ {top} /\ UNCHANGED <<stack_direction, rows, regions, left>>

\* Regions that special libraries map, other than stacks, may hold global data.
Subtracted(r) == r \in stack_regions \/ ~r.special
SubtractBelow(span, r) ==  \* a mutated form
  IF r.end <= span.start \/ span.end <= r.start THEN {span} ELSE
  IF span.start < r.start THEN {Span(span.start, r.start)} ELSE {}
Subtract(span, r) ==
  CASE r.start <= span.start /\ span.end <= r.end -> {}
    [] span.start < r.start /\ r.end < span.end -> {Span(span.start, r.start), Span(r.end, span.end)}
    [] r.end > span.start /\ r.start <= span.start /\ r.end < span.end -> {Span(r.end, span.end)}
    [] r.start > span.start /\ r.start < span.end /\ r.end >= span.end -> {Span(span.start, r.start)}
    [] OTHER -> {span}
SubtractRegion == \E r \in left :
  /\ stacks = {} /\ left' = left \ {r}
  /\ library_live_objects' = IF Subtracted(r) THEN UNION {Subtract(span, r) : span \in library_live_objects}
                             ELSE library_live_objects
  /\ UNCHANGED <<stack_direction, rows, regions, stack_regions, live, stacks>>
Done == stacks = {} /\ left = {} /\ UNCHANGED rangesVars
RangesNext == RegisterStackLocked \/ SubtractRegion \/ Done
RangesSpec == RangesInit /\ [][RangesNext]_rangesVars

------------------------------------------------------------------------------
Finished == stacks = {} /\ left = {}

\* Global data is read in full: every cell of a row that no region and no stack
\* has is read, and every cell of a special region that is not a stack.
GlobalsRead == Finished => \A a \in Cells(rows) :
  ( /\ \A r \in regions : r.start <= a /\ a < r.end => r.special /\ InRegion(a) \cap UNION {InRegion(t) : t \in Stacks} = {}
    /\ \A t \in Stacks : InRegion(t) = {} => a \notin Around(t) )
  <=> a \in Cells(library_live_objects)

\* Of a stack, the part in use is read and the rest is not: what a finished call
\* left there must not keep objects alive.
StacksRead == Finished => \A t \in Stacks : \A a \in Addresses :
  a \in (IF InRegion(t) # {} THEN Cells(InRegion(t)) ELSE Around(t)) =>
    (a \in Cells(live) \cup Cells(library_live_objects) <=> IF stack_direction = "low" THEN a >= t ELSE a < t)

\* All global data outside the mapped regions is read, and of each stack exactly
\* the part in use (IgnoreLiveThreadsLocked, IgnoreNonThreadLiveObjectsLocked).
RangesRead == GlobalsRead /\ StacksRead
=============================================================================
