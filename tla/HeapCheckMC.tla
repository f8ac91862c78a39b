----------------------------- MODULE HeapCheckMC -----------------------------
(***************************************************************************)
(* Model-checking instances of the parts of the heap checker.  They share no *)
(* variable here, so one part moves at a time, the one part names.          *)
(***************************************************************************)
EXTENDS HeapCheckerLife, LiveRanges

VARIABLES part,
          heap, mem, reg, pc, disable, table, ignored_objects, low, high, checker  \* HeapChecker

\* Global data at 0, heap objects at 2 and 4 of one or two words of two units;
\* pointers to their starts and into the first.
Roots == INSTANCE HeapChecker WITH Threads <- {"t"}, Globals <- {0}, Places <- {0, 2, 3}, Pointers <- {100, 2, 3, 4},
  Heap <- {2, 4}, Sizes <- {2, 4}, Stacks <- {"main"}, MaxAllocs <- 3, Null <- 100, PtrSize <- 2, Alignment <- 2,
  max_offset <- 1, ignore_thread_live <- TRUE, ignore_global_live <- TRUE, DisabledStacks <- {}, StackTops <- {}
\* A library whose allocations are disabled; threads' own data are no roots.
Libs == INSTANCE HeapChecker WITH Threads <- {"t"}, Globals <- {0}, Places <- {0, 2, 4}, Pointers <- {100, 2, 4},
  Heap <- {2, 4}, Sizes <- {2, 4}, Stacks <- {"main", "lib"}, MaxAllocs <- 2, Null <- 100, PtrSize <- 2, Alignment <- 2,
  max_offset <- 1, ignore_thread_live <- FALSE, ignore_global_live <- TRUE, DisabledStacks <- {"lib"}, StackTops <- {3}

\* All ways to lay one or two rows and up to two regions on seven addresses.
Spans == {s \in [start : 0..6, end : 1..7] : s.start < s.end}
Rows == {rs \in {{s} : s \in Spans} \cup {{s, t} : s, t \in {s \in Spans : s.end <= 4 \/ s.start >= 4}} : Apart(rs)}
Mapped == {r \in [start : 0..6, end : 1..7, special : BOOLEAN] : r.start < r.end}
Regions == {rs \in {{}} \cup {{r} : r \in Mapped} \cup {{r, s} : r, s \in Mapped} : Apart(rs)}

CheckVars == <<heap, mem, reg, pc, disable, table, ignored_objects, low, high, checker>>
PartsInit == /\ part \in {"Roots", "Libs", "Ranges", "Life"}
             /\ IF part = "Libs" THEN Libs!Init ELSE Roots!Init
             /\ IF part = "Ranges" THEN RangesInit
                ELSE stack_direction = "low" /\ rows = {} /\ regions = {} /\ library_live_objects = {} /\ stack_regions = {} /\ live = {} /\ stacks = {} /\ left = {}
             /\ Init /\ (part = "Life" \/ <<heapcheck, setuid, after_destructors>> = <<"", FALSE, FALSE>>)
PartsNext == /\ UNCHANGED part
             /\ \/ part = "Roots" /\ Roots!Next /\ UNCHANGED <<rangesVars, vars>>
                \/ part = "Libs" /\ Libs!Next /\ UNCHANGED <<rangesVars, vars>>
                \/ part = "Ranges" /\ RangesNext /\ UNCHANGED <<CheckVars, vars>>
                \/ part = "Life" /\ Next /\ UNCHANGED <<CheckVars, rangesVars>>
                \/ part = "Life" /\ stage \in {"dead", "end"} /\ UNCHANGED <<CheckVars, rangesVars, vars>>
partsVars == <<part, CheckVars, rangesVars, vars>>
PartsSpec == PartsInit /\ [][PartsNext]_partsVars

------------------------------------------------------------------------------
\* HeapChecker: a check reports exactly what cannot be reached from the roots and
\* was not there when the checker was made.
LeaksTrue == [][(part = "Roots" => Roots!ReportsLeaks) /\ (part = "Libs" => Libs!ReportsLeaks)]_partsVars

\* HeapChecker: the table has what is allocated, calls in progress aside, with
\* true counts; no mark survives a check.
TableTrue == CASE part = "Roots" -> Roots!TypeOK /\ Roots!TableTrue /\ Roots!MarksCleared
               [] part = "Libs" -> Libs!TypeOK /\ Libs!TableTrue /\ Libs!MarksCleared
               [] OTHER -> TRUE

=============================================================================
