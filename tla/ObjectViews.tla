------------------------------ MODULE ObjectViews -----------------------------
(***************************************************************************)
(* The views of the inspector that list objects: the browser of the objects  *)
(* of a selected range (views/ObjectsBrowser.tsx), with the selector whose    *)
(* drags select the range (ProfileViewSelector.tsx, charts/event.utils.ts),   *)
(* and the window that lists the memory page by page (MemoryWindow).         *)
(*   selection   the range all views of the profile listen to                *)
(*   selector    state.min and state.max; grabReaction: the drag under way    *)
(*   browser     fields and state of the browser; closed: it was unmounted    *)
(*   window      state of the MemoryWindow: the page shown, of how many, and   *)
(*               whose objects; pagesAsked: pages with answers to come         *)
(*   objectCount what the inspected program has                              *)
(***************************************************************************)
EXTENDS Integers, FiniteSets

CONSTANTS
  Positions,         \* of the mouse over the selector, and of the ends of a range
  Filters, NULL,     \* texts of the filter; none
  MaxObjects, objectsPerPage,
  width,             \* of the pager
  MaxAsked           \* bound on the answers to come

ASSUME ViewsAssumption ==
  /\ Positions \subseteq Nat /\ MaxObjects \in Nat /\ objectsPerPage \in Nat \ {0} /\ width \in Nat

VARIABLES selection, selector, grabReaction, browser, window, pagesAsked, objectCount
viewsVars == <<selection, selector, grabReaction, browser, window, pagesAsked, objectCount>>
ViewVars == <<selection, selector, grabReaction, browser>>
WindowVars == <<window, pagesAsked, objectCount>>

Selections == {r \in Positions \X Positions : r[1] <= r[2]}
Whole == CHOOSE r \in Selections : \A p \in Positions : r[1] <= p /\ p <= r[2]
NoRange == <<-1, -1>>
NoRequest == <<NoRange, NULL>>  \* no request pending, no objects
NoGrab == [from |-> -1, at |-> -1]

\* updateRange of the browser, with the selection and the state it sees: a request, unless
\* one is pending or what was asked last is still what is wanted.
browserUpdateRange(b, range) ==
  IF b.pending = NoRequest /\ (b.range # range \/ b.applied # b.filter)
    THEN [b EXCEPT !.range = range, !.pending = <<range, b.filter>>, !.objects = NoRequest]
    ELSE b
Fresh == [range |-> <<0, 0>>, filter |-> NULL, applied |-> NULL, objects |-> NoRequest, pending |-> NoRequest, closed |-> FALSE]

ViewsInit ==
  /\ selection = Whole /\ selector = Whole /\ grabReaction = NoGrab
  /\ browser = browserUpdateRange(Fresh, Whole)
  /\ window = [pageIndex |-> 0, pageCount |-> 0, objects |-> {}] /\ pagesAsked = {0} /\ objectCount \in 0..MaxObjects

------------------------------------------------------------------------------
(* The selection and its listeners: the selector and the browser.            *)

\* selection.set: every view that listens is updated at once.
selectionSet(range) ==
  /\ selection' = range /\ selector' = range
  /\ browser' = IF browser.closed THEN browser ELSE browserUpdateRange(browser, range)
\* Another view selects or resets.
SelectElsewhere == \E r \in Selections : selectionSet(r) /\ UNCHANGED <<grabReaction, WindowVars>>

\* A second grab completes the one before it, whose mouseup was lost.
MouseDown ==
  \E x \in Positions :
    /\ grabReaction' = [from |-> x, at |-> x]
    /\ IF grabReaction # NoGrab THEN selectionSet(selector) ELSE UNCHANGED <<selection, selector, browser>>
    /\ UNCHANGED WindowVars
MouseMove ==
  \E y \in Positions :
    /\ grabReaction # NoGrab /\ grabReaction' = [grabReaction EXCEPT !.at = y]
    /\ selector' = IF grabReaction.from < y THEN <<grabReaction.from, y>> ELSE <<y, grabReaction.from>>
    /\ UNCHANGED <<selection, browser, WindowVars>>
MouseUp ==
  /\ grabReaction # NoGrab /\ grabReaction' = NoGrab
  /\ selectionSet(selector) /\ UNCHANGED WindowVars

------------------------------------------------------------------------------
(* The browser.                                                             *)

\* The text is taken; it is sent with the next request, applied or not.
handleFilter == \E f \in Filters \cup {NULL} :
  browser' = [browser EXCEPT !.filter = f] /\ UNCHANGED <<selection, selector, grabReaction, WindowVars>>
applyFilter == ~browser.closed /\ browser' = browserUpdateRange(browser, selection) /\ UNCHANGED <<selection, selector, grabReaction, WindowVars>>

Received(b) == [range |-> b.range, filter |-> b.filter, applied |-> b.pending[2], objects |-> b.pending, pending |-> NoRequest, closed |-> b.closed]

\* Mutant: what changed while the answer was awaited is not asked for.
BrowserAnswerOnly ==
  /\ browser.pending # NoRequest /\ ~browser.closed
  /\ browser' = Received(browser)
  /\ UNCHANGED <<selection, selector, grabReaction, WindowVars>>

BrowserAnswer ==
  /\ browser.pending # NoRequest /\ ~browser.closed
  /\ browser' = browserUpdateRange(Received(browser), selection)
  /\ UNCHANGED <<selection, selector, grabReaction, WindowVars>>
\* A range that failed is not asked for again; a filter is, at once.
BrowserFails ==
  /\ browser.pending # NoRequest /\ ~browser.closed
  /\ browser' = browserUpdateRange([browser EXCEPT !.pending = NoRequest], selection)
  /\ UNCHANGED <<selection, selector, grabReaction, WindowVars>>
\* Unmounted; a late answer throws after pending was reset.
BrowserCloses == browser' = [browser EXCEPT !.closed = TRUE, !.pending = NoRequest] /\ UNCHANGED <<selection, selector, grabReaction, WindowVars>>

------------------------------------------------------------------------------
(* The MemoryWindow.                                                        *)

Least(a, b) == IF a < b THEN a ELSE b
Most(a, b) == IF a > b THEN a ELSE b
windowUpdate(page) == Cardinality(pagesAsked) < MaxAsked /\ pagesAsked' = pagesAsked \cup {page} /\ UNCHANGED <<window, objectCount>>
handleNext == windowUpdate(Least(window.pageCount - 1, window.pageIndex + 1))
handleBack == windowUpdate(Most(0, window.pageIndex - 1))

\* The pages that the pager offers: around the page shown, shifted at either end.
Items(page, count) ==
  LET half == width \div 2
      last == page + half + 1 - Least(0, page - half)
  IN IF last > count THEN Most(0, Most(0, page - half) - (last - count))..(count - 1) ELSE Most(0, page - half)..(last - 1)
handleClick == \E i \in Items(window.pageIndex, window.pageCount) : windowUpdate(i)

ObjectsOf(page) == {o \in (page * objectsPerPage)..((page + 1) * objectsPerPage - 1) : 0 <= o /\ o < objectCount}
\* Answers come in any order, each with the objects and their number at that time.
WindowAnswer ==
  \E page \in pagesAsked :
    LET count == (objectCount + objectsPerPage - 1) \div objectsPerPage IN
    /\ pagesAsked' = pagesAsked \ {page} /\ UNCHANGED objectCount
    /\ window' = [pageIndex |-> Least(page, count - 1), pageCount |-> count, objects |-> ObjectsOf(page)]
WindowFails == \E page \in pagesAsked : pagesAsked' = pagesAsked \ {page} /\ UNCHANGED <<window, objectCount>>
Allocates == objectCount' \in 0..MaxObjects /\ UNCHANGED <<window, pagesAsked>>

Browsing ==
  \/ SelectElsewhere \/ MouseDown \/ MouseMove \/ MouseUp
  \/ handleFilter \/ applyFilter \/ BrowserAnswer \/ BrowserFails \/ BrowserCloses
Paging ==
  /\ handleNext \/ handleBack \/ handleClick \/ WindowAnswer \/ WindowFails \/ Allocates
  /\ UNCHANGED ViewVars
ViewsNext == Browsing \/ Paging
ViewsSpec == ViewsInit /\ [][ViewsNext]_viewsVars

------------------------------------------------------------------------------
\* The objects in the browser are those of the range that is selected now and of
\* the filter that was last applied; without a request pending it has asked for
\* that range; a drag that nobody disturbs ends with what it showed.
ObjectsCurrent ==
  ~browser.closed =>
    /\ browser.objects # NoRequest => browser.objects = <<selection, browser.applied>>
    /\ browser.pending = NoRequest => browser.range = selection
    /\ browser.pending # NoRequest => browser.objects = NoRequest
    /\ grabReaction = NoGrab => selector = selection

\* The pager offers its page and the same number of pages wherever it is, all of
\* which exist, and the list is that of the page marked. (Page -1 is left out: the
\* window is there once the memory was empty, and then no page is marked.)
PagerTrue ==
  LET items == Items(window.pageIndex, window.pageCount) IN
  window.pageCount > 0 /\ window.pageIndex >= 0 =>
    /\ window.pageIndex \in items /\ items \subseteq 0..(window.pageCount - 1)
    /\ Cardinality(items) = Least(window.pageCount, 2 * (width \div 2) + 1)
    /\ \A o \in window.objects : o \div objectsPerPage = window.pageIndex

\* What the browser and the memory window list is what the selection, the filter
\* and the pager say, whatever answers were awaited meanwhile.
ViewsCurrent == ObjectsCurrent /\ PagerTrue

------------------------------------------------------------------------------
(* What makes that inductive: a request is for the range that the browser has. *)

ViewsTypeOK ==
  /\ browser = [range |-> browser.range, filter |-> browser.filter, applied |-> browser.applied, objects |-> browser.objects,
                pending |-> browser.pending, closed |-> browser.closed]
  /\ browser.closed \in BOOLEAN /\ grabReaction = [from |-> grabReaction.from, at |-> grabReaction.at]
  /\ window.pageIndex \in Int /\ window.pageCount \in Nat /\ window.objects \subseteq Int
  /\ pagesAsked \subseteq Int /\ objectCount \in Nat
RequestTrue == browser.pending # NoRequest => browser.pending = <<browser.range, browser.pending[2]>>
PageTrue ==
  /\ window.pageIndex < window.pageCount \/ window.pageCount = 0
  /\ window.pageCount > 0 => window.objects \subseteq (window.pageIndex * objectsPerPage)..((window.pageIndex + 1) * objectsPerPage - 1)
ViewsIInv == ObjectsCurrent /\ RequestTrue /\ ViewsTypeOK /\ PageTrue
==============================================================================
