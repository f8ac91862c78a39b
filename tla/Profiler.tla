------------------------------ MODULE Profiler ------------------------------
(***************************************************************************)
(* The profiler window of the web front end (ProfilerWindow, ProfileView,  *)
(* StackHistogram and the refresh half of ProfileSampler): the user moves  *)
(* the selected range and asks for refreshes, the server answers when it   *)
(* pleases and in any order, and the call histogram follows the range with *)
(* at most one request in flight.                                          *)
(*                                                                         *)
(* JavaScript runs one event handler or promise callback at a time, so     *)
(* each is one action, with the listeners that ProfileView.set calls.      *)
(* The server is external: it answers a refresh with the times recorded so *)
(* far, and a histogram request with data that belongs to its range (or    *)
(* the fetch fails).                                                       *)
(***************************************************************************)
EXTENDS Integers, FiniteSets

CONSTANTS
  Time,        \* the instants
  TimeStart,   \* when the recording began
  MaxRefresh,  \* bound on the refreshes asked for
  MaxOrphans,  \* bound on the unanswered requests of closed histograms
  NoData       \* state.histogram = null

ASSUME TimeAssumption ==
  /\ Time \subseteq Int
  /\ TimeStart \in Time
  /\ MaxRefresh \in Nat /\ MaxRefresh >= 1
  /\ MaxOrphans \in Nat

Refreshes == 1..MaxRefresh

VARIABLES
  now,        \* the end of the recording on the server
  refresh,    \* refresh requests: "unsent", "sent", "answered" or "done"
  timeEnd,    \* the timeEnd of each answer
  ready,      \* globalView and selectedView exist
  globalView,
  selected,   \* selectedView
  regressed,  \* history: an answer has shortened the global view
  mounted,    \* the call histogram is open
  asked,      \* its this.start and this.end
  pending,    \* its this.pending is set
  inflight,   \* its requests without an answer, by the range asked for
  histogram,  \* its state: the range the data belongs to, or NoData
  orphans,    \* requests without an answer of histograms that were closed
  raised      \* a callback of a closed histogram has thrown

windowVars == <<refresh, timeEnd, ready, globalView, regressed>>
histVars == <<mounted, asked, pending, inflight, histogram>>
vars == <<now, refresh, timeEnd, ready, globalView, selected, regressed,
          mounted, asked, pending, inflight, histogram, orphans, raised>>

-----------------------------------------------------------------------------
(* ProfileView (ProfileView.tsx): the range of time [start, end] that a    *)
(* chart shows, inside [min, max].  The code's numbers are doubles; here   *)
(* they are integers, so rounding is left out, and the field num says      *)
(* whether start and end are numbers or NaN (they are 0 in the record      *)
(* then).  NaN is kept because it survives Math.max, Math.min and every    *)
(* operation of the view.                                                  *)

MathMax(a, b) == IF a >= b THEN a ELSE b
MathMin(a, b) == IF a <= b THEN a ELSE b

\* new ProfileView(min, max)
NewView(min, max) ==
  [start |-> min, end |-> max, min |-> min, max |-> max, num |-> "finite"]

RangeOf(v) == [start |-> v.start, end |-> v.end, num |-> v.num]

isNaN(r) == r.num = "NaN"

interval(v) == v.end - v.start

set(v, start, end) ==
  [v EXCEPT !.start = MathMax(start, v.min), !.end = MathMin(end, v.max),
            !.num = "finite"]

setNaN(v) ==
  [start |-> 0, end |-> 0, min |-> v.min, max |-> v.max, num |-> "NaN"]

clip(v, min, max) ==
  LET w == [v EXCEPT !.min = min, !.max = max]
  IN IF isNaN(v) THEN w ELSE set(w, v.start, v.end)

\* Mutant of translate: the larger of the two deltas is taken.
translateLarger(v, delta) ==
  LET startDelta == MathMax(v.start + delta, v.min) - v.start
      endDelta == MathMin(v.end + delta, v.max) - v.end
      d == IF startDelta * startDelta > endDelta * endDelta
           THEN startDelta ELSE endDelta
  IN IF isNaN(v) THEN v ELSE set(v, v.start + d, v.end + d)

\* The delta is cut to what both ends can move, so that the interval is kept.
translate(v, delta) ==
  LET startDelta == MathMax(v.start + delta, v.min) - v.start
      endDelta == MathMin(v.end + delta, v.max) - v.end
      d == IF startDelta * startDelta < endDelta * endDelta
           THEN startDelta ELSE endDelta
  IN IF isNaN(v) THEN v ELSE set(v, v.start + d, v.end + d)

\* ProfileViewClient.rescale(factor, pos) keeps the time under the cursor in
\* place and divides the interval by 1.2 or 0.8: it asks for a range inside the
\* present one, or around it.  The rounding of the new ends is left open.
rescaled(v, s, e) ==
  \/ v.start < v.end /\ v.start <= s /\ s < e /\ e <= v.end
  \/ v.start < v.end /\ s <= v.start /\ v.end <= e
  \/ v.start > v.end /\ v.start >= s /\ s > e /\ e >= v.end
  \/ v.start > v.end /\ s >= v.start /\ v.end >= e

-----------------------------------------------------------------------------
(* The window.                                                             *)

Zero == [start |-> 0, end |-> 0, num |-> "finite"]

\* componentWillMount of the window asks for the first refresh.
Init ==
  /\ now = TimeStart
  /\ refresh = [i \in Refreshes |-> IF i = 1 THEN "sent" ELSE "unsent"]
  /\ timeEnd = [i \in Refreshes |-> TimeStart]
  /\ ready = FALSE
  /\ globalView = NewView(TimeStart, TimeStart)
  /\ selected = NewView(TimeStart, TimeStart)
  /\ regressed = FALSE
  /\ mounted = FALSE /\ asked = Zero /\ pending = FALSE /\ inflight = {}
  /\ histogram = NoData /\ orphans = 0 /\ raised = FALSE

-----------------------------------------------------------------------------
(* StackHistogramView                                                      *)

\* this.start !== start || this.end !== end: NaN differs from everything.
Differs(r, v) == isNaN(r) \/ isNaN(v) \/ r.start # v.start \/ r.end # v.end

\* Mutant of updateRange: no test of this.pending.
updateRangeAlways(had, v, busy, flying) ==
  IF Differs(had, v)
  THEN asked' = RangeOf(v) /\ pending' = TRUE /\ inflight' = flying \cup {RangeOf(v)}
  ELSE asked' = had /\ pending' = busy /\ inflight' = flying

\* updateRange, called when the instance has asked for 'had' last, shows the
\* view v, has 'busy' as its pending and 'flying' in flight.
updateRange(had, v, busy, flying) ==
  IF ~busy /\ Differs(had, v)
  THEN asked' = RangeOf(v) /\ pending' = TRUE /\ inflight' = flying \cup {RangeOf(v)}
  ELSE asked' = had /\ pending' = busy /\ inflight' = flying

\* ProfileView.set on the selected view calls the listeners mapped to it.
Show(v) ==
  /\ selected' = v
  /\ IF mounted THEN updateRange(asked, v, pending, inflight)
                ELSE UNCHANGED <<asked, pending, inflight>>

\* The tree node of the histogram is opened: a new instance.
Mount ==
  /\ ready /\ ~mounted
  /\ mounted' = TRUE
  /\ updateRange(Zero, selected, FALSE, {})
  /\ histogram' = NoData
  /\ UNCHANGED <<now, windowVars, selected, orphans, raised>>

\* It is closed: componentWillUnmount unmaps the listener, but a request in
\* flight stays in flight.
Unmount ==
  /\ mounted /\ orphans + Cardinality(inflight) <= MaxOrphans
  /\ mounted' = FALSE
  /\ orphans' = orphans + Cardinality(inflight)
  /\ asked' = Zero /\ pending' = FALSE /\ inflight' = {} /\ histogram' = NoData
  /\ UNCHANGED <<now, windowVars, selected, raised>>

\* Mutant of Landed: the callback does not look at the view again.
LandedNoCatchUp(r, data) ==
  /\ histogram' = data
  /\ pending' = FALSE
  /\ inflight' = inflight \ {r}
  /\ UNCHANGED asked

\* What both callbacks of the fetch do: clear pending, set the state, and call
\* updateRange for the changes that came in the meantime.
Landed(r, data) ==
  /\ histogram' = data
  /\ updateRange(asked, selected, FALSE, inflight \ {r})

\* Mutant of Fails: pending is not cleared.
FailsStillPending(r) ==
  /\ histogram' = NoData
  /\ inflight' = inflight \ {r}
  /\ UNCHANGED <<asked, pending>>
  /\ UNCHANGED <<now, windowVars, selected, mounted, orphans, raised>>

Answered(r) ==
  /\ Landed(r, r)
  /\ UNCHANGED <<now, windowVars, selected, mounted, orphans, raised>>

Fails(r) ==
  /\ Landed(r, NoData)
  /\ UNCHANGED <<now, windowVars, selected, mounted, orphans, raised>>

HistogramReply == \E r \in inflight : Answered(r) \/ Fails(r)

\* The answer to a request of a closed histogram: updateRange reads the range
\* of viewClient.view, which unmap has set to null, and throws a TypeError.
OrphanReply ==
  /\ orphans > 0
  /\ orphans' = orphans - 1
  /\ raised' = TRUE
  /\ UNCHANGED <<now, windowVars, selected, histVars>>

-----------------------------------------------------------------------------
(* The user moves the selected view.                                       *)

\* ProfileViewSelector.handleRelease: a drag that begins inside the chart of
\* the global view, and may end outside.
Select ==
  /\ ready
  /\ \E s, e \in Time :
       /\ s <= e /\ s <= globalView.end /\ e >= globalView.start
       /\ Show(set(selected, s, e))
  /\ UNCHANGED <<now, windowVars, mounted, histogram, orphans, raised>>

\* A press and a release on the selector without a move: handleRelease sets the
\* range that updateRange has computed from the selection, which is 0 / 0 for
\* an empty recording (except before the first change of the selection, when
\* the selector still has its initial state).
Click ==
  /\ ready
  /\ \/ ~isNaN(selected) /\ Show(set(selected, selected.start, selected.end))
     \/ /\ isNaN(selected) \/ globalView.start = globalView.end
        /\ Show(setNaN(selected))
  /\ UNCHANGED <<now, windowVars, mounted, histogram, orphans, raised>>

\* Dragging the zoom chart: ProfileViewClient.translate(deltaX / scale), where
\* the scale of an empty range is infinite.
Translate ==
  /\ ready
  /\ \E from, to \in Time :
       /\ interval(selected) = 0 => from = to
       /\ Show(translate(selected, to - from))
  /\ UNCHANGED <<now, windowVars, mounted, histogram, orphans, raised>>

\* The wheel over the zoom chart.  For an empty range rescale divides Infinity
\* by Infinity and sets NaN; NaN stays NaN.  (A zoom chart on an empty range
\* that is not at 0 no longer reacts: see ProfileSampler.)
Rescale ==
  /\ ready
  /\ IF isNaN(selected) \/ selected.start = selected.end
     THEN (isNaN(selected) \/ selected.start = 0) /\ Show(setNaN(selected))
     ELSE \E s, e \in Time : rescaled(selected, s, e) /\ Show(set(selected, s, e))
  /\ UNCHANGED <<now, windowVars, mounted, histogram, orphans, raised>>

-----------------------------------------------------------------------------
(* Refreshes: ProfilerWindow.handleRefresh and ProfileSampler.getGlobalView. *)

handleRefresh(i) ==
  /\ refresh[i] = "unsent"
  /\ refresh' = [refresh EXCEPT ![i] = "sent"]
  /\ UNCHANGED <<now, timeEnd, ready, globalView, selected, regressed, histVars,
                 orphans, raised>>

\* The server goes on recording, and answers a refresh.
Record ==
  /\ \E t \in Time : t > now /\ now' = t
  /\ UNCHANGED <<windowVars, selected, histVars, orphans, raised>>

ServerAnswers(i) ==
  /\ refresh[i] = "sent"
  /\ refresh' = [refresh EXCEPT ![i] = "answered"]
  /\ timeEnd' = [timeEnd EXCEPT ![i] = now]
  /\ UNCHANGED <<now, ready, globalView, selected, regressed, histVars, orphans, raised>>

\* getGlobalView: the view is created, or clipped and set to the whole range.
getGlobalView(max) ==
  IF ready THEN set(clip(globalView, TimeStart, max), TimeStart, max)
           ELSE NewView(TimeStart, max)

\* Mutant of selectedAfter: the selection is set to the whole range.
selectedAfterReset(range) ==
  IF ready THEN set(clip(selected, range.start, range.end), range.start, range.end)
           ELSE NewView(range.start, range.end)

\* The callback of handleRefresh: the selection is created, or clipped.
selectedAfter(range) ==
  IF ready THEN clip(selected, range.start, range.end)
           ELSE NewView(range.start, range.end)

\* An answer reaches the window.  Answers may overtake each other.
Refreshed(i) ==
  /\ refresh[i] = "answered"
  /\ refresh' = [refresh EXCEPT ![i] = "done"]
  /\ globalView' = getGlobalView(timeEnd[i])
  /\ Show(selectedAfter(getGlobalView(timeEnd[i])))
  /\ ready' = TRUE
  /\ regressed' = (regressed \/ (ready /\ timeEnd[i] < globalView.end))
  /\ UNCHANGED <<now, timeEnd, mounted, histogram, orphans, raised>>

\* The fetch of a refresh fails: no callback is registered for that.
RefreshFails(i) ==
  /\ refresh[i] \in {"sent", "answered"}
  /\ refresh' = [refresh EXCEPT ![i] = "done"]
  /\ UNCHANGED <<now, timeEnd, ready, globalView, selected, regressed, histVars,
                 orphans, raised>>

-----------------------------------------------------------------------------

UserStep == Select \/ Click \/ Translate \/ Rescale \/ Mount \/ Unmount

Next ==
  \/ Mount \/ Unmount \/ HistogramReply \/ OrphanReply
  \/ Select \/ Click \/ Translate \/ Rescale
  \/ Record
  \/ \E i \in Refreshes :
       handleRefresh(i) \/ ServerAnswers(i) \/ Refreshed(i) \/ RefreshFails(i)

\* A fetch ends, with an answer or an error.
Fairness == WF_vars(HistogramReply)

Spec == Init /\ [][Next]_vars /\ Fairness

-----------------------------------------------------------------------------
(* Properties.                                                             *)

Ranges == [start : Int, end : Int, num : {"finite", "NaN"}]
Views == [start : Int, end : Int, min : Int, max : Int, num : {"finite", "NaN"}]

TypeOK ==
  /\ now \in Int
  /\ refresh \in [Refreshes -> {"unsent", "sent", "answered", "done"}]
  /\ timeEnd \in [Refreshes -> Int]
  /\ ready \in BOOLEAN /\ regressed \in BOOLEAN
  /\ globalView \in Views /\ selected \in Views
  /\ mounted \in BOOLEAN /\ pending \in BOOLEAN
  /\ asked \in Ranges
  /\ inflight \subseteq Ranges
  /\ histogram \in Ranges \cup {NoData}
  /\ orphans \in Nat /\ raised \in BOOLEAN

\* updateRange (StackHistogram.tsx:24-41) drops a change of the view while a
\* request is in flight and relies on its callback to catch up: a histogram
\* with nothing in flight has asked for the range that is selected now.
CaughtUp ==
  mounted /\ inflight = {} => ~Differs(asked, selected)

\* When nothing is in flight the histogram on the screen, if there is one, is
\* the one of the selected range (StackHistogram.tsx:27-40): no answer of an
\* older request has replaced it.
ShownIsSelected ==
  mounted /\ inflight = {} => histogram \in {NoData, RangeOf(selected)}

\* As long as no refresh answer was overtaken by a newer one, the selected
\* range is inside the recording and not inverted (start <= end), whatever the
\* user does, so is every range asked of the server (ProfileView.tsx:117-144,
\* ProfilerWindow/index.tsx:23-30).
UprightUnlessRegressed ==
  ~regressed =>
    /\ ~isNaN(selected) => /\ selected.min <= selected.start
                        /\ selected.start <= selected.end
                        /\ selected.end <= selected.max
    /\ \A r \in inflight : isNaN(r) \/ r.start <= r.end

\* A refresh that does not shorten the recording leaves the selected range
\* alone (ProfilerWindow/index.tsx:27, ProfileView.tsx:133-137).
SelectionKept ==
  [][\A i \in Refreshes :
       Refreshed(i) /\ ready /\ timeEnd[i] >= globalView.end
         => RangeOf(selected') = RangeOf(selected)]_vars

\* Once the user stops, an open histogram comes to rest on the selected range
\* (StackHistogram.tsx:24-41).  It never does for a NaN range: NaN !== NaN, so
\* every answer sends the next request.
Settled ==
  mounted /\ ~isNaN(selected) => inflight = {} /\ ~Differs(asked, selected)

Settles == <>[][~UserStep]_vars => <>[]Settled

(* The inductive invariant behind the safety properties.                   *)

\* The bounds of the selection are those of the last refresh.
Bounds ==
  /\ now >= TimeStart /\ \A i \in Refreshes : timeEnd[i] >= TimeStart
  /\ ~isNaN(globalView)
  /\ globalView.start = TimeStart /\ globalView.min = TimeStart
  /\ globalView.end = globalView.max /\ globalView.end >= TimeStart
  /\ selected.min = TimeStart /\ selected.max = globalView.end
  /\ ~isNaN(selected) => selected.min <= selected.start /\ selected.end <= selected.max

\* One request at a time, for the range asked last.
SingleFlight ==
  /\ inflight = IF pending THEN {asked} ELSE {}
  /\ ~mounted => ~pending

IInv ==
  /\ TypeOK
  /\ Bounds
  /\ SingleFlight
  /\ CaughtUp
  /\ ShownIsSelected
  /\ UprightUnlessRegressed
=============================================================================
