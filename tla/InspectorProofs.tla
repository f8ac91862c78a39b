--------------------------- MODULE InspectorProofs ---------------------------
(***************************************************************************)
(* ProfileView's operations and the profiler window, for every set of       *)
(* instants and every number of refreshes.  The block cache, for every       *)
(* number of charts, calls and ranges: what getRangeSamples computes does    *)
(* not matter there, only that it is a set of blocks, the same each time.    *)
(* The views that list objects, for every set of positions and filters,      *)
(* every number of objects, page size and width of the pager.               *)
(***************************************************************************)
EXTENDS Profiler, ProfileSampler, ObjectViews, FiniteSetTheorems, TLAPS

-----------------------------------------------------------------------------
(* The operations of ProfileView (ProfileView.tsx:117-144).                *)

\* Comparing squares compares distances from 0 (ProfileView.tsx:141).
LEMMA Squares ==
  ASSUME NEW a \in Int, NEW b \in Int
  PROVE  /\ 0 <= a /\ a <= b => ~(b * b < a * a)
         /\ b <= a /\ a <= 0 /\ ~(a * a < b * b) => a = b
OBVIOUS

\* set gives a view whose ends are integers and inside its bounds.
LEMMA SetView ==
  ASSUME NEW v \in Views, NEW s \in Int, NEW e \in Int
  PROVE  /\ set(v, s, e) \in Views
         /\ set(v, s, e).min = v.min /\ set(v, s, e).max = v.max
         /\ set(v, s, e).start = MathMax(s, v.min)
         /\ set(v, s, e).end = MathMin(e, v.max)
         /\ ~isNaN(set(v, s, e))
BY DEF isNaN, Views, set, MathMax, MathMin

\* The view that a zoom of an empty range leaves behind.
LEMMA NaNView ==
  ASSUME NEW v \in Views
  PROVE  /\ setNaN(v) \in Views /\ isNaN(setNaN(v))
         /\ setNaN(v).min = v.min /\ setNaN(v).max = v.max
<1>1. setNaN(v) \in Views
  BY DEF setNaN, Views
<1>2. setNaN(v).min = v.min /\ setNaN(v).max = v.max /\ setNaN(v).num = "NaN"
  BY DEF setNaN, Views
<1> QED
  BY <1>1, <1>2 DEF isNaN

\* clip changes the bounds and brings the range inside them.
LEMMA ClipView ==
  ASSUME NEW v \in Views, NEW a \in Int, NEW b \in Int
  PROVE  /\ clip(v, a, b) \in Views
         /\ clip(v, a, b).min = a /\ clip(v, a, b).max = b
         /\ clip(v, a, b).num = v.num
         /\ isNaN(v) => clip(v, a, b).start = v.start /\ clip(v, a, b).end = v.end
         /\ ~isNaN(v) => /\ clip(v, a, b).start = MathMax(v.start, a)
                      /\ clip(v, a, b).end = MathMin(v.end, b)
BY DEF isNaN, Views, clip, set, MathMax, MathMin

\* translate keeps the interval and stays inside the bounds.
LEMMA TranslateView ==
  ASSUME NEW v \in Views, ~isNaN(v), NEW delta \in Int,
         v.min <= v.start, v.start <= v.end, v.end <= v.max
  PROVE  /\ interval(translate(v, delta)) = interval(v)
         /\ v.min <= translate(v, delta).start
         /\ translate(v, delta).end <= v.max
<1> DEFINE sd == MathMax(v.start + delta, v.min) - v.start
           ed == MathMin(v.end + delta, v.max) - v.end
           d == IF sd * sd < ed * ed THEN sd ELSE ed
<1>1. /\ v.start \in Int /\ v.end \in Int /\ v.min \in Int /\ v.max \in Int
      /\ sd \in Int /\ ed \in Int
  BY DEF isNaN, Views, MathMax, MathMin
<1>2. v.min <= v.start + d /\ v.end + d <= v.max
  <2>1. CASE delta >= 0
    <3>1. sd = delta /\ 0 <= ed /\ ed <= sd /\ v.end + ed <= v.max
      BY <1>1, <2>1 DEF MathMax, MathMin
    <3>2. d = ed
      BY <1>1, <3>1, Squares
    <3> HIDE DEF sd, ed, d
    <3> QED
      BY <1>1, <3>1, <3>2
  <2>2. CASE delta < 0
    <3>1. ed = delta /\ sd <= 0 /\ ed <= sd /\ v.min <= v.start + sd
      BY <1>1, <2>2 DEF MathMax, MathMin
    <3>2. d = sd
      BY <1>1, <3>1, Squares
    <3> HIDE DEF sd, ed, d
    <3> QED
      BY <1>1, <3>1, <3>2
  <2> QED
    BY <2>1, <2>2
<1>3. translate(v, delta) = set(v, v.start + d, v.end + d)
  BY DEF isNaN, translate
<1>4. d \in Int
  BY <1>1
<1> HIDE DEF d
<1>5. translate(v, delta).start = v.start + d /\ translate(v, delta).end = v.end + d
  BY <1>1, <1>2, <1>3, <1>4, SetView DEF isNaN, MathMax, MathMin
<1> QED
  BY <1>1, <1>2, <1>4, <1>5 DEF interval

\* Whatever the view, translate gives a view with the same bounds.
LEMMA TranslateType ==
  ASSUME NEW v \in Views, NEW delta \in Int
  PROVE  LET w == translate(v, delta)
         IN /\ w \in Views /\ w.min = v.min /\ w.max = v.max /\ w.num = v.num
            /\ isNaN(v) => w = v
            /\ ~isNaN(v) => w.min <= w.start /\ w.end <= w.max
<1> DEFINE sd == MathMax(v.start + delta, v.min) - v.start
           ed == MathMin(v.end + delta, v.max) - v.end
           d == IF sd * sd < ed * ed THEN sd ELSE ed
<1>1. /\ v.start \in Int /\ v.end \in Int /\ v.min \in Int /\ v.max \in Int
      /\ v.num \in {"finite", "NaN"} /\ sd \in Int /\ ed \in Int
  BY DEF isNaN, Views, MathMax, MathMin
<1>2. translate(v, delta) = IF isNaN(v) THEN v ELSE set(v, v.start + d, v.end + d)
  BY DEF isNaN, translate
<1>3. d \in Int
  BY <1>1
<1> HIDE DEF d, sd, ed
<1>4. CASE isNaN(v)
  BY <1>2, <1>4 DEF isNaN
<1>5. CASE ~isNaN(v)
  <2> DEFINE w == set(v, v.start + d, v.end + d)
  <2>1. /\ w \in Views /\ w.min = v.min /\ w.max = v.max /\ ~isNaN(w)
        /\ w.start = MathMax(v.start + d, v.min) /\ w.end = MathMin(v.end + d, v.max)
    BY <1>1, <1>3, SetView
  <2>2. w.num = v.num
    BY <1>1, <1>5, <2>1 DEF isNaN, Views
  <2> HIDE DEF w
  <2>3. w.min <= w.start /\ w.end <= w.max
    BY <1>1, <1>3, <2>1 DEF MathMax, MathMin
  <2> QED
    BY <1>2, <1>5, <2>1, <2>2, <2>3 DEF w
<1> QED
  BY <1>4, <1>5

-----------------------------------------------------------------------------
(* The profiler window.                                                    *)

\* The initial state satisfies the inductive invariant.
LEMMA InitIInv == Init => IInv
<1> SUFFICES ASSUME Init PROVE IInv
  OBVIOUS
<1> USE TimeAssumption
<1>1. TypeOK
  <2>1. TimeStart \in Int
    OBVIOUS
  <2>2. NewView(TimeStart, TimeStart) \in Views /\ Zero \in Ranges
    BY <2>1 DEF NewView, Views, Zero, Ranges
  <2>3. refresh \in [Refreshes -> {"unsent", "sent", "answered", "done"}]
    BY DEF Init
  <2> QED
    BY <2>1, <2>2, <2>3 DEF Init, TypeOK
<1>2. Bounds
  BY DEF isNaN, Init, Bounds, NewView
<1>3. SingleFlight /\ CaughtUp /\ ShownIsSelected
  BY DEF isNaN, Init, SingleFlight, CaughtUp, ShownIsSelected
<1>4. UprightUnlessRegressed
  BY DEF isNaN, Init, UprightUnlessRegressed, NewView
<1> QED
  BY <1>1, <1>2, <1>3, <1>4 DEF IInv

\* A range taken from a view is a range.
LEMMA RangeType ==
  ASSUME NEW v \in Views
  PROVE  /\ RangeOf(v) \in Ranges
         /\ RangeOf(v).start = v.start /\ RangeOf(v).end = v.end /\ RangeOf(v).num = v.num
BY DEF isNaN, Views, Ranges, RangeOf

\* A range that does not differ from a view is the view's range.
LEMMA NotDiffers ==
  ASSUME NEW v \in Views, NEW r \in Ranges
  PROVE  /\ ~Differs(r, v) => r = RangeOf(v) /\ ~isNaN(v)
         /\ ~isNaN(v) => ~Differs(RangeOf(v), v)
BY DEF isNaN, Views, Ranges, RangeOf, Differs

\* What updateRange (StackHistogram.tsx:24-31) leaves behind, whoever calls it:
\* nothing new is asked while a request is in flight, and an instance without
\* one has asked for the view's range.
LEMMA UpdateRange ==
  ASSUME NEW had \in Ranges, NEW v \in Views, NEW busy \in BOOLEAN,
         updateRange(had, v, busy, IF busy THEN {had} ELSE {})
  PROVE  /\ asked' \in Ranges /\ pending' \in BOOLEAN
         /\ inflight' = IF pending' THEN {asked'} ELSE {}
         /\ ~pending' => ~Differs(asked', v) /\ asked' = had /\ ~busy
         /\ pending' => (asked' = RangeOf(v) \/ (busy /\ asked' = had))
<1>1. CASE ~busy /\ Differs(had, v)
  BY <1>1, RangeType DEF updateRange
<1>2. CASE ~(~busy /\ Differs(had, v))
  BY <1>2 DEF updateRange
<1> QED
  BY <1>1, <1>2

\* The parts of the invariant that concern the histogram.
HistInv == SingleFlight /\ CaughtUp /\ ShownIsSelected /\ UprightUnlessRegressed

\* A view that is set on the selection (ProfileView.set and its listeners)
\* keeps the invariant of the histogram, if it is upright or an older answer
\* has arrived.
LEMMA ShowHistInv ==
  ASSUME IInv, NEW v \in Views, Show(v), UNCHANGED <<mounted, histogram>>,
         regressed' \in BOOLEAN, regressed => regressed',
         ~regressed' /\ ~isNaN(v) =>
           v.min <= v.start /\ v.start <= v.end /\ v.end <= v.max
  PROVE  /\ HistInv'
         /\ selected' \in Views /\ asked' \in Ranges /\ pending' \in BOOLEAN
         /\ inflight' \subseteq Ranges
<1>1. /\ asked \in Ranges /\ pending \in BOOLEAN /\ selected \in Views /\ mounted \in BOOLEAN
      /\ inflight = IF pending THEN {asked} ELSE {}
      /\ selected' = v /\ mounted' = mounted /\ histogram' = histogram
  BY DEF IInv, TypeOK, SingleFlight, Show
<1>2. CASE mounted
  <2>1. updateRange(asked, v, pending, IF pending THEN {asked} ELSE {})
    BY <1>1, <1>2 DEF Show
  <2>2. /\ asked' \in Ranges /\ pending' \in BOOLEAN
        /\ inflight' = IF pending' THEN {asked'} ELSE {}
        /\ ~pending' => ~Differs(asked', v) /\ asked' = asked /\ ~pending
        /\ pending' => (asked' = RangeOf(v) \/ (pending /\ asked' = asked))
    BY <1>1, <2>1, UpdateRange
  <2>3. SingleFlight' /\ CaughtUp'
    BY <1>1, <1>2, <2>2 DEF SingleFlight, CaughtUp
  <2>4. ShownIsSelected'
    <3> SUFFICES ASSUME ~pending' PROVE histogram \in {NoData, RangeOf(v)}
      BY <1>1, <2>2 DEF ShownIsSelected
    <3>1. inflight = {} /\ asked = RangeOf(v) /\ ~Differs(asked, selected)
      BY <1>1, <1>2, <2>2, NotDiffers DEF IInv, CaughtUp
    <3>2. asked = RangeOf(selected) /\ histogram \in {NoData, RangeOf(selected)}
      BY <1>1, <1>2, <3>1, NotDiffers DEF IInv, ShownIsSelected
    <3> QED
      BY <3>1, <3>2
  <2>5. UprightUnlessRegressed'
    <3> SUFFICES ASSUME ~regressed', NEW r \in inflight'
                 PROVE  isNaN(r) \/ r.start <= r.end
      BY <1>1 DEF UprightUnlessRegressed
    <3>1. CASE r = RangeOf(v)
      BY <3>1, RangeType DEF isNaN
    <3>2. CASE r = asked /\ pending
      BY <1>1, <3>2 DEF IInv, UprightUnlessRegressed
    <3> QED
      BY <2>2, <3>1, <3>2
  <2> QED
    BY <1>1, <2>2, <2>3, <2>4, <2>5 DEF HistInv
<1>3. CASE ~mounted
  BY <1>1, <1>3 DEF IInv, TypeOK, Show, HistInv, SingleFlight, CaughtUp, ShownIsSelected,
     UprightUnlessRegressed
<1> QED
  BY <1>1, <1>2, <1>3

\* The user's moves (ProfileViewSelector.tsx:38-43, ProfileView.tsx:57-69).
LEMMA MoveIInv ==
  ASSUME IInv, Select \/ Click \/ Translate \/ Rescale
  PROVE  IInv'
<1> USE TimeAssumption
<1>0. /\ UNCHANGED <<now, refresh, timeEnd, ready, globalView, regressed, mounted,
                     histogram, orphans, raised>>
      /\ selected \in Views /\ regressed \in BOOLEAN
  BY DEF Select, Click, Translate, Rescale, windowVars, IInv, TypeOK
<1>1. ASSUME NEW v \in Views, Show(v), v.min = selected.min, v.max = selected.max,
             ~isNaN(v) => v.min <= v.start /\ v.end <= v.max,
             ~regressed /\ ~isNaN(v) => v.start <= v.end
      PROVE  IInv'
  <2>1. /\ HistInv' /\ selected' \in Views /\ asked' \in Ranges
        /\ pending' \in BOOLEAN /\ inflight' \subseteq Ranges
    BY <1>0, <1>1, ShowHistInv
  <2>2. TypeOK'
    BY <1>0, <2>1 DEF IInv, TypeOK
  <2>3. Bounds'
    BY <1>0, <1>1 DEF IInv, Bounds, Show
  <2> QED
    BY <2>1, <2>2, <2>3 DEF IInv, HistInv
<1>2. /\ selected.start \in Int /\ selected.end \in Int
      /\ selected.min \in Int /\ selected.max \in Int
      /\ selected.min = globalView.start /\ selected.max = globalView.end
      /\ selected.min <= selected.max
      /\ ~isNaN(selected) => selected.min <= selected.start /\ selected.end <= selected.max
      /\ ~regressed /\ ~isNaN(selected) => selected.start <= selected.end
  BY <1>0 DEF IInv, TypeOK, Views, Bounds, UprightUnlessRegressed
<1>3. CASE Select
  <2> PICK s \in Time, e \in Time :
        /\ s <= e /\ s <= globalView.end /\ e >= globalView.start
        /\ Show(set(selected, s, e))
    BY <1>3 DEF Select
  <2>1. s \in Int /\ e \in Int
    OBVIOUS
  <2> DEFINE v == set(selected, s, e)
  <2>2. /\ v \in Views /\ v.min = selected.min /\ v.max = selected.max
        /\ v.start = MathMax(s, selected.min) /\ v.end = MathMin(e, selected.max)
    BY <1>0, <2>1, SetView
  <2> HIDE DEF v
  <2>3. v.min <= v.start /\ v.end <= v.max /\ v.start <= v.end
    BY <1>2, <2>1, <2>2 DEF MathMax, MathMin
  <2> QED
    BY <1>1, <2>2, <2>3 DEF v
<1>4. CASE Translate
  <2> PICK from \in Time, to \in Time : Show(translate(selected, to - from))
    BY <1>4 DEF Translate
  <2>1. to - from \in Int
    OBVIOUS
  <2> DEFINE v == translate(selected, to - from)
  <2>2. /\ v \in Views /\ v.min = selected.min /\ v.max = selected.max /\ v.num = selected.num
        /\ ~isNaN(selected) => v.min <= v.start /\ v.end <= v.max
    BY <1>0, <2>1, TranslateType
  <2>3. ~regressed /\ ~isNaN(selected) => interval(v) = interval(selected)
    BY <1>0, <1>2, <2>1, TranslateView
  <2>4. v.start \in Int /\ v.end \in Int /\ isNaN(v) = isNaN(selected)
    BY <2>2 DEF Views, isNaN
  <2> HIDE DEF v
  <2>5. ~regressed /\ ~isNaN(v) => v.start <= v.end
    BY <1>2, <2>3, <2>4 DEF interval
  <2> QED
    BY <1>1, <2>2, <2>4, <2>5 DEF v
<1>5. CASE Show(setNaN(selected))
  <2>1. /\ setNaN(selected) \in Views /\ isNaN(setNaN(selected))
        /\ setNaN(selected).min = selected.min /\ setNaN(selected).max = selected.max
    BY <1>0, NaNView
  <2> QED
    BY <1>1, <1>5, <2>1
<1>6. CASE Click
  <2>1. CASE ~isNaN(selected) /\ Show(set(selected, selected.start, selected.end))
    <3> DEFINE v == set(selected, selected.start, selected.end)
    <3>1. /\ v \in Views /\ v.min = selected.min /\ v.max = selected.max
          /\ v.start = MathMax(selected.start, selected.min)
          /\ v.end = MathMin(selected.end, selected.max)
      BY <1>0, <1>2, SetView
    <3> HIDE DEF v
    <3>2. v.start = selected.start /\ v.end = selected.end
      BY <1>2, <2>1, <3>1 DEF MathMax, MathMin
    <3> QED
      BY <1>1, <1>2, <2>1, <3>1, <3>2 DEF v
  <2> QED
    BY <1>5, <1>6, <2>1 DEF Click
<1>7. CASE Rescale
  <2>2. ASSUME NEW s \in Time, NEW e \in Time, ~isNaN(selected),
               rescaled(selected, s, e), Show(set(selected, s, e))
        PROVE  IInv'
    <3>1. s \in Int /\ e \in Int
      OBVIOUS
    <3> DEFINE v == set(selected, s, e)
    <3>2. /\ v \in Views /\ v.min = selected.min /\ v.max = selected.max
          /\ v.start = MathMax(s, selected.min) /\ v.end = MathMin(e, selected.max)
      BY <1>0, <3>1, SetView
    <3> HIDE DEF v
    <3>3. v.min <= v.start /\ v.end <= v.max
      BY <1>2, <3>1, <3>2 DEF MathMax, MathMin
    <3>4. ~regressed => v.start <= v.end
      BY <1>2, <2>2, <3>1, <3>2 DEF rescaled, MathMax, MathMin
    <3> QED
      BY <1>1, <2>2, <3>2, <3>3, <3>4 DEF v
  <2> QED
    BY <1>5, <1>7, <2>2 DEF Rescale
<1> QED
  BY <1>3, <1>4, <1>6, <1>7

\* Opening the histogram: a new instance asks for the selected range
\* (StackHistogram.tsx:16-20).
LEMMA MountIInv ==
  ASSUME IInv, Mount
  PROVE  IInv'
<1>0. /\ UNCHANGED <<now, refresh, timeEnd, ready, globalView, selected, regressed,
                     orphans, raised>>
      /\ mounted' = TRUE /\ histogram' = NoData
      /\ selected \in Views
      /\ updateRange(Zero, selected, FALSE, {})
  BY DEF Mount, windowVars, IInv, TypeOK
<1> Zero \in Ranges
  BY DEF Zero, Ranges
<1>1. updateRange(Zero, selected, FALSE, IF FALSE THEN {Zero} ELSE {})
  BY <1>0
<1>2. /\ asked' \in Ranges /\ pending' \in BOOLEAN
      /\ inflight' = IF pending' THEN {asked'} ELSE {}
      /\ ~pending' => ~Differs(asked', selected)
      /\ pending' => asked' = RangeOf(selected)
  BY <1>0, <1>1, UpdateRange
<1>3. TypeOK'
  BY <1>0, <1>2 DEF IInv, TypeOK
<1>4. Bounds'
  BY <1>0 DEF IInv, Bounds
<1>5. SingleFlight' /\ CaughtUp' /\ ShownIsSelected'
  BY <1>0, <1>2 DEF SingleFlight, CaughtUp, ShownIsSelected
<1>6. UprightUnlessRegressed'
  BY <1>0, <1>2, RangeType DEF IInv, UprightUnlessRegressed, isNaN
<1> QED
  BY <1>3, <1>4, <1>5, <1>6 DEF IInv

\* Closing it (StackHistogram.tsx:21-23), and an answer to a closed one.
LEMMA UnmountIInv ==
  ASSUME IInv, Unmount \/ OrphanReply
  PROVE  IInv'
<1>1. CASE Unmount
  <2>1. Cardinality(inflight) \in Nat
    <3>1. inflight = {} \/ inflight = {asked}
      BY DEF IInv, TypeOK, SingleFlight
    <3>2. Cardinality({}) = 0 /\ Cardinality({asked}) = 1
      BY FS_EmptySet, FS_Singleton
    <3> QED
      BY <3>1, <3>2
  <2>2. /\ UNCHANGED <<now, refresh, timeEnd, ready, globalView, selected, regressed, raised>>
        /\ mounted' = FALSE /\ asked' = Zero /\ pending' = FALSE /\ inflight' = {}
        /\ histogram' = NoData /\ orphans' = orphans + Cardinality(inflight)
    BY <1>1 DEF Unmount, windowVars
  <2>3. TypeOK'
    <3>1. asked' \in Ranges
      BY <2>2 DEF Zero, Ranges
    <3>2. orphans' \in Nat
      BY <2>1, <2>2 DEF IInv, TypeOK
    <3> QED
      BY <2>2, <3>1, <3>2 DEF IInv, TypeOK
  <2>4. Bounds'
    BY <2>2 DEF IInv, Bounds
  <2>5. SingleFlight' /\ CaughtUp' /\ ShownIsSelected' /\ UprightUnlessRegressed'
    BY <2>2 DEF IInv, SingleFlight, CaughtUp, ShownIsSelected, UprightUnlessRegressed
  <2> QED
    BY <2>3, <2>4, <2>5 DEF IInv
<1>2. CASE OrphanReply
  <2>1. /\ UNCHANGED <<now, refresh, timeEnd, ready, globalView, selected, regressed,
                       mounted, asked, pending, inflight, histogram>>
        /\ raised' = TRUE /\ orphans > 0 /\ orphans' = orphans - 1
    BY <1>2 DEF OrphanReply, windowVars, histVars
  <2>2. TypeOK'
    BY <2>1 DEF IInv, TypeOK
  <2> QED
    BY <2>1, <2>2 DEF IInv, Bounds, SingleFlight, CaughtUp, ShownIsSelected,
       UprightUnlessRegressed
<1> QED
  BY <1>1, <1>2

\* Both callbacks of a histogram request (StackHistogram.tsx:32-40).
LEMMA ReplyIInv ==
  ASSUME IInv, HistogramReply
  PROVE  IInv'
<1> PICK r \in inflight : Answered(r) \/ Fails(r)
  BY DEF HistogramReply
<1>1. /\ asked \in Ranges /\ selected \in Views /\ mounted \in BOOLEAN
      /\ r = asked /\ inflight = {asked} /\ mounted
  BY DEF IInv, TypeOK, SingleFlight
<1>2. /\ UNCHANGED <<now, refresh, timeEnd, ready, globalView, selected, regressed,
                     mounted, orphans, raised>>
      /\ histogram' \in {NoData, asked}
      /\ updateRange(asked, selected, FALSE, inflight \ {r})
  BY <1>1 DEF Answered, Fails, Landed, windowVars
<1>3. updateRange(asked, selected, FALSE, IF FALSE THEN {asked} ELSE {})
  <2>1. inflight \ {r} = {}
    BY <1>1
  <2> QED
    BY <1>2, <2>1
<1>4. /\ asked' \in Ranges /\ pending' \in BOOLEAN
      /\ inflight' = IF pending' THEN {asked'} ELSE {}
      /\ ~pending' => ~Differs(asked', selected) /\ asked' = asked
      /\ pending' => asked' = RangeOf(selected)
  BY <1>1, <1>3, UpdateRange
<1>5. TypeOK'
  BY <1>1, <1>2, <1>4 DEF IInv, TypeOK
<1>6. Bounds'
  BY <1>2 DEF IInv, Bounds
<1>7. SingleFlight' /\ CaughtUp'
  BY <1>1, <1>2, <1>4 DEF SingleFlight, CaughtUp
<1>8. ShownIsSelected'
  BY <1>1, <1>2, <1>4, NotDiffers DEF ShownIsSelected
<1>9. UprightUnlessRegressed'
  BY <1>1, <1>2, <1>4, RangeType DEF IInv, UprightUnlessRegressed, isNaN
<1> QED
  BY <1>5, <1>6, <1>7, <1>8, <1>9 DEF IInv

\* The answer of a refresh reaches the window (ProfilerWindow/index.tsx:24-29,
\* ProfileSampler.ts:112-125).
LEMMA RefreshedIInv ==
  ASSUME IInv, NEW i \in Refreshes, Refreshed(i)
  PROVE  IInv'
<1> USE TimeAssumption
<1> DEFINE te == timeEnd[i]
           g == getGlobalView(te)
           v == selectedAfter(g)
<1>0. /\ UNCHANGED <<now, timeEnd, mounted, histogram, orphans, raised>>
      /\ refresh' = [refresh EXCEPT ![i] = "done"]
      /\ globalView' = g /\ Show(v) /\ ready' = TRUE
      /\ regressed' = (regressed \/ (ready /\ te < globalView.end))
  BY DEF Refreshed
<1>1. /\ te \in Int /\ TimeStart \in Int /\ te >= TimeStart
      /\ selected \in Views /\ globalView \in Views
      /\ regressed \in BOOLEAN /\ ready \in BOOLEAN
  BY DEF IInv, TypeOK, Bounds
<1> HIDE DEF te
<1>2. /\ g \in Views /\ ~isNaN(g) /\ g.start = TimeStart /\ g.end = te
      /\ g.min = TimeStart /\ g.max = te
  <2>1. CASE ready
    <3> DEFINE c == clip(globalView, TimeStart, te)
    <3>1. c \in Views /\ c.min = TimeStart /\ c.max = te
      BY <1>1, ClipView
    <3>2. g = set(c, TimeStart, te)
      BY <2>1 DEF getGlobalView
    <3> HIDE DEF c
    <3> QED
      BY <1>1, <3>1, <3>2, SetView DEF MathMax, MathMin
  <2>2. CASE ~ready
    BY <1>1, <2>2 DEF getGlobalView, NewView, Views, isNaN
  <2> QED
    BY <2>1, <2>2
<1> HIDE DEF g
<1>3. /\ v \in Views /\ v.min = TimeStart /\ v.max = te
      /\ ~isNaN(v) => v.min <= v.start /\ v.end <= v.max
      /\ ~regressed' /\ ~isNaN(v) => v.start <= v.end
  <2>1. CASE ready
    <3>1. v = clip(selected, TimeStart, te)
      BY <1>2, <2>1 DEF selectedAfter
    <3>2. /\ v \in Views /\ v.min = TimeStart /\ v.max = te
          /\ v.num = selected.num
          /\ ~isNaN(selected) => /\ v.start = MathMax(selected.start, TimeStart)
                                 /\ v.end = MathMin(selected.end, te)
      BY <1>1, <3>1, ClipView
    <3>3. isNaN(v) = isNaN(selected)
      BY <3>2 DEF isNaN
    <3>4. /\ selected.start \in Int /\ selected.end \in Int
          /\ selected.max = globalView.end /\ selected.min = TimeStart
          /\ ~isNaN(selected) => selected.min <= selected.start /\ selected.end <= selected.max
          /\ ~regressed /\ ~isNaN(selected) => selected.start <= selected.end
          /\ globalView.end \in Int
      BY <1>1 DEF IInv, Views, Bounds, UprightUnlessRegressed
    <3>5. ~regressed' => ~regressed /\ ~(te < globalView.end)
      BY <1>0, <2>1, Zenon
    <3>6. ~(te < globalView.end) => te >= globalView.end
      BY <1>1, <3>4
    <3> HIDE DEF v
    <3> QED
      BY <1>1, <3>2, <3>3, <3>4, <3>5, <3>6 DEF MathMax, MathMin
  <2>2. CASE ~ready
    <3>1. v = NewView(TimeStart, te)
      BY <1>2, <2>2 DEF selectedAfter
    <3> QED
      BY <1>1, <3>1 DEF NewView, Views, isNaN
  <2> QED
    BY <2>1, <2>2
<1> HIDE DEF v
<1>4. regressed' \in BOOLEAN /\ (regressed => regressed')
  BY <1>0, <1>1
<1>5. /\ HistInv' /\ selected' \in Views /\ asked' \in Ranges
      /\ pending' \in BOOLEAN /\ inflight' \subseteq Ranges
  BY <1>0, <1>3, <1>4, ShowHistInv
<1>6. TypeOK'
  BY <1>0, <1>2, <1>4, <1>5 DEF IInv, TypeOK
<1>7. Bounds'
  <2>1. selected' = v
    BY <1>0 DEF Show
  <2> QED
    BY <1>0, <1>1, <1>2, <1>3, <2>1 DEF IInv, Bounds
<1> QED
  BY <1>5, <1>6, <1>7 DEF IInv, HistInv

\* The steps that only concern the requests of refreshes and the server.
LEMMA ServerIInv ==
  ASSUME IInv,
         Record \/ \E i \in Refreshes : handleRefresh(i) \/ ServerAnswers(i) \/ RefreshFails(i)
  PROVE  IInv'
<1> USE TimeAssumption
<1>1. /\ UNCHANGED <<ready, globalView, selected, regressed,
                     mounted, asked, pending, inflight, histogram, orphans, raised>>
  BY DEF Record, handleRefresh, ServerAnswers, RefreshFails, windowVars, histVars
<1>2. CASE Record
  <2>1. PICK t \in Time : t > now /\ now' = t
    BY <1>2 DEF Record
  <2>2. now' \in Int /\ now' >= TimeStart /\ UNCHANGED <<refresh, timeEnd>>
    BY <1>2, <2>1 DEF IInv, TypeOK, Bounds, Record, windowVars
  <2> QED
    BY <1>1, <2>2 DEF IInv, TypeOK, Bounds, SingleFlight, CaughtUp, ShownIsSelected,
       UprightUnlessRegressed
<1>3. ASSUME NEW i \in Refreshes, handleRefresh(i) \/ ServerAnswers(i) \/ RefreshFails(i)
      PROVE  IInv'
  <2>1. /\ now' = now /\ refresh' \in [Refreshes -> {"unsent", "sent", "answered", "done"}]
        /\ timeEnd' = timeEnd \/ timeEnd' = [timeEnd EXCEPT ![i] = now]
    BY <1>3 DEF handleRefresh, ServerAnswers, RefreshFails, IInv, TypeOK
  <2>2. /\ timeEnd' \in [Refreshes -> Int]
        /\ \A j \in Refreshes : timeEnd'[j] >= TimeStart
    BY <2>1 DEF IInv, TypeOK, Bounds
  <2> QED
    BY <1>1, <2>1, <2>2 DEF IInv, TypeOK, Bounds, SingleFlight, CaughtUp, ShownIsSelected,
       UprightUnlessRegressed
<1> QED
  BY <1>2, <1>3

\* IInv is inductive.
LEMMA NextIInv == IInv /\ [Next]_vars => IInv'
<1> SUFFICES ASSUME IInv, [Next]_vars PROVE IInv'
  OBVIOUS
<1>1. CASE Select \/ Click \/ Translate \/ Rescale
  BY <1>1, MoveIInv
<1>2. CASE Mount
  BY <1>2, MountIInv
<1>3. CASE Unmount \/ OrphanReply
  BY <1>3, UnmountIInv
<1>4. CASE HistogramReply
  BY <1>4, ReplyIInv
<1>5. CASE Record \/ \E i \in Refreshes : handleRefresh(i) \/ ServerAnswers(i) \/ RefreshFails(i)
  BY <1>5, ServerIInv
<1>6. CASE \E i \in Refreshes : Refreshed(i)
  BY <1>6, RefreshedIInv
<1>7. CASE UNCHANGED vars
  BY <1>7 DEF vars, IInv, TypeOK, Bounds, SingleFlight, CaughtUp, ShownIsSelected,
     UprightUnlessRegressed
<1> QED
  BY <1>1, <1>2, <1>3, <1>4, <1>5, <1>6, <1>7 DEF Next

\* The inductive invariant holds in every reachable state of the window.
THEOREM Safe == Spec => []IInv
  BY InitIInv, NextIInv, PTL DEF Spec

\* Type correctness of the profiler window.
THEOREM TypeCorrect == Spec => []TypeOK
<1>1. IInv => TypeOK
  BY DEF IInv
<1> QED
  BY Safe, <1>1, PTL

\* However the user and the server act, a histogram without a request in
\* flight has asked for the range selected now (StackHistogram.tsx:24-41).
THEOREM NeverLeftBehind == Spec => []CaughtUp
<1>1. IInv => CaughtUp
  BY DEF IInv
<1> QED
  BY Safe, <1>1, PTL

\* What such a histogram shows is the data of that range
\* (StackHistogram.tsx:24-41).
THEOREM NeverStale == Spec => []ShownIsSelected
<1>1. IInv => ShownIsSelected
  BY DEF IInv
<1> QED
  BY Safe, <1>1, PTL

\* The selection and the ranges asked for are upright as long as the answers
\* of refreshes arrive in order (ProfileView.tsx:117-144).
THEOREM NeverInverted == Spec => []UprightUnlessRegressed
<1>1. IInv => UprightUnlessRegressed
  BY DEF IInv
<1> QED
  BY Safe, <1>1, PTL

\* A refresh that does not shorten the recording leaves the selection alone
\* (ProfilerWindow/index.tsx:27).
THEOREM RefreshKeepsSelection == Spec => SelectionKept
<1>1. ASSUME IInv, NEW i \in Refreshes, Refreshed(i), ready, timeEnd[i] >= globalView.end
      PROVE  RangeOf(selected') = RangeOf(selected)
  <2> USE TimeAssumption
  <2> DEFINE te == timeEnd[i]
  <2>1. /\ te \in Int /\ TimeStart \in Int /\ selected \in Views /\ globalView \in Views
        /\ te >= selected.max /\ selected.min = TimeStart
    BY <1>1 DEF IInv, TypeOK, Bounds
  <2>2. getGlobalView(te).start = TimeStart /\ getGlobalView(te).end = te
    <3> DEFINE c == clip(globalView, TimeStart, te)
    <3>1. c \in Views /\ c.min = TimeStart /\ c.max = te
      BY <2>1, ClipView
    <3>2. getGlobalView(te) = set(c, TimeStart, te)
      BY <1>1 DEF getGlobalView
    <3> HIDE DEF c, te
    <3> QED
      BY <2>1, <3>1, <3>2, SetView DEF MathMax, MathMin
  <2>3. selected' = clip(selected, TimeStart, te)
    BY <1>1, <2>2 DEF Refreshed, Show, selectedAfter
  <2> HIDE DEF te
  <2>4. CASE isNaN(selected)
    BY <2>1, <2>3, <2>4, ClipView DEF RangeOf
  <2>5. CASE ~isNaN(selected)
    <3>1. /\ selected.start \in Int /\ selected.end \in Int /\ selected.max \in Int
          /\ selected.start >= TimeStart /\ selected.end <= te
      BY <1>1, <2>1, <2>5 DEF IInv, Bounds, Views
    <3> QED
      BY <2>1, <2>3, <2>5, <3>1, ClipView DEF RangeOf, MathMax, MathMin
  <2> QED
    BY <2>4, <2>5
<1>2. IInv /\ [Next]_vars =>
        [\A i \in Refreshes :
           Refreshed(i) /\ ready /\ timeEnd[i] >= globalView.end
             => RangeOf(selected') = RangeOf(selected)]_vars
  BY <1>1
<1> QED
  BY Safe, <1>2, PTL DEF Spec, SelectionKept

-----------------------------------------------------------------------------
(* The block cache.                                                        *)

\* A span is a set of blocks (ProfileSampler.ts:127-134).
LEMMA SpanType ==
  ASSUME NEW s \in Instants, NEW e \in Instants
  PROVE  getRangeSamples(s, e) \subseteq Blocks
<1>1. CASE s >= e
  BY <1>1 DEF getRangeSamples
<1>2. CASE ~(s >= e)
  <2> DEFINE l == level(e - s)
             a == Floor(s, l)
             b == Ceil(e, l)
  <2>1. s < e
    BY <1>2, SamplerAssumption
  <2>2. l \in Levels
    BY <2>1, LevelsAssumption DEF level
  <2> HIDE DEF l
  <2> HIDE DEF a, b
  <2>3. {<<l, i>> : i \in a..b} \subseteq Blocks
    BY <2>2 DEF Blocks
  <2> QED
    BY <1>2, <2>3 DEF getRangeSamples, l, a, b
<1> QED
  BY <1>1, <1>2

\* The initial state (ProfileSampler.ts:52-56).
LEMMA SamplerInitIInv == SamplerInit => SamplerIInv
<1> SUFFICES ASSUME SamplerInit PROVE SamplerIInv
  OBVIOUS
<1> USE SamplerAssumption
<1>1. SamplerTypeOK
  <2>1. Nothing \in [id : Ids, start : Int, end : Int, cached : BOOLEAN]
    BY DEF Nothing, Ids
  <2>2. shown \in [Chart -> [id : Ids, start : Int, end : Int, cached : BOOLEAN]]
    BY <2>1 DEF SamplerInit
  <2>3. batch \in [Fetches -> SUBSET Blocks]
    BY DEF SamplerInit
  <2>4. requests \in Ids
    BY DEF SamplerInit, Ids
  <2> QED
    BY <2>2, <2>3, <2>4 DEF SamplerInit, SamplerTypeOK
<1>2. Chain /\ Waiters /\ FetchedOnce /\ NobodyStranded /\ DrawnInOrder
  BY DEF SamplerInit, Chain, Waiters, FetchedOnce, NobodyStranded, DrawnInOrder
<1>3. DrawnLoaded
  BY DEF SamplerInit, DrawnLoaded, Nothing, getRangeSamples
<1>4. \A c \in Chart : shown[c].id <= requests
  BY DEF SamplerInit, Nothing
<1> QED
  BY <1>1, <1>2, <1>3, <1>4 DEF SamplerIInv

\* A call that has to wait (ProfileSampler.ts:99-104): it joins the waiting ones
\* or is rejected at once.
LEMMA WaitIInv ==
  ASSUME SamplerIInv, NEW c \in Chart, NEW s \in Instants, NEW e \in Instants, NEW on,
         requests < MaxRequests, requests' = requests + 1,
         Wait(c, s, e, on),
         on = loading', loading \subseteq on, on \subseteq Fetches,
         sent \subseteq sent', answered' = answered, failed' = failed,
         on \cap failed = {} =>
           /\ on \subseteq sent' \cup answered
           /\ on \cap sent' # {}
           /\ getRangeSamples(s, e) \subseteq UNION {batch'[f] : f \in on},
         \A f \in loading : batch'[f] = batch[f],
         loaded' = loaded
  PROVE  /\ Waiters' /\ NobodyStranded' /\ DrawnInOrder' /\ DrawnLoaded'
         /\ \A d \in Chart : shown'[d].id <= requests'
         /\ \A w \in waiting' :
              w.id \in Ids /\ w.chart \in Chart /\ w.start \in Int /\ w.end \in Int
              /\ w.on \subseteq Fetches
<1> USE SamplerAssumption
<1> DEFINE new == [id |-> requests + 1, chart |-> c, start |-> s, end |-> e, on |-> on]
<1>0. /\ requests \in Nat /\ requests + 1 \in Ids /\ s \in Int /\ e \in Int
      /\ \A d \in Chart : shown[d].id \in Nat /\ shown[d].id <= requests
      /\ \A w \in waiting : w.id \in Nat /\ w.id <= requests /\ w.chart \in Chart
      /\ shown' = shown
  BY DEF SamplerIInv, SamplerTypeOK, Waiters, Ids, Wait
<1>1. \/ waiting' = waiting
      \/ waiting' = waiting \cup {new} /\ on \cap failed = {}
  BY DEF Wait
<1>2. \A w \in waiting : w.on \subseteq loading
  BY DEF SamplerIInv, Waiters, Chain
<1>3. new.id = requests + 1 /\ new.chart = c /\ new.start = s /\ new.end = e /\ new.on = on
  OBVIOUS
<1> HIDE DEF new
<1>4. Waiters'
  <2> SUFFICES ASSUME NEW w \in waiting'
               PROVE  /\ w.id <= requests'
                      /\ w.on \subseteq sent' \cup answered'
                      /\ getRangeSamples(w.start, w.end) \subseteq UNION {batch'[f] : f \in w.on}
                      /\ \A v \in waiting' : w.id <= v.id => w.on \subseteq v.on
    BY DEF Waiters
  <2>1. CASE w \in waiting
    <3>1. w.id <= requests' /\ w.on \subseteq sent' \cup answered'
      BY <1>0, <2>1 DEF SamplerIInv, Waiters
    <3>2. {batch'[f] : f \in w.on} = {batch[f] : f \in w.on}
      BY <1>2, <2>1
    <3>3. getRangeSamples(w.start, w.end) \subseteq UNION {batch'[f] : f \in w.on}
      BY <2>1, <3>2 DEF SamplerIInv, Waiters
    <3>4. ASSUME NEW v \in waiting', w.id <= v.id PROVE w.on \subseteq v.on
      BY <1>1, <1>2, <1>3, <2>1, <3>4 DEF SamplerIInv, Waiters
    <3> QED
      BY <3>1, <3>3, <3>4
  <2>2. CASE w \notin waiting
    <3>1. w = new /\ waiting' = waiting \cup {new} /\ on \cap failed = {}
      BY <1>1, <2>2
    <3>2. \A v \in waiting' : w.id <= v.id => w.on \subseteq v.on
      BY <1>0, <1>3, <3>1
    <3> QED
      BY <1>0, <1>3, <3>1, <3>2
  <2> QED
    BY <2>1, <2>2
<1>5. NobodyStranded'
  BY <1>1, <1>3 DEF SamplerIInv, NobodyStranded
<1>6. DrawnInOrder'
  BY <1>0, <1>1, <1>3 DEF SamplerIInv, DrawnInOrder
<1>7. DrawnLoaded'
  BY <1>0 DEF SamplerIInv, DrawnLoaded
<1>8. \A d \in Chart : shown'[d].id <= requests'
  BY <1>0
<1>9. \A w \in waiting' :
        w.id \in Ids /\ w.chart \in Chart /\ w.start \in Int /\ w.end \in Int
        /\ w.on \subseteq Fetches
  BY <1>0, <1>1, <1>3 DEF SamplerIInv, SamplerTypeOK
<1> QED
  BY <1>4, <1>5, <1>6, <1>7, <1>8, <1>9

\* loadBlocks (ProfileSampler.ts:57-71, 88-92).
LEMMA LoadBlocksIInv ==
  ASSUME SamplerIInv, NEW c \in Chart, NEW s \in Instants, NEW e \in Instants,
         requests < MaxRequests, requests' = requests + 1,
         loadBlocks(c, s, e, getRangeSamples(s, e) \ (requested \cup loaded)),
         UNCHANGED <<answered, failed, loaded, hung>>
  PROVE  SamplerIInv'
<1> USE SamplerAssumption
<1> DEFINE f == requests + 1
           span == getRangeSamples(s, e)
           blocks == span \ (requested \cup loaded)
<1>1. /\ sent' = sent \cup {f} /\ batch' = [batch EXCEPT ![f] = blocks]
      /\ requested' = requested \cup blocks /\ loading' = loading \cup {f}
      /\ Wait(c, s, e, loading \cup {f})
      /\ UNCHANGED <<answered, failed, loaded, hung>>
  BY DEF loadBlocks
<1>2. f \in Fetches /\ f \in Ids /\ requests \in Nat
  BY DEF SamplerIInv, SamplerTypeOK, Ids, Fetches
<1>3. f \notin loading /\ batch[f] = {} /\ loading \subseteq Fetches
  BY <1>2 DEF SamplerIInv, SamplerTypeOK, Chain, Fetches
<1>4. blocks \subseteq Blocks
  BY SpanType
<1>5. /\ batch' \in [Fetches -> SUBSET Blocks] /\ batch'[f] = blocks
      /\ \A g \in Fetches : g # f => batch'[g] = batch[g]
  BY <1>1, <1>2, <1>4 DEF SamplerIInv, SamplerTypeOK
<1> HIDE DEF f
<1>6. /\ requested = UNION {batch[g] : g \in sent \cup failed}
      /\ loaded = UNION {batch[g] : g \in answered}
      /\ sent \subseteq Fetches /\ failed \subseteq Fetches /\ answered \subseteq Fetches
      /\ loading = sent \cup answered \cup failed
  BY DEF SamplerIInv, SamplerTypeOK, FetchedOnce, Chain
<1>7. /\ requested' = UNION {batch'[g] : g \in sent' \cup failed'}
      /\ loaded' = UNION {batch'[g] : g \in answered'}
  BY <1>1, <1>3, <1>5, <1>6
<1>8. \A g \in Fetches : batch[g] \cap blocks = {}
  <2> SUFFICES ASSUME NEW g \in Fetches PROVE batch[g] \cap blocks = {}
    OBVIOUS
  <2>1. CASE g \in loading
    <3>1. batch[g] \subseteq requested \cup loaded
      BY <1>6, <2>1
    <3> QED
      BY <3>1
  <2>2. CASE g \notin loading
    BY <2>2 DEF SamplerIInv, Chain
  <2> QED
    BY <2>1, <2>2
<1>9. FetchedOnce'
  <2>1. \A g, h \in Fetches : g # h => batch'[g] \cap batch'[h] = {}
    BY <1>2, <1>5, <1>8 DEF SamplerIInv, FetchedOnce
  <2> QED
    BY <1>7, <2>1 DEF FetchedOnce
<1>10. Chain'
  <2>1. \A g \in loading' : g <= requests'
    BY <1>1, <1>2, <1>3 DEF SamplerIInv, Chain, f, Fetches
  <2>2. \A g \in Fetches : g \notin loading' => batch'[g] = {}
    BY <1>1, <1>5 DEF SamplerIInv, Chain
  <2>3. f \notin answered /\ f \notin failed
    BY <1>3, <1>6
  <2> QED
    BY <1>1, <2>1, <2>2, <2>3 DEF SamplerIInv, Chain
<1>11. /\ Waiters' /\ NobodyStranded' /\ DrawnInOrder' /\ DrawnLoaded'
       /\ \A d \in Chart : shown'[d].id <= requests'
       /\ \A w \in waiting' :
            w.id \in Ids /\ w.chart \in Chart /\ w.start \in Int /\ w.end \in Int
            /\ w.on \subseteq Fetches
  <2> DEFINE on == loading \cup {f}
  <2>1. ASSUME on \cap failed = {}
        PROVE  /\ on \subseteq sent' \cup answered
               /\ on \cap sent' # {}
               /\ span \subseteq UNION {batch'[g] : g \in on}
    <3>1. on \subseteq sent' \cup answered /\ on \cap sent' # {}
      BY <1>1, <1>6, <2>1
    <3>2. UNION {batch'[g] : g \in on} = requested' \cup loaded'
      BY <1>1, <1>6, <1>7
    <3>3. span \subseteq requested' \cup loaded'
      BY <1>1
    <3> QED
      BY <3>1, <3>2, <3>3
  <2>2. on = loading' /\ loading \subseteq on /\ on \subseteq Fetches
    BY <1>1, <1>2, <1>3
  <2>3. \A g \in loading : batch'[g] = batch[g]
    BY <1>3, <1>5
  <2>4. Wait(c, s, e, on) /\ sent \subseteq sent' /\ answered' = answered /\ failed' = failed
        /\ loaded' = loaded
    BY <1>1
  <2> HIDE DEF on, span
  <2> QED
    BY <2>1, <2>2, <2>3, <2>4, WaitIInv DEF span
<1>12. SamplerTypeOK'
  <2>1. shown' = shown
    BY <1>1 DEF Wait
  <2>2. requests' \in Ids
    BY <1>2 DEF f
  <2> QED
    BY <1>1, <1>2, <1>4, <1>5, <1>11, <2>1, <2>2 DEF SamplerIInv, SamplerTypeOK
<1> QED
  BY <1>9, <1>10, <1>11, <1>12 DEF SamplerIInv

\* All blocks asked for, some missing (ProfileSampler.ts:102-104).
LEMMA AwaitIInv ==
  ASSUME SamplerIInv, NEW c \in Chart, NEW s \in Instants, NEW e \in Instants,
         requests < MaxRequests, requests' = requests + 1,
         AwaitBlocks(c, s, e, getRangeSamples(s, e)),
         UNCHANGED <<answered, failed, loaded, hung>>
  PROVE  SamplerIInv'
<1> USE SamplerAssumption
<1> DEFINE span == getRangeSamples(s, e)
<1>1. /\ span \subseteq requested \cup loaded /\ ~(span \subseteq loaded)
      /\ Wait(c, s, e, loading)
      /\ UNCHANGED <<sent, batch, requested, loading, answered, failed, loaded, hung>>
  BY DEF AwaitBlocks
<1>2. /\ requested = UNION {batch[g] : g \in sent \cup failed}
      /\ loaded = UNION {batch[g] : g \in answered}
      /\ loading = sent \cup answered \cup failed
      /\ loading \subseteq Fetches
      /\ requests \in Nat /\ requests + 1 \in Ids
      /\ \A g \in loading : g \in Nat /\ g <= requests
  BY DEF SamplerIInv, SamplerTypeOK, FetchedOnce, Chain, Ids, Fetches
<1> HIDE DEF span
<1>3. ASSUME loading \cap failed = {}
      PROVE  /\ loading \subseteq sent' \cup answered
             /\ loading \cap sent' # {}
             /\ span \subseteq UNION {batch'[g] : g \in loading}
  <2>1. failed = {}
    BY <1>2, <1>3
  <2>2. sent # {}
    BY <1>1, <1>2, <2>1
  <2>3. UNION {batch[g] : g \in loading} = requested \cup loaded
    BY <1>2
  <2> QED
    BY <1>1, <1>2, <2>1, <2>2, <2>3
<1>4. /\ Waiters' /\ NobodyStranded' /\ DrawnInOrder' /\ DrawnLoaded'
      /\ \A d \in Chart : shown'[d].id <= requests'
      /\ \A w \in waiting' :
           w.id \in Ids /\ w.chart \in Chart /\ w.start \in Int /\ w.end \in Int
           /\ w.on \subseteq Fetches
  BY <1>1, <1>2, <1>3, WaitIInv DEF span
<1>5. SamplerTypeOK'
  BY <1>1, <1>2, <1>4 DEF SamplerIInv, SamplerTypeOK, Wait
<1>6. FetchedOnce'
  BY <1>1 DEF SamplerIInv, FetchedOnce
<1>7. Chain'
  BY <1>1, <1>2 DEF SamplerIInv, Chain
<1> QED
  BY <1>4, <1>5, <1>6, <1>7 DEF SamplerIInv

\* All blocks there (ProfileSampler.ts:105).
LEMMA CachedIInv ==
  ASSUME SamplerIInv, NEW c \in Chart, NEW s \in Instants, NEW e \in Instants,
         requests < MaxRequests, requests' = requests + 1,
         CachedBlocks(c, s, e, getRangeSamples(s, e)),
         UNCHANGED <<answered, failed, loaded, hung>>
  PROVE  SamplerIInv'
<1> USE SamplerAssumption
<1> DEFINE new == [id |-> requests + 1, start |-> s, end |-> e, cached |-> TRUE]
<1>1. /\ getRangeSamples(s, e) \subseteq loaded /\ shown' = [shown EXCEPT ![c] = new]
      /\ UNCHANGED <<waiting, sent, batch, requested, loading, answered, failed, loaded, hung>>
  BY DEF CachedBlocks
<1>2. requests \in Nat /\ requests + 1 \in Ids /\ s \in Int /\ e \in Int
  BY DEF SamplerIInv, SamplerTypeOK, Ids
<1>3. /\ new \in [id : Ids, start : Int, end : Int, cached : BOOLEAN]
      /\ new.id = requests + 1 /\ new.start = s /\ new.end = e /\ new.cached
  BY <1>2
<1> HIDE DEF new
<1>4. /\ shown' \in [Chart -> [id : Ids, start : Int, end : Int, cached : BOOLEAN]]
      /\ shown'[c] = new /\ \A d \in Chart : d # c => shown'[d] = shown[d]
  BY <1>1, <1>3 DEF SamplerIInv, SamplerTypeOK
<1>5. SamplerTypeOK'
  BY <1>1, <1>2, <1>4 DEF SamplerIInv, SamplerTypeOK
<1>6. FetchedOnce' /\ NobodyStranded'
  BY <1>1 DEF SamplerIInv, FetchedOnce, NobodyStranded
<1>7. Chain'
  BY <1>1, <1>2 DEF SamplerIInv, Chain, SamplerTypeOK, Fetches
<1>8. Waiters'
  BY <1>1, <1>2 DEF SamplerIInv, Waiters, SamplerTypeOK, Ids
<1>9. DrawnLoaded'
  BY <1>1, <1>3, <1>4 DEF SamplerIInv, DrawnLoaded
<1>10. DrawnInOrder'
  <2> SUFFICES ASSUME NEW w \in waiting', shown'[w.chart].id > w.id
               PROVE  shown'[w.chart].cached
    BY DEF DrawnInOrder
  <2>1. w \in waiting /\ w.chart \in Chart
    BY <1>1 DEF SamplerIInv, SamplerTypeOK
  <2> QED
    BY <1>3, <1>4, <2>1 DEF SamplerIInv, DrawnInOrder
<1>11. \A d \in Chart : shown'[d].id <= requests'
  <2> SUFFICES ASSUME NEW d \in Chart PROVE shown'[d].id <= requests'
    OBVIOUS
  <2>1. shown[d].id \in Nat /\ shown[d].id <= requests
    BY DEF SamplerIInv, SamplerTypeOK, Ids
  <2> QED
    BY <1>2, <1>3, <1>4, <2>1
<1> QED
  BY <1>5, <1>6, <1>7, <1>8, <1>9, <1>10, <1>11 DEF SamplerIInv

\* A call that never comes back (ProfileSampler.ts:82).
LEMMA HangIInv ==
  ASSUME SamplerIInv, NEW c \in Chart, NEW s \in Instants, NEW e \in Instants, Hang(c, s, e)
  PROVE  SamplerIInv'
<1> USE SamplerAssumption
<1>1. /\ requests \in Nat /\ requests + 1 \in Ids /\ requests' = requests + 1
      /\ hung' = TRUE
      /\ UNCHANGED <<waiting, shown, sent, answered, failed, batch, loading, requested, loaded>>
  BY DEF Hang, SamplerIInv, SamplerTypeOK, Ids
<1>2. /\ \A g \in loading : g \in Nat /\ g <= requests
      /\ \A w \in waiting : w.id \in Nat /\ w.id <= requests
      /\ \A d \in Chart : shown[d].id \in Nat /\ shown[d].id <= requests
  BY DEF SamplerIInv, SamplerTypeOK, Chain, Waiters, Fetches, Ids
<1>3. SamplerTypeOK'
  BY <1>1 DEF SamplerIInv, SamplerTypeOK
<1>4. Chain'
  BY <1>1, <1>2 DEF SamplerIInv, Chain
<1>5. Waiters'
  BY <1>1, <1>2 DEF SamplerIInv, Waiters
<1>6. FetchedOnce' /\ DrawnLoaded' /\ NobodyStranded' /\ DrawnInOrder'
  BY <1>1, ZenonT(60) DEF SamplerIInv, FetchedOnce, DrawnLoaded, NobodyStranded, DrawnInOrder
<1> QED
  BY <1>1, <1>2, <1>3, <1>4, <1>5, <1>6 DEF SamplerIInv

\* An answer (ProfileSampler.ts:63-67): the results are drawn.
LEMMA LoadIInv ==
  ASSUME SamplerIInv, NEW f \in Fetches, load(f)
  PROVE  SamplerIInv'
<1> USE SamplerAssumption
<1> DEFINE done == answered \cup {f}
           results == {w \in waiting : w.on \subseteq done}
<1>1. /\ f \in sent /\ sent' = sent \ {f} /\ answered' = done
      /\ requested' = requested \ batch[f] /\ loaded' = loaded \cup batch[f]
      /\ shown' = Draw(results) /\ waiting' = waiting \ results
      /\ UNCHANGED <<requests, failed, batch, loading, hung>>
  BY DEF load
<1>2. /\ requested = UNION {batch[g] : g \in sent \cup failed}
      /\ loaded = UNION {batch[g] : g \in answered}
      /\ \A g, h \in Fetches : g # h => batch[g] \cap batch[h] = {}
      /\ loading = sent \cup answered \cup failed
      /\ sent \cap answered = {} /\ sent \cap failed = {} /\ answered \cap failed = {}
      /\ sent \subseteq Fetches /\ failed \subseteq Fetches /\ answered \subseteq Fetches
      /\ batch \in [Fetches -> SUBSET Blocks]
  BY DEF SamplerIInv, SamplerTypeOK, FetchedOnce, Chain
<1>3. FetchedOnce'
  <2>1. loaded' = UNION {batch'[g] : g \in answered'}
    BY <1>1, <1>2
  <2>2. requested' = UNION {batch'[g] : g \in sent' \cup failed'}
    <3>1. sent' \cup failed' = (sent \cup failed) \ {f}
      BY <1>1, <1>2
    <3>2. \A g \in (sent \cup failed) \ {f} : batch[g] \cap batch[f] = {}
      BY <1>2
    <3> QED
      BY <1>1, <1>2, <3>1, <3>2
  <2> QED
    BY <1>1, <1>2, <2>1, <2>2 DEF FetchedOnce
<1>4. Chain'
  BY <1>1, <1>2 DEF SamplerIInv, Chain
<1>5. Waiters'
  BY <1>1, <1>2 DEF SamplerIInv, Waiters
<1>6. NobodyStranded'
  <2> SUFFICES ASSUME NEW w \in waiting' PROVE w.on \cap sent' # {}
    BY DEF NobodyStranded
  <2>1. w \in waiting /\ ~(w.on \subseteq done)
    BY <1>1
  <2>2. w.on \subseteq sent \cup answered
    BY <2>1 DEF SamplerIInv, Waiters
  <2> QED
    BY <1>1, <2>1, <2>2
<1>7. ASSUME NEW c \in Chart
      PROVE  \/ shown'[c] = shown[c]
             \/ \E q \in Newest(results, c) :
                  shown'[c] = [id |-> q.id, start |-> q.start, end |-> q.end, cached |-> FALSE]
  <2>1. CASE Newest(results, c) = {}
    BY <1>1, <2>1 DEF Draw
  <2>2. CASE Newest(results, c) # {}
    <3> DEFINE q == CHOOSE q \in Newest(results, c) : TRUE
    <3>1. q \in Newest(results, c)
      BY <2>2
    <3>2. shown'[c] = [id |-> q.id, start |-> q.start, end |-> q.end, cached |-> FALSE]
      BY <1>1, <2>2 DEF Draw
    <3> HIDE DEF q
    <3> QED
      BY <3>1, <3>2
  <2> QED
    BY <2>1, <2>2
<1>8. ASSUME NEW c \in Chart, NEW q \in Newest(results, c)
      PROVE  /\ q \in waiting /\ q.on \subseteq done /\ q.chart = c
             /\ q.id \in Ids /\ q.start \in Int /\ q.end \in Int /\ q.id <= requests
             /\ getRangeSamples(q.start, q.end) \subseteq UNION {batch[g] : g \in q.on}
  BY DEF Newest, SamplerIInv, SamplerTypeOK, Waiters
<1> HIDE DEF results
<1>9. SamplerTypeOK'
  <2>1. ASSUME NEW c \in Chart
        PROVE  shown'[c] \in [id : Ids, start : Int, end : Int, cached : BOOLEAN]
    <3>1. CASE shown'[c] = shown[c]
      BY <3>1 DEF SamplerIInv, SamplerTypeOK
    <3>2. ASSUME NEW q \in Newest(results, c),
                 shown'[c] = [id |-> q.id, start |-> q.start, end |-> q.end, cached |-> FALSE]
          PROVE  shown'[c] \in [id : Ids, start : Int, end : Int, cached : BOOLEAN]
      BY <1>8, <3>2
    <3> QED
      BY <1>7, <3>1, <3>2
  <2>2. shown' \in [Chart -> [id : Ids, start : Int, end : Int, cached : BOOLEAN]]
    <3>1. shown' = [c \in Chart |-> shown'[c]]
      BY <1>1 DEF Draw
    <3> QED
      BY <2>1, <3>1
  <2> QED
    BY <1>1, <1>2, <2>2 DEF SamplerIInv, SamplerTypeOK
<1>10. DrawnLoaded'
  <2> SUFFICES ASSUME NEW c \in Chart
               PROVE  getRangeSamples(shown'[c].start, shown'[c].end) \subseteq loaded'
    BY DEF DrawnLoaded
  <2>1. CASE shown'[c] = shown[c]
    BY <1>1, <2>1 DEF SamplerIInv, DrawnLoaded
  <2>2. ASSUME NEW q \in Newest(results, c),
               shown'[c] = [id |-> q.id, start |-> q.start, end |-> q.end, cached |-> FALSE]
        PROVE  getRangeSamples(shown'[c].start, shown'[c].end) \subseteq loaded'
    <3>1. getRangeSamples(q.start, q.end) \subseteq UNION {batch[g] : g \in done}
      BY <1>8
    <3>2. UNION {batch[g] : g \in done} = loaded'
      BY <1>1, <1>2
    <3>3. shown'[c].start = q.start /\ shown'[c].end = q.end
      BY <2>2
    <3> QED
      BY <3>1, <3>2, <3>3
  <2> QED
    BY <1>7, <2>1, <2>2
<1>11. DrawnInOrder'
  <2> SUFFICES ASSUME NEW w \in waiting', shown'[w.chart].id > w.id
               PROVE  shown'[w.chart].cached
    BY DEF DrawnInOrder
  <2>1. w \in waiting /\ ~(w.on \subseteq done) /\ w.chart \in Chart /\ w.id \in Nat
    BY <1>1 DEF results, SamplerIInv, SamplerTypeOK, Ids
  <2>2. CASE shown'[w.chart] = shown[w.chart]
    BY <2>1, <2>2 DEF SamplerIInv, DrawnInOrder
  <2>3. ASSUME NEW q \in Newest(results, w.chart),
               shown'[w.chart] = [id |-> q.id, start |-> q.start, end |-> q.end, cached |-> FALSE]
        PROVE  FALSE
    <3>1. q.id > w.id
      BY <2>3
    <3>2. q \in waiting /\ q.on \subseteq done /\ q.id \in Nat
      BY <1>8, <2>1 DEF Ids
    <3>3. w.on \subseteq q.on
      BY <2>1, <3>1, <3>2 DEF SamplerIInv, Waiters
    <3> QED
      BY <2>1, <3>2, <3>3
  <2> QED
    BY <1>7, <2>1, <2>2, <2>3
<1>12. \A c \in Chart : shown'[c].id <= requests'
  <2> SUFFICES ASSUME NEW c \in Chart PROVE shown'[c].id <= requests
    BY <1>1
  <2>1. CASE shown'[c] = shown[c]
    BY <2>1 DEF SamplerIInv
  <2>2. ASSUME NEW q \in Newest(results, c),
               shown'[c] = [id |-> q.id, start |-> q.start, end |-> q.end, cached |-> FALSE]
        PROVE  shown'[c].id <= requests
    BY <1>8, <2>2
  <2> QED
    BY <1>7, <2>1, <2>2
<1> QED
  BY <1>3, <1>4, <1>5, <1>6, <1>9, <1>10, <1>11, <1>12 DEF SamplerIInv

\* A failure: the calls that wait for it are rejected, its blocks are lost.
LEMMA FailIInv ==
  ASSUME SamplerIInv, NEW f \in Fetches, LoadFails(f)
  PROVE  SamplerIInv'
<1> USE SamplerAssumption
<1>1. /\ f \in sent /\ sent' = sent \ {f} /\ failed' = failed \cup {f}
      /\ waiting' = {w \in waiting : f \notin w.on}
      /\ UNCHANGED <<requests, shown, answered, batch, loading, requested, loaded, hung>>
  BY DEF LoadFails
<1>2. SamplerTypeOK'
  BY <1>1 DEF SamplerIInv, SamplerTypeOK
<1>3. Chain'
  BY <1>1 DEF SamplerIInv, Chain
<1>4. Waiters' /\ NobodyStranded'
  BY <1>1 DEF SamplerIInv, Waiters, NobodyStranded
<1>5. FetchedOnce'
  <2>1. sent' \cup failed' = sent \cup failed
    BY <1>1
  <2> QED
    BY <1>1, <2>1 DEF SamplerIInv, FetchedOnce
<1>6. DrawnLoaded' /\ DrawnInOrder' /\ \A c \in Chart : shown'[c].id <= requests'
  BY <1>1 DEF SamplerIInv, DrawnLoaded, DrawnInOrder
<1> QED
  BY <1>2, <1>3, <1>4, <1>5, <1>6 DEF SamplerIInv

\* SamplerIInv is inductive.
LEMMA SamplerNextIInv == SamplerIInv /\ [SamplerNext]_samplerVars => SamplerIInv'
<1> SUFFICES ASSUME SamplerIInv, [SamplerNext]_samplerVars PROVE SamplerIInv'
  OBVIOUS
<1>1. ASSUME NEW c \in Chart, NEW s \in Instants, NEW e \in Instants, update(c, s, e)
      PROVE  SamplerIInv'
  <2>1. /\ requests < MaxRequests /\ requests' = requests + 1
        /\ UNCHANGED <<answered, failed, loaded, hung>>
        /\ \/ loadBlocks(c, s, e, getRangeSamples(s, e) \ (requested \cup loaded))
           \/ AwaitBlocks(c, s, e, getRangeSamples(s, e))
           \/ CachedBlocks(c, s, e, getRangeSamples(s, e))
    BY <1>1 DEF update
  <2> QED
    BY <2>1, LoadBlocksIInv, AwaitIInv, CachedIInv
<1>2. ASSUME NEW c \in Chart, NEW s \in Instants, NEW e \in Instants, Hang(c, s, e)
      PROVE  SamplerIInv'
  BY <1>2, HangIInv
<1>3. ASSUME NEW f \in Fetches, load(f) PROVE SamplerIInv'
  BY <1>3, LoadIInv
<1>4. ASSUME NEW f \in Fetches, LoadFails(f) PROVE SamplerIInv'
  BY <1>4, FailIInv
<1>5. CASE UNCHANGED samplerVars
  BY <1>5 DEF samplerVars, SamplerIInv, SamplerTypeOK, Chain, Waiters, FetchedOnce, DrawnLoaded, NobodyStranded,
     DrawnInOrder
<1> QED
  BY <1>1, <1>2, <1>3, <1>4, <1>5 DEF SamplerNext

-----------------------------------------------------------------------------

\* The inductive invariant holds in every state (ProfileSampler.ts:57-106).
THEOREM SamplerSafe == SamplerSpec => []SamplerIInv
BY SamplerInitIInv, SamplerNextIInv, PTL DEF SamplerSpec

\* The variables keep their types.
THEOREM SamplerTypeCorrect == SamplerSpec => []SamplerTypeOK
<1>1. SamplerIInv => SamplerTypeOK
  BY DEF SamplerIInv
<1> QED
  BY SamplerSafe, <1>1, PTL

\* A chart never gets a block without samples (SamplesGraph.tsx:60-62,
\* ProfileSampler.ts:99-105).
THEOREM NoUndefinedSamples == SamplerSpec => []DrawnLoaded
<1>1. SamplerIInv => DrawnLoaded
  BY DEF SamplerIInv
<1> QED
  BY SamplerSafe, <1>1, PTL

\* No block is fetched twice or forgotten (ProfileSampler.ts:82-97).
THEOREM EachBlockOnce == SamplerSpec => []FetchedOnce
<1>1. SamplerIInv => FetchedOnce
  BY DEF SamplerIInv
<1> QED
  BY SamplerSafe, <1>1, PTL

\* No call of getBlockSpan waits for nothing (ProfileSampler.ts:68-70, 99-105).
THEOREM NoStrandedCall == SamplerSpec => []NobodyStranded
<1>1. SamplerIInv => NobodyStranded
  BY DEF SamplerIInv
<1> QED
  BY SamplerSafe, <1>1, PTL

\* Calls that wait are drawn in their order (SamplesGraph.tsx:140-147,
\* ProfileSampler.ts:68-70).
THEOREM OrderKept == SamplerSpec => []DrawnInOrder
<1>1. SamplerIInv => DrawnInOrder
  BY DEF SamplerIInv
<1> QED
  BY SamplerSafe, <1>1, PTL

-----------------------------------------------------------------------------
(* The browser of objects and the memory window.                           *)

\* What updateRange leaves of the browser, whether it asks or not
\* (ObjectsBrowser.tsx:27-47).
LEMMA BrowserUpdated ==
  ASSUME NEW b, NEW r,
         b = [range |-> b.range, filter |-> b.filter, applied |-> b.applied, objects |-> b.objects, pending |-> b.pending, closed |-> b.closed],
         b.pending # NoRequest => b.pending = <<b.range, b.pending[2]>>,
         b.pending # NoRequest => b.objects = NoRequest
  PROVE  LET n == browserUpdateRange(b, r) IN
         /\ n = [range |-> n.range, filter |-> n.filter, applied |-> n.applied, objects |-> n.objects, pending |-> n.pending, closed |-> n.closed]
         /\ n.closed = b.closed
         /\ n.pending # NoRequest => n.pending = <<n.range, n.pending[2]>> /\ n.objects = NoRequest
         /\ b.pending = NoRequest => n.range = r
         /\ n.pending = NoRequest => n.range = r
         /\ n.objects # NoRequest => n.objects = b.objects /\ n.applied = b.applied /\ b.pending = NoRequest /\ b.range = r
<1>1. CASE b.pending = NoRequest /\ (b.range # r \/ b.applied # b.filter)
  <2>1. browserUpdateRange(b, r) = [range |-> r, filter |-> b.filter, applied |-> b.applied, objects |-> NoRequest, pending |-> <<r, b.filter>>, closed |-> b.closed]
    BY <1>1 DEF browserUpdateRange
  <2> QED
    BY <1>1, <2>1
<1>2. CASE ~(b.pending = NoRequest /\ (b.range # r \/ b.applied # b.filter))
  <2>1. browserUpdateRange(b, r) = b
    BY <1>2, Zenon DEF browserUpdateRange
  <2> QED
    BY <1>2, <2>1
<1> QED
  BY <1>1, <1>2

\* Every view that listens is updated when the range is set.
LEMMA SelectionSet ==
  ASSUME ViewsIInv, NEW r, selectionSet(r)
  PROVE  /\ browser' = [range |-> browser'.range, filter |-> browser'.filter, applied |-> browser'.applied, objects |-> browser'.objects,
                        pending |-> browser'.pending, closed |-> browser'.closed]
         /\ browser'.closed \in BOOLEAN
         /\ ~browser'.closed => /\ browser'.objects # NoRequest => browser'.objects = <<selection', browser'.applied>>
                                /\ browser'.pending = NoRequest => browser'.range = selection'
                                /\ browser'.pending # NoRequest => browser'.objects = NoRequest
                                /\ selector' = selection'
         /\ browser'.pending # NoRequest => browser'.pending = <<browser'.range, browser'.pending[2]>>
<1> DEFINE n == browserUpdateRange(browser, r)
<1>0. /\ selection' = r /\ selector' = r
      /\ browser' = IF browser.closed THEN browser ELSE n
  BY DEF selectionSet
<1>1. CASE browser.closed
  <2>1. browser' = browser
    BY <1>0, <1>1
  <2> QED
    BY <1>1, <2>1 DEF ViewsIInv, ViewsTypeOK, RequestTrue
<1>2. CASE ~browser.closed
  <2>1. browser' = n
    BY <1>0, <1>2
  <2>2. /\ browser = [range |-> browser.range, filter |-> browser.filter, applied |-> browser.applied, objects |-> browser.objects,
                      pending |-> browser.pending, closed |-> browser.closed]
        /\ browser.closed \in BOOLEAN
        /\ browser.pending # NoRequest => browser.pending = <<browser.range, browser.pending[2]>>
        /\ browser.pending # NoRequest => browser.objects = NoRequest
        /\ browser.objects # NoRequest => browser.objects = <<selection, browser.applied>>
        /\ browser.pending = NoRequest => browser.range = selection
    BY <1>2 DEF ViewsIInv, ViewsTypeOK, RequestTrue, ObjectsCurrent
  <2>3. /\ n = [range |-> n.range, filter |-> n.filter, applied |-> n.applied, objects |-> n.objects, pending |-> n.pending, closed |-> n.closed]
        /\ n.closed = browser.closed
        /\ n.pending # NoRequest => n.pending = <<n.range, n.pending[2]>> /\ n.objects = NoRequest
        /\ browser.pending = NoRequest => n.range = r
        /\ n.pending = NoRequest => n.range = r
        /\ n.objects # NoRequest => n.objects = browser.objects /\ n.applied = browser.applied /\ browser.pending = NoRequest /\ browser.range = r
    BY <2>2, BrowserUpdated
  <2> HIDE DEF n
  <2> QED
    BY <1>0, <1>2, <2>1, <2>2, <2>3
<1> QED
  BY <1>1, <1>2

\* An answer or a failure ends the request, and what changed meanwhile is asked for
\* (ObjectsBrowser.tsx:36-44); so does applyFilter when nothing is pending.
LEMMA BrowserAsks ==
  ASSUME ViewsIInv, NEW b, ~browser.closed, browser' = browserUpdateRange(b, selection),
         UNCHANGED <<selection, selector, grabReaction, WindowVars>>,
         b = [range |-> browser.range, filter |-> browser.filter, applied |-> b.applied, objects |-> b.objects, pending |-> b.pending, closed |-> FALSE],
         \/ b = browser
         \/ b.pending = NoRequest /\ b.objects = <<browser.range, b.applied>>
         \/ b.pending = NoRequest /\ b.objects = NoRequest
  PROVE  ViewsIInv'
<1>1. /\ browser = [range |-> browser.range, filter |-> browser.filter, applied |-> browser.applied, objects |-> browser.objects,
                    pending |-> browser.pending, closed |-> browser.closed]
      /\ browser.pending # NoRequest => browser.pending = <<browser.range, browser.pending[2]>>
      /\ browser.pending # NoRequest => browser.objects = NoRequest
      /\ browser.objects # NoRequest => browser.objects = <<selection, browser.applied>>
      /\ browser.pending = NoRequest => browser.range = selection
      /\ grabReaction = NoGrab => selector = selection
  BY DEF ViewsIInv, ViewsTypeOK, RequestTrue, ObjectsCurrent
<1>2. /\ b.range = browser.range /\ b.filter = browser.filter /\ b.closed = FALSE
      /\ b = [range |-> b.range, filter |-> b.filter, applied |-> b.applied, objects |-> b.objects, pending |-> b.pending, closed |-> b.closed]
  OBVIOUS
<1>3. /\ b.pending # NoRequest => b.pending = <<b.range, b.pending[2]>>
      /\ b.pending # NoRequest => b.objects = NoRequest
      /\ b.objects # NoRequest => b.objects = <<b.range, b.applied>>
  <2>1. CASE b = browser
    BY <1>1, <2>1
  <2>2. CASE b # browser
    BY <1>2, <2>2
  <2> QED
    BY <2>1, <2>2
<1>4. /\ browser' = [range |-> browser'.range, filter |-> browser'.filter, applied |-> browser'.applied, objects |-> browser'.objects,
                     pending |-> browser'.pending, closed |-> browser'.closed]
      /\ browser'.closed = b.closed
      /\ browser'.pending # NoRequest => browser'.pending = <<browser'.range, browser'.pending[2]>> /\ browser'.objects = NoRequest
      /\ browser'.pending = NoRequest => browser'.range = selection
      /\ browser'.objects # NoRequest => browser'.objects = b.objects /\ browser'.applied = b.applied /\ b.pending = NoRequest /\ b.range = selection
  BY <1>2, <1>3, BrowserUpdated
<1>5. selection' = selection /\ selector' = selector /\ grabReaction' = grabReaction
      /\ window' = window /\ pagesAsked' = pagesAsked /\ objectCount' = objectCount
  BY DEF WindowVars
<1>6. browser'.objects # NoRequest => browser'.objects = <<selection', browser'.applied>>
  BY <1>2, <1>3, <1>4, <1>5
<1>7. ObjectsCurrent'
  BY <1>1, <1>4, <1>5, <1>6 DEF ObjectsCurrent
<1>8. RequestTrue' /\ PageTrue'
  BY <1>4, <1>5 DEF RequestTrue, PageTrue, ViewsIInv
<1>9. ViewsTypeOK'
  BY <1>2, <1>4, <1>5 DEF ViewsIInv, ViewsTypeOK
<1> QED
  BY <1>7, <1>8, <1>9 DEF ViewsIInv

LEMMA ViewsInitIInv == ViewsInit => ViewsIInv
<1> SUFFICES ASSUME ViewsInit PROVE ViewsIInv
  OBVIOUS
<1>1. /\ selection = Whole /\ selector = Whole /\ browser = browserUpdateRange(Fresh, Whole)
      /\ window = [pageIndex |-> 0, pageCount |-> 0, objects |-> {}] /\ pagesAsked = {0} /\ objectCount \in Nat
  BY ViewsAssumption DEF ViewsInit
<1>2. /\ browser = [range |-> browser.range, filter |-> browser.filter, applied |-> browser.applied, objects |-> browser.objects,
                    pending |-> browser.pending, closed |-> browser.closed]
      /\ browser.closed = FALSE
      /\ browser.pending # NoRequest => browser.pending = <<browser.range, browser.pending[2]>> /\ browser.objects = NoRequest
      /\ browser.pending = NoRequest => browser.range = Whole
      /\ browser.objects = NoRequest
  <2>1. Fresh.pending = NoRequest /\ Fresh.objects = NoRequest /\ Fresh.closed = FALSE
    BY DEF Fresh
  <2>2. Fresh = [range |-> Fresh.range, filter |-> Fresh.filter, applied |-> Fresh.applied, objects |-> Fresh.objects, pending |-> Fresh.pending, closed |-> Fresh.closed]
    BY DEF Fresh
  <2> QED
    BY <1>1, <2>1, <2>2, BrowserUpdated
<1> QED
  <2>1. ObjectsCurrent /\ RequestTrue
    BY <1>1, <1>2 DEF ObjectsCurrent, RequestTrue
  <2>2. grabReaction = [from |-> grabReaction.from, at |-> grabReaction.at]
    BY DEF ViewsInit, NoGrab
  <2>3. /\ window.pageIndex \in Int /\ window.pageCount \in Nat /\ window.objects \subseteq Int
        /\ pagesAsked \subseteq Int /\ objectCount \in Nat
    BY <1>1
  <2>4. browser.closed \in BOOLEAN
    BY <1>2
  <2>5. ViewsTypeOK
    BY <1>2, <2>2, <2>3, <2>4, Zenon DEF ViewsTypeOK
  <2>6. PageTrue
    BY <1>1 DEF PageTrue
  <2> QED
    BY <2>1, <2>5, <2>6 DEF ViewsIInv

\* The selector and the other views change the selection.
LEMMA SelectingIInv ==
  ASSUME ViewsIInv, SelectElsewhere \/ MouseDown \/ MouseMove \/ MouseUp
  PROVE  ViewsIInv'
<1>0. window' = window /\ pagesAsked' = pagesAsked /\ objectCount' = objectCount
  BY DEF SelectElsewhere, MouseDown, MouseMove, MouseUp, WindowVars
<1>1. ASSUME NEW r, selectionSet(r), grabReaction' = [from |-> grabReaction'.from, at |-> grabReaction'.at] PROVE ViewsIInv'
  <2>1. ObjectsCurrent'
    BY <1>1, SelectionSet DEF ObjectsCurrent
  <2>2. RequestTrue' /\ PageTrue'
    BY <1>0, <1>1, SelectionSet DEF RequestTrue, PageTrue, ViewsIInv
  <2>3. ViewsTypeOK'
    BY <1>0, <1>1, SelectionSet DEF ViewsTypeOK, ViewsIInv
  <2> QED
    BY <2>1, <2>2, <2>3 DEF ViewsIInv
<1>2. ASSUME grabReaction' # NoGrab, grabReaction' = [from |-> grabReaction'.from, at |-> grabReaction'.at], selection' = selection, browser' = browser
      PROVE  ViewsIInv'
  BY <1>0, <1>2 DEF ViewsIInv, ObjectsCurrent, RequestTrue, ViewsTypeOK, PageTrue
<1>0a. grabReaction = [from |-> grabReaction.from, at |-> grabReaction.at]
  BY DEF ViewsIInv, ViewsTypeOK
<1>3. CASE SelectElsewhere
  <2>1. grabReaction' = grabReaction
    BY <1>3 DEF SelectElsewhere
  <2> QED
    BY <1>0a, <1>1, <1>3, <2>1 DEF SelectElsewhere
<1>4. CASE MouseDown
  <2>1. PICK x \in Positions : grabReaction' = [from |-> x, at |-> x]
    BY <1>4 DEF MouseDown
  <2>2. grabReaction' # NoGrab /\ grabReaction' = [from |-> grabReaction'.from, at |-> grabReaction'.at]
    BY <2>1, ViewsAssumption DEF NoGrab
  <2> QED
    BY <1>1, <1>2, <1>4, <2>2 DEF MouseDown
<1>5. CASE MouseMove
  <2>1. PICK y \in Positions : grabReaction' = [grabReaction EXCEPT !.at = y] /\ selection' = selection /\ browser' = browser
    BY <1>5 DEF MouseMove
  <2>2. grabReaction' = [from |-> grabReaction.from, at |-> y]
    BY <1>0a, <2>1
  <2>3. grabReaction' # NoGrab /\ grabReaction' = [from |-> grabReaction'.from, at |-> grabReaction'.at]
    BY <2>2, ViewsAssumption DEF NoGrab
  <2> QED
    BY <1>2, <2>1, <2>3
<1>6. CASE MouseUp
  <2>1. grabReaction' = [from |-> grabReaction'.from, at |-> grabReaction'.at]
    BY <1>6 DEF MouseUp, NoGrab
  <2> QED
    BY <1>1, <1>6, <2>1 DEF MouseUp
<1> QED
  BY <1>3, <1>4, <1>5, <1>6

\* The filter, the answers and the end of the browser.
LEMMA BrowsingIInv ==
  ASSUME ViewsIInv, handleFilter \/ applyFilter \/ BrowserAnswer \/ BrowserFails \/ BrowserCloses
  PROVE  ViewsIInv'
<1>0. /\ browser = [range |-> browser.range, filter |-> browser.filter, applied |-> browser.applied, objects |-> browser.objects,
                    pending |-> browser.pending, closed |-> browser.closed]
      /\ browser.pending # NoRequest => browser.pending = <<browser.range, browser.pending[2]>>
      /\ browser.pending # NoRequest /\ ~browser.closed => browser.objects = NoRequest
      /\ browser.closed \in BOOLEAN
  BY DEF ViewsIInv, ViewsTypeOK, RequestTrue, ObjectsCurrent
<1>1. CASE applyFilter
  BY <1>0, <1>1, BrowserAsks DEF applyFilter
<1>2. CASE BrowserAnswer
  <2> DEFINE b == Received(browser)
  <2>1. b = [range |-> browser.range, filter |-> browser.filter, applied |-> browser.pending[2], objects |-> browser.pending,
             pending |-> NoRequest, closed |-> browser.closed]
    BY DEF Received
  <2>2. browser' = browserUpdateRange(b, selection) /\ ~browser.closed /\ browser.pending # NoRequest /\ browser.closed = FALSE
    BY <1>0, <1>2, Zenon DEF BrowserAnswer
  <2>3. UNCHANGED <<selection, selector, grabReaction, WindowVars>>
    BY <1>2 DEF BrowserAnswer
  <2>4. b.pending = NoRequest /\ b.objects = <<browser.range, b.applied>>
    BY <1>0, <2>1, <2>2
  <2>5. b = [range |-> browser.range, filter |-> browser.filter, applied |-> b.applied, objects |-> b.objects, pending |-> b.pending, closed |-> FALSE]
    <3>1. b = [range |-> browser.range, filter |-> browser.filter, applied |-> b.applied, objects |-> b.objects, pending |-> b.pending, closed |-> browser.closed]
      BY <2>1
    <3> HIDE DEF b
    <3> QED
      BY <2>2, <3>1, Zenon
  <2> HIDE DEF b
  <2> QED
    BY <2>2, <2>3, <2>4, <2>5, BrowserAsks
<1>3. CASE BrowserFails
  <2> DEFINE b == [range |-> browser.range, filter |-> browser.filter, applied |-> browser.applied, objects |-> browser.objects,
                   pending |-> NoRequest, closed |-> FALSE]
  <2>0. browser.closed = FALSE
    BY <1>0, <1>3, Zenon DEF BrowserFails
  <2>1. [browser EXCEPT !.pending = NoRequest] = b
    <3>1. [browser EXCEPT !.pending = NoRequest]
            = [range |-> browser.range, filter |-> browser.filter, applied |-> browser.applied, objects |-> browser.objects,
               pending |-> NoRequest, closed |-> browser.closed]
      BY <1>0
    <3> QED
      BY <2>0, <3>1, Zenon
  <2>2. browser' = browserUpdateRange(b, selection) /\ ~browser.closed /\ browser.pending # NoRequest
    BY <1>3, <2>1 DEF BrowserFails
  <2>3. UNCHANGED <<selection, selector, grabReaction, WindowVars>>
    BY <1>3 DEF BrowserFails
  <2>4. b.pending = NoRequest /\ b.objects = NoRequest
    BY <1>0, <2>2
  <2>5. b = [range |-> browser.range, filter |-> browser.filter, applied |-> b.applied, objects |-> b.objects, pending |-> b.pending, closed |-> FALSE]
    OBVIOUS
  <2> HIDE DEF b
  <2> QED
    BY <2>2, <2>3, <2>4, <2>5, BrowserAsks
<1>4. CASE handleFilter
  <2>1. PICK f \in Filters \cup {NULL} : browser' = [browser EXCEPT !.filter = f] /\ UNCHANGED <<selection, selector, grabReaction, WindowVars>>
    BY <1>4 DEF handleFilter
  <2>2. browser' = [range |-> browser.range, filter |-> f, applied |-> browser.applied, objects |-> browser.objects,
                    pending |-> browser.pending, closed |-> browser.closed]
    BY <1>0, <2>1
  <2>3. ObjectsCurrent'
    BY <2>1, <2>2 DEF ViewsIInv, ObjectsCurrent
  <2>4. RequestTrue' /\ PageTrue'
    BY <1>0, <2>1, <2>2 DEF RequestTrue, PageTrue, ViewsIInv, WindowVars
  <2>5. ViewsTypeOK'
    BY <1>0, <2>1, <2>2 DEF ViewsTypeOK, ViewsIInv, WindowVars
  <2> QED
    BY <2>3, <2>4, <2>5 DEF ViewsIInv
<1>5. CASE BrowserCloses
  <2>1. browser' = [range |-> browser.range, filter |-> browser.filter, applied |-> browser.applied, objects |-> browser.objects,
                    pending |-> NoRequest, closed |-> TRUE]
    BY <1>0, <1>5 DEF BrowserCloses
  <2>2. UNCHANGED <<selection, selector, grabReaction, WindowVars>>
    BY <1>5 DEF BrowserCloses
  <2>3. ObjectsCurrent'
    BY <2>1 DEF ObjectsCurrent
  <2>4. RequestTrue' /\ PageTrue'
    BY <2>1, <2>2 DEF RequestTrue, PageTrue, ViewsIInv, WindowVars
  <2>5. ViewsTypeOK'
    BY <2>1, <2>2 DEF ViewsTypeOK, ViewsIInv, WindowVars
  <2> QED
    BY <2>3, <2>4, <2>5 DEF ViewsIInv
<1> QED
  BY <1>1, <1>2, <1>3, <1>4, <1>5

\* Objects are numbered from 0: those of a page are its own, and those after the last
\* page are none (MemoryWindow/index.tsx:82-92).
LEMMA ObjectsOfPage ==
  ASSUME NEW page \in Int, NEW n \in Nat
  PROVE  LET count == (n + objectsPerPage - 1) \div objectsPerPage
             objects == {o \in (page * objectsPerPage)..((page + 1) * objectsPerPage - 1) : 0 <= o /\ o < n} IN
         /\ count \in Nat
         /\ page > count - 1 => objects = {}
         /\ objects \subseteq Int
         /\ objects \subseteq (page * objectsPerPage)..((page + 1) * objectsPerPage - 1)
<1> DEFINE k == objectsPerPage
           c == (n + k - 1) \div k
<1>1. k \in Nat /\ k >= 1
  BY ViewsAssumption
<1>2. n + k - 1 \in Nat
  BY <1>1
<1>3. c \in Nat /\ n + k - 1 < (c + 1) * k
  BY <1>1, <1>2
<1>4. ASSUME page > c - 1 PROVE page * k >= n
  <2> HIDE DEF c, k
  <2>1. page >= c /\ (c + 1) * k = c * k + k
    BY <1>1, <1>3, <1>4
  <2>2. page * k >= c * k
    BY <1>1, <1>3, <2>1
  <2>3. c * k \in Int /\ page * k \in Int
    BY <1>1, <1>3
  <2> QED
    BY <1>1, <1>3, <2>1, <2>2, <2>3
<1>5. page * k \in Int /\ (page + 1) * k - 1 \in Int
  BY <1>1
<1> HIDE DEF c
<1>6. page > c - 1 => {o \in (page * k)..((page + 1) * k - 1) : 0 <= o /\ o < n} = {}
  BY <1>4, <1>5
<1> QED
  BY <1>3, <1>5, <1>6 DEF c

LEMMA PagingIInv ==
  ASSUME ViewsIInv, Paging
  PROVE  ViewsIInv'
<1>0. /\ window.pageIndex \in Int /\ window.pageCount \in Nat /\ window.objects \subseteq Int
      /\ pagesAsked \subseteq Int /\ objectCount \in Nat
  BY DEF ViewsIInv, ViewsTypeOK
<1>1. selection' = selection /\ selector' = selector /\ grabReaction' = grabReaction /\ browser' = browser
  BY DEF Paging, ViewVars
<1>2. ObjectsCurrent' /\ RequestTrue'
  BY <1>1 DEF ViewsIInv, ObjectsCurrent, RequestTrue
<1>3. ASSUME /\ window'.pageIndex \in Int /\ window'.pageCount \in Nat /\ window'.objects \subseteq Int
             /\ pagesAsked' \subseteq Int /\ objectCount' \in Nat
      PROVE  ViewsTypeOK'
  BY <1>1, <1>3 DEF ViewsIInv, ViewsTypeOK
<1>4. ASSUME NEW page \in Int, windowUpdate(page) PROVE ViewsIInv'
  <2>1. ViewsTypeOK'
    BY <1>0, <1>3, <1>4 DEF windowUpdate
  <2>2. PageTrue'
    BY <1>4 DEF windowUpdate, ViewsIInv, PageTrue
  <2> QED
    BY <1>2, <2>1, <2>2 DEF ViewsIInv
<1>5. CASE handleNext
  BY <1>0, <1>4, <1>5 DEF handleNext, Least
<1>6. CASE handleBack
  BY <1>0, <1>4, <1>6 DEF handleBack, Most
<1>7. CASE handleClick
  <2>1. width \div 2 \in Int
    BY ViewsAssumption
  <2>2. Items(window.pageIndex, window.pageCount) \subseteq Int
    BY <1>0, <2>1 DEF Items, Least, Most
  <2> QED
    BY <1>4, <1>7, <2>2 DEF handleClick
<1>8. CASE WindowAnswer
  <2> DEFINE count == (objectCount + objectsPerPage - 1) \div objectsPerPage
  <2>1. PICK page \in pagesAsked :
          /\ pagesAsked' = pagesAsked \ {page} /\ objectCount' = objectCount
          /\ window' = [pageIndex |-> Least(page, count - 1), pageCount |-> count, objects |-> ObjectsOf(page)]
    BY <1>8 DEF WindowAnswer
  <2>2. page \in Int
    BY <1>0
  <2>3. /\ count \in Nat
        /\ page > count - 1 => ObjectsOf(page) = {}
        /\ ObjectsOf(page) \subseteq Int
        /\ ObjectsOf(page) \subseteq (page * objectsPerPage)..((page + 1) * objectsPerPage - 1)
    BY <1>0, <2>2, ObjectsOfPage DEF ObjectsOf
  <2> HIDE DEF count
  <2>4. window'.pageIndex = Least(page, count - 1) /\ window'.pageCount = count /\ window'.objects = ObjectsOf(page)
    BY <2>1
  <2>5. Least(page, count - 1) \in Int /\ Least(page, count - 1) < count
    BY <2>2, <2>3 DEF Least
  <2>6. Least(page, count - 1) = page \/ ObjectsOf(page) = {}
    BY <2>2, <2>3 DEF Least
  <2>7. PageTrue'
    <3>1. window'.objects \subseteq (window'.pageIndex * objectsPerPage)..((window'.pageIndex + 1) * objectsPerPage - 1)
      BY <2>3, <2>4, <2>6
    <3> QED
      BY <2>4, <2>5, <3>1 DEF PageTrue
  <2>8. ViewsTypeOK'
    BY <1>0, <1>3, <2>1, <2>3, <2>4, <2>5
  <2> QED
    BY <1>2, <2>7, <2>8 DEF ViewsIInv
<1>9. CASE WindowFails
  <2>1. window' = window /\ pagesAsked' \subseteq pagesAsked /\ objectCount' = objectCount
    BY <1>9 DEF WindowFails
  <2>2. ViewsTypeOK'
    BY <1>0, <1>3, <2>1
  <2>3. PageTrue'
    BY <2>1 DEF ViewsIInv, PageTrue
  <2> QED
    BY <1>2, <2>2, <2>3 DEF ViewsIInv
<1>10. CASE Allocates
  <2>1. window' = window /\ pagesAsked' = pagesAsked /\ objectCount' \in Nat
    BY <1>10, ViewsAssumption DEF Allocates
  <2>2. ViewsTypeOK'
    BY <1>0, <1>3, <2>1
  <2>3. PageTrue'
    BY <2>1 DEF ViewsIInv, PageTrue
  <2> QED
    BY <1>2, <2>2, <2>3 DEF ViewsIInv
<1> QED
  BY <1>5, <1>6, <1>7, <1>8, <1>9, <1>10 DEF Paging

\* The pager shows its page and as many as it can (MemoryWindow/index.tsx:30-54).
LEMMA PagerItems ==
  ASSUME NEW page \in Nat, NEW count \in Nat, page < count
  PROVE  /\ page \in Items(page, count) /\ Items(page, count) \subseteq 0..(count - 1)
         /\ Cardinality(Items(page, count)) = Least(count, 2 * (width \div 2) + 1)
<1> DEFINE half == width \div 2
           first == Most(0, page - half)
           last == page + half + 1 - Least(0, page - half)
           from == IF last > count THEN Most(0, first - (last - count)) ELSE first
           to == IF last > count THEN count - 1 ELSE last - 1
<1>1. half \in Nat
  BY ViewsAssumption
<1>2. Items(page, count) = from..to
  BY DEF Items
<1> HIDE DEF half
<1>3. /\ from \in Int /\ to \in Int /\ 0 <= from /\ from <= page /\ page <= to /\ to <= count - 1
      /\ to - from + 1 = Least(count, 2 * half + 1)
  BY <1>1 DEF Least, Most
<1> HIDE DEF from, to
<1>4. Cardinality(from..to) = to - from + 1
  BY <1>3, FS_Interval
<1> QED
  BY <1>2, <1>3, <1>4 DEF half

LEMMA PageObjects ==
  ASSUME ViewsIInv, window.pageCount > 0, NEW o \in window.objects
  PROVE  o \div objectsPerPage = window.pageIndex
<1> DEFINE k == objectsPerPage
           i == window.pageIndex
<1>1. k \in Nat /\ k >= 1 /\ i \in Int /\ o \in Int
  BY ViewsAssumption DEF ViewsIInv, ViewsTypeOK
<1>2. i * k <= o /\ o <= (i + 1) * k - 1
  BY <1>1 DEF ViewsIInv, PageTrue
<1> HIDE DEF k, i
<1>3. i * k \in Int /\ (i + 1) * k = i * k + k
  BY <1>1
<1>4. o \div k \in Int /\ (o \div k) * k <= o /\ o < (o \div k) * k + k
  BY <1>1
<1>5. o \div k = i
  <2> DEFINE q == o \div k
  <2>1. q \in Int /\ q * k <= o /\ o < q * k + k
    BY <1>4
  <2> HIDE DEF q
  <2>2. q < i => q * k + k <= i * k
    BY <1>1, <2>1
  <2>3. i < q => i * k + k <= q * k
    BY <1>1, <2>1
  <2>4. q * k \in Int
    BY <1>1, <2>1
  <2>5. q = i
    BY <1>1, <1>2, <1>3, <2>1, <2>2, <2>3, <2>4
  <2> QED
    BY <2>5 DEF q
<1> QED
  BY <1>5 DEF k, i

\* The views' invariant implies what they promise.
LEMMA ViewsFollow == ViewsIInv => ViewsCurrent
<1> SUFFICES ASSUME ViewsIInv PROVE ViewsCurrent
  OBVIOUS
<1>1. ASSUME window.pageCount > 0, window.pageIndex >= 0
      PROVE  /\ window.pageIndex \in Nat /\ window.pageCount \in Nat /\ window.pageIndex < window.pageCount
             /\ \A o \in window.objects : o \div objectsPerPage = window.pageIndex
  BY <1>1, PageObjects DEF ViewsIInv, ViewsTypeOK, PageTrue
<1>2. PagerTrue
  BY <1>1, PagerItems DEF PagerTrue
<1> QED
  BY <1>2 DEF ViewsIInv, ViewsCurrent

LEMMA ViewsNextIInv == ViewsIInv /\ [ViewsNext]_viewsVars => ViewsIInv'
<1> SUFFICES ASSUME ViewsIInv, [ViewsNext]_viewsVars PROVE ViewsIInv'
  OBVIOUS
<1>1. CASE Browsing
  BY <1>1, SelectingIInv, BrowsingIInv DEF Browsing
<1>2. CASE Paging
  BY <1>2, PagingIInv
<1>3. CASE UNCHANGED viewsVars
  BY <1>3 DEF viewsVars, ViewsIInv, ObjectsCurrent, RequestTrue, ViewsTypeOK, PageTrue
<1> QED
  BY <1>1, <1>2, <1>3 DEF ViewsNext

\* The browser's objects are those of the range selected now and of the filter last
\* applied, the pager offers as many pages as it can and lists the page it marks,
\* whatever is selected, answered late or lost (ObjectsBrowser.tsx:27-47,
\* MemoryWindow/index.tsx:18-96).
THEOREM ListsTrue == ViewsSpec => []ViewsCurrent
<1>1. ViewsSpec => []ViewsIInv
  BY ViewsInitIInv, ViewsNextIInv, PTL DEF ViewsSpec
<1> QED
  BY <1>1, ViewsFollow, PTL

=============================================================================
