--------------------------- MODULE ProfileSampler ---------------------------
(***************************************************************************)
(* The cache of sample blocks of the profiler window (ProfileSampler.ts)   *)
(* and the charts that draw from it (views/SamplesGraph.tsx).  A chart     *)
(* turns its range of time into a span of blocks at one level of detail;   *)
(* blocks that were never asked for are fetched; the chart is drawn when   *)
(* the promise that getBlockSpan returns is resolved.                      *)
(*                                                                         *)
(* this.loading is a promise that grows with every fetch (Promise.all): it *)
(* is represented by the set of fetches it waits for.  It is resolved when *)
(* all of them are answered and rejected when one fails.  The callbacks of *)
(* a promise run before the next event: they are part of the action that   *)
(* settles it, in the order in which they were registered.  The server is  *)
(* external: it answers a fetch with the samples of all its blocks, when   *)
(* it pleases, or the fetch fails.  Times are whole seconds.               *)
(***************************************************************************)
EXTENDS Integers, FiniteSets

CONSTANTS
  Chart,        \* the charts that share the sampler
  Instants,         \* the ends of the ranges that charts may show
  Levels,       \* the levels that those ranges need
  Size,         \* samples wanted on a chart (512 in the code)
  BlockLength,  \* samples in a block (256 in the code)
  MaxRequests   \* bound on the calls of update

ASSUME SamplerAssumption ==
  /\ Instants \subseteq Int /\ Levels \subseteq Int
  /\ Size \in Nat \ {0} /\ BlockLength \in Nat \ {0}
  /\ MaxRequests \in Nat

VARIABLES
  requests,  \* how many times update was called
  waiting,   \* the calls whose promise is not settled
  shown,     \* what each chart has got last: chart.blocks
  sent,      \* fetches on their way
  answered,  \* fetches that were answered
  failed,    \* fetches that failed
  batch,     \* the blocks of each fetch
  loading,   \* this.loading, {} when it is undefined
  requested,     \* blocks with loading = -1
  loaded,    \* blocks with loading = 1
  hung       \* the page hangs in the loop of getBlockSpan

samplerVars == <<requests, waiting, shown, sent, answered, failed, batch, loading,
          requested, loaded, hung>>

Fetches == 1..MaxRequests

Nothing == [id |-> 0, start |-> 0, end |-> 0, cached |-> FALSE]

SamplerInit ==
  /\ requests = 0 /\ waiting = {}
  /\ shown = [c \in Chart |-> Nothing]
  /\ sent = {} /\ answered = {} /\ failed = {}
  /\ batch = [f \in Fetches |-> {}]
  /\ loading = {}
  /\ requested = {} /\ loaded = {}
  /\ hung = FALSE

-----------------------------------------------------------------------------
(* getRangeSamples: from a range of time to a span of blocks.  At level l a *)
(* second holds 2^l blocks.                                                *)

\* Math.floor and Math.ceil of t * 2^l
Floor(t, l) == IF l >= 0 THEN t * 2^l ELSE t \div 2^(-l)
Ceil(t, l) == IF l >= 0 THEN t * 2^l ELSE -((-t) \div 2^(-l))

\* Are there Size samples in n seconds at level l?
Enough(n, l) ==
  IF l >= 0 THEN Size <= n * BlockLength * 2^l ELSE Size * 2^(-l) <= n * BlockLength

\* Math.ceil(Math.log2(rate)): the least level with enough samples.
level(n) == CHOOSE l \in Levels : Enough(n, l) /\ ~Enough(n, l - 1)

\* Mutant of getRangeSamples: the first index is rounded up.
getRangeSamplesCeil(start, end) ==
  IF start >= end THEN {}
  ELSE LET l == level(end - start)
       IN {<<l, i>> : i \in Ceil(start, l)..Ceil(end, l)}

\* Levels has the level of every range.
ASSUME LevelsAssumption ==
  \A s, e \in Instants : s < e => \E l \in Levels : Enough(e - s, l) /\ ~Enough(e - s, l - 1)

\* The blocks between the indices of start and end.  An empty range has an
\* infinite rate and an inverted one has none: the indices are NaN.
getRangeSamples(start, end) ==
  IF start >= end THEN {}
  ELSE LET l == level(end - start)
       IN {<<l, i>> : i \in Floor(start, l)..Ceil(end, l)}

-----------------------------------------------------------------------------
(* getBlockSpan, loadBlocks and SamplesGraph.update.                       *)

\* The callbacks run in the order of the calls: a chart keeps the newest result.
Newest(results, c) ==
  {q \in results : q.chart = c /\ \A o \in results : o.chart = c => o.id <= q.id}

Draw(results) ==
  [c \in Chart |->
     IF Newest(results, c) = {} THEN shown[c]
     ELSE LET q == CHOOSE q \in Newest(results, c) : TRUE
          IN [id |-> q.id, start |-> q.start, end |-> q.end, cached |-> FALSE]]

\* The promise this.loading, as it is after the call: one more callback on it.
\* A rejected one calls nothing, the chart stays as it is.
Wait(c, s, e, on) ==
  /\ waiting' = IF on \cap failed # {} THEN waiting
                ELSE waiting \cup
                       {[id |-> requests + 1, chart |-> c, start |-> s, end |-> e, on |-> on]}
  /\ UNCHANGED shown

\* Mutant of loadBlocks: the promise of this fetch is returned.
loadBlocksOwnPromise(c, s, e, blocks) ==
  LET f == requests + 1
  IN /\ blocks # {}
     /\ sent' = sent \cup {f}
     /\ batch' = [batch EXCEPT ![f] = blocks]
     /\ requested' = requested \cup blocks
     /\ loading' = loading \cup {f}
     /\ Wait(c, s, e, {f})

\* Mutant of loadBlocks: the blocks keep loading = 0.
loadBlocksUnmarked(c, s, e, blocks) ==
  LET f == requests + 1
  IN /\ blocks # {}
     /\ sent' = sent \cup {f}
     /\ batch' = [batch EXCEPT ![f] = blocks]
     /\ loading' = loading \cup {f}
     /\ Wait(c, s, e, loading \cup {f})
     /\ UNCHANGED requested

\* Some blocks were never asked for: one fetch asks for all of them.
loadBlocks(c, s, e, blocks) ==
  LET f == requests + 1
  IN /\ blocks # {}
     /\ sent' = sent \cup {f}
     /\ batch' = [batch EXCEPT ![f] = blocks]
     /\ requested' = requested \cup blocks
     /\ loading' = loading \cup {f}
     /\ Wait(c, s, e, loading \cup {f})

\* All blocks were asked for, some are still missing.
AwaitBlocks(c, s, e, span) ==
  /\ span \subseteq requested \cup loaded /\ ~(span \subseteq loaded)
  /\ Wait(c, s, e, loading)
  /\ UNCHANGED <<sent, batch, requested, loading>>

\* All blocks are there: Promise.resolve(blocks).
CachedBlocks(c, s, e, span) ==
  /\ span \subseteq loaded
  /\ shown' = [shown EXCEPT ![c] =
       [id |-> requests + 1, start |-> s, end |-> e, cached |-> TRUE]]
  /\ UNCHANGED <<waiting, sent, batch, requested, loading>>

\* An empty range elsewhere than at 0: both indices are Infinity, and index++
\* never passes indexMax.
EmptyRange(s, e) == s = e /\ s # 0

\* SamplesGraph.update: the view of chart c is now [s, e].
update(c, s, e) ==
  LET span == getRangeSamples(s, e)
  IN /\ ~hung /\ requests < MaxRequests /\ ~EmptyRange(s, e)
     /\ requests' = requests + 1
     /\ \/ loadBlocks(c, s, e, span \ (requested \cup loaded))
        \/ AwaitBlocks(c, s, e, span)
        \/ CachedBlocks(c, s, e, span)
     /\ UNCHANGED <<answered, failed, loaded, hung>>

Hang(c, s, e) ==
  /\ ~hung /\ requests < MaxRequests /\ EmptyRange(s, e)
  /\ requests' = requests + 1
  /\ hung' = TRUE
  /\ UNCHANGED <<waiting, shown, sent, answered, failed, batch, loading, requested, loaded>>

\* The answer to fetch f: every block is loaded, and the promises that waited
\* for nothing else are resolved.
load(f) ==
  LET done == answered \cup {f}
      results == {w \in waiting : w.on \subseteq done}
  IN /\ ~hung /\ f \in sent
     /\ sent' = sent \ {f} /\ answered' = done
     /\ requested' = requested \ batch[f] /\ loaded' = loaded \cup batch[f]
     /\ shown' = Draw(results)
     /\ waiting' = waiting \ results
     /\ UNCHANGED <<requests, failed, batch, loading, hung>>

\* Mutant of LoadFails: the promises stay pending.
LoadFailsSilently(f) ==
  /\ ~hung /\ f \in sent
  /\ sent' = sent \ {f} /\ failed' = failed \cup {f}
  /\ UNCHANGED <<requests, waiting, shown, answered, batch, loading, requested, loaded, hung>>

\* Fetch f fails: nobody handles it, the promises that wait for it are
\* rejected, and its blocks keep loading = -1.
LoadFails(f) ==
  /\ ~hung /\ f \in sent
  /\ sent' = sent \ {f} /\ failed' = failed \cup {f}
  /\ waiting' = {w \in waiting : f \notin w.on}
  /\ UNCHANGED <<requests, shown, answered, batch, loading, requested, loaded, hung>>

SamplerNext ==
  \/ \E c \in Chart, s, e \in Instants : update(c, s, e) \/ Hang(c, s, e)
  \/ \E f \in Fetches : load(f) \/ LoadFails(f)

SamplerSpec == SamplerInit /\ [][SamplerNext]_samplerVars

-----------------------------------------------------------------------------
(* Properties.                                                             *)

Blocks == Levels \X Int
Ids == 0..MaxRequests

SamplerTypeOK ==
  /\ requests \in Ids /\ hung \in BOOLEAN
  /\ \A w \in waiting :
       w.id \in Ids /\ w.chart \in Chart /\ w.start \in Int /\ w.end \in Int
       /\ w.on \subseteq Fetches
  /\ shown \in [Chart -> [id : Ids, start : Int, end : Int, cached : BOOLEAN]]
  /\ sent \subseteq Fetches /\ answered \subseteq Fetches /\ failed \subseteq Fetches
  /\ loading \subseteq Fetches
  /\ batch \in [Fetches -> SUBSET Blocks]
  /\ requested \subseteq Blocks /\ loaded \subseteq Blocks

\* draw reads samples.time of every block of its chart (SamplesGraph.tsx:60-62):
\* a chart is given a span (ProfileSampler.ts:99-105) only when all its blocks
\* are loaded, also those that an earlier call has asked for.
DrawnLoaded ==
  \A c \in Chart : getRangeSamples(shown[c].start, shown[c].end) \subseteq loaded

\* A block is fetched once (ProfileSampler.ts:82-97): no two fetches share one,
\* and a block with loading = -1 is on its way or was lost with its fetch.
FetchedOnce ==
  /\ \A f, g \in Fetches : f # g => batch[f] \cap batch[g] = {}
  /\ requested = UNION {batch[f] : f \in sent \cup failed}
  /\ loaded = UNION {batch[f] : f \in answered}

\* Every promise that getBlockSpan has returned and that is not settled waits
\* for a fetch that is on its way (ProfileSampler.ts:68-70, 99-105): when the
\* server is silent no chart is left waiting.
NobodyStranded == \A w \in waiting : w.on \cap sent # {}

\* A chart is not drawn with the span of an older call when a newer one has
\* been drawn already, unless the newer one was served from the cache
\* (SamplesGraph.tsx:140-147 does not compare, it is the growth of this.loading,
\* ProfileSampler.ts:68-70, that keeps the order).
DrawnInOrder ==
  \A w \in waiting : shown[w.chart].id > w.id => shown[w.chart].cached

\* Block <<l, i>> holds the samples of [i, i + 1) / 2^l seconds.
Holds(b, t) ==
  IF b[1] >= 0 THEN b[2] = t * 2^b[1]
               ELSE b[2] * 2^(-b[1]) <= t /\ t < (b[2] + 1) * 2^(-b[1])

\* The span of a chart holds every instant of its range, has the samples that
\* the chart can show and not many more (ProfileSampler.ts:127-134).
SpanFits ==
  \A c \in Chart :
    LET s == shown[c].start
        e == shown[c].end
        span == getRangeSamples(s, e)
    IN s < e => /\ \A t \in s..e : \E b \in span : Holds(b, t)
                /\ Cardinality(span) * BlockLength > Size
                /\ Cardinality(span) * BlockLength <= 2 * Size + 2 * BlockLength

(* The inductive invariant behind these properties.                        *)

\* this.loading waits for every fetch there was; each is in one state.
Chain ==
  /\ loading = sent \cup answered \cup failed
  /\ sent \cap answered = {} /\ sent \cap failed = {} /\ answered \cap failed = {}
  /\ \A f \in loading : f <= requests
  /\ \A f \in Fetches : f \notin loading => batch[f] = {}

\* What a call waits for brings all its blocks, and a later call waits for all
\* that an earlier one waits for.
Waiters ==
  \A w \in waiting :
    /\ w.id <= requests
    /\ w.on \subseteq sent \cup answered
    /\ getRangeSamples(w.start, w.end) \subseteq UNION {batch[f] : f \in w.on}
    /\ \A v \in waiting : w.id <= v.id => w.on \subseteq v.on

SamplerIInv ==
  /\ SamplerTypeOK
  /\ Chain
  /\ Waiters
  /\ FetchedOnce
  /\ DrawnLoaded
  /\ NobodyStranded
  /\ DrawnInOrder
  /\ \A c \in Chart : shown[c].id <= requests
=============================================================================
