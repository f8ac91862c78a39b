----------------------------- MODULE ProgressMC ------------------------------
(***************************************************************************)
(* What must happen in the end: small instances of the components with a     *)
(* liveness property, checked under the fairness their scheduling justifies. *)
(* They share no variable; part names the one that moves.                   *)
(***************************************************************************)
EXTENDS Naturals

CONSTANTS main, nothing, nodata,  \* of AllocTest and Profiler
          t1, t2, t3, c1, c2
VARIABLES part,
          mpc, mi, test, handle, pc, cycle, iter, cnt, purged, buffers, live, fault,  \* AllocTest
          now, refresh, timeEnd, ready, globalView, selected, regressed, mounted, asked, pending,
          inflight, histogram, orphans, raised,                                       \* Profiler
          lock, cache_size, slots, nonempty, empty, num_spans, counter, class, objects, refcount, held, th, ops,
          lockword, spin                                                              \* SpinLock

Alloc == INSTANCE AllocTest WITH NumThread <- 2, Main <- main, NULL <- nothing, Addr <- {"a1", "a2"},
           Count <- 2, NumCycle <- 1, RandMax <- 2, FreeFreq <- 2
Window == INSTANCE Profiler WITH Time <- 0..2, TimeStart <- 0, MaxRefresh <- 1, MaxOrphans <- 1, NoData <- nodata
Central == INSTANCE CentralFreeList WITH Clients <- {t1, t2}, Classes <- {c1, c2}, Spans <- {1, 2}, NoThread <- "none",
             NoClass <- "none", SpanObjects <- 2, Batch <- 1, InitialSize <- 1, MaxSize <- 2, MaxOps <- 3
\* With futexes and delays that never end by themselves; without futexes.
Futex == INSTANCE SpinLock WITH Threads <- {t1, t2, t3}, have_futex <- TRUE, TimesOut <- FALSE, pc <- spin
Sleep == INSTANCE SpinLock WITH Threads <- {t1, t2, t3}, have_futex <- FALSE, TimesOut <- TRUE, pc <- spin

AllocVars == <<mpc, mi, test, handle, pc, cycle, iter, cnt, purged, buffers, live, fault>>
WindowVars == <<now, refresh, timeEnd, ready, globalView, selected, regressed, mounted, asked, pending,
                inflight, histogram, orphans, raised>>
CentralVars == <<lock, cache_size, slots, nonempty, empty, num_spans, counter, class, objects, refcount, held, th, ops>>
SpinVars == <<lockword, spin>>
vars == <<part, AllocVars, WindowVars, CentralVars, SpinVars>>

Init == /\ part \in {"Alloc", "Window", "Central", "Futex", "Sleep"}
        /\ Alloc!Init /\ Window!Init /\ Central!CentralInit /\ Futex!Init
Next == /\ UNCHANGED part
        /\ \/ part = "Alloc" /\ Alloc!Next /\ UNCHANGED <<WindowVars, CentralVars, SpinVars>>
           \/ part = "Window" /\ Window!Next /\ UNCHANGED <<AllocVars, CentralVars, SpinVars>>
           \/ part = "Central" /\ Central!CentralNext /\ UNCHANGED <<AllocVars, WindowVars, SpinVars>>
           \/ part = "Futex" /\ Futex!Next /\ UNCHANGED <<AllocVars, WindowVars, CentralVars>>
           \/ part = "Sleep" /\ Sleep!Next /\ UNCHANGED <<AllocVars, WindowVars, CentralVars>>

\* Every thread goes on, the main thread too; the server answers requests for
\* histograms; a thread in a call of the central lists goes on; one that waits
\* for a spin lock or holds it goes on, but need not lock again.
Fairness ==
  /\ WF_AllocVars(part = "Alloc" /\ Alloc!Running /\ Alloc!MainStep)
  /\ \A r \in Alloc!Runners : WF_AllocVars(part = "Alloc" /\ Alloc!Running /\ Alloc!RunLoop(r))
  /\ WF_WindowVars(part = "Window" /\ Window!HistogramReply)
  /\ \A t \in {t1, t2} : WF_CentralVars(part = "Central" /\ Central!CentralStep(t))
  /\ \A t \in {t1, t2, t3} : /\ WF_SpinVars(part = "Futex" /\ Futex!Step(t) /\ ~Futex!Lock(t))
                             /\ WF_SpinVars(part = "Sleep" /\ Sleep!Step(t) /\ ~Sleep!Lock(t))
Spec == Init /\ [][Next]_vars /\ Fairness

------------------------------------------------------------------------------
\* AllocTest: the benchmark comes to an end (test_alloc.h:47-110).
Terminates == part = "Alloc" => Alloc!Terminates

\* Profiler: once the user stops, the histogram shows the range that is selected.
Settles == part = "Window" => Window!Settles

\* CentralFreeList: every call comes to its end, although it drops locks and
\* takes them again, and two threads may be evicting from each other's class.
Finishes == Central!Finishes

\* SpinLock: nobody sleeps for ever once the others have stopped locking.
NobodySleepsOn == Futex!NobodySleepsOn /\ Sleep!NobodySleepsOn
=============================================================================
