----------------------------- MODULE InspectorMC -----------------------------
(***************************************************************************)
(* Model-checking instances of the windows of the inspector: the profiler     *)
(* window with its histogram, the cache of sample blocks, the browser of      *)
(* objects and the memory window.  The requests of one do not depend on those  *)
(* of another, so one part moves at a time, the one part names.             *)
(***************************************************************************)
EXTENDS Profiler, ProfileSampler, ObjectViews, TLC

CONSTANTS c1, c2
VARIABLE part

\* Charts show ranges of five lengths, at three levels of detail, that share blocks
\* at each level.
Charts == {c1, c2}
ChartLevels == -2..1
PartsInit == /\ part \in {"Window", "Sampler", "Browsing", "Paging"}
             /\ Init /\ SamplerInit
             /\ ViewsInit /\ (part = "Paging" \/ objectCount = 0)
PartsNext == /\ UNCHANGED part
             /\ \/ part = "Window" /\ Next /\ UNCHANGED <<samplerVars, viewsVars>>
                \/ part = "Sampler" /\ SamplerNext /\ UNCHANGED <<vars, viewsVars>>
                \/ part = "Browsing" /\ Browsing /\ UNCHANGED <<vars, samplerVars>>
                \/ part = "Paging" /\ Paging /\ UNCHANGED <<vars, samplerVars>>
PartsSpec == PartsInit /\ [][PartsNext]_<<part, vars, samplerVars, viewsVars>>
\* Charts are only told apart by what they have asked for.
Symmetry == Permutations(Charts)

=============================================================================
