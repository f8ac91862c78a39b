----------------------------- MODULE TestDllMC ------------------------------
(***************************************************************************)
(* Model-checking instances of what test_dll runs: the allocation benchmark  *)
(* and the B-tree, and tcmalloc's patching of the process on Windows.  They   *)
(* share no variable, so one part moves at a time, the one part names.       *)
(*   AllocTest: Count = 2 lets an array hold two buffers, so that FreeRandom  *)
(* can take the last one or not; fewer addresses than the arrays could hold  *)
(* make the threads reuse each other's addresses, which are only compared    *)
(* with each other.                                                         *)
(*   Btree, of the orders 3, 4 (TestBTree's) and 5: the record of the last    *)
(* call (call, ret, found) is written by every call and read by none, so      *)
(* states that differ in nothing else are explored once; every step is       *)
(* still checked against OrderedSet.                                        *)
(***************************************************************************)
EXTENDS AllocTest, Integers, FiniteSets, Sequences, TLC

CONSTANTS a1, a2, a3
VARIABLES part,
          heap, root, call, ret, found,                                    \* Btree
          body, preamble, stub, pages,                                     \* PreamblePatcher
          instruction, answer                                              \* MiniDisassembler

Addresses == {a1, a2, a3}

\* Junk: a key below and one above all keys; for order 5 also one among them.
Three == INSTANCE Btree WITH M <- 3, MaxKey <- 8, Junk <- {0, 9}
Four == INSTANCE Btree WITH M <- 4, MaxKey <- 9, Junk <- {0, 10}
Five == INSTANCE Btree WITH M <- 5, MaxKey <- 8, Junk <- {0, 5, 9}
BtreeVars == <<heap, root, call, ret, found>>

\* One function may begin with whatever a compiler makes, two are as they are. Their
\* modules are near each other and near a page that cannot be had.
I(kind, size, dest) == [kind |-> kind, size |-> size, dest |-> dest]
Long == {I("ret", 1, 0), I("generic", 5, 0), I("mov", 7, 5100), I("mov", 7, 5900)}
        \cup {I(k, 5, d) : k \in {"jmp", "call"}, d \in {4920, 5100, 5900}}
        \cup {I(k, 6, d) : k \in {"jcc", "call abs"}, d \in {4920, 5900}}
Firsts == {<<i>> : i \in {j \in Long : j.kind # "jmp"}}
          \cup {<<i, j>> : i \in {I("generic", 3, 0), I("short jcc", 2, 4885)}, j \in Long}
          \cup {<<I("short jcc", 2, 4885), I("short jmp", 2, 4920), i>> : i \in Long}
FunctionBodies == {<<q, <<I("mov", 7, 5100)>>, <<I("generic", 3, 0), I("call", 5, 6200)>>>> : q \in Firsts}
Near == INSTANCE PreamblePatcher WITH Functions <- 1..3, Address <- <<4900, 4960, 5700>>, Base <- <<4864, 4864, 5632>>, Bodies <- FunctionBodies,
          replacement <- 5300, INT_MAX <- 1000, SCHAR_MAX <- 30, granularity <- 256, pagesize <- 192,
          MAX_PREAMBLE_STUB_SIZE <- 64, Taken <- {4608}, code <- preamble
\* The replacement is out of reach.
Far == INSTANCE PreamblePatcher WITH Functions <- 1..3, Address <- <<4900, 4960, 5700>>, Base <- <<4864, 4864, 5632>>, Bodies <- FunctionBodies,
          replacement <- 7000, INT_MAX <- 1000, SCHAR_MAX <- 30, granularity <- 256, pagesize <- 192,
          MAX_PREAMBLE_STUB_SIZE <- 64, Taken <- {4608}, code <- preamble

\* Programs for both processors, with the prefixes that change a length or look it.
Decode32 == INSTANCE MiniDisassembler WITH x64 <- FALSE, PrefixSeqs <- {<<>>, <<\h66>>, <<\h67>>, <<\hF2>>, <<\hF3>>, <<\h64>>, <<\h66, \h67>>}
Decode64 == INSTANCE MiniDisassembler WITH x64 <- TRUE,
              PrefixSeqs <- {<<>>, <<\h66>>, <<\h67>>, <<\hF2>>, <<\hF3>>, <<\h2E>>, <<\h48>>, <<\h41>>, <<\h66, \h48>>}
PreambleVars == <<body, preamble, stub, pages>>
DecodeVars == <<instruction, answer>>

PartsInit == /\ part \in {"AllocTest", "Three", "Four", "Five", "Near", "Far", "Decode32", "Decode64"}
             /\ Init /\ Four!Init
             /\ Near!Init /\ (part = "Near" \/ (part = "Far" /\ Len(body[1]) = 1) \/ body = <<<<I("generic", 5, 0)>>, <<I("mov", 7, 5100)>>, <<I("generic", 3, 0), I("call", 5, 6200)>>>>)
             /\ CASE part = "Decode32" -> Decode32!DisassemblerInit
                  [] part = "Decode64" -> Decode64!DisassemblerInit
                  [] OTHER -> instruction = [prefixes |-> <<>>, opcode |-> <<0>>] /\ answer = Decode32!NoAnswer
Unpatched == UNCHANGED <<PreambleVars, DecodeVars>>
TestsQuiet == UNCHANGED <<vars, BtreeVars>>
\* A process that calls nothing more goes on.
Rest == part \notin {"AllocTest", "Three", "Four", "Five"} /\ Unpatched /\ TestsQuiet
PartsNext == /\ UNCHANGED part
             /\ \/ part = "AllocTest" /\ Next /\ UNCHANGED BtreeVars /\ Unpatched
                \/ part = "Three" /\ Three!Next /\ UNCHANGED vars /\ Unpatched
                \/ part = "Four" /\ Four!Next /\ UNCHANGED vars /\ Unpatched
                \/ part = "Five" /\ Five!Next /\ UNCHANGED vars /\ Unpatched
                \/ part = "Near" /\ Near!Next /\ TestsQuiet /\ UNCHANGED DecodeVars
                \/ part = "Far" /\ Far!Next /\ TestsQuiet /\ UNCHANGED DecodeVars
                \/ part = "Decode32" /\ Decode32!DisassemblerNext /\ TestsQuiet /\ UNCHANGED PreambleVars
                \/ part = "Decode64" /\ Decode64!DisassemblerNext /\ TestsQuiet /\ UNCHANGED PreambleVars
                \/ Rest
PartsSpec == PartsInit /\ [][PartsNext]_<<part, vars, BtreeVars, PreambleVars, DecodeVars>>
View == <<part, vars, heap, root, PreambleVars, DecodeVars>>
Symmetry == Permutations(Addresses)

-----------------------------------------------------------------------------
\* A B-tree of its order at every moment (btree.h:17-19, 201): every node but the
\* root holds from the minimum of keys to one less than the order, keys are in
\* order, all leaves at one depth; no node is lost and no freed one is reached.
IsBtree ==
  CASE part = "Three" -> Three!TypeOK /\ Three!Occupancy /\ Three!Sorted /\ Three!Balanced /\ Three!NoLeakNoDangling
    [] part = "Four" -> Four!TypeOK /\ Four!Occupancy /\ Four!Sorted /\ Four!Balanced /\ Four!NoLeakNoDangling
    [] part = "Five" -> Five!TypeOK /\ Five!Occupancy /\ Five!Sorted /\ Five!Balanced /\ Five!NoLeakNoDangling
    [] OTHER -> TRUE

\* Every call does to the set of keys, and returns, what the abstract set does.
IsOrderedSet == Four!IsOrderedSet

\* PreamblePatcher: a call of a patched function comes to its replacement, and what
\* that hands on comes to the function's own code; MiniDisassembler: no instruction
\* of it is cut.
CallsReachOriginals ==
  CASE part = "Near" -> Near!StubMeansFunction /\ Near!LeadsToReplacement /\ Near!BlocksConserved /\ Near!RestoresFunction
    [] part = "Far" -> Far!StubMeansFunction /\ Far!LeadsToReplacement /\ Far!BlocksConserved /\ Far!RestoresFunction
    [] part = "Decode32" -> Decode32!LengthsTrue
    [] part = "Decode64" -> Decode64!LengthsTrue
    [] OTHER -> TRUE

\* preamble_patcher.h:286-289, "then to undo it you would call Unpatch".
UnpatchUndoes == part = "Near" => Near!UnpatchUndoes

\* mini_disassembler.h:67-70, "The opcode length is always calculated, so that the
\* patching utility can figure out where the next instruction starts".
AlwaysCalculated == part = "Decode32" => Decode32!AlwaysCalculated
=============================================================================
