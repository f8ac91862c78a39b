--------------------------- MODULE PreamblePatcher ----------------------------
(***************************************************************************)
(* How a function is patched (windows/preamble_patcher.cc and                *)
(* preamble_patcher_with_stub.cc): its first instructions, of five bytes or    *)
(* more, are moved to a stub near by, with their relative operands fixed up   *)
(* and a jump back behind them, and a jump to the replacement is written over *)
(* them.  Stubs are blocks of pages that are allocated within the reach of a  *)
(* 32-bit jump.                                                              *)
(*   code   the first instructions of each function as they are now: a record *)
(*          of kind, size and dest, the address a jump, call or mov refers to *)
(*   stub   of each function: its block, or none, what stands in it, and what *)
(*          the function was (a history variable)                            *)
(*   pages  the pages of stubs, latest first, with their free blocks         *)
(* An instruction's dest is what the processor makes of the bytes written.    *)
(***************************************************************************)
EXTENDS Integers, FiniteSets, SequencesExt

CONSTANTS
  Functions, Address, Base,      \* addresses of functions and of their modules
  Bodies,                        \* first instructions that the functions may have
  replacement,                   \* address of the replacement function
  INT_MAX, SCHAR_MAX, granularity, pagesize, MAX_PREAMBLE_STUB_SIZE,
  Taken                          \* addresses where no page can be had

VARIABLES body, code, stub, pages
vars == <<body, code, stub, pages>>

kRequired == 5
Fits(offset) == offset <= INT_MAX /\ offset >= -INT_MAX - 1
Bytes(q) == FoldSeq(LAMBDA i, n : i.size + n, 0, q)
NoStub == [at |-> 0, code |-> <<>>, was |-> <<>>]

Init == /\ body \in Bodies
        /\ code = body /\ stub = [f \in Functions |-> NoStub] /\ pages = <<>>

------------------------------------------------------------------------------
(* Moving an instruction.  The result is what stands at the address to, or    *)
(* kind "error".                                                            *)

Plain(kind, size) == [kind |-> kind, size |-> size, dest |-> 0]
Failed == [kind |-> "error", size |-> 0, dest |-> 0]
\* PatchShortConditionalJump, PatchShortJump: a short jump becomes a near one.
Lengthened(i, kind, size, to) == IF Fits(i.dest - (to + size)) THEN [kind |-> kind, size |-> size, dest |-> i.dest] ELSE Failed

\* PatchMovWithDisplacement
MovedMov(i, to) == IF Fits(i.dest - (to + i.size)) THEN i ELSE Failed

\* PatchNearJumpOrCall: one that goes only a few bytes becomes a short jump; its
\* offset is still counted from the end of the long one.
MovedNear(i, to) ==
  LET offset == i.dest - (to + i.size) IN
  IF ~Fits(offset) THEN Failed
  ELSE IF offset < SCHAR_MAX /\ offset > -SCHAR_MAX - 1
    THEN [kind |-> IF i.kind = "jcc" THEN "short jcc" ELSE "short jmp", size |-> 2, dest |-> to + 2 + offset]
    ELSE i
Moved(i, to) ==
  CASE i.kind = "short jcc" -> Lengthened(i, "jcc", 6, to)
    [] i.kind = "short jmp" -> Lengthened(i, "jmp", 5, to)
    [] i.kind \in {"jcc", "jmp", "call", "call abs"} -> MovedNear(i, to)
    [] i.kind = "mov" -> MovedMov(i, to)
    [] i.kind = "ret" -> Failed     \* the function is too short
    [] OTHER -> i

\* The instructions q, moved to the address to.
MoveAll(q, to) ==
  FoldLeft(LAMBDA x, i : LET m == Moved(i, x.to) IN
             [code |-> Append(x.code, m), to |-> x.to + m.size],
           [code |-> <<>>, to |-> to], q).code
Succeeds(q) == \A n \in DOMAIN q : q[n].kind # "error"

------------------------------------------------------------------------------
(* Pages and blocks.                                                        *)

InReach(page, target) == \/ page > target /\ page - target + pagesize <= INT_MAX
                         \/ page < target /\ page - target >= -INT_MAX - 1
Blocks(page) == [n \in 1..(pagesize \div MAX_PREAMBLE_STUB_SIZE - 1) |-> page + n * MAX_PREAMBLE_STUB_SIZE]

\* AllocPageNear: the first address that can be had below the module, else above the function.
Below(f) == {Base[f] - i * granularity : i \in {j \in 1..(INT_MAX \div granularity) : Address[f] - (Base[f] - j * granularity) <= INT_MAX}}
Above(f) == {a + granularity : a \in {(Address[f] \div granularity) * granularity + i * granularity : i \in {j \in 1..(INT_MAX \div granularity) :
               (Address[f] \div granularity + 1 + j) * granularity - Address[f] <= INT_MAX}}}
Used == Taken \cup {pages[n].at : n \in DOMAIN pages}
AllocPageNear(f) ==
  IF Below(f) \ Used # {} THEN CHOOSE a \in Below(f) \ Used : \A b \in Below(f) \ Used : b <= a
  ELSE IF Above(f) \ Used # {} THEN CHOOSE a \in Above(f) \ Used : \A b \in Above(f) \ Used : b >= a
  ELSE 0

\* AllocPreambleBlockNear: the pages with a block for f in front (the first one within
\* reach that has a free block, else a new one); empty if there is none.
Usable(f) == {n \in DOMAIN pages : pages[n].free # <<>> /\ InReach(pages[n].at, Address[f])}
PagesFor(f) ==
  IF Usable(f) # {} THEN [pages |-> pages, from |-> CHOOSE n \in Usable(f) : \A m \in Usable(f) : n <= m]
  ELSE IF AllocPageNear(f) = 0 THEN [pages |-> pages, from |-> 0]
  ELSE [pages |-> <<[at |-> AllocPageNear(f), free |-> Blocks(AllocPageNear(f))]>> \o pages, from |-> 1]

------------------------------------------------------------------------------
\* RawPatch.  Of a function that begins with a jump, another one would be patched,
\* the one it leads to (ResolveTarget).
Patch(f) ==
  /\ stub[f] = NoStub /\ code[f][1].kind \notin {"jmp", "short jmp"}
  /\ \E p \in {PagesFor(f)} :
       /\ p.from # 0
       /\ \E at \in {Head(p.pages[p.from].free)} : \E moved \in {MoveAll(code[f], at)} :
          LET far == ~Fits(replacement - (Address[f] + kRequired))
              back == [kind |-> "jmp", size |-> 5, dest |-> Address[f] + Bytes(code[f])]
              trampoline == <<Plain("nop", 1), Plain("mov rax", 10), [kind |-> "jmp rax", size |-> 2, dest |-> replacement]>>
              full == Append(moved, back) \o IF far THEN trampoline ELSE <<>>
              lead == [kind |-> "jmp", size |-> 5, dest |-> IF far THEN at + Bytes(moved) + 5 ELSE replacement]
              rest == Bytes(code[f]) - kRequired
          IN IF Succeeds(moved) /\ Bytes(full) <= MAX_PREAMBLE_STUB_SIZE
               THEN /\ stub' = [stub EXCEPT ![f] = [at |-> at, code |-> full, was |-> code[f]]]
                    /\ code' = [code EXCEPT ![f] = <<lead>> \o IF rest > 0 THEN <<Plain("int3", rest)>> ELSE <<>>]
                    /\ pages' = [p.pages EXCEPT ![p.from].free = Tail(@)]
               ELSE pages' = p.pages /\ UNCHANGED <<code, stub>>   \* the guard gives the block back
  /\ UNCHANGED body

\* What is moved back from a stub: as many instructions as fill the required bytes,
\* be they the jump behind them or the filling.  A mov is written, but not counted: the
\* next instruction is written over it.
Restored(f) ==
  LET from == SelectSeq(stub[f].code \o [n \in 1..kRequired |-> Plain("int3", 1)], LAMBDA i : i.kind # "mov")
      first(n) == MoveAll(SubSeq(from, 1, n), Address[f])
  IN first(CHOOSE n \in DOMAIN from : Bytes(first(n)) >= kRequired /\ Bytes(first(n - 1)) < kRequired)

\* Unpatch: the instructions are moved back, and the block is freed.
Unpatch(f) ==
  /\ stub[f] # NoStub
  /\ code' = [code EXCEPT ![f] = Restored(f)]
  /\ pages' = [n \in DOMAIN pages |-> IF stub[f].at \div granularity = pages[n].at \div granularity
                                        THEN [pages[n] EXCEPT !.free = <<stub[f].at>> \o @] ELSE pages[n]]
  /\ stub' = [stub EXCEPT ![f] = NoStub] /\ UNCHANGED body

Next == \E f \in Functions : Patch(f) \/ Unpatch(f)
Spec == Init /\ [][Next]_vars

------------------------------------------------------------------------------
\* What instructions do, however they are written.
Meaning(q) == [n \in DOMAIN q |-> [does |-> CASE q[n].kind \in {"jcc", "short jcc"} -> "jcc" [] q[n].kind \in {"jmp", "short jmp"} -> "jmp" [] OTHER -> q[n].kind,
                                   to |-> q[n].dest]]

\* A stub does what the function did: the instructions that were moved mean what
\* they meant, and the rest of the function follows.
StubMeansFunction ==
  \A f \in Functions : stub[f] # NoStub =>
    LET n == Len(stub[f].was) IN
    /\ Meaning(SubSeq(stub[f].code, 1, n)) = Meaning(stub[f].was)
    /\ stub[f].code[n + 1].dest = Address[f] + Bytes(stub[f].was)

\* A call of the function comes to the replacement, over a trampoline if it is far,
\* and every jump of the patch is within reach.
LeadsToReplacement ==
  \A f \in Functions : stub[f] # NoStub =>
    /\ Fits(code[f][1].dest - (Address[f] + 5)) /\ Fits(Address[f] - stub[f].at)
    /\ \/ code[f][1].dest = replacement
       \/ /\ code[f][1].dest = stub[f].at + Bytes(stub[f].code) - 13
          /\ Last(stub[f].code).dest = replacement

\* Blocks are used once: of one function, or free.
BlocksConserved ==
  /\ \A f, g \in Functions : f # g /\ stub[f] # NoStub => stub[f].at # stub[g].at
  /\ \A n \in DOMAIN pages : \A f \in Functions : stub[f].at \notin Range(pages[n].free)
  /\ \A n \in DOMAIN pages : IsInjective(pages[n].free)

\* Unpatching restores a function without movs and short jumps, and with near ones
\* that go further than a short one could.
GoesFar(f) == \A n \in DOMAIN body[f] :
              /\ body[f][n].kind \notin {"mov", "short jcc", "short jmp"}
              /\ body[f][n].kind \in {"jcc", "jmp", "call", "call abs"} =>
                   body[f][n].dest \notin (Address[f] - 2 * SCHAR_MAX)..(Address[f] + 2 * SCHAR_MAX)
RestoresFunction == \A f \in Functions : stub[f] = NoStub /\ GoesFar(f) => code[f] = body[f]

\* A function that is unpatched is what it was before, as the comments say
\* (preamble_patcher.h:286-289, preamble_patcher.cc:351-353).
UnpatchUndoes == \A f \in Functions : stub[f] = NoStub => code[f] = body[f]
==============================================================================
