------------------------------ MODULE SystemAlloc ------------------------------
(***************************************************************************)
(* Where tcmalloc's memory comes from and goes back to: TCMalloc_SystemAlloc,  *)
(* SystemRelease and SystemCommit with their allocators, by sbrk and by mmap    *)
(* in the order of the build (system-alloc.cc), in a file of big pages         *)
(* (memfs_malloc.cc), and with VirtualAlloc (windows/system-alloc.cc).  The     *)
(* spin lock lets one request in at a time; the program's own calls of sbrk and *)
(* mmap do not know it.                                                      *)
(*   mem        whose each address is; block, on Windows: the VirtualAlloc it   *)
(*              came from                                                    *)
(*   brk        the program break                                            *)
(*   given      what was handed out, and for which request                     *)
(*   failed     failed_ of the DefaultSysAllocator; huge: hugetlb's failed_ and *)
(*              hugetlb_base_, as far as the file is used                     *)
(*   used, backed   addresses that the page heap takes for committed, and      *)
(*              those that have memory behind them                           *)
(*   req        the request that is under way                                 *)
(* Addresses wrap at Width.  DevMemSysAllocator is never installed, and the    *)
(* flags that skip an allocator act like its failure.                         *)
(***************************************************************************)
EXTENDS Integers, FiniteSets, FiniteSetsExt, TLC

CONSTANTS
  platform,       \* "sbrk first", "mmap first" or "windows"
  memfs,          \* whether memfs_malloc is in front of them
  Width, First, Top,      \* the addresses there are: First to Top - 1 of Width
  pagesize, big_page_size_, MinAlign, kPageSize,
  Sizes, Alignments,
  limit,          \* of the file of big pages; 0 for none
  MaxForeign      \* a bound on what the program takes for itself

VARIABLES mem, block, brk, given, failed, huge, used, backed, req
vars == <<mem, block, brk, given, failed, huge, used, backed, req>>

Addresses == 0..Width - 1
Part(lo, n) == lo..lo + n - 1
Idle == [pc |-> "idle", size |-> 0, align |-> 1, i |-> 1, ptr |-> 0, n |-> 0]

Init ==
  /\ mem = [a \in Addresses |-> IF a \in First..Top - 1 THEN "free" ELSE "other"] /\ block = [a \in Addresses |-> 0]
  /\ brk \in {First, First + 1} /\ given = {} /\ failed = <<FALSE, FALSE>> /\ huge = [failed |-> ~memfs, base |-> 0]
  /\ used = {} /\ backed = {} /\ req = Idle

At(pc) == req.pc = pc
Become(r) == req' = r @@ req
OS == <<mem, block, brk>>
Max2(a, b) == IF a > b THEN a ELSE b
AlignUp(n, a) == (((n + a - 1) % Width) \div a) * a
IsFree(lo, n) == lo + n <= Width /\ \A a \in Part(lo, n) : mem[a] = "free"
\* Where a mapping may come to lie.
Holes(n, granularity) == {lo \in Addresses : lo % granularity = 0 /\ IsFree(lo, n)}
Take(lo, n) == mem' = [a \in Addresses |-> IF a \in Part(lo, n) THEN "ours" ELSE mem[a]]

Done(lo, n) ==
  /\ given' = given \cup {[lo |-> lo, n |-> n, size |-> req.size, align |-> req.align]} /\ req' = Idle
  /\ used' = used \cup Part(lo, n) /\ backed' = backed \cup Part(lo, n)
Refused == req' = Idle /\ UNCHANGED <<given, used, backed>>
Pages == <<given, used, backed>>

------------------------------------------------------------------------------
(* The request, and the allocators in their order.                           *)

\* One that overflows is refused at once; Windows does not look.
TCMalloc_SystemAlloc(size, alignment) ==
  /\ At("idle") /\ (platform = "windows" \/ size + alignment < Width)
  /\ req' = [Idle EXCEPT !.pc = IF platform = "windows" THEN "VirtualAlloc" ELSE IF memfs THEN "hugetlb" ELSE "default",
                         !.size = size, !.align = IF platform = "windows" THEN alignment ELSE Max2(alignment, MinAlign)]
  /\ UNCHANGED <<OS, failed, huge, Pages>>

allocs_ == IF platform = "mmap first" THEN <<"mmap", "sbrk">> ELSE <<"sbrk", "mmap">>

DefaultAlloc ==
  /\ At("default") /\ UNCHANGED <<OS, huge>>
  /\ IF req.i > 2 THEN Refused /\ failed' = <<FALSE, FALSE>>
     ELSE Become(IF failed[req.i] THEN [i |-> req.i + 1] ELSE [pc |-> allocs_[req.i]]) /\ UNCHANGED <<failed, Pages>>
ChildFails ==
  /\ At("sbrk") \/ At("mmap") \/ At("sbrk again")
  /\ failed' = [failed EXCEPT ![req.i] = TRUE] /\ Become([pc |-> "default", i |-> req.i + 1])
  /\ UNCHANGED <<OS, huge, Pages>>

------------------------------------------------------------------------------
(* SbrkSysAllocator.  Between its calls of sbrk the program may call it, too. *)

Sbrk(n) == IsFree(brk, n) /\ brk + n <= Top /\ Take(brk, n) /\ brk' = brk + n /\ UNCHANGED block

SbrkFirst ==
  LET n == AlignUp(req.size, req.align) IN
  /\ At("sbrk") /\ req.size + req.align < Width \div 2 /\ brk + n < Width /\ Sbrk(n)
  /\ IF brk % req.align = 0 THEN Done(brk, n) ELSE Become([pc |-> "sbrk extra", ptr |-> brk, n |-> n]) /\ UNCHANGED Pages
  /\ UNCHANGED <<failed, huge>>
\* Mutant: what comes next is taken to be contiguous.
SbrkExtraAnywhere ==
  LET extra == req.align - (req.ptr % req.align) IN
  /\ At("sbrk extra") /\ UNCHANGED <<failed, huge>>
  /\ Sbrk(extra) /\ Done(req.ptr + extra, req.n)
SbrkExtra ==
  LET extra == req.align - (req.ptr % req.align) IN
  /\ At("sbrk extra") /\ UNCHANGED <<failed, huge>>
  /\ \/ /\ Sbrk(extra)
        /\ IF brk = req.ptr + req.n THEN Done(req.ptr + extra, req.n) ELSE Become([pc |-> "sbrk again"]) /\ UNCHANGED Pages
     \/ Become([pc |-> "sbrk again"]) /\ UNCHANGED <<OS, Pages>>
SbrkAgain ==
  /\ At("sbrk again") /\ Sbrk(req.n + req.align - 1) /\ Done(AlignUp(brk, req.align), req.n)
  /\ UNCHANGED <<failed, huge>>

(* MmapSysAllocator: more than enough, and the rest is given back.           *)
Mmap ==
  LET align == Max2(req.align, pagesize)  n == AlignUp(req.size, align)  extra == align - pagesize IN
  /\ At("mmap") /\ n >= req.size
  /\ \E lo \in Holes(n + extra, pagesize) : Take(AlignUp(lo, align), n) /\ Done(AlignUp(lo, align), n)
  /\ UNCHANGED <<block, brk, failed, huge>>

(* HugetlbSysAllocator.  Every request names a place for actual_size, so the  *)
(* small ones of MetaDataAlloc are served as well.                           *)
hugeAlign == Max2(req.align, big_page_size_)
hugeSize == AlignUp(req.size, hugeAlign)
hugeExtra == hugeAlign - big_page_size_
OverLimit == limit > 0 /\ huge.base + hugeSize + hugeExtra > limit
Hugetlb ==
  /\ At("hugetlb") /\ ~huge.failed /\ hugeSize >= req.size /\ ~OverLimit
  /\ \E lo \in Holes(hugeSize + hugeExtra, big_page_size_) :
       /\ Take(lo, hugeSize + hugeExtra) /\ Done(AlignUp(lo, hugeAlign), lo + hugeSize + hugeExtra - AlignUp(lo, hugeAlign))
  /\ huge' = [huge EXCEPT !.base = @ + hugeSize + hugeExtra]
  /\ UNCHANGED <<block, brk, failed>>
\* Not for this request, or for no other one either: no page is left, or the file
\* does not grow, or the mapping fails (which a flag makes it ignore).
HugetlbFallsBack ==
  /\ At("hugetlb") /\ Become([pc |-> "default"])
  /\ \/ (huge.failed \/ hugeSize < req.size) /\ UNCHANGED huge
     \/ /\ ~huge.failed /\ hugeSize >= req.size /\ OverLimit
        /\ huge' = [huge EXCEPT !.failed = limit - huge.base < big_page_size_]
     \/ /\ ~huge.failed /\ hugeSize >= req.size /\ ~OverLimit
        /\ \E b \in BOOLEAN : huge' = [huge EXCEPT !.failed = b]
  /\ UNCHANGED <<OS, failed, Pages>>

(* VirtualSysAllocator.                                                      *)
VirtualAlloc ==
  /\ At("VirtualAlloc") /\ UNCHANGED <<brk, failed, huge>>
  /\ LET n == AlignUp(req.size, pagesize) IN
     \/ /\ n > 0 /\ \E lo \in Holes(n, pagesize) :
             /\ Take(lo, n) /\ block' = [a \in Addresses |-> IF a \in Part(lo, n) THEN lo ELSE block[a]] /\ Done(lo, n)
     \/ Refused /\ UNCHANGED <<mem, block>>

------------------------------------------------------------------------------
(* What the page heap gives back and takes again: a span of memory it has,    *)
(* which may be pieced together from what several requests got.             *)

Ours == UNION {Part(g.lo, g.n) : g \in given}
Spans(s) == {<<lo, n>> \in (First..Top) \X (1..Top) : lo % kPageSize = 0 /\ n % kPageSize = 0 /\ Part(lo, n) \subseteq s}

\* The whole pages of it.  (Here one span is out at a time, a bound.)
TCMalloc_SystemRelease ==
  /\ platform # "windows" /\ At("idle") /\ used = Ours
  /\ \E s \in Spans(used) :
       LET new_start == AlignUp(s[1], pagesize)  new_end == ((s[1] + s[2]) \div pagesize) * pagesize IN
       used' = used \ Part(s[1], s[2]) /\ backed' = backed \ (new_start..new_end - 1)
  /\ UNCHANGED <<OS, given, failed, huge, req>>
\* Nothing to do: memory comes back when it is touched.
TCMalloc_SystemCommit ==
  /\ platform # "windows" /\ At("idle")
  /\ \E s \in Spans(Ours \ used) : used' = used \cup Part(s[1], s[2]) /\ backed' = backed \cup Part(s[1], s[2])
  /\ UNCHANGED <<OS, given, failed, huge, req>>

\* On Windows at once, if it is all of one VirtualAlloc, or else by the regions that
\* VirtualQuery finds: the pages that follow, of the same one and in the same state.
OneBlock(lo, n) == \A a \in Part(lo, n) : block[a] = block[lo]
RegionSize(lo) ==
  Max({n \in 1..Top - lo : OneBlock(lo, n) /\ \A a \in Part(lo, n) : a \in backed <=> lo \in backed})
Change(pc, lo, n) == backed' = IF pc = "release" THEN backed \ Part(lo, n) ELSE backed \cup Part(lo, n)
Min2(a, b) == IF a < b THEN a ELSE b

WindowsCall(pc, s) ==
  /\ platform = "windows" /\ At("idle")
  /\ used' = IF pc = "release" THEN used \ Part(s[1], s[2]) ELSE used \cup Part(s[1], s[2])
  /\ IF OneBlock(s[1], s[2]) THEN Change(pc, s[1], s[2]) /\ UNCHANGED req
                             ELSE Become([pc |-> pc, ptr |-> s[1], n |-> s[1] + s[2]]) /\ UNCHANGED backed
  /\ UNCHANGED <<OS, given, failed, huge>>
Region ==
  /\ req.pc \in {"release", "commit"} /\ UNCHANGED <<OS, given, failed, huge, used>>
  /\ LET size == Min2(RegionSize(req.ptr), req.n - req.ptr) IN
     Change(req.pc, req.ptr, size) /\ IF req.ptr + size = req.n THEN req' = Idle ELSE Become([ptr |-> req.ptr + size])

\* The rest of the program.
Foreign ==
  /\ platform # "windows" /\ Cardinality({a \in First..Top - 1 : mem[a] = "other"}) < MaxForeign
  /\ UNCHANGED <<block, given, failed, huge, used, backed, req>>
  /\ \/ /\ brk < Top /\ IsFree(brk, 1) /\ mem' = [mem EXCEPT ![brk] = "other"] /\ brk' = brk + 1
     \/ /\ UNCHANGED brk
        /\ \E lo \in Holes(pagesize, pagesize) : mem' = [a \in Addresses |-> IF a \in Part(lo, pagesize) THEN "other" ELSE mem[a]]

Next ==
  \/ \E size \in Sizes, alignment \in Alignments : TCMalloc_SystemAlloc(size, alignment)
  \/ DefaultAlloc \/ ChildFails \/ SbrkFirst \/ SbrkExtra \/ SbrkAgain \/ Mmap \/ Hugetlb \/ HugetlbFallsBack
  \/ VirtualAlloc \/ TCMalloc_SystemRelease \/ TCMalloc_SystemCommit
  \/ \E s \in Spans(used) : WindowsCall("release", s)
  \/ \E s \in Spans(Ours \ used) : WindowsCall("commit", s)
  \/ Region \/ Foreign
Spec == Init /\ [][Next]_vars

------------------------------------------------------------------------------
\* What is handed out is enough, aligned, this process's own and nobody else's,
\* whatever else moved the break or mapped memory in between.
GivenTrue ==
  \A g \in given : /\ g.n >= g.size /\ g.lo % g.align = 0
                   /\ \A a \in Part(g.lo, g.n) : mem[a] = "ours"
                   /\ \A h \in given \ {g} : Part(g.lo, g.n) \cap Part(h.lo, h.n) = {}

\* Memory in use is never dropped; on Windows a range of several blocks is given back
\* and comes back whole, and no more than it (system-alloc.h:77-78).
NoPageLost ==
  /\ ~At("commit") => used \subseteq backed
  /\ platform = "windows" /\ At("idle") => used = backed

\* Failures end: when a request is over, some allocator is to be tried by the next; and
\* the file of big pages stays under its limit.
StillTries ==
  /\ At("idle") => \E i \in 1..2 : ~failed[i]
  /\ limit > 0 => huge.base <= limit
==============================================================================
