---------------------------- MODULE PatchFunctions ----------------------------
(***************************************************************************)
(* How tcmalloc takes over the C libraries of a Windows process              *)
(* (windows/patch_functions.cc): malloc and its like in every loaded module   *)
(* that has them are patched to jump to the functions of a slot of            *)
(* g_module_libcs, and LoadLibraryExW and FreeLibrary so as to patch what     *)
(* comes and forget what goes.                                              *)
(*   refs           the system's count of references to a loaded module      *)
(*   code           where a function leads: <<>>, to its own code, or <<s>>,  *)
(*                  to the Perftools function of the slot s (main_executable  *)
(*                  is slot 0)                                               *)
(*   libcs          the slots: is_valid_, module_base_address_, windows_fn_   *)
(*   origstub_fn    of a slot: the function whose own code it keeps, or NULL  *)
(*   g_last_loaded  the modules that were there at the last look             *)
(*   main           main_executable: what it has patched, or not yet         *)
(*   stack          the calls of the thread, innermost first: the entry       *)
(*                  point of a module may load and free other ones           *)
(*   refused        the modules there was no slot for                        *)
(* The loading of modules is taken to be the work of one thread at a time.    *)
(***************************************************************************)
EXTENDS Naturals, FiniteSets, SequencesExt

CONSTANTS
  Modules, Slots,
  Libcs,        \* the modules that have the functions
  Shared,       \* those of them where new and malloc are the same function
  Static,       \* whether the executable has a C library of its own
  MaxRefs, MaxDepth

VARIABLES refs, code, libcs, origstub_fn, g_last_loaded, main, stack, refused
vars == <<refs, code, libcs, origstub_fn, g_last_loaded, main, stack, refused>>

Functions == <<"malloc", "free", "realloc", "new">>   \* in the order of the enum
Fns == Range(Functions)
Loaded == {m \in Modules : refs[m] > 0}
Addresses == (Modules \cup {"exe"}) \X Fns
NULL == <<"no", "function">>
NoFns == [f \in Fns |-> NULL]
Unused == [valid |-> FALSE, base |-> "none", fn |-> NoFns]

\* GetProcAddress: the functions of a module; those forwarded elsewhere are left out.
Exports(m) == [f \in Fns |-> IF m \notin Libcs THEN NULL ELSE <<m, IF f = "new" /\ m \in Shared THEN "malloc" ELSE f>>]

Init ==
  /\ refs \in [Modules -> 0..1]
  /\ code = [a \in Addresses |-> <<>>] /\ libcs = [s \in Slots |-> Unused] /\ origstub_fn = [s \in Slots |-> NoFns]
  /\ g_last_loaded = {} /\ main = "unpatched" /\ refused = {}
  /\ stack = <<[pc |-> "enum", list |-> {}, module |-> "none"]>>   \* PatchWindowsFunctions

Top == Head(stack)
At(pc) == stack # <<>> /\ Top.pc = pc
Goto(r) == stack' = <<r @@ Top>> \o Tail(stack)
Return == stack' = Tail(stack)
PatchVars == <<code, libcs, origstub_fn, g_last_loaded, main, refused>>

------------------------------------------------------------------------------
(* The system: modules come and go, their entry points may make calls.       *)

\* A call of the program, or of the entry point of a module that is attached or detached.
Call(pc, m) == /\ stack # <<>> => Top.pc \in {"attach", "detach"} /\ Len(stack) < MaxDepth
               /\ ~\E i \in DOMAIN stack : stack[i].module = m
               /\ stack' = <<[pc |-> pc, list |-> {}, module |-> m]>> \o stack
               /\ UNCHANGED <<refs, PatchVars>>
CallLoad == \E m \in Modules : refs[m] < MaxRefs /\ Call("load", m)
CallFree == \E m \in Loaded : Call("free", m)

\* LoadLibraryExW of a module that is there only takes a reference.
LoadKnown == /\ At("load") /\ Top.module \in Loaded
             /\ refs' = [refs EXCEPT ![Top.module] = @ + 1] /\ Return /\ UNCHANGED PatchVars
Maps(m) == code' = [a \in Addresses |-> IF a[1] = m THEN <<>> ELSE code[a]]
LoadNew == /\ At("load") /\ Top.module \notin Loaded
           /\ refs' = [refs EXCEPT ![Top.module] = 1] /\ Maps(Top.module) /\ Goto([pc |-> "attach"])
           /\ UNCHANGED <<libcs, origstub_fn, g_last_loaded, main, refused>>
\* Not found: the modules are looked at all the same.
LoadFails == /\ At("load") /\ Top.module \notin Loaded /\ Goto([pc |-> "enum"]) /\ UNCHANGED <<refs, PatchVars>>
\* The entry point returns; when it refuses, the module is unmapped.
Attached == /\ At("attach") /\ Goto([pc |-> "enum"]) /\ UNCHANGED PatchVars
            /\ UNCHANGED refs \/ refs' = [refs EXCEPT ![Top.module] = 0]

\* FreeLibrary: a module that is still there afterwards needs no further work.
FreeKnown == /\ At("free") /\ refs[Top.module] > 1
             /\ refs' = [refs EXCEPT ![Top.module] = @ - 1] /\ Return /\ UNCHANGED PatchVars
FreeLast == /\ At("free") /\ refs[Top.module] = 1 /\ Goto([pc |-> "detach"]) /\ UNCHANGED <<refs, PatchVars>>
Detached == /\ At("detach") /\ refs' = [refs EXCEPT ![Top.module] = 0] /\ Goto([pc |-> "enum"]) /\ UNCHANGED PatchVars

------------------------------------------------------------------------------
(* PatchAllModules.                                                         *)

EnumProcessModules == At("enum") /\ Goto([pc |-> "forget", list |-> Loaded]) /\ UNCHANGED <<refs, PatchVars>>

\* Mutant: what is no longer loaded keeps its slot.
ForgetNothing ==
  /\ At("forget")
  /\ g_last_loaded' = Top.list /\ Goto([pc |-> "patch", list |-> Top.list \ g_last_loaded])
  /\ UNCHANGED <<refs, code, libcs, origstub_fn, main, refused>>

\* Under the lock: slots of modules that are gone become free; what is not new is left out.
Forget ==
  /\ At("forget")
  /\ libcs' = [s \in Slots |-> [libcs[s] EXCEPT !.valid = @ /\ libcs[s].base \in Top.list]]
  /\ g_last_loaded' = Top.list /\ Goto([pc |-> "patch", list |-> Top.list \ g_last_loaded])
  /\ UNCHANGED <<refs, code, origstub_fn, main, refused>>

\* PopulateWindowsFn: a function follows its jumps; one that an earlier name of
\* the module or a slot has already is left out.
Resolve(a, c) == IF a = NULL \/ c[a] = <<>> THEN a ELSE <<Head(c[a]), a[2]>>
Index(f) == CHOOSE i \in DOMAIN Functions : Functions[i] = f
WindowsFn(exports, x) ==
  LET fn == [f \in Fns |-> Resolve(exports[f], x.code)]
      twice(f) == \E g \in Fns : Index(g) < Index(f) /\ fn[g] = fn[f]
      elsewhere(f) == \E s \in Slots : x.libcs[s].valid /\ x.libcs[s].fn[f] = fn[f]
  IN [f \in Fns |-> IF twice(f) \/ elsewhere(f) THEN NULL ELSE fn[f]]

\* A slot's functions are patched in; a jump that leads to them already is left alone.
PatchSlot(x, s, base, fn) ==
  LET new == {f \in Fns : fn[f] # NULL /\ fn[f] # <<s, f>>} IN
  [x EXCEPT !.libcs[s] = [valid |-> TRUE, base |-> base, fn |-> fn],
            !.origstub = [@ EXCEPT ![s] = [f \in Fns |-> IF f \in new THEN fn[f] ELSE @[f]]],
            !.code = [a \in DOMAIN @ |-> IF \E f \in new : fn[f] = a THEN <<s>> ELSE @[a]]]

FreeSlots(x) == {s \in Slots : ~x.libcs[s].valid}
\* PatchOneModuleLocked, into the first free slot.
PatchOneModule(x, m) ==
  LET fn == WindowsFn(Exports(m), x)
      first == CHOOSE s \in FreeSlots(x) : \A other \in FreeSlots(x) : s <= other
  IN IF fn = NoFns THEN x
     ELSE IF fn["free"] = NULL \/ fn["realloc"] = NULL THEN [x EXCEPT !.died = TRUE]
     ELSE IF FreeSlots(x) = {} THEN [x EXCEPT !.refused = @ \cup {m}]
     ELSE PatchSlot(x, first, m, fn)

\* Under the lock again: the new modules, in some order, and at last the executable.
Patched(new) ==
  FoldSeq(LAMBDA m, x : PatchOneModule(x, m),
          [code |-> code, libcs |-> libcs, origstub |-> origstub_fn, refused |-> refused \cap Loaded, died |-> FALSE],
          SetToSeq(new))
PatchNew ==
  At("patch") /\ \E x \in {Patched(Top.list)} :
     /\ ~x.died
     /\ libcs' = x.libcs /\ origstub_fn' = x.origstub /\ refused' = x.refused
     /\ code' = IF main = "unpatched" /\ Static THEN [a \in Addresses |-> IF a[1] = "exe" THEN <<0>> ELSE x.code[a]] ELSE x.code
     /\ main' = "patched" /\ Return
     /\ UNCHANGED <<refs, g_last_loaded>>

Next == \/ CallLoad \/ CallFree \/ LoadKnown \/ LoadNew \/ LoadFails \/ Attached \/ FreeKnown \/ FreeLast \/ Detached
        \/ EnumProcessModules \/ Forget \/ PatchNew
Spec == Init /\ [][Next]_vars

------------------------------------------------------------------------------
Own(m) == {s \in Slots : libcs[s].valid /\ libcs[s].base = m}
\* When no call is under way every loaded C library has one slot, all its
\* functions lead to that slot, and what the slot hands on goes to the library's
\* own code (a block that tcmalloc did not make is freed by the library that
\* did); no slot is kept for a module that is gone.
LibcsPatched ==
  stack = <<>> =>
    /\ \A m \in (Loaded \cap Libcs) \ refused :
         \E s \in Slots : /\ Own(m) = {s}
                          /\ \A f \in Fns : code[Exports(m)[f]] = <<s>>
                          /\ \A f \in {"free", "realloc"} : origstub_fn[s][f] = <<m, f>>
    /\ \A m \in refused : \A f \in Fns : code[<<m, f>>] = <<>>
    /\ \A s \in Slots : libcs[s].valid => libcs[s].base \in Loaded
    /\ Static => \A f \in Fns : code[<<"exe", f>>] = <<0>>
\* Nothing is patched twice and the CHECKs for free and realloc hold, whatever is loaded.
NeverDies == At("patch") => ~Patched(Top.list).died
==============================================================================
