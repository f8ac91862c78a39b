------------------------------ MODULE HookList ------------------------------
(***************************************************************************)
(* HookList (malloc_hook.cc, malloc_hook-inl.h): hooks are added, removed   *)
(* and exchanged under a spin lock while other threads traverse the list    *)
(* without one and call what they found.  One store or load per step.  The  *)
(* list starts with the initial hook, which at its first call removes       *)
(* itself, runs the initializers once and dispatches again.  One list       *)
(* stands for those of new, delete, mmap, munmap, mremap and sbrk.          *)
(***************************************************************************)
EXTENDS Naturals, Sequences, FiniteSets, FiniteSetsExt, Functions

CONSTANTS
  Writers, Readers,    \* threads that change the list, threads that allocate
  Hooks,               \* hooks of the program
  InitHook,            \* InitialNewHook
  LateHook,            \* the hook the initializers add
  Singular,            \* the hook given to SetNewHook
  kHookListMaxValues   \* slots for normal hooks; the next one is the singular one

None == "none"
kHookListSingularIdx == kHookListMaxValues
Slots == 0..kHookListSingularIdx
Callers == Writers \cup Readers
ASSUME HooksAssumption ==
  /\ kHookListMaxValues \in Nat \ {0}
  /\ {InitHook, LateHook, Singular, None} \cap Hooks = {}
  /\ InitHook \notin {LateHook, Singular, None} /\ LateHook \notin {Singular, None} /\ Singular # None
  /\ None \notin Callers /\ {"no", "done"} \cap Readers = {}

VARIABLES
  priv_data, priv_end,
  hooklist_spinlock,  \* the thread that holds it
  op,      \* by thread: the change it is making: [kind, index]
  call,    \* by reader: the frames of its invocations, innermost last:
           \* [end, i, hooks, next, stay, ever]
  once     \* "no", the reader that runs the initializers, "done"
hookVars == <<priv_data, priv_end, hooklist_spinlock, op, call, once>>

Idle == [kind |-> "idle"]
HookInit ==
  /\ priv_data = [i \in Slots |-> IF i = 0 THEN InitHook ELSE None] /\ priv_end = 1
  /\ hooklist_spinlock = None /\ op = [t \in Callers |-> Idle]
  /\ call = [r \in Readers |-> <<>>] /\ once = "no"

-----------------------------------------------------------------------------
(* Add, Remove and ExchangeSingular of thread t, up to the last store.      *)

Used == {i \in Slots : priv_data[i] # None}
\* A store under the lock, as the traversals in progress see it: stay is what
\* was in the list all along, ever what was in it at some time.
Store(t, i, h, o) ==
  /\ op[t] = Idle /\ hooklist_spinlock = None
  /\ priv_data' = [priv_data EXCEPT ![i] = h]
  /\ call' = [r \in Readers |-> [n \in DOMAIN call[r] |->
       [call[r][n] EXCEPT !.stay = @ \ {priv_data[i]}, !.ever = @ \cup {h}]]]
  /\ hooklist_spinlock' = t /\ op' = [op EXCEPT ![t] = o]
  /\ UNCHANGED priv_end

\* The first empty slot; none is found if all are used.
Add(t, h) ==
  \E i \in 0..(kHookListMaxValues - 1) :
    /\ i \notin Used /\ (0..(i - 1)) \subseteq Used
    /\ Store(t, i, h, [kind |-> "add", end |-> i + 1])
Remove(t, h) ==
  \E i \in 0..(priv_end - 1) :
    /\ priv_data[i] = h /\ \A j \in 0..(i - 1) : priv_data[j] # h
    /\ Store(t, i, None, [kind |-> "fixup"])
ExchangeSingular(t, h) ==
  Store(t, kHookListSingularIdx, h,
        IF h = None THEN [kind |-> "fixup"] ELSE [kind |-> "add", end |-> kHookListSingularIdx + 1])

FixupPrivEnd == Max({0} \cup {i + 1 : i \in {j \in Used : j < priv_end}})

StoreEnd(t) ==
  /\ op[t] # Idle
  /\ priv_end' = IF op[t].kind = "fixup" THEN FixupPrivEnd ELSE Max({priv_end, op[t].end})
  /\ hooklist_spinlock' = None /\ op' = [op EXCEPT ![t] = Idle]
  /\ UNCHANGED <<priv_data, call, once>>

Change(t) ==
  /\ \/ \E h \in Hooks : (\A i \in Slots : priv_data[i] # h) /\ Add(t, h)
     \/ \E h \in Hooks : Remove(t, h)
     \/ \E h \in {Singular, None} \ {priv_data[kHookListSingularIdx]} : ExchangeSingular(t, h)
  /\ UNCHANGED once

-----------------------------------------------------------------------------
(* An allocation of reader r: INVOKE_HOOKS.                                 *)

Inner(r) == call[r][Len(call[r])]
SetInner(r, f) == call' = [call EXCEPT ![r][Len(call[r])] = f]
Frame == [end |-> priv_end, i |-> 0, hooks |-> <<>>, next |-> 1,
          stay |-> {priv_data[i] : i \in {j \in Used : j < priv_end}}, ever |-> {priv_data[i] : i \in Used}]
Traversing(r) == call[r] # <<>> /\ Inner(r).i < Inner(r).end
\* The next hook found is due.
Due(r, h) == /\ call[r] # <<>> /\ op[r] = Idle /\ ~Traversing(r)
             /\ Inner(r).next <= Len(Inner(r).hooks) /\ h = Inner(r).hooks[Inner(r).next]

InvokeNewHook(r) ==
  /\ call[r] = <<>> /\ op[r] = Idle /\ priv_end # 0
  /\ call' = [call EXCEPT ![r] = <<Frame>>]
  /\ UNCHANGED <<priv_data, priv_end, hooklist_spinlock, op, once>>

\* Mutant: the traversal ends at the first empty slot.
VisitStops(f, h) ==
  IF h = None THEN [f EXCEPT !.i = f.end]
  ELSE [f EXCEPT !.hooks = Append(@, h), !.i = IF Len(f.hooks) + 1 = kHookListMaxValues THEN f.end ELSE @ + 1]
\* The output has room for the normal hooks only.
Visit(f, h) ==
  IF h = None THEN [f EXCEPT !.i = @ + 1]
  ELSE [f EXCEPT !.hooks = Append(@, h), !.i = IF Len(f.hooks) + 1 = kHookListMaxValues THEN f.end ELSE @ + 1]
\* One load of the loop in HookList::Traverse.
Traverse(r) ==
  /\ Traversing(r)
  /\ SetInner(r, Visit(Inner(r), priv_data[Inner(r).i]))
  /\ UNCHANGED <<priv_data, priv_end, hooklist_spinlock, op, once>>

CallHook(r) ==
  /\ \E h \in Hooks \cup {Singular, LateHook} : Due(r, h)
  /\ SetInner(r, [Inner(r) EXCEPT !.next = @ + 1])
  /\ UNCHANGED <<priv_data, priv_end, hooklist_spinlock, op, once>>
\* A hook that removes itself when it is called.
RemoveSelf(r) == (\E h \in Hooks : Due(r, h) /\ Remove(r, h)) /\ UNCHANGED once

\* InitialNewHook: the first caller runs RemoveInitialHooksAndCallInitializers;
\* the others wait in perftools_pthread_once.
RemoveInitialHook(r) == once = "no" /\ Due(r, InitHook) /\ Remove(r, InitHook) /\ once' = r
CallInitializers(r) == once = r /\ Due(r, InitHook) /\ Add(r, LateHook) /\ once' = "done"
Redispatch(r) ==
  /\ once = "done" /\ Due(r, InitHook)
  /\ call' = [call EXCEPT ![r] = Append([call[r] EXCEPT ![Len(call[r])] = [Inner(r) EXCEPT !.next = @ + 1]], Frame)]
  /\ UNCHANGED <<priv_data, priv_end, hooklist_spinlock, op, once>>

Return(r) ==
  /\ call[r] # <<>> /\ op[r] = Idle /\ ~Traversing(r) /\ Inner(r).next > Len(Inner(r).hooks)
  /\ call' = [call EXCEPT ![r] = SubSeq(@, 1, Len(@) - 1)]
  /\ UNCHANGED <<priv_data, priv_end, hooklist_spinlock, op, once>>

Allocation(r) ==
  InvokeNewHook(r) \/ Traverse(r) \/ CallHook(r) \/ RemoveSelf(r) \/ RemoveInitialHook(r)
  \/ CallInitializers(r) \/ Redispatch(r) \/ Return(r)
HookNext == (\E t \in Writers : Change(t)) \/ (\E t \in Callers : StoreEnd(t)) \/ (\E r \in Readers : Allocation(r))
HookSpec == HookInit /\ [][HookNext]_hookVars

-----------------------------------------------------------------------------
(* Properties.                                                              *)

HookTypeOK ==
  /\ priv_end \in 0..(kHookListSingularIdx + 1) /\ hooklist_spinlock \in Callers \cup {None}
  /\ \A t \in Callers : op[t] # Idle => hooklist_spinlock = t
  /\ \A r \in Readers : Len(call[r]) <= 2 /\ \A n \in DOMAIN call[r] : Len(call[r][n].hooks) <= kHookListMaxValues

\* When no change is in progress the list is empty exactly if empty() says so,
\* and nothing lies past the end.
EndExact == hooklist_spinlock = None => priv_end = Max({0} \cup {i + 1 : i \in Used})

Traversed == {f \in UNION {Range(call[r]) : r \in Readers} : f.i >= f.end}
\* A traversal without the lock finds every normal hook that was registered
\* from its start to its end, whatever else came and went.
StaySeen == \A f \in Traversed : f.stay \ {Singular} \subseteq Range(f.hooks)
\* It calls only hooks that were registered at some time during it.
NoGhost == \A f \in Traversed : Range(f.hooks) \subseteq f.ever

\* The initializers' hook is added once, and no allocation goes on past the
\* initial hook without it.
InitializedOnce ==
  /\ Cardinality({i \in Slots : priv_data[i] = LateHook}) <= 1
  /\ \A r \in Readers : Len(call[r]) = 2 => LateHook \in Inner(r).ever

\* A traversal without a lock calls every hook that was there all the time and none
\* that was never there; the initial hook runs the initializers once.
HooksSeen == HookTypeOK /\ EndExact /\ StaySeen /\ NoGhost /\ InitializedOnce
=============================================================================
