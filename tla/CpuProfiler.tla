----------------------------- MODULE CpuProfiler -----------------------------
(***************************************************************************)
(* The CPU profiler of TCmalloc: a timer interrupts threads, the handler of  *)
(* its signal runs the callbacks (profile-handler.cc), that of the profiler  *)
(* (profiler.cc) adds the stack to a table, from which entries are evicted   *)
(* to a buffer and the buffer to a file (profiledata.cc).                   *)
(*   lock           lock_ of CpuProfiler: its holder or None                 *)
(*   control_lock, signal_lock                                              *)
(*   callbacks      registered callbacks: the profiler's, another one's      *)
(*   pending        the timer's signal, until a thread takes it             *)
(*   out            enabled(): the file is open                             *)
(*   hash, evict, file   [stack, count] in one bucket of the table, in the   *)
(*                  buffer, and in the file; num_evicted_: slots in the     *)
(*                  buffer; count: count_                                  *)
(*   th             a thread's call, where it is, and whether it blocks the   *)
(*                  signal; a: the entry its loop is at; handler: where its  *)
(*                  handler is, if it runs                                 *)
(***************************************************************************)
EXTENDS Integers, FiniteSets, Sequences

CONSTANTS
  Callers, None,     \* threads, which call the profiler; no one
  Traces, Depth,     \* stacks; Depth[s]: the frames of s
  kAssociativity, kBufferLength,
  MaxTicks           \* bound on the signals of the timer
\* profiledata.h: a trace fits into the buffer, the header too.
ASSUME CpuAssumption ==
  /\ None \notin Callers /\ kAssociativity \in Nat \ {0} /\ kBufferLength \in Nat /\ kBufferLength >= 5
  /\ Traces \cap {"none", "wait", "add", "leave", "header", "trailer"} = {}
  /\ Depth \in [Traces -> Nat] /\ \A s \in Traces : Depth[s] + 2 <= kBufferLength

VARIABLES lock, control_lock, signal_lock, callbacks, callback_count, timer_running, pending, ticks,
          out, hash, evict, num_evicted_, file, count, th, handler
Locks == <<lock, control_lock, signal_lock>>
HandlerVars == <<callbacks, callback_count, timer_running>>
Buffer == <<evict, num_evicted_, file>>
DataVars == <<out, hash, Buffer, count>>
cpuVars == <<Locks, HandlerVars, pending, ticks, DataVars, th, handler>>

Header == [stack |-> "header", count |-> 0]
Trailer == [stack |-> "trailer", count |-> 0]
Free == [stack |-> "none", count |-> 0]
EmptyTable == [a \in 1..kAssociativity |-> Free]

Idle == [call |-> "none", pc |-> "idle", op |-> "none", cb |-> "prof", blocked |-> FALSE, a |-> 1]
CpuInit ==
  /\ lock = None /\ control_lock = None /\ signal_lock = None
  /\ callbacks = {} /\ callback_count = 0 /\ timer_running = FALSE /\ pending = FALSE /\ ticks = 0
  /\ out = FALSE /\ hash = EmptyTable /\ evict = <<>> /\ num_evicted_ = 0 /\ file = <<>> /\ count = 0
  /\ th = [t \in Callers |-> Idle] /\ handler = [t \in Callers |-> "none"]

\* A thread goes on with its call when no handler has interrupted it.
At(t, pc) == th[t].pc = pc /\ handler[t] = "none"
Go(t, r) == th' = [th EXCEPT ![t] = r]

------------------------------------------------------------------------------
(* ProfileData.                                                             *)

Evict(e) ==
  LET nslots == Depth[e.stack] + 2 IN
  IF num_evicted_ + nslots > kBufferLength
    THEN file' = file \o evict /\ evict' = <<e>> /\ num_evicted_' = nslots
    ELSE UNCHANGED file /\ evict' = Append(evict, e) /\ num_evicted_' = num_evicted_ + nslots
EvictUsed(e) == IF e.count > 0 THEN Evict(e) ELSE UNCHANGED Buffer

StartData == /\ out' = TRUE /\ hash' = EmptyTable /\ file' = <<>> /\ count' = 0
             /\ evict' = <<Header>> /\ num_evicted_' = 5
FlushEvicted == /\ file' = file \o evict /\ evict' = <<>> /\ num_evicted_' = 0
                /\ UNCHANGED <<out, hash, count>>
StopData == /\ file' = file \o evict \o <<Trailer>> /\ evict' = <<>> /\ num_evicted_' = 0
            /\ hash' = EmptyTable /\ out' = FALSE /\ UNCHANGED count

\* FlushTable clears the entries it evicts, Stop deletes the table in the end.
ClearedNot(t) == hash  \* a mutated form
Cleared(t) == IF th[t].pc = "flush" THEN [hash EXCEPT ![th[t].a] = Free] ELSE hash

------------------------------------------------------------------------------
(* Calls.  Those of CpuProfiler hold lock_ and register or unregister their   *)
(* callback under it; other clients of the handler do so without it.        *)

Call(t) ==
  /\ At(t, "idle")
  /\ \/ \E c \in {"Start", "Stop", "Flush"} : Go(t, [th[t] EXCEPT !.call = c, !.pc = "lock"])
     \/ /\ \A u \in Callers : th[u].call # "Other"   \* one client, one thread
        /\ Go(t, [th[t] EXCEPT !.call = "Other", !.pc = "control", !.cb = "other",
                               !.op = IF "other" \in callbacks THEN "unregister" ELSE "register"])
     \/ Go(t, [th[t] EXCEPT !.call = "Thread", !.pc = "control", !.op = "thread"])
  /\ UNCHANGED <<Locks, HandlerVars, pending, ticks, DataVars, handler>>

Lock(t) ==
  /\ At(t, "lock") /\ lock = None /\ lock' = t
  /\ \/ (th[t].call = "Start") = out /\ Go(t, [th[t] EXCEPT !.pc = "unlock"])
     \/ th[t].call = "Start" /\ ~out /\ Go(t, [th[t] EXCEPT !.pc = "open"])
     \/ th[t].call # "Start" /\ out /\ Go(t, [th[t] EXCEPT !.pc = "control", !.op = "unregister"])
  /\ UNCHANGED <<control_lock, signal_lock, HandlerVars, pending, ticks, DataVars, handler>>

\* GetState passes both locks of the handler; then the file is opened, or not.
Open(t) ==
  /\ At(t, "open") /\ control_lock = None /\ signal_lock = None
  /\ \/ StartData /\ Go(t, [th[t] EXCEPT !.pc = "control", !.op = "register"])
     \/ UNCHANGED DataVars /\ Go(t, [th[t] EXCEPT !.pc = "unlock"])
  /\ UNCHANGED <<Locks, HandlerVars, pending, ticks, handler>>

Control(t) == /\ At(t, "control") /\ control_lock = None /\ control_lock' = t /\ Go(t, [th[t] EXCEPT !.pc = "block"])
              /\ UNCHANGED <<lock, signal_lock, HandlerVars, pending, ticks, DataVars, handler>>

\* ScopedSignalBlocker
Block(t) == /\ At(t, "block") /\ Go(t, [th[t] EXCEPT !.pc = "signal", !.blocked = TRUE])
            /\ UNCHANGED <<Locks, HandlerVars, pending, ticks, DataVars, handler>>
SignalLock(t) == /\ At(t, "signal") /\ signal_lock = None /\ signal_lock' = t /\ Go(t, [th[t] EXCEPT !.pc = "update"])
                 /\ UNCHANGED <<lock, control_lock, HandlerVars, pending, ticks, DataVars, handler>>

Callbacks(x) ==
  \/ /\ x.op = "register"
     /\ callbacks' = callbacks \cup {x.cb} /\ callback_count' = callback_count + 1 /\ timer_running' = TRUE
  \/ /\ x.op = "unregister"
     /\ callbacks' = callbacks \ {x.cb} /\ callback_count' = callback_count - 1
     /\ timer_running' = (timer_running /\ callback_count' > 0)
  \/ /\ x.op = "thread"
     /\ timer_running' = (callback_count > 0) /\ UNCHANGED <<callbacks, callback_count>>
Then(x) == CASE x.call = "Stop" -> "close" [] x.call = "Flush" /\ x.op = "unregister" -> "flush" [] OTHER -> "unlock"
\* Callbacks and the timer, then both locks are released and the signal is let in.
Update(t) ==
  /\ At(t, "update") /\ Callbacks(th[t])
  /\ signal_lock' = None /\ control_lock' = None
  /\ IF th[t].call \in {"Other", "Thread"} THEN Go(t, Idle)
     ELSE Go(t, [th[t] EXCEPT !.blocked = FALSE, !.op = "none", !.pc = Then(th[t])])
  /\ UNCHANGED <<lock, pending, ticks, DataVars, handler>>

\* FlushTable and Stop go through the entries of the table.
Move(t) ==
  /\ At(t, "flush") \/ At(t, "close")
  /\ th[t].a <= kAssociativity /\ Go(t, [th[t] EXCEPT !.a = @ + 1])
  /\ EvictUsed(hash[th[t].a]) /\ hash' = Cleared(t)
  /\ UNCHANGED <<Locks, HandlerVars, pending, ticks, out, count, handler>>
Flush(t) == /\ At(t, "flush") /\ th[t].a > kAssociativity /\ FlushEvicted
            /\ Go(t, [th[t] EXCEPT !.pc = "control", !.op = "register", !.a = 1])
            /\ UNCHANGED <<Locks, HandlerVars, pending, ticks, handler>>
Close(t) == /\ At(t, "close") /\ th[t].a > kAssociativity /\ StopData
            /\ Go(t, [th[t] EXCEPT !.pc = "unlock", !.a = 1])
            /\ UNCHANGED <<Locks, HandlerVars, pending, ticks, handler>>
Unlock(t) == /\ At(t, "unlock") /\ lock' = None /\ Go(t, Idle)
             /\ UNCHANGED <<control_lock, signal_lock, HandlerVars, pending, ticks, DataVars, handler>>

------------------------------------------------------------------------------
(* The timer and the handler of its signal, in any thread at any point.      *)

Tick == /\ timer_running /\ ~pending /\ ticks < MaxTicks /\ pending' = TRUE /\ ticks' = ticks + 1
        /\ UNCHANGED <<Locks, HandlerVars, DataVars, th, handler>>
In(t, pc, next) == handler[t] = pc /\ handler' = [handler EXCEPT ![t] = next] /\ UNCHANGED <<HandlerVars, ticks, th>>
Deliver(t) == /\ pending /\ ~th[t].blocked /\ pending' = FALSE /\ In(t, "none", "wait") /\ UNCHANGED <<Locks, DataVars>>
SignalHandler(t) ==
  /\ signal_lock = None /\ signal_lock' = t
  /\ In(t, "wait", IF "prof" \in callbacks THEN "add" ELSE "leave")
  /\ UNCHANGED <<lock, control_lock, pending, DataVars>>

\* ProfileData::Add: the entry of the stack is counted, or the one with the lowest count makes room.
Matches(s) == {a \in 1..kAssociativity : hash[a].stack = s}
Lowest == CHOOSE a \in 1..kAssociativity : \A b \in 1..kAssociativity : hash[a].count < hash[b].count \/ (hash[a].count = hash[b].count /\ a <= b)
AddKnown(t) ==
  /\ In(t, "add", "leave") /\ count' = count + 1
  /\ \E s \in Traces : \E a \in Matches(s) : hash' = [hash EXCEPT ![a].count = @ + 1]
  /\ UNCHANGED <<Locks, pending, out, Buffer>>
AddNew(t) ==
  /\ \E s \in Traces : Matches(s) = {} /\ In(t, "add", s)
  /\ count' = count + 1 /\ EvictUsed(hash[Lowest])
  /\ UNCHANGED <<Locks, pending, out, hash>>
Store(t) ==
  /\ handler[t] \in Traces /\ In(t, handler[t], "leave")
  /\ hash' = [hash EXCEPT ![Lowest] = [stack |-> handler[t], count |-> 1]]
  /\ UNCHANGED <<Locks, pending, out, Buffer, count>>
\* filter_in_thread says that this thread is not profiled.
Filtered(t) == In(t, "add", "leave") /\ UNCHANGED <<Locks, pending, DataVars>>
Leave(t) == In(t, "leave", "none") /\ signal_lock' = None /\ UNCHANGED <<lock, control_lock, pending, DataVars>>

Step(t) ==
  \/ Call(t) \/ Lock(t) \/ Open(t) \/ Control(t) \/ Block(t) \/ SignalLock(t) \/ Update(t) \/ Move(t) \/ Flush(t) \/ Close(t) \/ Unlock(t)
  \/ Deliver(t) \/ SignalHandler(t) \/ AddKnown(t) \/ AddNew(t) \/ Store(t) \/ Filtered(t) \/ Leave(t)
CpuNext == Tick \/ \E t \in Callers : Step(t)
CpuSpec == CpuInit /\ [][CpuNext]_cpuVars

------------------------------------------------------------------------------
\* The sum of the numbers in a sequence.
Sum(f) == Cardinality(UNION {{i} \X (1..f[i]) : i \in DOMAIN f})
Counts(q) == Sum([i \in DOMAIN q |-> q[i].count])
SlotsOf(e) == CASE e.stack = "header" -> 5 [] e.stack = "trailer" -> 3 [] OTHER -> Depth[e.stack] + 2
SlotsUsed(q) == Sum([i \in DOMAIN q |-> SlotsOf(q[i])])

\* Every sample is once in the table, the buffer or the file (a handler in the
\* middle of storing one and a loop that empties the table aside), and with the
\* profile stopped, in the file; the buffer is as full as its counter says.
SamplesConserved ==
  /\ (\A t \in Callers : handler[t] \notin Traces /\ th[t].a = 1) => Counts(hash) + Counts(file \o evict) = count
  /\ ~out => evict = <<>> /\ hash = EmptyTable
  /\ num_evicted_ = SlotsUsed(evict) /\ num_evicted_ <= kBufferLength

\* A file has a header and, closed, a trailer, and nothing before or after.
FileWhole ==
  LET f == file \o evict IN
  f # <<>> => /\ \A i \in DOMAIN f : (f[i].stack = "header") = (i = 1)
              /\ \A i \in DOMAIN f : (f[i].stack = "trailer") = (i = Len(f) /\ ~out)

\* The handler never waits for a lock that the thread it interrupted holds, and
\* never adds to a profile that is not open.
HandlerSafe == \A t \in Callers : /\ handler[t] = "wait" => signal_lock # t
                                  /\ handler[t] = "add" \/ handler[t] \in Traces => out
\* The timer runs while there are callbacks.
TimerTrue == callback_count = Cardinality(callbacks) /\ timer_running = (callbacks # {})

\* Starts, stops and flushes in any thread, interrupted by signals anywhere, lose no
\* sample and count none twice, and the files are well formed.
SamplesCounted == SamplesConserved /\ FileWhole /\ HandlerSafe /\ TimerTrue
=============================================================================
