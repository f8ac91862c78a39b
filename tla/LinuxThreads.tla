------------------------------ MODULE LinuxThreads ------------------------------
(***************************************************************************)
(* How the heap checker stops all threads of its process on Linux            *)
(* (base/linuxthreads.cc).  TCMalloc_ListAllProcessThreads clones a lister,   *)
(* a process that shares the memory; it reads /proc, attaches to every thread *)
(* it finds there, until a pass finds no more, and calls the callback, while  *)
(* threads that it has not stopped yet clone others, exit and fork.          *)
(*   alive      threads; forked: child processes that have inherited the      *)
(*              marker, an open socket by which the lister knows its own      *)
(*   parents    threads that have cloned another one meanwhile; born: how      *)
(*              many have been; a pid is given again when it is free            *)
(*   traced, stopped   those the lister is attached to, and those of them     *)
(*              that have come to a stop                                      *)
(*   foreign    threads that a debugger traces; nobody else may attach        *)
(*   pids       sig_pids, up to sig_num_threads                               *)
(*   lister     its state: path, where it reads; batch, the entries it got    *)
(*              and cursor, how far; max, max_threads;                        *)
(*              hasTask, whether the kernel has /proc/self/task           *)
(*   caller     where the thread is that called; result: what it returns      *)
(* The lister has no help from a kernel that releases what a dead tracer      *)
(* held.  Reading /proc does not fail; SIGABRT, after which the lister kills   *)
(* the process, the masks of signals and PR_SET_DUMPABLE are left out.       *)
(***************************************************************************)
EXTENDS Naturals, FiniteSets, SequencesExt

CONSTANTS
  MaxPid,
  MaxBorn,        \* threads and processes cloned meanwhile
  leader,         \* ppid: the pid of the process, and of its first thread
  Slack,          \* entries in pids beyond those of the first look (100)
  MaxBatch        \* entries that a call of getdents returns at most

VARIABLES alive, forked, parents, born, traced, stopped, foreign, pids, lister, caller, result
vars == <<alive, forked, parents, born, traced, stopped, foreign, pids, lister, caller, result>>

Pids == 1..MaxPid
Ok == "ok"
Start == [pc |-> "none", path |-> 1, batch |-> <<>>, cursor |-> 0, added |-> 0, found |-> FALSE, max |-> 0, hasTask |-> TRUE]

Init ==
  /\ alive \in {{leader}, {leader, leader + 1}} /\ forked = {} /\ parents = {} /\ born = 0
  /\ traced = {} /\ stopped = {} /\ foreign \in SUBSET alive /\ Cardinality(foreign) <= 1
  /\ pids = <<>> /\ lister \in {Start, [Start EXCEPT !.hasTask = FALSE]} /\ result = "none"
  /\ \E t \in alive \ foreign : caller = [tid |-> t, pc |-> "call"]

Lister(pc) == lister.pc = pc
Become(r) == lister' = r @@ lister
Threads == <<alive, forked, parents, born, foreign>>
Caller == <<caller, result>>

------------------------------------------------------------------------------
(* The caller; a thread like the others, which the lister stops as well.     *)

\* The clone waits for the lock until the caller has let it trace (PR_SET_PTRACER).
Clone ==
  /\ caller.pc = "call"
  /\ \/ caller' = [caller EXCEPT !.pc = "post"] /\ Become([pc |-> "lock"]) /\ UNCHANGED result
     \/ caller' = [caller EXCEPT !.pc = "return"] /\ result' = "ECHILD" /\ UNCHANGED lister
  /\ UNCHANGED <<Threads, traced, stopped, pids>>
Post == /\ caller.pc = "post" /\ caller' = [caller EXCEPT !.pc = "wait"] /\ UNCHANGED <<Threads, traced, stopped, pids, lister, result>>
Waits == /\ caller.pc = "wait" /\ Lister("exited") /\ caller.tid \notin stopped
         /\ caller' = [caller EXCEPT !.pc = "return"] /\ UNCHANGED <<Threads, traced, stopped, pids, lister, result>>
Returns == /\ caller.pc = "return" /\ caller' = [caller EXCEPT !.pc = "done"]
           /\ UNCHANGED <<Threads, traced, stopped, pids, lister, result>>

------------------------------------------------------------------------------
(* The lister.                                                              *)

Released(s) == /\ traced' = traced \ s /\ stopped' = stopped \ s
Exit(r) == /\ Become([pc |-> "exited"]) /\ result' = r

Marker == /\ Lister("lock") /\ caller.pc = "wait" /\ UNCHANGED <<Threads, traced, stopped, pids, caller>>
          /\ \/ Become([pc |-> "open"]) /\ UNCHANGED result
             \/ Exit("ECHILD")

\* The entries of /proc that may be ours: with the task directory, threads are hidden in /proc.
Listing == IF lister.path = 1 THEN alive ELSE forked \cup IF lister.hasTask THEN alive \cap {leader} ELSE alive
Most(a, b) == IF a > b THEN a ELSE b
Open ==
  /\ Lister("open")
  /\ IF lister.path = 1 /\ ~lister.hasTask
       THEN Become([path |-> 2])
       ELSE Become([pc |-> "read", cursor |-> 0, added |-> 0, max |-> Most(lister.max, Cardinality(Listing) + Slack)])
  /\ UNCHANGED <<Threads, traced, stopped, pids, Caller>>

\* Mutant: one pass over the directory is enough.
ReadOnce ==
  /\ Lister("read")
  /\ LET rest == {p \in Listing : p > lister.cursor} IN
     IF rest = {} THEN Become([pc |-> "close"])
     ELSE LET batch == SetToSortSeq(rest, <) IN Become([pc |-> "entry", batch |-> batch, cursor |-> Last(batch)])
  /\ UNCHANGED <<Threads, traced, stopped, pids, Caller>>

Read ==
  /\ Lister("read")
  /\ LET rest == {p \in Listing : p > lister.cursor} IN
     IF rest = {} THEN IF lister.added > 0 THEN Become([cursor |-> 0, added |-> 0]) ELSE Become([pc |-> "close"])
     ELSE \E n \in 1..(IF Cardinality(rest) < MaxBatch THEN Cardinality(rest) ELSE MaxBatch) :
            LET batch == SubSeq(SetToSortSeq(rest, <), 1, n) IN
            Become([pc |-> "entry", batch |-> batch, cursor |-> Last(batch)])
  /\ UNCHANGED <<Threads, traced, stopped, pids, Caller>>

entry == Head(lister.batch)
NextEntry == [batch |-> Tail(lister.batch), pc |-> IF Len(lister.batch) = 1 THEN "read" ELSE "entry"]
\* An entry is ours if it has the marker; it may have gone, or be known already.
Entry ==
  /\ Lister("entry")
  /\ CASE entry \notin alive \cup forked \/ entry \in ToSet(pids) -> Become(NextEntry) /\ UNCHANGED pids
       [] Len(pids) >= lister.max /\ entry \in (alive \cup forked) \ ToSet(pids) -> Become([pc |-> "detach"]) /\ UNCHANGED pids
       [] OTHER -> pids' = Append(pids, entry) /\ Become([pc |-> "attach"])
  /\ UNCHANGED <<Threads, traced, stopped, Caller>>
Attach ==
  /\ Lister("attach")
  /\ IF entry \in (alive \cup forked) \ foreign
       THEN traced' = traced \cup {entry} /\ Become([pc |-> "stop"]) /\ UNCHANGED pids
       ELSE pids' = Front(pids) /\ Become(NextEntry) /\ UNCHANGED traced
  /\ UNCHANGED <<Threads, stopped, Caller>>
\* It has stopped, or has exited before; one with other memory is a child process.
Stop ==
  /\ Lister("stop")
  /\ IF entry \in alive
       THEN /\ stopped' = stopped \cup {entry} /\ UNCHANGED <<traced, pids>>
            /\ Become([found |-> lister.found \/ entry = leader, added |-> lister.added + 1] @@ NextEntry)
       ELSE Released({entry}) /\ pids' = Front(pids) /\ Become(NextEntry)
  /\ UNCHANGED <<Threads, Caller>>

Close ==
  /\ Lister("close")
  /\ IF Len(pids) <= 1 /\ lister.path = 1
       THEN Become([pc |-> "detach", path |-> 2]) /\ UNCHANGED <<traced, stopped, result>>
       ELSE IF lister.found THEN Become([pc |-> "callback"]) /\ UNCHANGED <<traced, stopped, result>>
                            ELSE Released(ToSet(pids)) /\ Exit("EPERM")
  /\ UNCHANGED <<Threads, pids, caller>>
\* Start again, with more memory or elsewhere.
Detach ==
  /\ Lister("detach") /\ Released(ToSet(pids)) /\ pids' = <<>>
  /\ Become([pc |-> "open", max |-> lister.max + Slack]) /\ UNCHANGED <<Threads, Caller>>

\* The callback resumes the threads; what it forgot is resumed and reported.
Callback ==
  /\ Lister("callback") /\ Become([pc |-> "resume"])
  /\ \E s \in {{}, ToSet(pids)} \cup {{p} : p \in ToSet(pids)} : Released(s)
  /\ UNCHANGED <<Threads, pids, Caller>>
Resume ==
  /\ Lister("resume") /\ Released(ToSet(pids)) /\ Exit(IF traced = {} THEN Ok ELSE "EINVAL")
  /\ UNCHANGED <<Threads, pids, caller>>
\* A synchronous signal, wherever the lister is.
SignalHandler ==
  /\ lister.pc \in {"open", "read", "entry", "attach", "stop", "close", "callback", "detach", "resume"}
  /\ Released(ToSet(pids)) /\ Exit("EFAULT")
  /\ UNCHANGED <<Threads, pids, caller>>

------------------------------------------------------------------------------
(* Threads that run.  What a traced thread clones its tracer gets, too.  A    *)
(* thread that has cloned others does not exit meanwhile: a chain of threads  *)
(* that each clone one with a lower pid and exit could stay ahead of every pass. *)

Running(t) == t \in alive \ stopped /\ (t = caller.tid => caller.pc \in {"call", "done"})
Unused == Pids \ (alive \cup forked \cup traced)
ThreadClones == /\ born < MaxBorn /\ born' = born + 1
                /\ \E t \in {u \in alive : Running(u)}, p \in Unused :
                     /\ alive' = alive \cup {p} /\ parents' = parents \cup {t}
                     /\ foreign' = IF t \in foreign THEN foreign \cup {p} ELSE foreign
                /\ UNCHANGED forked
ThreadForks == /\ born < MaxBorn /\ born' = born + 1 /\ \E t \in alive : Running(t)
               /\ \E p \in Unused : forked' = forked \cup {p}
               /\ UNCHANGED <<alive, parents, foreign>>
\* The first thread, too, may exit before the process does.
ThreadExits == /\ \E t \in alive \ (parents \cup {caller.tid}) :
                    /\ Running(t) /\ alive' = alive \ {t} /\ foreign' = foreign \ {t}
               /\ UNCHANGED <<forked, parents, born>>
\* The marker is closed on exec.
ChildExecs == /\ \E p \in forked : forked' = forked \ {p}
              /\ UNCHANGED <<alive, parents, born, foreign>>
Run == /\ caller.pc # "done" /\ (ThreadClones \/ ThreadForks \/ ThreadExits \/ ChildExecs)
       /\ UNCHANGED <<traced, stopped, pids, lister, Caller>>

ListerStep == \/ Marker \/ Open \/ Read \/ Entry \/ Attach \/ Stop \/ Close \/ Detach \/ Callback \/ Resume \/ SignalHandler
Next == Clone \/ Post \/ Waits \/ Returns \/ ListerStep \/ Run
Spec == Init /\ [][Next]_vars

------------------------------------------------------------------------------
\* In the callback no thread of the process runs, but those that a debugger
\* holds, and those that are stopped are exactly the pids it gets.  (Of a process
\* whose first thread has not exited: found_parent is not reset for a second try,
\* which may then find only one thread, look in /proc, and find none.)
AllStopped ==
  Lister("callback") /\ leader \in alive => /\ alive \ foreign = stopped
                        /\ ToSet(pids) = stopped /\ traced = stopped /\ IsInjective(pids)
\* A fault of the lister, wherever it happens, finds every thread it is attached to in
\* sig_pids, so nobody stays stopped when it is gone, and the caller returns with an answer.
NoneLeftStopped ==
  /\ traced \subseteq ToSet(pids) /\ stopped \subseteq traced
  /\ Lister("exited") => traced = {}
  /\ caller.pc = "done" => result # "none"
==============================================================================
