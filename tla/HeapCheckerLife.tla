-------------------------- MODULE HeapCheckerLife ---------------------------
(***************************************************************************)
(* The heap checker from the first allocation of the process to its exit:    *)
(* when it hooks in, when it turns itself off, and the automatic check.      *)
(***************************************************************************)
EXTENDS Naturals

CONSTANTS Modes, MaxCheckers  \* values of HEAPCHECK, "" if unset; checkers the program makes
ASSUME MaxCheckersAssumption == MaxCheckers \in Nat
VARIABLES stage,    \* of the process: "start", "constructors", "main", "atexit", "checking", "destructors", "end", "dead"
          heapcheck, setuid, gone,  \* HEAPCHECK; getuid() # geteuid(); this is a forked child
          flag,                     \* FLAGS_heap_check
          after_destructors,        \* FLAGS_heap_check_after_destructors
          profiling, on, heap_profile, hooks,  \* constructor_heap_profiling, heap_checker_on, whether the table is there, both hooks set
          prefix, main_checker, do_main,  \* profile_name_prefix, main_heap_checker, do_main_heap_check
          symbolized,               \* have_disabled_hooks_for_symbolize
          checkers,                 \* active checkers the program made
          cancelled, checks, cleaned, exit_code  \* history: the check was cancelled, automatic checks done, cleanups run
env == <<heapcheck, setuid>>
core == <<profiling, on, heap_profile, hooks, prefix, main_checker>>
vars == <<stage, env, gone, flag, after_destructors, core, do_main, symbolized, checkers, cancelled, checks, cleaned, exit_code>>

Init == /\ stage = "start" /\ heapcheck \in Modes /\ setuid \in BOOLEAN /\ gone = FALSE
        /\ flag = heapcheck /\ after_destructors \in BOOLEAN
        /\ profiling = FALSE /\ on = FALSE /\ heap_profile = FALSE /\ hooks = FALSE
        /\ prefix = FALSE /\ main_checker = FALSE /\ do_main = FALSE /\ symbolized = FALSE
        /\ checkers = 0 /\ cancelled = FALSE /\ checks = 0 /\ cleaned = FALSE /\ exit_code = 0

\* At the first allocation, before any constructor.
BeforeConstructors ==
  /\ stage = "start" /\ stage' = "constructors"
  /\ LET need == heapcheck # "" /\ ~setuid IN
     profiling' = need /\ on' = need /\ heap_profile' = need /\ hooks' = need
  /\ UNCHANGED <<env, gone, flag, after_destructors, prefix, main_checker, do_main, symbolized, checkers, cancelled, checks, cleaned, exit_code>>
\* Code before main() may clear the flag.
ClearFlag == /\ stage = "constructors" /\ flag' = ""
             /\ UNCHANGED <<stage, env, gone, after_destructors, core, do_main, symbolized, checkers, cancelled, checks, cleaned, exit_code>>

TurnItselfOffLocked == IF profiling THEN on' = FALSE /\ hooks' = FALSE /\ heap_profile' = FALSE ELSE UNCHANGED <<on, hooks, heap_profile>>

\* before main(): off under Valgrind or a debugger, or if /proc/self/maps shows no library.
InitTurnsOff(maps) ==
  /\ flag' = "" /\ TurnItselfOffLocked
  /\ after_destructors' = (IF maps THEN TRUE ELSE after_destructors)
  /\ stage' = "main" /\ UNCHANGED <<profiling, prefix, main_checker, do_main>>
InitTooLate == stage' = "dead" /\ UNCHANGED <<flag, after_destructors, core, do_main>>
InitStarts == /\ after_destructors' = TRUE /\ on' = TRUE /\ prefix' = TRUE /\ stage' = "main"
              /\ main_checker' = (flag # "local") /\ do_main' = (flag # "local")
              /\ UNCHANGED <<flag, profiling, heap_profile, hooks>>
InternalInitStart ==
  /\ stage = "constructors"
  /\ \/ InitTurnsOff(FALSE)
     \/ flag # "" /\ ~profiling /\ InitTooLate
     \/ flag # "" /\ profiling /\ InitTurnsOff(TRUE)
     \/ flag # "" /\ profiling /\ InitStarts
  /\ UNCHANGED <<env, gone, symbolized, checkers, cancelled, checks, cleaned, exit_code>>

\* A checker made by the program is active if the heap checker is on and named.
Create == /\ stage \in {"constructors", "main", "atexit"} /\ checkers < MaxCheckers /\ on /\ prefix
          /\ checkers' = checkers + 1
          /\ UNCHANGED <<stage, env, gone, flag, after_destructors, core, do_main, symbolized, cancelled, checks, cleaned, exit_code>>
Destroy == /\ checkers > 0 /\ stage # "dead" /\ checkers' = checkers - 1
           /\ UNCHANGED <<stage, env, gone, flag, after_destructors, core, do_main, symbolized, cancelled, checks, cleaned, exit_code>>
\* A check by hand; by another thread also while the program exits.
NoLeaks == /\ stage \in {"main", "atexit", "checking", "destructors"} /\ (main_checker \/ checkers > 0)
           /\ symbolized /\ stage' = "dead"
           /\ UNCHANGED <<env, gone, flag, after_destructors, core, do_main, symbolized, checkers, cancelled, checks, cleaned, exit_code>>
CancelGlobalCheck == /\ stage \in {"main", "atexit"} /\ do_main /\ do_main' = FALSE /\ cancelled' = TRUE
                     /\ UNCHANGED <<stage, env, gone, flag, after_destructors, core, symbolized, checkers, checks, cleaned, exit_code>>
Fork == /\ stage = "main" /\ gone' = TRUE
        /\ UNCHANGED <<stage, env, flag, after_destructors, core, do_main, symbolized, checkers, cancelled, checks, cleaned, exit_code>>

Exit == /\ stage = "main" /\ stage' = "atexit"
        /\ UNCHANGED <<env, gone, flag, after_destructors, core, do_main, symbolized, checkers, cancelled, checks, cleaned, exit_code>>
\* DoMainHeapCheck, up to the check; next says where the program goes if there is none to do.
\* A mutated form, which leaves the check to be done again.
StartMainCheckAgain(next) == stage' = (IF do_main THEN "checking" ELSE next) /\ UNCHANGED do_main
StartMainCheck(next) == stage' = (IF do_main THEN "checking" ELSE next) /\ do_main' = FALSE
RunHeapCleanups ==
  /\ stage = "atexit"
  /\ IF flag = "local" \/ gone
     THEN stage' = "destructors" /\ UNCHANGED <<do_main, cleaned>>
     ELSE cleaned' = TRUE /\ IF after_destructors THEN stage' = "destructors" /\ UNCHANGED do_main
                             ELSE StartMainCheck("destructors")
  /\ UNCHANGED <<env, gone, flag, after_destructors, core, symbolized, checkers, cancelled, checks, exit_code>>
AfterDestructors ==
  /\ stage = "destructors"
  /\ IF gone \/ ~after_destructors THEN stage' = "end" /\ UNCHANGED do_main ELSE StartMainCheck("end")
  /\ UNCHANGED <<env, gone, flag, after_destructors, core, symbolized, checkers, cancelled, checks, cleaned, exit_code>>
\* The automatic check: with leaks it removes the hooks, reports them and exits with 1.
MainCheckClean == /\ stage = "checking" /\ ~symbolized /\ checks' = checks + 1 /\ stage' = "destructors"
                  /\ UNCHANGED <<env, gone, flag, after_destructors, core, do_main, symbolized, checkers, cancelled, cleaned, exit_code>>
MainCheckLeaks == /\ stage = "checking" /\ ~symbolized /\ checks' = checks + 1 /\ symbolized' = TRUE /\ hooks' = FALSE
                  /\ UNCHANGED <<stage, env, gone, flag, after_destructors, profiling, on, heap_profile, prefix, main_checker, do_main, checkers, cancelled, cleaned, exit_code>>
MainCheckExits == /\ stage = "checking" /\ symbolized /\ stage' = "end" /\ exit_code' = 1
                  /\ UNCHANGED <<env, gone, flag, after_destructors, core, do_main, symbolized, checkers, cancelled, checks, cleaned>>

Next == \/ BeforeConstructors \/ ClearFlag \/ InternalInitStart \/ Create \/ Destroy \/ NoLeaks \/ CancelGlobalCheck
        \/ Fork \/ Exit \/ RunHeapCleanups \/ AfterDestructors \/ MainCheckClean \/ MainCheckLeaks \/ MainCheckExits
Spec == Init /\ [][Next]_vars

------------------------------------------------------------------------------
\* The hooks are set exactly while the checker is on, up to the report of leaks;
\* the table is there exactly while it is on: no hook meets a table that is gone.
OnIffHooked == (on <=> heap_profile) /\ ((on /\ ~symbolized) <=> hooks) /\ (hooks => heap_profile)

\* The heap checker never turns itself off under an active checker of the
\* program, whose destructor would then find that it has not checked.
NotTurnedOffUnderChecker == checkers > 0 \/ main_checker => on

\* At the end of the process the automatic check has been done exactly once, if
\* one was due, and never in a child or after it was cancelled.
CheckedWhenDue == stage = "end" => checks = (IF main_checker /\ ~cancelled /\ ~gone THEN 1 ELSE 0)

\* The automatic check is done exactly once if it is due; the checker is never off
\* under a checker, its hooks never there without its table.
CheckedOnce == OnIffHooked /\ NotTurnedOffUnderChecker /\ CheckedWhenDue
=============================================================================
