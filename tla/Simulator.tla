----------------------------- MODULE Simulator -----------------------------
(***************************************************************************)
(* The simulator process (main/main.cpp): main() runs the main driver in a *)
(* thread, launches one process per player, and watches each with a        *)
(* monitor thread.  When a player process fails the others are terminated, *)
(* the main driver is cancelled, and the failed players' results become    *)
(* RUNTIME_ERROR.                                                          *)
(***************************************************************************)
EXTENDS Drivers

VARIABLES
    monitorAt,          \* monitorAt[p]: "check", "poll" or "done"
    anyFailed,          \* any_player_failed
    failed,             \* players_failed
    terminated,         \* history: the processes a monitor terminated
    printed             \* the statuses main() prints, "PENDING" until then

hostVars == <<monitorAt, anyFailed, failed, terminated, printed>>
simVars == <<vars, hostVars>>

Pending == [p \in Players |-> "PENDING"]

SimInit ==
    /\ Init
    /\ monitorAt = [p \in Players |-> "check"]
    /\ anyFailed = FALSE
    /\ failed = [p \in Players |-> FALSE]
    /\ terminated = {}
    /\ printed = Pending

Exited(p) == playerAt[p] \in {"done", "crashed"}

-----------------------------------------------------------------------------
(* The monitor of player p.                                                *)

\* Mutant: the monitor goes on to poll the process it has terminated.
TerminateAndPoll(p) ==
    /\ monitorAt[p] = "check"
    /\ anyFailed
    /\ IF Exited(p)
       THEN UNCHANGED <<playerAt, terminated>>
       ELSE Go(p, "crashed") /\ terminated' = terminated \cup {p}
    /\ monitorAt' = [monitorAt EXCEPT ![p] = "poll"]
    /\ UNCHANGED <<mainVars, cancel, caller, bufferVars, seen, count, turnsDone, timerVars,
                   anyFailed, failed, printed>>

\* Another player has failed: terminate this one, if it still runs.
Terminate(p) ==
    /\ monitorAt[p] = "check"
    /\ anyFailed
    /\ IF Exited(p)
       THEN UNCHANGED <<playerAt, terminated>>
       ELSE Go(p, "crashed") /\ terminated' = terminated \cup {p}
    /\ monitorAt' = [monitorAt EXCEPT ![p] = "done"]
    /\ UNCHANGED <<mainVars, cancel, caller, bufferVars, seen, count, turnsDone, timerVars,
                   anyFailed, failed, printed>>

KeepWatching(p) ==
    /\ monitorAt[p] = "check"
    /\ ~anyFailed
    /\ monitorAt' = [monitorAt EXCEPT ![p] = "poll"]
    /\ UNCHANGED <<vars, anyFailed, failed, terminated, printed>>

\* Mutant: the failing player is not recorded.
PollAnonymously(p) ==
    /\ monitorAt[p] = "poll"
    /\ monitorAt' = [monitorAt EXCEPT ![p] = IF Exited(p) THEN "done" ELSE "check"]
    /\ anyFailed' = (anyFailed \/ playerAt[p] = "crashed")
    /\ UNCHANGED <<vars, failed, terminated, printed>>

\* Mutant: a process that ended well is waited for, for ever.
PollForFailure(p) ==
    /\ monitorAt[p] = "poll"
    /\ monitorAt' = [monitorAt EXCEPT ![p] = IF playerAt[p] = "crashed" THEN "done" ELSE "check"]
    /\ anyFailed' = (anyFailed \/ playerAt[p] = "crashed")
    /\ failed' = [failed EXCEPT ![p] = @ \/ playerAt[p] = "crashed"]
    /\ UNCHANGED <<vars, terminated, printed>>

\* After a second's sleep, see whether the process has ended, and how: its exit
\* code is not 0 if it died, and 0 if it left or is still running.
Poll(p) ==
    /\ monitorAt[p] = "poll"
    /\ monitorAt' = [monitorAt EXCEPT ![p] = IF Exited(p) THEN "done" ELSE "check"]
    /\ anyFailed' = (anyFailed \/ playerAt[p] = "crashed")
    /\ failed' = [failed EXCEPT ![p] = @ \/ playerAt[p] = "crashed"]
    /\ UNCHANGED <<vars, terminated, printed>>

MonitorStep(p) == Terminate(p) \/ KeepWatching(p) \/ Poll(p)

-----------------------------------------------------------------------------
(* main(), once the monitors are started.                                  *)

MonitorsJoined == \A p \in Players : monitorAt[p] = "done"

\* Some child process failed: stop the main driver.
CancelDriver ==
    /\ MonitorsJoined
    /\ anyFailed
    /\ CallCancel
    /\ UNCHANGED hostVars

FinishCancel ==
    /\ ReturnFromCancel
    /\ UNCHANGED hostVars

\* Join the main driver's thread and print its results, corrected.
PrintResults ==
    /\ MonitorsJoined
    /\ printed = Pending
    /\ anyFailed => caller = "returned"
    /\ mainAt = "returned"
    /\ printed' = [p \in Players |-> IF failed[p] THEN "RUNTIME_ERROR" ELSE results[p]]
    /\ UNCHANGED <<vars, monitorAt, anyFailed, failed, terminated>>

HostStep == CancelDriver \/ FinishCancel \/ PrintResults

DriverStep ==
    /\ \/ MainStep
       \/ \E p \in Players : PlayerStep(p) \/ Crash(p)
       \/ \E p \in Processes : TimerStep(p)
    /\ UNCHANGED hostVars

SimNext ==
    \/ DriverStep
    \/ \E p \in Players : MonitorStep(p)
    \/ HostStep

\* As in Drivers; and the threads of the simulator are scheduled.
SimFairness ==
    /\ WF_simVars(MainStep /\ UNCHANGED hostVars)
    /\ \A p \in Processes : WF_simVars(TimerStep(p) /\ UNCHANGED hostVars)
    /\ \A p \in Players : WF_simVars(PlayerStep(p) /\ playerAt[p] # "think" /\ UNCHANGED hostVars)
    /\ \A p \in Players : WF_simVars(MonitorStep(p))
    /\ WF_simVars(HostStep)

SimSpec == SimInit /\ [][SimNext]_simVars /\ SimFairness

-----------------------------------------------------------------------------
(* Properties.                                                             *)

\* A player is blamed for a runtime error only if its process died by itself,
\* never because a monitor terminated it on another's account.
BlamedOnlyIfCrashed ==
    \A p \in Players :
        printed[p] = "RUNTIME_ERROR" => playerAt[p] = "crashed" /\ p \notin terminated

\* A crash is never lost: if a process died by itself, the printed results
\* blame somebody, although two that crash together need not both be blamed.
SomeoneIsBlamed ==
    (printed # Pending /\ \E p \in Players : playerAt[p] = "crashed" /\ p \notin terminated)
        => \E q \in Players : printed[q] = "RUNTIME_ERROR"

\* A normal result is printed only for a game every turn of which was played.
NormalMeansComplete ==
    (\E p \in Players : printed[p] = "NORMAL") => Len(applied) = MaxTurns

\* If no process dies, every player's code returns whenever it is called and
\* no game timer loses its callback, the simulator prints its results.
OrderlyRunEnds ==
    (/\ [](\A p \in Players : playerAt[p] # "crashed")
     /\ [](\A p \in Processes : timer[p] # "lost")
     /\ \A p \in Players : []<>(playerAt[p] # "think"))
        => <>(printed # Pending)

\* A cancellation that reaches the main driver while it waits for a player
\* stops it, and the simulator ends.
TimelyCancelEnds ==
    (caller = "waiting" /\ mainAt \in {"run", "spin", "look"}) ~> (printed # Pending)

\* main_driver.h says of Cancel: "Blocks until main driver fully exits and
\* returns player results".  So it returns.
CancelReturns == (caller = "waiting") ~> (caller = "returned")
=============================================================================
