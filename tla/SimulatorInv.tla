---------------------------- MODULE SimulatorInv ----------------------------
(***************************************************************************)
(* The inductive invariant of Simulator: why the monitors, which look at   *)
(* the processes one at a time and change them meanwhile, do not blame the *)
(* wrong one.  SimulatorProofs proves it inductive, together with the one  *)
(* of the drivers.                                                         *)
(***************************************************************************)
EXTENDS Simulator, DriversInv

Printable == {"PENDING", "UNDEFINED", "NORMAL", "EXCEEDED_INSTRUCTION_LIMIT", "RUNTIME_ERROR"}

HostTyped ==
    /\ monitorAt \in [Players -> {"check", "poll", "done"}]
    /\ anyFailed \in BOOLEAN
    /\ failed \in [Players -> BOOLEAN]
    /\ terminated \subseteq Players
    /\ printed \in [Players -> Printable]

\* A process is watched until it has ended; and if a failure was not the reason
\* why its monitor stopped watching, it ended well.
WatchedToTheEnd(p) ==
    monitorAt[p] = "done" =>
        /\ Exited(p)
        /\ anyFailed \/ playerAt[p] = "done"

\* A process that failed died by itself and was found so by its monitor.
FailedByItself(p) ==
    failed[p] => playerAt[p] = "crashed" /\ p \notin terminated /\ monitorAt[p] = "done"

\* A process that was terminated is not looked at any more.
TerminatedUnseen(p) ==
    p \in terminated => playerAt[p] = "crashed" /\ monitorAt[p] = "done"

\* A failure has somebody to it.
FailureHasAName == anyFailed <=> \E p \in Players : failed[p]

\* What is printed is final: monitors and main driver are at their ends.
PrintedIsFinal ==
    printed # Pending =>
        /\ MonitorsJoined
        /\ mainAt = "returned"
        /\ printed = [p \in Players |-> IF failed[p] THEN "RUNTIME_ERROR" ELSE results[p]]

HostInv ==
    /\ HostTyped
    /\ \A p \in Players : WatchedToTheEnd(p) /\ FailedByItself(p) /\ TerminatedUnseen(p)
    /\ FailureHasAName
    /\ PrintedIsFinal
=============================================================================
