-------------------------- MODULE SimulatorProofs ---------------------------
(***************************************************************************)
(* Proofs about Simulator, for every number of players and turns.  What    *)
(* the simulator adds to the drivers are monitors that let processes die,  *)
(* so the invariant of the drivers holds here as well.                     *)
(***************************************************************************)
EXTENDS SimulatorInv, DriversProofs

\* Every step of the simulator is a step of the drivers, or leaves them alone.
LEMMA DriversStep == [SimNext]_simVars => [Next]_vars
<1>0. SUFFICES ASSUME [SimNext]_simVars PROVE [Next]_vars
    OBVIOUS
<1>1. CASE DriverStep
    BY <1>1 DEF DriverStep, Next
<1>2. ASSUME NEW p \in Players, MonitorStep(p) PROVE [Next]_vars
  <2>1. CASE Terminate(p) /\ ~Exited(p)
    <3>1. Crash(p)
        BY <2>1 DEF Terminate, Exited, Crash
    <3> QED
        BY <3>1 DEF Next
  <2>2. CASE Terminate(p) /\ Exited(p)
      BY <2>2 DEF Terminate, vars, playerVars
  <2>3. CASE KeepWatching(p) \/ Poll(p)
      BY <2>3 DEF KeepWatching, Poll
  <2> QED
      BY <1>2, <2>1, <2>2, <2>3 DEF MonitorStep
<1>3. CASE HostStep
    BY <1>3 DEF HostStep, CancelDriver, FinishCancel, PrintResults, Next
<1>4. CASE UNCHANGED simVars
    BY <1>4 DEF simVars
<1> QED
    BY <1>0, <1>1, <1>2, <1>3, <1>4 DEF SimNext

\* A process that has ended stays so.
LEMMA EndsAreFinal ==
    ASSUME TypeOK, [Next]_vars, NEW p \in Players, Exited(p)
    PROVE  playerAt'[p] = playerAt[p]
<1>0. playerAt \in [Players -> PlayerPlaces] /\ playerAt[p] \in {"done", "crashed"}
    BY DEF TypeOK, Exited
<1>1. CASE MainStep \/ CallCancel \/ ReturnFromCancel \/ UNCHANGED vars
    BY <1>1 DEF MainStep, StartMain, RunPlayer, LeaveSpin, LookAtCancel, CheckGameLimit,
       CheckTurnLimit, LogCount, Decide, Execute, UpdateMain, Publish, SetScores, Stop, Abort,
       CallCancel, ReturnFromCancel, vars, playerVars
<1>2. ASSUME NEW q \in Players, PlayerStep(q) \/ Crash(q) PROVE playerAt'[p] = playerAt[p]
  <2>1. q # p
      BY <1>0, <1>2 DEF PlayerStep, StartPlayer, LeaveWait, LookAtTimer, Think, Write,
         WriteCountToShm, Release, Exit, Crash
  <2> QED
      BY <1>0, <1>2, <2>1 DEF PlayerStep, StartPlayer, LeaveWait, LookAtTimer, Think, Write,
         WriteCountToShm, Release, Exit, Crash, Go
<1>3. ASSUME NEW q \in Processes, TimerStep(q) PROVE playerAt'[p] = playerAt[p]
    BY <1>3 DEF TimerStep, playerVars
<1> QED
    BY <1>1, <1>2, <1>3 DEF Next

\* The results do not change once the main driver has returned.
LEMMA ResultsAreFinal ==
    ASSUME [Next]_vars, mainAt = "returned"
    PROVE  mainAt' = "returned" /\ results' = results
<1>1. CASE MainStep
    BY <1>1 DEF MainStep, StartMain, RunPlayer, LeaveSpin, LookAtCancel, CheckGameLimit,
       CheckTurnLimit, LogCount, Decide, Execute, UpdateMain, Publish, SetScores, Stop, Abort
<1>2. CASE CallCancel \/ ReturnFromCancel \/ UNCHANGED vars
    BY <1>2 DEF CallCancel, ReturnFromCancel, vars, mainVars
<1>3. ASSUME NEW q \in Players, PlayerStep(q) \/ Crash(q) PROVE UNCHANGED mainVars
    BY <1>3 DEF PlayerStep, StartPlayer, LeaveWait, LookAtTimer, Think, Write,
       WriteCountToShm, Release, Exit, Crash
<1>4. ASSUME NEW q \in Processes, TimerStep(q) PROVE UNCHANGED mainVars
    BY <1>4 DEF TimerStep
<1> QED
    BY <1>1, <1>2, <1>3, <1>4 DEF Next, mainVars

-----------------------------------------------------------------------------
(* The invariant is inductive.                                             *)

\* The initial state satisfies the invariant.
LEMMA InitHostInv == SimInit => IInv /\ HostInv
<1> SUFFICES ASSUME SimInit PROVE IInv /\ HostInv
    OBVIOUS
<1>1. IInv
    BY InitIInv DEF SimInit
<1>2. HostTyped
    BY DEF SimInit, HostTyped, Pending, Printable
<1>3. ASSUME NEW p \in Players
      PROVE  WatchedToTheEnd(p) /\ FailedByItself(p) /\ TerminatedUnseen(p)
    BY DEF SimInit, WatchedToTheEnd, FailedByItself, TerminatedUnseen
<1>4. FailureHasAName /\ PrintedIsFinal
    BY DEF SimInit, FailureHasAName, PrintedIsFinal
<1> QED
    BY <1>1, <1>2, <1>3, <1>4 DEF HostInv

\* A step that leaves monitors and main() alone.
LEMMA HostIdle ==
    ASSUME TypeOK, HostInv, [Next]_vars, UNCHANGED hostVars
    PROVE  HostInv'
<1>0. UNCHANGED <<monitorAt, anyFailed, failed, terminated, printed>>
    BY DEF hostVars
<1>1. HostTyped' /\ FailureHasAName'
    BY <1>0 DEF HostInv, HostTyped, FailureHasAName
<1>2. ASSUME NEW p \in Players
      PROVE  (WatchedToTheEnd(p) /\ FailedByItself(p) /\ TerminatedUnseen(p))'
  <2>1. WatchedToTheEnd(p) /\ FailedByItself(p) /\ TerminatedUnseen(p)
      BY DEF HostInv
  <2>2. Exited(p) => playerAt'[p] = playerAt[p]
      BY EndsAreFinal
  <2> QED
      BY <1>0, <2>1, <2>2 DEF WatchedToTheEnd, FailedByItself, TerminatedUnseen, Exited
<1>3. PrintedIsFinal'
  <2>1. mainAt = "returned" => mainAt' = "returned" /\ results' = results
      BY ResultsAreFinal
  <2> QED
      BY <1>0, <2>1 DEF HostInv, PrintedIsFinal, MonitorsJoined, Pending
<1> QED
    BY <1>1, <1>2, <1>3 DEF HostInv

\* While a monitor is at work nothing has been printed.
LEMMA NothingPrinted ==
    ASSUME HostInv, NEW p \in Players, monitorAt[p] # "done"
    PROVE  printed = Pending
BY DEF HostInv, PrintedIsFinal, MonitorsJoined

\* A monitor terminates its process, or finds that it has ended.
LEMMA TerminateStep ==
    ASSUME TypeOK, HostInv, NEW p \in Players, Terminate(p)
    PROVE  HostInv'
<1>0. /\ monitorAt[p] = "check" /\ anyFailed
      /\ monitorAt' = [monitorAt EXCEPT ![p] = "done"]
      /\ UNCHANGED <<anyFailed, failed, printed>>
      /\ terminated' = IF Exited(p) THEN terminated ELSE terminated \cup {p}
      /\ playerAt' = IF Exited(p) THEN playerAt ELSE [playerAt EXCEPT ![p] = "crashed"]
      /\ HostTyped /\ playerAt \in [Players -> PlayerPlaces]
    BY DEF Terminate, Go, HostInv, TypeOK
<1>1. HostTyped'
    BY <1>0 DEF HostTyped
<1>2. ASSUME NEW q \in Players
      PROVE  (WatchedToTheEnd(q) /\ FailedByItself(q) /\ TerminatedUnseen(q))'
  <2>0. WatchedToTheEnd(q) /\ FailedByItself(q) /\ TerminatedUnseen(q)
      BY DEF HostInv
  <2>1. CASE q = p
      BY <1>0, <2>0, <2>1 DEF HostTyped, WatchedToTheEnd, FailedByItself, TerminatedUnseen, Exited
  <2>2. CASE q # p
    <3>1. monitorAt'[q] = monitorAt[q] /\ playerAt'[q] = playerAt[q]
        BY <1>0, <2>2 DEF HostTyped
    <3>2. q \in terminated' <=> q \in terminated
        BY <1>0, <2>2
    <3> QED
        BY <1>0, <2>0, <3>1, <3>2
           DEF WatchedToTheEnd, FailedByItself, TerminatedUnseen, Exited
  <2> QED
      BY <2>1, <2>2
<1>3. FailureHasAName'
    BY <1>0 DEF HostInv, FailureHasAName
<1>4. printed = Pending
    BY <1>0, NothingPrinted
<1> QED
    BY <1>0, <1>1, <1>2, <1>3, <1>4 DEF HostInv, PrintedIsFinal, Pending

\* A monitor goes on to sleep and to poll its process.
LEMMA KeepWatchingStep ==
    ASSUME HostInv, NEW p \in Players, KeepWatching(p)
    PROVE  HostInv'
<1>0. /\ monitorAt[p] = "check"
      /\ monitorAt' = [monitorAt EXCEPT ![p] = "poll"]
      /\ UNCHANGED <<playerAt, anyFailed, failed, terminated, printed>>
      /\ HostTyped
    BY DEF KeepWatching, HostInv, vars, playerVars
<1>1. HostTyped'
    BY <1>0 DEF HostTyped
<1>2. ASSUME NEW q \in Players
      PROVE  (WatchedToTheEnd(q) /\ FailedByItself(q) /\ TerminatedUnseen(q))'
  <2>0. WatchedToTheEnd(q) /\ FailedByItself(q) /\ TerminatedUnseen(q)
      BY DEF HostInv
  <2>1. monitorAt'[q] = IF q = p THEN "poll" ELSE monitorAt[q]
      BY <1>0 DEF HostTyped
  <2> QED
      BY <1>0, <2>0, <2>1 DEF WatchedToTheEnd, FailedByItself, TerminatedUnseen, Exited
<1>3. FailureHasAName'
    BY <1>0 DEF HostInv, FailureHasAName
<1>4. printed = Pending
    BY <1>0, NothingPrinted
<1> QED
    BY <1>0, <1>1, <1>2, <1>3, <1>4 DEF HostInv, PrintedIsFinal, Pending

\* A monitor sees whether its process has ended, and how.
LEMMA PollStep ==
    ASSUME HostInv, NEW p \in Players, Poll(p)
    PROVE  HostInv'
<1>0. /\ monitorAt[p] = "poll"
      /\ monitorAt' = [monitorAt EXCEPT ![p] = IF Exited(p) THEN "done" ELSE "check"]
      /\ anyFailed' = (anyFailed \/ playerAt[p] = "crashed")
      /\ failed' = [failed EXCEPT ![p] = @ \/ playerAt[p] = "crashed"]
      /\ UNCHANGED <<playerAt, terminated, printed>>
      /\ HostTyped
    BY DEF Poll, HostInv, vars, playerVars
<1>1. HostTyped'
    BY <1>0 DEF HostTyped
<1>2. ASSUME NEW q \in Players
      PROVE  (WatchedToTheEnd(q) /\ FailedByItself(q) /\ TerminatedUnseen(q))'
  <2>0. WatchedToTheEnd(q) /\ FailedByItself(q) /\ TerminatedUnseen(q)
      BY DEF HostInv
  <2>1. CASE q = p
    <3>1. /\ monitorAt'[p] = IF Exited(p) THEN "done" ELSE "check"
          /\ failed'[p] <=> playerAt[p] = "crashed"
          /\ p \notin terminated
        BY <1>0, <2>0, <2>1 DEF HostTyped, FailedByItself, TerminatedUnseen
    <3>2. Exited(p)' <=> Exited(p)
        BY <1>0 DEF Exited
    <3>3. WatchedToTheEnd(p)'
      <4>1. playerAt[p] = "crashed" => anyFailed'
          BY <1>0
      <4> QED
          BY <1>0, <3>1, <3>2, <4>1 DEF WatchedToTheEnd, Exited
    <3>4. FailedByItself(p)' /\ TerminatedUnseen(p)'
        BY <1>0, <3>1 DEF FailedByItself, TerminatedUnseen, Exited
    <3> QED
        BY <2>1, <3>3, <3>4
  <2>2. CASE q # p
    <3>1. monitorAt'[q] = monitorAt[q] /\ failed'[q] = failed[q]
        BY <1>0, <2>2 DEF HostTyped
    <3> QED
        BY <1>0, <2>0, <3>1 DEF WatchedToTheEnd, FailedByItself, TerminatedUnseen, Exited
  <2> QED
      BY <2>1, <2>2
<1>3. FailureHasAName'
  <2>1. \A q \in Players : failed'[q] <=> failed[q] \/ (q = p /\ playerAt[p] = "crashed")
      BY <1>0 DEF HostTyped
  <2>2. anyFailed' <=> (\E q \in Players : failed[q]) \/ playerAt[p] = "crashed"
      BY <1>0 DEF HostInv, FailureHasAName
  <2> QED
      BY <2>1, <2>2 DEF FailureHasAName
<1>4. printed = Pending
    BY <1>0, NothingPrinted
<1> QED
    BY <1>0, <1>1, <1>2, <1>3, <1>4 DEF HostInv, PrintedIsFinal, Pending

\* main() prints the results.
LEMMA PrintResultsStep ==
    ASSUME TypeOK, HostInv, PrintResults
    PROVE  HostInv'
<1>0. /\ MonitorsJoined /\ mainAt = "returned"
      /\ printed' = [p \in Players |-> IF failed[p] THEN "RUNTIME_ERROR" ELSE results[p]]
      /\ UNCHANGED <<playerAt, mainAt, results, monitorAt, anyFailed, failed, terminated>>
      /\ HostTyped
    BY DEF PrintResults, HostInv, vars, playerVars, mainVars
<1>1. HostTyped'
  <2>1. \A p \in Players : results[p] \in Printable
      BY DEF TypeOK, Printable
  <2>2. printed' \in [Players -> Printable]
      BY <1>0, <2>1 DEF Printable
  <2> QED
      BY <1>0, <2>2 DEF HostTyped
<1>2. ASSUME NEW p \in Players
      PROVE  (WatchedToTheEnd(p) /\ FailedByItself(p) /\ TerminatedUnseen(p))'
    BY <1>0 DEF HostInv, WatchedToTheEnd, FailedByItself, TerminatedUnseen, Exited
<1>3. FailureHasAName' /\ PrintedIsFinal'
    BY <1>0 DEF HostInv, FailureHasAName, PrintedIsFinal, MonitorsJoined
<1> QED
    BY <1>1, <1>2, <1>3 DEF HostInv

\* Every reachable state of the simulator satisfies both invariants.
THEOREM SimInvariance == SimSpec => [](IInv /\ HostInv)
<1>1. SimInit => IInv /\ HostInv
    BY InitHostInv
<1>2. ASSUME IInv, HostInv, [SimNext]_simVars PROVE IInv' /\ HostInv'
  <2>0. [Next]_vars /\ TypeOK
      BY <1>2, DriversStep DEF IInv
  <2>1. IInv'
      BY <1>2, <2>0, TypePreserved, MainPreserved, OutcomePreserved, PlayersPreserved DEF IInv
  <2>2. CASE UNCHANGED hostVars
      BY <1>2, <2>0, <2>1, <2>2, HostIdle
  <2>3. ASSUME NEW p \in Players, MonitorStep(p) PROVE HostInv'
      BY <1>2, <2>0, <2>3, TerminateStep, KeepWatchingStep, PollStep DEF MonitorStep
  <2>4. CASE HostStep
      BY <1>2, <2>0, <2>1, <2>2, <2>4, PrintResultsStep DEF HostStep, CancelDriver, FinishCancel
  <2>5. DriverStep \/ UNCHANGED simVars => UNCHANGED hostVars
      BY DEF DriverStep, simVars
  <2> QED
      BY <1>2, <2>1, <2>2, <2>3, <2>4, <2>5 DEF SimNext
<1> QED
    BY <1>1, <1>2, PTL DEF SimSpec

-----------------------------------------------------------------------------
(* What follows from it.                                                   *)

\* What is printed of a player is a result of the main driver's, or a failure.
LEMMA Blame ==
    ASSUME IInv, HostInv, NEW p \in Players
    PROVE  /\ printed[p] = "RUNTIME_ERROR" => failed[p]
           /\ printed[p] = "NORMAL" => results[p] = "NORMAL"
           /\ printed # Pending /\ failed[p] => printed[p] = "RUNTIME_ERROR"
<1>1. results[p] \in {"UNDEFINED", "NORMAL", "EXCEEDED_INSTRUCTION_LIMIT"}
    BY DEF IInv, TypeOK
<1>2. CASE printed = Pending
    BY <1>2 DEF Pending
<1>3. CASE printed # Pending
    BY <1>1, <1>3 DEF HostInv, PrintedIsFinal
<1> QED
    BY <1>2, <1>3

\* Nobody is blamed for having been terminated.
THEOREM OnlyTheCrashedAreBlamed == SimSpec => []BlamedOnlyIfCrashed
<1>1. IInv /\ HostInv => BlamedOnlyIfCrashed
    BY Blame DEF HostInv, FailedByItself, BlamedOnlyIfCrashed
<1> QED
    BY <1>1, SimInvariance, PTL

\* When a process dies by itself somebody is blamed.
THEOREM CrashesAreBlamed == SimSpec => []SomeoneIsBlamed
<1>1. ASSUME IInv, HostInv, printed # Pending,
             NEW p \in Players, playerAt[p] = "crashed"
      PROVE  \E q \in Players : printed[q] = "RUNTIME_ERROR"
  <2>1. monitorAt[p] = "done"
      BY <1>1 DEF HostInv, PrintedIsFinal, MonitorsJoined
  <2>2. anyFailed
      BY <1>1, <2>1 DEF HostInv, WatchedToTheEnd
  <2>3. PICK q \in Players : failed[q]
      BY <1>1, <2>2 DEF HostInv, FailureHasAName
  <2> QED
      BY <1>1, <2>3, Blame
<1>2. IInv /\ HostInv => SomeoneIsBlamed
    BY <1>1 DEF SomeoneIsBlamed
<1> QED
    BY <1>2, SimInvariance, PTL

\* A normal result is that of a game that was played to its end.
THEOREM NormalGamesAreComplete == SimSpec => []NormalMeansComplete
<1>1. ASSUME IInv, HostInv, NEW p \in Players, printed[p] = "NORMAL"
      PROVE  Len(applied) = MaxTurns
  <2>1. results[p] = "NORMAL"
      BY <1>1, Blame
  <2> QED
      BY <1>1, <2>1 DEF IInv, Outcome
<1>2. IInv /\ HostInv => NormalMeansComplete
    BY <1>1 DEF NormalMeansComplete
<1> QED
    BY <1>2, SimInvariance, PTL

\* The drivers keep their promises in the simulator, whatever its monitors do.
THEOREM DriversAreSound ==
    SimSpec => [](Exclusion /\ Lockstep /\ CountsAreOfThisTurn /\ ExceededIsDeserved)
BY Apart, InStep, UpToDate, Deserved, SimInvariance, PTL

\* They play the abstract game of whole rounds under the monitors too, up to
\* the cancellation that follows a failure.
THEOREM PlaysTheGameWatched == SimSpec => Game!Init /\ [][Game!Next]_(Game!gameVars)
<1>1. SimInit => Game!Init
    BY DEF SimInit, Init, Game!Init, Game!Undecided
<1>2. IInv /\ [SimNext]_simVars => [Game!Next]_(Game!gameVars)
    BY DriversStep, StepImplements
<1> QED
    BY <1>1, <1>2, SimInvariance, PTL DEF SimSpec
=============================================================================
