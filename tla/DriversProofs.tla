--------------------------- MODULE DriversProofs ---------------------------
(***************************************************************************)
(* Proofs about Drivers, for every number of players and turns, every pair *)
(* of limits and every set of instruction counts.                          *)
(***************************************************************************)
EXTENDS DriversInv, TLAPS

\* Facts on the constants.
LEMMA Constants ==
    /\ NumPlayers \in Nat /\ NumPlayers > 0
    /\ MaxTurns \in Nat
    /\ LimitTurn \in Nat /\ LimitGame \in Nat
    /\ Players = 0 .. NumPlayers - 1
    /\ Main \in Processes
    /\ \A p \in Players : p \in Nat /\ p < NumPlayers /\ p \in Processes /\ p # Main
BY DriversAssumption DEF DriversAssumption, Players, Processes, Main

\* A player's code executes a natural number of instructions.
LEMMA NaturalCounts == \A p \in Players : Counts[p] \subseteq Nat
BY DriversAssumption DEF DriversAssumption

\* The types that the arithmetic about player p needs.
LEMMA Typing ==
    ASSUME TypeOK, NEW p \in Players
    PROVE  /\ p \in Nat /\ cur \in Nat /\ turn \in Nat /\ turnsDone[p] \in Nat
           /\ counter[p] \in Nat /\ LimitGame \in Nat /\ NumPlayers \in Nat /\ p < NumPlayers
BY SMTT(30), Constants DEF TypeOK

\* The initial state satisfies the invariant.
LEMMA InitIInv == Init => IInv
<1> SUFFICES ASSUME Init PROVE IInv
    OBVIOUS
<1> USE Constants DEF Init, Timers!Init
<1>1. TypeOK
  <2>1. 0 \in Players /\ 0 \in 0..MaxTurns
      OBVIOUS
  <2>2. timer \in [Processes -> Timers!Statuses] /\ timerAsked \subseteq Processes
      BY DEF Timers!Statuses
  <2>3. applied \in Seq([Players -> Int])
      OBVIOUS
  <2>4. /\ mainAt \in MainPlaces
        /\ playerAt \in [Players -> PlayerPlaces]
        /\ view \in [Players -> Nat]
        /\ moves \in [Players -> Int]
      BY <2>1 DEF MainPlaces, PlayerPlaces, NoMoves
  <2> QED
      BY <2>1, <2>2, <2>3, <2>4 DEF TypeOK
<1>2. MainPart
    BY DEF MainPart, RoundPlaces, TurnPlaces
<1>3. Outcome
    BY DEF Outcome
<1>4. ASSUME NEW p \in Players PROVE PlayerPart(p)
    BY <1>4 DEF PlayerPart, HandOver, PlayerInBuffer, Waited, RoundPlaces, TurnPlaces,
           TurnCount, Handed, Counted, Settled, Fresh
<1> QED
    BY <1>1, <1>2, <1>3, <1>4 DEF IInv

-----------------------------------------------------------------------------
(* Types, and the parts about the main driver.                            *)

\* Every step preserves the types.
LEMMA TypePreserved ==
    ASSUME IInv, [Next]_vars
    PROVE  TypeOK'
<1>0. TypeOK /\ MainPart
    BY DEF IInv
<1> USE <1>0 DEF mainVars, bufferVars, playerVars, timerVars
<1>1. CASE StartMain
  <2>1. timer' = [timer EXCEPT ![Main] = "armed"] /\ timerAsked' = timerAsked
      BY <1>1 DEF StartMain, Timers!Start
  <2>2. timer' \in [Processes -> Timers!Statuses]
      BY <2>1 DEF TypeOK, Timers!Statuses
  <2>3. view' \in [Players -> Nat] /\ moves' \in [Players -> Int]
      BY <1>1 DEF TypeOK, StartMain, PublishState, NoMoves
  <2>4. mainAt' \in MainPlaces
      BY <1>1 DEF StartMain, Turns, MainPlaces
  <2> QED
      BY <1>1, <2>1, <2>2, <2>3, <2>4 DEF TypeOK, StartMain
<1>2. CASE RunPlayer
    BY <1>2 DEF TypeOK, RunPlayer, MainPlaces
<1>3. CASE LeaveSpin
    BY <1>3 DEF TypeOK, LeaveSpin, MainPlaces
<1>4. CASE LookAtCancel
    BY <1>4 DEF TypeOK, LookAtCancel, MainPlaces
<1>5. CASE CheckGameLimit
    BY <1>5 DEF TypeOK, CheckGameLimit, MainPlaces
<1>6. CASE CheckTurnLimit
  <2>1. (counter[cur] > LimitTurn) \in BOOLEAN
      OBVIOUS
  <2> QED
    BY <1>6, <2>1 DEF TypeOK, CheckTurnLimit, MainPlaces
<1>7. CASE LogCount
  <2>1. logged' \in [Players -> Nat]
      BY <1>7 DEF TypeOK, LogCount
  <2>2. cur + 1 < NumPlayers => cur + 1 \in Players
      BY Constants DEF TypeOK
  <2>3. cur' \in Players
      BY <1>7, <2>2 DEF TypeOK, LogCount
  <2>4. mainAt' \in MainPlaces
      BY <1>7 DEF LogCount, MainPlaces
  <2> QED
      BY <1>7, <2>1, <2>3, <2>4 DEF TypeOK, LogCount
<1>8. CASE Decide
    BY <1>8 DEF TypeOK, Decide, MainPlaces
<1>9. CASE Execute
  <2>1. [p \in Players |-> IF skip[p] THEN Skipped ELSE moves[p]] \in [Players -> Int]
      BY DEF TypeOK, Skipped
  <2>2. applied' \in Seq([Players -> Int])
      BY <1>9, <2>1 DEF TypeOK, Execute
  <2> QED
      BY <1>9, <2>2 DEF TypeOK, Execute, MainPlaces
<1>10. CASE UpdateMain
  <2>1. world + 1 \in 0..MaxTurns
      BY <1>10, Constants DEF TypeOK, UpdateMain, MainPart, RoundPlaces
  <2> QED
      BY <1>10, <2>1 DEF TypeOK, UpdateMain, MainPlaces
<1>11. CASE Publish
  <2>1. turn + 1 \in 0..MaxTurns /\ 0 \in Players
      BY <1>11, Constants DEF TypeOK, Publish, MainPart, RoundPlaces
  <2>2. view' \in [Players -> Nat] /\ moves' \in [Players -> Int]
      BY <1>11 DEF TypeOK, Publish, PublishState, NoMoves
  <2>3. mainAt' \in MainPlaces
      BY <1>11 DEF Publish, Turns, MainPlaces
  <2> QED
      BY <1>11, <2>1, <2>2, <2>3 DEF TypeOK, Publish
<1>12. CASE SetScores
    BY <1>12 DEF TypeOK, SetScores, MainPlaces
<1>13. CASE Stop
    BY <1>13, Constants DEF TypeOK, Stop, Timers!Cancel, MainPlaces
<1>14. CASE Abort
    BY <1>14, Constants DEF TypeOK, Abort, Timers!Cancel, MainPlaces
<1>15. CASE CallCancel
    BY <1>15 DEF TypeOK, CallCancel
<1>16. CASE ReturnFromCancel
    BY <1>16 DEF TypeOK, ReturnFromCancel
<1>17. ASSUME NEW p \in Players, PlayerStep(p) \/ Crash(p) PROVE TypeOK'
  <2>0. p \in Processes /\ PlayerPart(p)
      BY Constants DEF IInv
  <2> USE <2>0 DEF Go
  <2>1. CASE StartPlayer(p)
    <3>1. timer' \in [Processes -> Timers!Statuses]
        BY <2>1 DEF StartPlayer, Timers!Start, TypeOK, Timers!Statuses
    <3> QED
        BY <2>1, <3>1 DEF TypeOK, StartPlayer, Timers!Start, PlayerPlaces
  <2>2. CASE LeaveWait(p)
      BY <2>2 DEF TypeOK, LeaveWait, PlayerPlaces
  <2>3. CASE LookAtTimer(p)
    <3>1. /\ seen' = seen \/ seen' = [seen EXCEPT ![p] = view[p]]
          /\ count' = count \/ count' = [count EXCEPT ![p] = 0]
        BY <2>3 DEF LookAtTimer
    <3>3. seen' \in [Players -> Nat]
        BY <3>1 DEF TypeOK
    <3>4. count' \in [Players -> Nat]
      <4>1. CASE count' = count
          BY <4>1 DEF TypeOK
      <4>2. CASE count' = [count EXCEPT ![p] = 0]
          BY <4>2 DEF TypeOK
      <4> QED
          BY <3>1, <4>1, <4>2
    <3>2. playerAt' \in [Players -> PlayerPlaces]
        BY ZenonT(40), <2>3 DEF TypeOK, LookAtTimer, PlayerPlaces
    <3> QED
        BY <2>3, <3>2, <3>3, <3>4 DEF TypeOK, LookAtTimer
  <2>4. CASE Think(p)
    <3>1. count' \in [Players -> Nat]
        BY <2>4, NaturalCounts DEF TypeOK, Think
    <3>2. moves' \in [Players -> Int]
        BY <2>4 DEF TypeOK, Think, Torn
    <3>3. playerAt' \in [Players -> PlayerPlaces]
        BY <2>4 DEF TypeOK, Think, PlayerPlaces
    <3> QED
        BY <2>4, <3>1, <3>2, <3>3 DEF TypeOK, Think
  <2>5. CASE Write(p)
    <3>1. seen[p] \in Int
        BY DEF TypeOK
    <3> QED
      BY <2>5, <3>1 DEF TypeOK, Write, PlayerPlaces
  <2>6. CASE WriteCountToShm(p)
      BY <2>6 DEF TypeOK, WriteCountToShm, PlayerPlaces
  <2>7. CASE Release(p)
    <3>0. turnsDone[p] = turn /\ turn < MaxTurns
        BY <2>7 DEF TypeOK, Release, PlayerPart, HandOver, PlayerInBuffer, TurnCount
    <3>1. turnsDone[p] + 1 \in 0..MaxTurns
        BY <3>0, Constants DEF TypeOK
    <3> QED
        BY <2>7, <3>1 DEF TypeOK, Release, PlayerPlaces
  <2>8. CASE Exit(p)
      BY <2>8 DEF TypeOK, Exit, Timers!Cancel, PlayerPlaces
  <2>9. CASE Crash(p)
      BY <2>9 DEF TypeOK, Crash, PlayerPlaces
  <2> QED
      BY <1>17, <2>1, <2>2, <2>3, <2>4, <2>5, <2>6, <2>7, <2>8, <2>9 DEF PlayerStep
<1>18. ASSUME NEW p \in Processes, TimerStep(p) PROVE TypeOK'
    BY <1>18 DEF TypeOK, TimerStep, Timers!Fire, Timers!Drop, Timers!Lose, Timers!Statuses
<1>19. CASE UNCHANGED vars
    BY <1>19 DEF TypeOK, vars
<1> QED
    BY <1>1, <1>2, <1>3, <1>4, <1>5, <1>6, <1>7, <1>8, <1>9, <1>10, <1>11, <1>12, <1>13,
       <1>14, <1>15, <1>16, <1>17, <1>18, <1>19 DEF Next, MainStep

\* Every step preserves Outcome.
LEMMA OutcomePreserved ==
    ASSUME IInv, [Next]_vars
    PROVE  Outcome'
<1>0. TypeOK /\ MainPart /\ Outcome
    BY DEF IInv
<1> USE DEF mainVars, bufferVars, playerVars, timerVars
<1>1. CASE CheckGameLimit
    BY <1>0, <1>1 DEF Outcome, CheckGameLimit, TypeOK
<1>2. CASE SetScores
    BY <1>0, <1>2 DEF Outcome, SetScores, MainPart
<1>3. CASE Execute
    BY <1>0, <1>3 DEF Outcome, Execute
<1>4. CASE Stop
    BY <1>0, <1>4 DEF Outcome, Stop
<1>5. ASSUME UNCHANGED <<results, applied>>, mainAt \notin {"stop", "returned"} \/ mainAt' = mainAt
      PROVE  Outcome'
    BY <1>0, <1>5 DEF Outcome
<1>6. CASE StartMain \/ RunPlayer \/ LeaveSpin \/ LookAtCancel \/ CheckTurnLimit \/ LogCount
           \/ Decide \/ UpdateMain \/ Publish \/ Abort
    BY <1>5, <1>6 DEF StartMain, RunPlayer, LeaveSpin, LookAtCancel, CheckTurnLimit, LogCount,
           Decide, UpdateMain, Publish, Abort
<1>7. CASE CallCancel \/ ReturnFromCancel
    BY <1>5, <1>7 DEF CallCancel, ReturnFromCancel
<1>8. ASSUME NEW p \in Players, PlayerStep(p) \/ Crash(p) PROVE Outcome'
    BY <1>5, <1>8 DEF PlayerStep, StartPlayer, LeaveWait, LookAtTimer, Think, Write,
           WriteCountToShm, Release, Exit, Crash
<1>9. ASSUME NEW p \in Processes, TimerStep(p) PROVE Outcome'
    BY <1>5, <1>9 DEF TimerStep
<1>10. CASE UNCHANGED vars
    BY <1>5, <1>10 DEF vars
<1> QED
    BY <1>1, <1>2, <1>3, <1>4, <1>6, <1>7, <1>8, <1>9, <1>10 DEF Next, MainStep

\* Every step preserves the part about the main driver.
LEMMA MainPreserved ==
    ASSUME IInv, [Next]_vars
    PROVE  MainPart'
<1>0. TypeOK /\ MainPart /\ cur \in Players /\ PlayerPart(cur)
    BY DEF IInv, TypeOK
<1>t. /\ turn \in Nat /\ cur \in Nat /\ MaxTurns \in Nat /\ NumPlayers \in Nat /\ NumPlayers > 0
      /\ cur < NumPlayers /\ turn <= MaxTurns
      /\ counter[cur] \in Nat /\ LimitGame \in Nat
    BY <1>0, Constants DEF TypeOK
<1> USE <1>0, <1>t DEF mainVars, bufferVars, playerVars, timerVars, RoundPlaces, TurnPlaces
<1>1. CASE StartMain
    BY <1>1 DEF MainPart, StartMain, Turns
<1>2. CASE RunPlayer
    BY <1>2 DEF MainPart, RunPlayer
<1>3. CASE LeaveSpin
    BY <1>3 DEF MainPart, LeaveSpin, StopsSpinning, TimedOut
<1>4. CASE LookAtCancel
    BY <1>4 DEF MainPart, LookAtCancel
<1>5. CASE CheckGameLimit
    BY <1>5 DEF MainPart, CheckGameLimit, Judged
<1>6. CASE CheckTurnLimit
  <2>1. skip'[cur] <=> counter[cur] > LimitTurn
      BY <1>6 DEF CheckTurnLimit, TypeOK
  <2> QED
      BY <1>6, <2>1 DEF MainPart, CheckTurnLimit, Judged, TimedOut
<1>7. CASE LogCount
    BY <1>7 DEF MainPart, LogCount
<1>8. CASE Decide
    BY <1>8 DEF MainPart, Decide
<1>9. CASE Execute
  <2>1. Len(applied') = Len(applied) + 1
      BY <1>9 DEF Execute, TypeOK
  <2> QED
      BY <1>9, <2>1 DEF MainPart, Execute
<1>10. CASE UpdateMain
    BY <1>10 DEF MainPart, UpdateMain
<1>11. CASE Publish
    BY <1>11 DEF MainPart, Publish, Turns
<1>12. CASE SetScores
    BY <1>12 DEF MainPart, SetScores
<1>13. CASE Stop
    BY <1>13 DEF MainPart, Stop
<1>14. CASE Abort
    BY <1>14 DEF MainPart, Abort
<1>15. ASSUME UNCHANGED mainVars, StopsSpinning => StopsSpinning', counter'[cur] = counter[cur],
              TimedOut(Main) => TimedOut(Main)'
       PROVE  MainPart'
    BY <1>15 DEF MainPart, Judged
<1>16. CASE CallCancel \/ ReturnFromCancel
    BY <1>15, <1>16 DEF CallCancel, ReturnFromCancel, StopsSpinning, TimedOut
<1>17. ASSUME NEW p \in Players, PlayerStep(p) \/ Crash(p) PROVE MainPart'
  <2>1. p \in Processes /\ Main \in Processes /\ p # Main
      BY Constants
  <2>2. CASE StartPlayer(p)
      BY <1>15, <2>1, <2>2 DEF StartPlayer, Timers!Start, StopsSpinning, TimedOut, TypeOK
  <2>3. CASE LeaveWait(p) \/ LookAtTimer(p) \/ Think(p) \/ Write(p) \/ Exit(p) \/ Crash(p)
      BY <1>15, <2>3 DEF LeaveWait, LookAtTimer, Think, Write, Exit, Crash, Timers!Cancel,
             StopsSpinning, TimedOut
  <2>4. CASE Release(p)
    <3>1. StopsSpinning => StopsSpinning'
        BY <2>4 DEF Release, StopsSpinning, TimedOut, TypeOK
    <3> QED
        BY <1>15, <2>4, <3>1 DEF Release, TimedOut
  <2>5. CASE WriteCountToShm(p)
    <3>1. CASE p # cur
      <4>1. counter'[cur] = counter[cur]
          BY <2>5, <3>1 DEF WriteCountToShm, TypeOK
      <4> QED
          BY <1>15, <2>5, <4>1 DEF WriteCountToShm, StopsSpinning, TimedOut
    <3>2. CASE p = cur
      <4>1. mainAt \in {"checkTurn", "log"} => TimedOut(Main)
          BY <2>5, <3>2 DEF WriteCountToShm, PlayerPart, HandOver, PlayerInBuffer, Waited, Awaited
      <4> QED
          BY <2>5, <4>1 DEF WriteCountToShm, MainPart, StopsSpinning, TimedOut
    <3> QED
        BY <3>1, <3>2
  <2> QED
      BY <1>17, <2>2, <2>3, <2>4, <2>5 DEF PlayerStep
<1>18. ASSUME NEW p \in Processes, TimerStep(p) PROVE MainPart'
  <2>1. TimedOut(Main) => TimedOut(Main)'
      BY <1>18, Constants DEF TimerStep, Timers!Fire, Timers!Drop, Timers!Lose, TimedOut, TypeOK
  <2> QED
      BY <1>15, <1>18, <2>1 DEF TimerStep, StopsSpinning
<1>19. CASE UNCHANGED vars
    BY <1>15, <1>19 DEF vars, StopsSpinning, TimedOut
<1> QED
    BY <1>1, <1>2, <1>3, <1>4, <1>5, <1>6, <1>7, <1>8, <1>9, <1>10, <1>11, <1>12, <1>13,
       <1>14, <1>16, <1>17, <1>18, <1>19 DEF Next, MainStep

-----------------------------------------------------------------------------
(* The part about player p: one lemma per step of the main driver.         *)

\* Start: no player is in its turn yet.
LEMMA StartMainPart ==
    ASSUME TypeOK, MainPart, StartMain, NEW p \in Players, PlayerPart(p)
    PROVE  PlayerPart(p)'
<1>1. /\ p \in Nat /\ cur \in Nat /\ turn \in Nat /\ turnsDone[p] \in Nat
      /\ counter[p] \in Nat /\ LimitGame \in Nat /\ NumPlayers \in Nat /\ p < NumPlayers
    BY Typing
<1>2. /\ mainAt = "start" /\ mainAt' \in {"run", "scores"}
      /\ turn = 0 /\ cur = 0 /\ world = 0
      /\ ~running'[p] /\ counter'[p] = 0 /\ view'[p] = 0
      /\ (TimedOut(p) => TimedOut(p)') /\ (TimedOut(Main) => TimedOut(Main)')
      /\ UNCHANGED <<turn, cur, skip, exceeded, results, world, logged, playerAt, seen, count,
         turnsDone>>
    BY <1>1 DEF StartMain, TypeOK, MainPart, PublishState, Turns, Timers!Start, playerVars,
           bufferVars, timerVars, TimedOut
<1>3. HandOver(p)'
    BY <1>1, <1>2 DEF PlayerPart, HandOver, PlayerInBuffer, TimedOut, Waited
<1>4. Waited(p)'
    BY <1>1, <1>2 DEF PlayerPart, Waited, Awaited, Handed, RoundPlaces, TurnPlaces,
           TimedOut, StopsSpinning
<1>5. TurnCount(p)'
    BY <1>1, <1>2 DEF PlayerPart, TurnCount, Handed, Ending, RoundPlaces, TurnPlaces
<1>6. Counted(p)'
    BY <1>1, <1>2 DEF PlayerPart, Counted, Handed, TurnPlaces, RoundPlaces
<1>7. Settled(p)'
    BY <1>1, <1>2 DEF PlayerPart, Settled, Checked, Judged, RoundPlaces, TurnPlaces,
           TimedOut
<1>8. Fresh(p)'
    BY <1>1, <1>2 DEF PlayerPart, Fresh, Waited, HandOver, PlayerInBuffer, TurnCount,
           Handed, Ending
<1> QED
    BY <1>3, <1>4, <1>5, <1>6, <1>7, <1>8 DEF PlayerPart

\* RunPlayer: the turn goes to cur, which is up to date.
LEMMA RunPlayerPart ==
    ASSUME TypeOK, MainPart, RunPlayer, NEW p \in Players, PlayerPart(p)
    PROVE  PlayerPart(p)'
<1>1. /\ p \in Nat /\ cur \in Nat /\ turn \in Nat /\ turnsDone[p] \in Nat
      /\ counter[p] \in Nat /\ LimitGame \in Nat /\ NumPlayers \in Nat /\ p < NumPlayers
    BY Typing
<1>2. /\ mainAt = "run" /\ mainAt' = "spin" /\ turn < MaxTurns
      /\ (p = cur => running'[p]) /\ (p # cur => running'[p] = running[p])
      /\ UNCHANGED <<turn, cur, skip, exceeded, results, world, logged, counter, view, moves,
         playerAt, seen, count, turnsDone, timer>>
    BY <1>1 DEF RunPlayer, TypeOK, MainPart, RoundPlaces, TurnPlaces, playerVars,
           bufferVars, timerVars
<1>3. HandOver(p)'
    BY <1>1, <1>2 DEF PlayerPart, HandOver, PlayerInBuffer, TimedOut
<1>4. Waited(p)'
    BY <1>1, <1>2 DEF PlayerPart, Waited, Awaited, Handed, RoundPlaces, TurnPlaces,
           TimedOut, StopsSpinning
<1>5. TurnCount(p)'
    BY <1>1, <1>2 DEF PlayerPart, TurnCount, Handed, Ending, RoundPlaces, TurnPlaces, Waited
<1>6. Counted(p)'
    BY <1>1, <1>2 DEF PlayerPart, Counted, Handed, TurnPlaces, RoundPlaces, Waited,
           HandOver, PlayerInBuffer
<1>7. Settled(p)'
    BY <1>1, <1>2 DEF PlayerPart, Settled, Checked, Judged, RoundPlaces, TurnPlaces,
           TimedOut
<1>8. Fresh(p)'
    BY <1>1, <1>2 DEF PlayerPart, Fresh
<1> QED
    BY <1>3, <1>4, <1>5, <1>6, <1>7, <1>8 DEF PlayerPart

\* LeaveSpin moves on only.
LEMMA LeaveSpinPart ==
    ASSUME TypeOK, MainPart, LeaveSpin, NEW p \in Players, PlayerPart(p)
    PROVE  PlayerPart(p)'
<1>1. /\ p \in Nat /\ cur \in Nat /\ turn \in Nat /\ turnsDone[p] \in Nat
      /\ counter[p] \in Nat /\ LimitGame \in Nat /\ NumPlayers \in Nat /\ p < NumPlayers
    BY Typing
<1>2. /\ mainAt = "spin" /\ mainAt' = "look"
      /\ UNCHANGED <<turn, cur, skip, exceeded, results, world, logged, running, counter, view,
         moves, playerAt, seen, count, turnsDone, timer>>
    BY <1>1 DEF LeaveSpin, TypeOK, MainPart, playerVars, bufferVars, timerVars
<1>3. HandOver(p)'
    BY <1>1, <1>2 DEF PlayerPart, HandOver, PlayerInBuffer, TimedOut
<1>4. Waited(p)'
    BY <1>1, <1>2 DEF PlayerPart, Waited, Awaited, Handed, RoundPlaces, TurnPlaces,
           TimedOut, StopsSpinning
<1>5. TurnCount(p)'
    BY <1>1, <1>2 DEF PlayerPart, TurnCount, Handed, Ending, RoundPlaces, TurnPlaces
<1>6. Counted(p)'
    BY <1>1, <1>2 DEF PlayerPart, Counted, Handed, TurnPlaces, RoundPlaces
<1>7. Settled(p)'
    BY <1>1, <1>2 DEF PlayerPart, Settled, Checked, Judged, RoundPlaces, TurnPlaces,
           TimedOut
<1>8. Fresh(p)'
    BY <1>1, <1>2 DEF PlayerPart, Fresh
<1> QED
    BY <1>3, <1>4, <1>5, <1>6, <1>7, <1>8 DEF PlayerPart

\* LookAtCancel: cur has handed back the turn, or the time is up.
LEMMA LookAtCancelPart ==
    ASSUME TypeOK, MainPart, LookAtCancel, NEW p \in Players, PlayerPart(p)
    PROVE  PlayerPart(p)'
<1>1. /\ p \in Nat /\ cur \in Nat /\ turn \in Nat /\ turnsDone[p] \in Nat
      /\ counter[p] \in Nat /\ LimitGame \in Nat /\ NumPlayers \in Nat /\ p < NumPlayers
    BY Typing
<1>2. /\ mainAt = "look" /\ mainAt' \in {"abort", "checkGame"}
      /\ mainAt' = "checkGame" => ~cancel
      /\ p = cur => ~running[p] \/ TimedOut(Main) \/ cancel
      /\ UNCHANGED <<turn, cur, skip, exceeded, results, world, logged, running, counter, view,
         moves, playerAt, seen, count, turnsDone, timer>>
    BY <1>1 DEF LookAtCancel, TypeOK, MainPart, StopsSpinning, playerVars, bufferVars,
           timerVars, TimedOut
<1>3. HandOver(p)'
    BY <1>1, <1>2 DEF PlayerPart, HandOver, PlayerInBuffer, TimedOut
<1>4. Waited(p)'
    BY <1>1, <1>2 DEF PlayerPart, Waited, Awaited, Handed, RoundPlaces, TurnPlaces,
           TimedOut, StopsSpinning
<1>5. TurnCount(p)'
    BY <1>1, <1>2 DEF PlayerPart, TurnCount, Handed, Ending, RoundPlaces, TurnPlaces
<1>6. Counted(p)'
    BY <1>1, <1>2 DEF PlayerPart, Counted, Handed, TurnPlaces, RoundPlaces
<1>7. Settled(p)'
    BY <1>1, <1>2 DEF PlayerPart, Settled, Checked, Judged, RoundPlaces, TurnPlaces,
           TimedOut
<1>8. Fresh(p)'
    BY <1>1, <1>2 DEF PlayerPart, Fresh
<1> QED
    BY <1>3, <1>4, <1>5, <1>6, <1>7, <1>8 DEF PlayerPart

\* CheckGameLimit: only a counter beyond the limit makes the result EXCEEDED.
LEMMA CheckGameLimitPart ==
    ASSUME TypeOK, MainPart, CheckGameLimit, NEW p \in Players, PlayerPart(p)
    PROVE  PlayerPart(p)'
<1>1. /\ p \in Nat /\ cur \in Nat /\ turn \in Nat /\ turnsDone[p] \in Nat
      /\ counter[p] \in Nat /\ LimitGame \in Nat /\ NumPlayers \in Nat /\ p < NumPlayers
    BY Typing
<1>2. /\ mainAt = "checkGame"
      /\ mainAt' \in {"log", "checkTurn"}
      /\ p # cur => results'[p] = results[p]
      /\ p = cur => results'[p] = results[p] \/ counter[p] > LimitGame
      /\ exceeded => exceeded'
      /\ UNCHANGED <<turn, cur, skip, world, logged, running, counter, view, moves, playerAt, seen,
         count, turnsDone, timer>>
    BY <1>1 DEF CheckGameLimit, TypeOK, MainPart, playerVars, bufferVars, timerVars
<1>3. HandOver(p)'
    BY <1>1, <1>2 DEF PlayerPart, HandOver, PlayerInBuffer, TimedOut
<1>4. Waited(p)'
    BY <1>1, <1>2 DEF PlayerPart, Waited, Awaited, Handed, RoundPlaces, TurnPlaces,
           TimedOut, StopsSpinning
<1>5. TurnCount(p)'
    BY <1>1, <1>2 DEF PlayerPart, TurnCount, Handed, Ending, RoundPlaces, TurnPlaces
<1>6. Counted(p)'
    BY <1>1, <1>2 DEF PlayerPart, Counted, Handed, TurnPlaces, RoundPlaces
<1>7. Settled(p)'
    BY <1>1, <1>2 DEF PlayerPart, Settled, Checked, Judged, RoundPlaces, TurnPlaces,
           TimedOut
<1>8. Fresh(p)'
    BY <1>1, <1>2 DEF PlayerPart, Fresh
<1> QED
    BY <1>3, <1>4, <1>5, <1>6, <1>7, <1>8 DEF PlayerPart

\* CheckTurnLimit changes skip for cur only.
LEMMA CheckTurnLimitPart ==
    ASSUME TypeOK, MainPart, CheckTurnLimit, NEW p \in Players, PlayerPart(p)
    PROVE  PlayerPart(p)'
<1>1. /\ p \in Nat /\ cur \in Nat /\ turn \in Nat /\ turnsDone[p] \in Nat
      /\ counter[p] \in Nat /\ LimitGame \in Nat /\ NumPlayers \in Nat /\ p < NumPlayers
    BY Typing
<1>2. /\ mainAt = "checkTurn" /\ mainAt' = "log"
      /\ p # cur => skip'[p] = skip[p]
      /\ UNCHANGED <<turn, cur, exceeded, results, world, logged, running, counter, view, moves,
         playerAt, seen, count, turnsDone, timer>>
    BY <1>1 DEF CheckTurnLimit, TypeOK, MainPart, playerVars, bufferVars, timerVars
<1>3. HandOver(p)'
    BY <1>1, <1>2 DEF PlayerPart, HandOver, PlayerInBuffer, TimedOut
<1>4. Waited(p)'
    BY <1>1, <1>2 DEF PlayerPart, Waited, Awaited, Handed, RoundPlaces, TurnPlaces,
           TimedOut, StopsSpinning
<1>5. TurnCount(p)'
    BY <1>1, <1>2 DEF PlayerPart, TurnCount, Handed, Ending, RoundPlaces, TurnPlaces
<1>6. Counted(p)'
    BY <1>1, <1>2 DEF PlayerPart, Counted, Handed, TurnPlaces, RoundPlaces
<1>7. Settled(p)'
    BY <1>1, <1>2 DEF PlayerPart, Settled, Checked, Judged, RoundPlaces, TurnPlaces,
           TimedOut
<1>8. Fresh(p)'
    BY <1>1, <1>2 DEF PlayerPart, Fresh
<1> QED
    BY <1>3, <1>4, <1>5, <1>6, <1>7, <1>8 DEF PlayerPart

\* LogCount: what is settled for cur is settled.
LEMMA LogCountPart ==
    ASSUME TypeOK, MainPart, LogCount, NEW p \in Players, PlayerPart(p)
    PROVE  PlayerPart(p)'
<1>1. /\ p \in Nat /\ cur \in Nat /\ turn \in Nat /\ turnsDone[p] \in Nat
      /\ counter[p] \in Nat /\ LimitGame \in Nat /\ NumPlayers \in Nat /\ p < NumPlayers
    BY Typing
<1>2. /\ mainAt = "log"
      /\ p = cur => logged'[p] = counter[p]
      /\ p # cur => logged'[p] = logged[p]
      /\ p = cur /\ ~TimedOut(Main) => Judged(p, counter[p])
      /\ UNCHANGED <<skip, exceeded, results, world, running, counter, view, moves, playerAt, seen,
         count, turnsDone, timer>>
      /\ UNCHANGED turn
    BY <1>1 DEF LogCount, TypeOK, MainPart, playerVars, bufferVars, timerVars, Judged,
           TimedOut
<1>3. \/ mainAt' = "run" /\ cur' = cur + 1
      \/ mainAt' = "decide" /\ cur' = cur
    BY DEF LogCount
<1>4. HandOver(p)'
    BY <1>1, <1>2, <1>3 DEF PlayerPart, HandOver, PlayerInBuffer, TimedOut
<1>5. Waited(p)'
    BY <1>1, <1>2, <1>3 DEF PlayerPart, Waited, Awaited, Handed, RoundPlaces, TurnPlaces,
           TimedOut, StopsSpinning
<1>6. TurnCount(p)'
    BY <1>1, <1>2, <1>3 DEF PlayerPart, TurnCount, Handed, Ending, RoundPlaces, TurnPlaces
<1>7. Counted(p)'
    BY <1>1, <1>2, <1>3 DEF PlayerPart, Counted, Handed, TurnPlaces, RoundPlaces
<1>8. Settled(p)'
    BY <1>1, <1>2, <1>3 DEF PlayerPart, Settled, Checked, Judged, RoundPlaces, TurnPlaces,
           TimedOut
<1>9. Fresh(p)'
    BY <1>1, <1>2, <1>3 DEF PlayerPart, Fresh
<1> QED
    BY <1>4, <1>5, <1>6, <1>7, <1>8, <1>9 DEF PlayerPart

\* Decide: a round is played only if all have handed back their turns.
LEMMA DecidePart ==
    ASSUME TypeOK, MainPart, Decide, NEW p \in Players, PlayerPart(p)
    PROVE  PlayerPart(p)'
<1>1. /\ p \in Nat /\ cur \in Nat /\ turn \in Nat /\ turnsDone[p] \in Nat
      /\ counter[p] \in Nat /\ LimitGame \in Nat /\ NumPlayers \in Nat /\ p < NumPlayers
    BY Typing
<1>2. /\ mainAt = "decide" /\ cur = NumPlayers - 1
      /\ UNCHANGED <<turn, cur, skip, exceeded, results, world, logged, running, counter, view,
         moves, playerAt, seen, count, turnsDone, timer>>
    BY DEF Decide, TypeOK, MainPart, RoundPlaces, playerVars, bufferVars, timerVars
<1>3. \/ mainAt' = "stop"
      \/ mainAt' = "execute" /\ ~exceeded /\ ~TimedOut(Main)
    BY DEF Decide
<1>4. HandOver(p)'
    BY <1>1, <1>2, <1>3 DEF PlayerPart, HandOver, PlayerInBuffer, TimedOut
<1>5. Waited(p)'
    BY <1>1, <1>2, <1>3 DEF PlayerPart, Waited, Awaited, Handed, RoundPlaces, TurnPlaces,
           TimedOut, StopsSpinning
<1>6. TurnCount(p)'
    BY <1>1, <1>2, <1>3 DEF PlayerPart, TurnCount, Handed, Ending, RoundPlaces, TurnPlaces
<1>7. Counted(p)'
    BY <1>1, <1>2, <1>3 DEF PlayerPart, Counted, Handed, TurnPlaces, RoundPlaces
<1>8. Settled(p)'
    BY <1>1, <1>2, <1>3 DEF PlayerPart, Settled, Checked, Judged, RoundPlaces, TurnPlaces,
           TimedOut
<1>9. Fresh(p)'
    BY <1>1, <1>2, <1>3 DEF PlayerPart, Fresh
<1> QED
    BY <1>4, <1>5, <1>6, <1>7, <1>8, <1>9 DEF PlayerPart

\* Execute changes nothing the part is about.
LEMMA ExecutePart ==
    ASSUME TypeOK, MainPart, Execute, NEW p \in Players, PlayerPart(p)
    PROVE  PlayerPart(p)'
<1>1. /\ p \in Nat /\ cur \in Nat /\ turn \in Nat /\ turnsDone[p] \in Nat
      /\ counter[p] \in Nat /\ LimitGame \in Nat /\ NumPlayers \in Nat /\ p < NumPlayers
    BY Typing
<1>2. /\ mainAt = "execute" /\ mainAt' = "update"
      /\ UNCHANGED <<turn, cur, skip, exceeded, results, world, logged, running, counter, view,
         moves, playerAt, seen, count, turnsDone, timer>>
    BY <1>1 DEF Execute, TypeOK, MainPart, playerVars, bufferVars, timerVars
<1>3. HandOver(p)'
    BY <1>1, <1>2 DEF PlayerPart, HandOver, PlayerInBuffer, TimedOut
<1>4. Waited(p)'
    BY <1>1, <1>2 DEF PlayerPart, Waited, Awaited, Handed, RoundPlaces, TurnPlaces,
           TimedOut, StopsSpinning
<1>5. TurnCount(p)'
    BY <1>1, <1>2 DEF PlayerPart, TurnCount, Handed, Ending, RoundPlaces, TurnPlaces
<1>6. Counted(p)'
    BY <1>1, <1>2 DEF PlayerPart, Counted, Handed, TurnPlaces, RoundPlaces
<1>7. Settled(p)'
    BY <1>1, <1>2 DEF PlayerPart, Settled, Checked, Judged, RoundPlaces, TurnPlaces,
           TimedOut
<1>8. Fresh(p)'
    BY <1>1, <1>2 DEF PlayerPart, Fresh
<1> QED
    BY <1>3, <1>4, <1>5, <1>6, <1>7, <1>8 DEF PlayerPart

\* UpdateMain changes nothing the part is about.
LEMMA UpdateMainPart ==
    ASSUME TypeOK, MainPart, UpdateMain, NEW p \in Players, PlayerPart(p)
    PROVE  PlayerPart(p)'
<1>1. /\ p \in Nat /\ cur \in Nat /\ turn \in Nat /\ turnsDone[p] \in Nat
      /\ counter[p] \in Nat /\ LimitGame \in Nat /\ NumPlayers \in Nat /\ p < NumPlayers
    BY Typing
<1>2. /\ mainAt = "update" /\ mainAt' = "publish"
      /\ UNCHANGED <<turn, cur, skip, exceeded, results, logged, running, counter, view, moves,
         playerAt, seen, count, turnsDone, timer>>
    BY <1>1 DEF UpdateMain, TypeOK, MainPart, playerVars, bufferVars, timerVars
<1>3. HandOver(p)'
    BY <1>1, <1>2 DEF PlayerPart, HandOver, PlayerInBuffer, TimedOut
<1>4. Waited(p)'
    BY <1>1, <1>2 DEF PlayerPart, Waited, Awaited, Handed, RoundPlaces, TurnPlaces,
           TimedOut, StopsSpinning
<1>5. TurnCount(p)'
    BY <1>1, <1>2 DEF PlayerPart, TurnCount, Handed, Ending, RoundPlaces, TurnPlaces
<1>6. Counted(p)'
    BY <1>1, <1>2 DEF PlayerPart, Counted, Handed, TurnPlaces, RoundPlaces
<1>7. Settled(p)'
    BY <1>1, <1>2 DEF PlayerPart, Settled, Checked, Judged, RoundPlaces, TurnPlaces,
           TimedOut
<1>8. Fresh(p)'
    BY <1>1, <1>2 DEF PlayerPart, Fresh
<1> QED
    BY <1>3, <1>4, <1>5, <1>6, <1>7, <1>8 DEF PlayerPart

\* Publish: the next turn begins, with everybody up to date.
LEMMA PublishPart ==
    ASSUME TypeOK, MainPart, Publish, NEW p \in Players, PlayerPart(p)
    PROVE  PlayerPart(p)'
<1>1. /\ p \in Nat /\ cur \in Nat /\ turn \in Nat /\ turnsDone[p] \in Nat
      /\ counter[p] \in Nat /\ LimitGame \in Nat /\ NumPlayers \in Nat /\ p < NumPlayers
    BY Typing
<1>2. /\ mainAt = "publish" /\ mainAt' \in {"run", "scores"} /\ cur = NumPlayers - 1
      /\ cur' = 0 /\ turn' = turn + 1 /\ world = turn + 1
      /\ view'[p] = world
      /\ UNCHANGED <<skip, exceeded, results, world, logged, running, counter, playerAt, seen, count,
         turnsDone, timer>>
    BY <1>1 DEF Publish, TypeOK, MainPart, PublishState, Turns, RoundPlaces, playerVars,
           bufferVars, timerVars
<1>3. HandOver(p)'
    BY <1>1, <1>2 DEF PlayerPart, HandOver, PlayerInBuffer, TimedOut
<1>4. Waited(p)'
    BY <1>1, <1>2 DEF PlayerPart, Waited, Awaited, Handed, RoundPlaces, TurnPlaces,
           TimedOut, StopsSpinning
<1>5. TurnCount(p)'
    BY <1>1, <1>2 DEF PlayerPart, TurnCount, Handed, Ending, RoundPlaces, TurnPlaces, Waited
<1>6. Counted(p)'
    BY <1>1, <1>2 DEF PlayerPart, Counted, Handed, TurnPlaces, RoundPlaces, Settled
<1>7. Settled(p)'
    BY <1>1, <1>2 DEF PlayerPart, Settled, Checked, Judged, RoundPlaces, TurnPlaces,
           TimedOut
<1>8. Fresh(p)'
    BY <1>1, <1>2 DEF PlayerPart, Fresh, TurnCount, Waited, Handed, Ending, RoundPlaces,
           HandOver, PlayerInBuffer
<1> QED
    BY <1>3, <1>4, <1>5, <1>6, <1>7, <1>8 DEF PlayerPart

\* SetScores changes the results only.
LEMMA SetScoresPart ==
    ASSUME TypeOK, MainPart, SetScores, NEW p \in Players, PlayerPart(p)
    PROVE  PlayerPart(p)'
<1>1. /\ p \in Nat /\ cur \in Nat /\ turn \in Nat /\ turnsDone[p] \in Nat
      /\ counter[p] \in Nat /\ LimitGame \in Nat /\ NumPlayers \in Nat /\ p < NumPlayers
    BY Typing
<1>2. /\ mainAt = "scores" /\ mainAt' = "stop"
      /\ results'[p] = "NORMAL"
      /\ UNCHANGED <<turn, cur, skip, exceeded, world, logged, running, counter, view, moves,
         playerAt, seen, count, turnsDone, timer>>
    BY <1>1 DEF SetScores, TypeOK, MainPart, playerVars, bufferVars, timerVars
<1>3. HandOver(p)'
    BY <1>1, <1>2 DEF PlayerPart, HandOver, PlayerInBuffer, TimedOut
<1>4. Waited(p)'
    BY <1>1, <1>2 DEF PlayerPart, Waited, Awaited, Handed, RoundPlaces, TurnPlaces,
           TimedOut, StopsSpinning
<1>5. TurnCount(p)'
    BY <1>1, <1>2 DEF PlayerPart, TurnCount, Handed, Ending, RoundPlaces, TurnPlaces
<1>6. Counted(p)'
    BY <1>1, <1>2 DEF PlayerPart, Counted, Handed, TurnPlaces, RoundPlaces
<1>7. Settled(p)'
    BY <1>1, <1>2 DEF PlayerPart, Settled, Checked, Judged, RoundPlaces, TurnPlaces,
           TimedOut
<1>8. Fresh(p)'
    BY <1>1, <1>2 DEF PlayerPart, Fresh
<1> QED
    BY <1>3, <1>4, <1>5, <1>6, <1>7, <1>8 DEF PlayerPart

\* Stop: the game is over.
LEMMA StopPart ==
    ASSUME TypeOK, MainPart, Stop, NEW p \in Players, PlayerPart(p)
    PROVE  PlayerPart(p)'
<1>1. /\ p \in Nat /\ cur \in Nat /\ turn \in Nat /\ turnsDone[p] \in Nat
      /\ counter[p] \in Nat /\ LimitGame \in Nat /\ NumPlayers \in Nat /\ p < NumPlayers
    BY Typing
<1>2. /\ mainAt = "stop" /\ mainAt' = "returned"
      /\ UNCHANGED <<turn, cur, skip, exceeded, results, world, logged, running, counter, view,
         moves, playerAt, seen, count, turnsDone, timer>>
    BY <1>1 DEF Stop, TypeOK, MainPart, Timers!Cancel, playerVars, bufferVars, timerVars
<1>3. HandOver(p)'
    BY <1>1, <1>2 DEF PlayerPart, HandOver, PlayerInBuffer, TimedOut
<1>4. Waited(p)'
    BY <1>1, <1>2 DEF PlayerPart, Waited, Awaited, Handed, RoundPlaces, TurnPlaces,
           TimedOut, StopsSpinning
<1>5. TurnCount(p)'
    BY <1>1, <1>2 DEF PlayerPart, TurnCount, Handed, Ending, RoundPlaces, TurnPlaces
<1>6. Counted(p)'
    BY <1>1, <1>2 DEF PlayerPart, Counted, Handed, TurnPlaces, RoundPlaces
<1>7. Settled(p)'
    BY <1>1, <1>2 DEF PlayerPart, Settled, Checked, Judged, RoundPlaces, TurnPlaces,
           TimedOut
<1>8. Fresh(p)'
    BY <1>1, <1>2 DEF PlayerPart, Fresh
<1> QED
    BY <1>3, <1>4, <1>5, <1>6, <1>7, <1>8 DEF PlayerPart

\* Abort: the game is over.
LEMMA AbortPart ==
    ASSUME TypeOK, MainPart, Abort, NEW p \in Players, PlayerPart(p)
    PROVE  PlayerPart(p)'
<1>1. /\ p \in Nat /\ cur \in Nat /\ turn \in Nat /\ turnsDone[p] \in Nat
      /\ counter[p] \in Nat /\ LimitGame \in Nat /\ NumPlayers \in Nat /\ p < NumPlayers
    BY Typing
<1>2. /\ mainAt = "abort" /\ mainAt' = "returned"
      /\ UNCHANGED <<turn, cur, skip, exceeded, results, world, logged, running, counter, view,
         moves, playerAt, seen, count, turnsDone, timer>>
    BY <1>1 DEF Abort, TypeOK, MainPart, Timers!Cancel, playerVars, bufferVars, timerVars
<1>3. HandOver(p)'
    BY <1>1, <1>2 DEF PlayerPart, HandOver, PlayerInBuffer, TimedOut
<1>4. Waited(p)'
    BY <1>1, <1>2 DEF PlayerPart, Waited, Awaited, Handed, RoundPlaces, TurnPlaces,
           TimedOut, StopsSpinning
<1>5. TurnCount(p)'
    BY <1>1, <1>2 DEF PlayerPart, TurnCount, Handed, Ending, RoundPlaces, TurnPlaces
<1>6. Counted(p)'
    BY <1>1, <1>2 DEF PlayerPart, Counted, Handed, TurnPlaces, RoundPlaces
<1>7. Settled(p)'
    BY <1>1, <1>2 DEF PlayerPart, Settled, Checked, Judged, RoundPlaces, TurnPlaces,
           TimedOut
<1>8. Fresh(p)'
    BY <1>1, <1>2 DEF PlayerPart, Fresh
<1> QED
    BY <1>3, <1>4, <1>5, <1>6, <1>7, <1>8 DEF PlayerPart

-----------------------------------------------------------------------------
(* The part about player p: the steps of the players.                      *)

\* A step that leaves the main driver's variables and those of p as they are,
\* and un-fires no timer, preserves the part of the invariant about p.
LEMMA PlayerFrame ==
    ASSUME NEW p \in Players, PlayerPart(p),
           UNCHANGED mainVars,
           running'[p] = running[p], counter'[p] = counter[p],
           view'[p] = view[p], moves'[p] = moves[p],
           playerAt'[p] = playerAt[p], seen'[p] = seen[p],
           count'[p] = count[p], turnsDone'[p] = turnsDone[p],
           TimedOut(p) => TimedOut(p)', TimedOut(Main) => TimedOut(Main)'
    PROVE  PlayerPart(p)'
<1> USE DEF PlayerPart, mainVars, RoundPlaces, TurnPlaces, Handed
<1>1. HandOver(p)'
    BY DEF HandOver, PlayerInBuffer
<1>2. Waited(p)'
    BY DEF Waited, Awaited
<1>3. TurnCount(p)'
    BY DEF TurnCount, Ending
<1>4. Counted(p)'
    BY DEF Counted
<1>5. Settled(p)'
    BY DEF Settled, Checked, Judged
<1>6. Fresh(p)'
    BY DEF Fresh
<1> QED
    BY <1>1, <1>2, <1>3, <1>4, <1>5, <1>6

\* The steps of player p's own driver, and its death.
LEMMA OwnStep ==
    ASSUME TypeOK, NEW p \in Players, PlayerPart(p), PlayerStep(p) \/ Crash(p)
    PROVE  PlayerPart(p)'
<1>t. /\ p \in Processes /\ Main \in Processes /\ p # Main
      /\ p \in Nat /\ cur \in Nat /\ turn \in Nat /\ turnsDone[p] \in Nat
      /\ counter[p] \in Nat /\ count[p] \in Nat /\ LimitGame \in Nat
    BY Constants, Typing DEF TypeOK
<1>m. UNCHANGED mainVars
    BY DEF PlayerStep, StartPlayer, LeaveWait, LookAtTimer, Think, Write, WriteCountToShm,
           Release, Exit, Crash
<1> USE <1>t, <1>m DEF mainVars, bufferVars, playerVars, timerVars, Go, PlayerPart,
        RoundPlaces, TurnPlaces
<1>1. CASE StartPlayer(p)
  <2>1. /\ playerAt[p] = "boot" /\ playerAt'[p] \in {"wait", "exit"}
        /\ TimedOut(p) => TimedOut(p)'
        /\ TimedOut(Main) => TimedOut(Main)'
        /\ UNCHANGED <<running, counter, view, moves, seen, count, turnsDone>>
      BY <1>1 DEF StartPlayer, Timers!Start, TimedOut, TypeOK
  <2>2. HandOver(p)'
      BY <2>1 DEF HandOver, PlayerInBuffer
  <2>3. Waited(p)' /\ TurnCount(p)'
      BY <2>1 DEF Waited, Awaited, Handed, TurnCount, Ending
  <2>4. Counted(p)'
      BY <2>1 DEF Counted, Handed
  <2>5. Settled(p)'
      BY <2>1 DEF Settled, Checked, Judged
  <2>6. Fresh(p)'
      BY <2>1 DEF Fresh
  <2> QED
      BY <2>2, <2>3, <2>4, <2>5, <2>6
<1>2. CASE LeaveWait(p)
  <2>1. /\ playerAt[p] = "wait" /\ playerAt'[p] = "look"
        /\ running[p] \/ TimedOut(p)
        /\ UNCHANGED <<running, counter, view, moves, seen, count, turnsDone, timer>>
      BY <1>2 DEF LeaveWait, TypeOK
  <2>2. HandOver(p)'
      BY <2>1 DEF HandOver, PlayerInBuffer, TimedOut
  <2>3. Waited(p)' /\ TurnCount(p)'
      BY <2>1 DEF Waited, Awaited, Handed, TurnCount, Ending, TimedOut
  <2>4. Counted(p)'
      BY <2>1 DEF Counted, Handed
  <2>5. Settled(p)'
      BY <2>1 DEF Settled, Checked, Judged, TimedOut
  <2>6. Fresh(p)'
      BY <2>1 DEF Fresh
  <2> QED
      BY <2>2, <2>3, <2>4, <2>5, <2>6
<1>3. CASE LookAtTimer(p)
  <2>1. /\ playerAt[p] = "look"
        /\ \/ playerAt'[p] = "exit" /\ count'[p] = count[p]
           \/ playerAt'[p] = "think" /\ running[p] /\ seen'[p] = view[p] /\ count'[p] = 0
        /\ UNCHANGED <<running, counter, view, moves, turnsDone, timer>>
    <3>1. CASE TimedOut(p)
        BY <1>3, <3>1 DEF LookAtTimer, TypeOK
    <3>2. CASE ~TimedOut(p)
        BY <1>3, <3>2 DEF LookAtTimer, TypeOK, HandOver
    <3> QED
        BY <3>1, <3>2
  <2>2. HandOver(p)'
      BY <2>1 DEF HandOver, PlayerInBuffer
  <2>3. Waited(p)' /\ TurnCount(p)'
      BY <2>1 DEF Waited, Awaited, Handed, TurnCount, Ending, TimedOut
  <2>4. Counted(p)'
      BY <2>1 DEF Counted, Handed, Waited
  <2>5. Settled(p)'
      BY <2>1 DEF Settled, Checked, Judged, TimedOut
  <2>6. Fresh(p)'
      BY <2>1 DEF Fresh
  <2> QED
      BY <2>2, <2>3, <2>4, <2>5, <2>6
<1>4. CASE Think(p)
  <2>1. /\ playerAt[p] = "think" /\ playerAt'[p] = "write" /\ running[p]
        /\ UNCHANGED <<running, counter, view, seen, turnsDone, timer>>
      BY <1>4 DEF Think, TypeOK, HandOver, PlayerInBuffer
  <2>2. HandOver(p)'
      BY <2>1 DEF HandOver, PlayerInBuffer
  <2>3. Waited(p)' /\ TurnCount(p)'
      BY <2>1 DEF Waited, Awaited, Handed, TurnCount, Ending, TimedOut
  <2>4. Counted(p)'
      BY <2>1 DEF Counted, Handed, Waited
  <2>5. Settled(p)'
      BY <2>1 DEF Settled, Checked, Judged, TimedOut
  <2>6. Fresh(p)'
      BY <2>1 DEF Fresh, TurnCount
  <2> QED
      BY <2>2, <2>3, <2>4, <2>5, <2>6
<1>5. CASE Write(p)
  <2>1. /\ playerAt[p] = "write" /\ playerAt'[p] = "count" /\ running[p]
        /\ moves'[p] = seen[p] /\ view'[p] = seen[p]
        /\ UNCHANGED <<running, counter, seen, count, turnsDone, timer>>
      BY <1>5 DEF Write, TypeOK, HandOver, PlayerInBuffer
  <2>2. HandOver(p)'
      BY <2>1 DEF HandOver, PlayerInBuffer
  <2>3. Waited(p)' /\ TurnCount(p)'
      BY <2>1 DEF Waited, Awaited, Handed, TurnCount, Ending, TimedOut
  <2>4. Counted(p)'
      BY <2>1 DEF Counted, Handed
  <2>5. Settled(p)'
      BY <2>1 DEF Settled, Checked, Judged, TimedOut
  <2>6. Fresh(p)'
      BY <2>1 DEF Fresh
  <2> QED
      BY <2>2, <2>3, <2>4, <2>5, <2>6
<1>6. CASE WriteCountToShm(p)
  <2>1. /\ playerAt[p] = "count" /\ playerAt'[p] = "release" /\ running[p]
        /\ counter'[p] = count[p] /\ counter[p] <= LimitGame
        /\ UNCHANGED <<running, view, moves, seen, count, turnsDone, timer>>
      BY <1>6 DEF WriteCountToShm, TypeOK, HandOver, PlayerInBuffer, Counted
  <2>2. HandOver(p)'
      BY <2>1 DEF HandOver, PlayerInBuffer
  <2>3. Waited(p)' /\ TurnCount(p)'
      BY <2>1 DEF Waited, Awaited, Handed, TurnCount, Ending, TimedOut
  <2>4. Counted(p)'
      BY <2>1 DEF Counted, Handed, Waited
  <2>5. Settled(p)'
      BY <2>1 DEF Settled, Checked, Judged, TimedOut, Waited, Awaited
  <2>6. Fresh(p)'
      BY <2>1 DEF Fresh
  <2> QED
      BY <2>2, <2>3, <2>4, <2>5, <2>6
<1>7. CASE Release(p)
  <2>1. /\ playerAt[p] = "release" /\ playerAt'[p] \in {"wait", "exit"} /\ running[p]
        /\ ~running'[p] /\ turnsDone'[p] = turnsDone[p] + 1
        /\ UNCHANGED <<counter, view, moves, seen, count, timer>>
      BY <1>7 DEF Release, TypeOK, HandOver, PlayerInBuffer
  <2>2. HandOver(p)'
      BY <2>1 DEF HandOver, PlayerInBuffer
  <2>3. Waited(p)'
      BY <2>1 DEF Waited, Awaited, Handed, TimedOut
  <2>4. mainAt \notin Ending => Handed(p)
      BY <2>1 DEF Waited, Ending, MainPlaces, TypeOK
  <2>5. TurnCount(p)'
      BY <2>1, <2>4 DEF TurnCount, Handed, Ending
  <2>6. Counted(p)'
      BY <2>1 DEF Counted, Handed
  <2>7. Settled(p)'
      BY <2>1 DEF Settled, Checked, Judged, TimedOut
  <2>8. Fresh(p)'
      BY <2>1 DEF Fresh, TurnCount
  <2> QED
      BY <2>2, <2>3, <2>5, <2>6, <2>7, <2>8
<1>8. CASE Exit(p) \/ Crash(p)
  <2>1. /\ playerAt'[p] \in {"done", "crashed"}
        /\ UNCHANGED <<running, counter, view, moves, seen, count, turnsDone, timer>>
      BY <1>8 DEF Exit, Crash, Timers!Cancel, TypeOK
  <2>2. HandOver(p)'
      BY <2>1 DEF HandOver, PlayerInBuffer
  <2>3. Waited(p)' /\ TurnCount(p)'
      BY <2>1 DEF Waited, Awaited, Handed, TurnCount, Ending, TimedOut
  <2>4. Counted(p)'
      BY <2>1 DEF Counted, Handed
  <2>5. Settled(p)'
      BY <2>1 DEF Settled, Checked, Judged, TimedOut
  <2>6. Fresh(p)'
      BY <2>1 DEF Fresh
  <2> QED
      BY <2>2, <2>3, <2>4, <2>5, <2>6
<1> QED
    BY <1>1, <1>2, <1>3, <1>4, <1>5, <1>6, <1>7, <1>8 DEF PlayerStep

-----------------------------------------------------------------------------
(* The invariant is inductive.                                             *)

\* The part about each player is preserved by every step.
LEMMA PlayersPreserved ==
    ASSUME IInv, [Next]_vars, NEW p \in Players
    PROVE  PlayerPart(p)'
<1>0. TypeOK /\ MainPart /\ PlayerPart(p)
    BY DEF IInv
<1>1. CASE MainStep
    BY <1>0, <1>1, StartMainPart, RunPlayerPart, LeaveSpinPart, LookAtCancelPart,
       CheckGameLimitPart, CheckTurnLimitPart, LogCountPart, DecidePart, ExecutePart,
       UpdateMainPart, PublishPart, SetScoresPart, StopPart, AbortPart DEF MainStep
<1>2. CASE CallCancel \/ ReturnFromCancel
    BY <1>0, <1>2, PlayerFrame DEF CallCancel, ReturnFromCancel, bufferVars, playerVars,
       timerVars, TimedOut
<1>3. ASSUME NEW q \in Players, PlayerStep(q) \/ Crash(q) PROVE PlayerPart(p)'
  <2>1. CASE q = p
      BY <1>0, <1>3, <2>1, OwnStep
  <2>2. CASE q # p
    <3>1. /\ UNCHANGED mainVars
          /\ running'[p] = running[p] /\ counter'[p] = counter[p]
          /\ view'[p] = view[p] /\ moves'[p] = moves[p]
        BY <1>0, <1>3, <2>2 DEF TypeOK, bufferVars, PlayerStep, StartPlayer, LeaveWait,
           LookAtTimer, Think, Write, WriteCountToShm, Release, Exit, Crash
    <3>2. /\ playerAt'[p] = playerAt[p] /\ seen'[p] = seen[p]
          /\ count'[p] = count[p] /\ turnsDone'[p] = turnsDone[p]
        BY ZenonT(40), <1>0, <1>3, <2>2 DEF TypeOK, Go, PlayerStep, StartPlayer, LeaveWait,
           LookAtTimer, Think, Write, WriteCountToShm, Release, Exit, Crash
    <3>3. timer' = timer \/ StartPlayer(q)
        BY <1>3 DEF timerVars, PlayerStep, StartPlayer, LeaveWait, LookAtTimer, Think, Write,
           WriteCountToShm, Release, Exit, Crash, Timers!Cancel
    <3>4. (TimedOut(p) => TimedOut(p)') /\ (TimedOut(Main) => TimedOut(Main)')
        BY <1>0, <3>3, <2>2, Constants DEF TypeOK, TimedOut, StartPlayer, Timers!Start
    <3> QED
        BY <1>0, <3>1, <3>2, <3>4, PlayerFrame
  <2> QED
      BY <2>1, <2>2
<1>4. ASSUME NEW q \in Processes, TimerStep(q) PROVE PlayerPart(p)'
  <2>1. (TimedOut(p) => TimedOut(p)') /\ (TimedOut(Main) => TimedOut(Main)')
      BY <1>0, <1>4, Constants DEF TypeOK, TimedOut, TimerStep, Timers!Fire, Timers!Drop, Timers!Lose
  <2> QED
      BY <1>0, <1>4, <2>1, PlayerFrame DEF TimerStep, bufferVars, playerVars
<1>5. CASE UNCHANGED vars
    BY <1>0, <1>5, PlayerFrame DEF vars, bufferVars, playerVars, timerVars, TimedOut
<1> QED
    BY <1>1, <1>2, <1>3, <1>4, <1>5 DEF Next

\* Every reachable state satisfies the inductive invariant.
THEOREM Invariance == Spec => []IInv
<1>1. Init => IInv
    BY InitIInv
<1>2. IInv /\ [Next]_vars => IInv'
  <2>1. ASSUME IInv, [Next]_vars PROVE IInv'
      BY <2>1, TypePreserved, MainPreserved, OutcomePreserved, PlayersPreserved DEF IInv
  <2> QED
      BY <2>1
<1> QED
    BY <1>1, <1>2, PTL DEF Spec

-----------------------------------------------------------------------------
(* What follows from it.                                                   *)

\* The drivers' variables keep their types: cur_player_id, for one, stays the
\* index of a player although the main driver counts it up.
THEOREM TypeCorrect == Spec => []TypeOK
<1>1. IInv => TypeOK
    BY DEF IInv
<1> QED
    BY <1>1, Invariance, PTL

\* A flag that is down keeps the player out of its buffer.
LEMMA Apart == IInv => Exclusion
BY DEF IInv, PlayerPart, Exclusion, HandOver, Waited, MainInBuffers, RoundPlaces

\* The main driver and a player never access player_state at the same time.
THEOREM MutualExclusion == Spec => []Exclusion
BY Apart, Invariance, PTL

\* The turn counts are compared by the invariant.
LEMMA InStep == IInv => Lockstep
BY DEF IInv, PlayerPart, Lockstep, TurnCount

\* The drivers' turn counters never come apart.
THEOREM LockstepHolds == Spec => []Lockstep
BY InStep, Invariance, PTL

\* What was logged and decided before the round is executed is what the counter says.
LEMMA UpToDate == IInv => CountsAreOfThisTurn
<1>1. ASSUME IInv, mainAt = "execute", NEW p \in Players
      PROVE  /\ turnsDone[p] = turn + 1
             /\ logged[p] = count[p]
             /\ count[p] <= LimitGame
             /\ skip[p] <=> count[p] > LimitTurn
  <2>1. TypeOK /\ MainPart /\ PlayerPart(p)
      BY <1>1 DEF IInv
  <2>2. ~running[p] /\ Handed(p)
      BY <1>1, <2>1, Constants DEF PlayerPart, Waited, RoundPlaces, MainPart, Handed
  <2>3. turnsDone[p] = turn + 1
      BY <1>1, <2>1, <2>2 DEF PlayerPart, TurnCount, Ending
  <2>4. counter[p] = count[p]
      BY <2>1, <2>2 DEF PlayerPart, Counted
  <2> QED
      BY <1>1, <2>1, <2>3, <2>4 DEF PlayerPart, Settled, RoundPlaces
<1> QED
    BY <1>1 DEF CountsAreOfThisTurn

\* A round is executed on the counts of that very turn.
THEOREM CountsUpToDate == Spec => []CountsAreOfThisTurn
BY UpToDate, Invariance, PTL

\* The counter that is beyond the limit is the player's own count.
LEMMA Deserved == IInv => ExceededIsDeserved
BY DEF IInv, PlayerPart, Counted, ExceededIsDeserved

\* Nobody forfeits the match on an out-of-date counter.
THEOREM ForfeitsAreDeserved == Spec => []ExceededIsDeserved
BY Deserved, Invariance, PTL

-----------------------------------------------------------------------------
(* The drivers implement TurnGame.                                         *)

\* The results a client sees.
ShownResults == IF mainAt = "returned" THEN results ELSE [p \in Players |-> "PENDING"]

\* Executing a round plays it, on the moves made on the current state.
LEMMA ExecutePlays == IInv /\ Execute => Game!PlayRound
<1>0. SUFFICES ASSUME IInv, Execute PROVE Game!PlayRound
    OBVIOUS
<1>1. TypeOK /\ MainPart /\ \A p \in Players : PlayerPart(p)
    BY <1>0 DEF IInv
<1>2. /\ mainAt = "execute" /\ mainAt' = "update"
      /\ Len(applied) = turn /\ turn < MaxTurns
    BY <1>0, <1>1 DEF Execute, MainPart, RoundPlaces
<1> DEFINE round == [p \in Players |-> IF skip[p] THEN Skipped ELSE moves[p]]
<1>3. ASSUME NEW p \in Players PROVE moves[p] = Len(applied)
  <2>1. ~running[p] /\ Handed(p)
      BY <1>1, <1>2, <1>3, Constants DEF PlayerPart, Waited, RoundPlaces, MainPart, Handed
  <2> QED
      BY <1>1, <1>2, <1>3, <2>1 DEF PlayerPart, TurnCount, Ending, Fresh
<1>4. round \in [Players -> {Len(applied), Game!Skipped}]
    BY <1>3 DEF Skipped, Game!Skipped
<1>5. applied' = Append(applied, round)
    BY <1>0 DEF Execute
<1> QED
    BY <1>2, <1>4, <1>5 DEF Game!PlayRound, Game!Undecided

\* Returning the results concludes the game.
LEMMA ReturnConcludes == IInv /\ (Stop \/ Abort) => Game!Complete \/ Game!StopGame
<1>0. SUFFICES ASSUME IInv, Stop \/ Abort PROVE Game!Complete \/ Game!StopGame
    OBVIOUS
<1>1. /\ mainAt \in {"stop", "abort"} /\ mainAt' = "returned"
      /\ UNCHANGED <<results, applied>>
    BY <1>0 DEF Stop, Abort
<1>2. Outcome
    BY <1>0 DEF IInv
<1>3. CASE Len(applied) = MaxTurns /\ results = [p \in Players |-> "NORMAL"]
    BY <1>1, <1>3 DEF Game!Complete, Game!Undecided
<1>4. CASE results \in [Players -> {"UNDEFINED", "EXCEEDED_INSTRUCTION_LIMIT"}]
    BY <1>1, <1>4 DEF Game!StopGame, Game!Undecided
<1> QED
    BY <1>1, <1>2, <1>3, <1>4 DEF Outcome

\* Every step of the drivers is a step of the game, or changes nothing in it.
LEMMA StepImplements == IInv /\ [Next]_vars => [Game!Next]_(Game!gameVars)
<1>0. SUFFICES ASSUME IInv, [Next]_vars PROVE [Game!Next]_(Game!gameVars)
    OBVIOUS
<1>1. CASE Execute
    BY <1>0, <1>1, ExecutePlays DEF Game!Next
<1>2. CASE Stop \/ Abort
    BY <1>0, <1>2, ReturnConcludes DEF Game!Next
<1>3. ASSUME applied' = applied,
             \/ mainAt # "returned" /\ mainAt' # "returned"
             \/ mainAt' = mainAt /\ results' = results
      PROVE  UNCHANGED Game!gameVars
    BY <1>3 DEF Game!gameVars
<1>4. CASE StartMain \/ RunPlayer \/ LeaveSpin \/ LookAtCancel \/ CheckGameLimit
           \/ CheckTurnLimit \/ LogCount \/ Decide \/ UpdateMain \/ Publish \/ SetScores
    BY <1>3, <1>4 DEF StartMain, RunPlayer, LeaveSpin, LookAtCancel, CheckGameLimit,
       CheckTurnLimit, LogCount, Decide, UpdateMain, Publish, SetScores, Turns
<1>5. CASE CallCancel \/ ReturnFromCancel
    BY <1>3, <1>5 DEF CallCancel, ReturnFromCancel, mainVars
<1>6. ASSUME NEW p \in Players, PlayerStep(p) \/ Crash(p) PROVE UNCHANGED Game!gameVars
    BY <1>3, <1>6 DEF PlayerStep, StartPlayer, LeaveWait, LookAtTimer, Think, Write,
       WriteCountToShm, Release, Exit, Crash, mainVars
<1>7. ASSUME NEW p \in Processes, TimerStep(p) PROVE UNCHANGED Game!gameVars
    BY <1>3, <1>7 DEF TimerStep, mainVars
<1>8. CASE UNCHANGED vars
    BY <1>3, <1>8 DEF vars, mainVars
<1> QED
    BY <1>0, <1>1, <1>2, <1>4, <1>5, <1>6, <1>7, <1>8 DEF Next, MainStep

\* The safety part of ImplementsGame: whatever the processes and timers do, only
\* moves made on the current state are executed, and results are for all or none.
THEOREM PlaysTheGame == Spec => Game!Init /\ [][Game!Next]_(Game!gameVars)
<1>1. Init => Game!Init
    BY DEF Init, Game!Init, Game!Undecided
<1>2. IInv /\ [Next]_vars => [Game!Next]_(Game!gameVars)
    BY StepImplements
<1> QED
    BY <1>1, <1>2, Invariance, PTL DEF Spec
=============================================================================
