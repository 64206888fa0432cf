------------------------------ MODULE Drivers ------------------------------
(***************************************************************************)
(* The game drivers: MainDriver (drivers/src/main_driver.cpp) in the       *)
(* simulator's process and one PlayerDriver (player_driver.cpp) in each    *)
(* player's process, which run in turns by handing is_player_running back  *)
(* and forth through a SharedBuffer per player.  Each has a game timer, an *)
(* instance of TimerContract, and the main driver can be cancelled by      *)
(* another thread of its process.                                          *)
(*                                                                         *)
(* The state of the game is abstracted to the number of rounds played; a   *)
(* player's moves to the number of the state they were made on.            *)
(***************************************************************************)
EXTENDS Integers, Sequences

CONSTANTS
    NumPlayers,     \* player_count
    MaxTurns,       \* max_no_turns, the same in all drivers
    LimitTurn,      \* player_instruction_limit_turn
    LimitGame,      \* player_instruction_limit_game
    Counts          \* Counts[p]: the instructions p's code may execute in a turn

Players == 0 .. NumPlayers - 1

ASSUME DriversAssumption ==
    /\ NumPlayers \in Nat \ {0}
    /\ MaxTurns \in Nat
    /\ LimitTurn \in Nat
    /\ LimitGame \in Nat
    /\ LimitTurn <= LimitGame
    /\ Counts \in [Players -> SUBSET Nat]

\* Each process has a timer; the main driver's comes after those of the players.
Main == NumPlayers
Processes == Players \cup {Main}

VARIABLES
    \* MainDriver
    mainAt,         \* where the main driver is
    turn,           \* i: the turn being played, from 0
    cur,            \* cur_player_id
    skip,           \* skip_player_turn
    exceeded,       \* instruction_count_exceeded
    results,        \* the statuses in player_results
    cancel,         \* MainDriver::cancel
    world,          \* rounds played by the main state
    applied,        \* history: applied[k][p], the moves executed for p in the k-th round
    logged,         \* logged[p]: the instruction count last logged for p
    caller,         \* the thread that may call MainDriver::Cancel
    \* SharedBuffer of each player
    running,        \* is_player_running
    counter,        \* instruction_counter
    view,           \* player_state: the number of the state it shows
    moves,          \* player_state: the commands in it
    \* PlayerDriver of each player
    playerAt,       \* where the player driver is
    seen,           \* the state its code's Update was called with
    count,          \* instruction_count
    turnsDone,      \* i: turns it has completed
    \* game timers
    timer,          \* TimerContract's status
    timerAsked      \* TimerContract's asked

mainVars   == <<mainAt, turn, cur, skip, exceeded, results, world, applied, logged>>
bufferVars == <<running, counter, view, moves>>
playerVars == <<playerAt, seen, count, turnsDone>>
timerVars  == <<timer, timerAsked>>
vars == <<mainVars, cancel, caller, bufferVars, playerVars, timerVars>>

Timers == INSTANCE TimerContract WITH
    Runs <- Processes, status <- timer, asked <- timerAsked

\* is_game_timed_out is false from Start on until the timer's callback sets it.
TimedOut(p) == timer[p] = "fired"

\* Contents of a player's command fields that are no player's moves.
NoMoves == -1       \* as UpdatePlayerStates leaves them
Torn    == -2       \* partly written
Skipped == -3       \* in "applied": the player's turn was skipped

MainPlaces == {"start", "run", "spin", "look", "checkGame", "checkTurn", "log", "decide",
               "execute", "update", "publish", "scores", "stop", "abort", "returned"}
PlayerPlaces == {"boot", "wait", "look", "think", "write", "count", "release", "exit",
                 "done", "crashed"}

Init ==
    /\ mainAt = "start"
    /\ turn = 0
    /\ cur = 0
    /\ skip = [p \in Players |-> FALSE]
    /\ exceeded = FALSE
    /\ results = [p \in Players |-> "UNDEFINED"]
    /\ cancel = FALSE
    /\ world = 0
    /\ applied = <<>>
    /\ logged = [p \in Players |-> 0]
    /\ caller = "idle"
    /\ running = [p \in Players |-> FALSE]
    /\ counter = [p \in Players |-> 0]
    /\ view = [p \in Players |-> 0]
    /\ moves = [p \in Players |-> NoMoves]
    /\ playerAt = [p \in Players |-> "boot"]
    /\ seen = [p \in Players |-> 0]
    /\ count = [p \in Players |-> 0]
    /\ turnsDone = [p \in Players |-> 0]
    /\ Timers!Init

-----------------------------------------------------------------------------
(* The main driver.                                                        *)

\* The loop over turns: the next turn, or the end of the game.
Turns(t) == IF t < MaxTurns THEN "run" ELSE "scores"

\* UpdatePlayerStates: every player's copy is rewritten from the main state,
\* with no commands in it.
PublishState ==
    /\ view' = [p \in Players |-> world]
    /\ moves' = [p \in Players |-> NoMoves]

\* Start.
StartMain ==
    /\ mainAt = "start"
    /\ running' = [p \in Players |-> FALSE]
    /\ counter' = [p \in Players |-> 0]
    /\ PublishState
    /\ Timers!Start(Main)
    /\ mainAt' = Turns(0)
    /\ UNCHANGED <<turn, cur, skip, exceeded, results, cancel, world, applied, logged, caller,
                   playerVars>>

\* Hand the turn to player cur.
RunPlayer ==
    /\ mainAt = "run"
    /\ running' = [running EXCEPT ![cur] = TRUE]
    /\ mainAt' = "spin"
    /\ UNCHANGED <<turn, cur, skip, exceeded, results, cancel, world, applied, logged, caller,
                   counter, view, moves, playerVars, timerVars>>

\* Mutant: the main driver waits for the player however long it takes.
StopsSpinningLate == ~running[cur] \/ cancel

\* Wait for the player, the timer or a cancellation.
StopsSpinning == ~running[cur] \/ TimedOut(Main) \/ cancel

LeaveSpin ==
    /\ mainAt = "spin"
    /\ StopsSpinning
    /\ mainAt' = "look"
    /\ UNCHANGED <<turn, cur, skip, exceeded, results, cancel, world, applied, logged, caller,
                   bufferVars, playerVars, timerVars>>

LookAtCancel ==
    /\ mainAt = "look"
    /\ mainAt' = IF cancel THEN "abort" ELSE "checkGame"
    /\ UNCHANGED <<turn, cur, skip, exceeded, results, cancel, world, applied, logged, caller,
                   bufferVars, playerVars, timerVars>>

\* The instruction counter is read anew by each of the next three steps: after
\* a time-out the player may be writing it.
CheckGameLimit ==
    /\ mainAt = "checkGame"
    /\ \/ /\ counter[cur] > LimitGame
          /\ results' = [results EXCEPT ![cur] = "EXCEEDED_INSTRUCTION_LIMIT"]
          /\ exceeded' = TRUE
          /\ mainAt' = "log"
       \/ /\ counter[cur] <= LimitGame
          /\ mainAt' = "checkTurn"
          /\ UNCHANGED <<results, exceeded>>
    /\ UNCHANGED <<turn, cur, skip, cancel, world, applied, logged, caller,
                   bufferVars, playerVars, timerVars>>

\* Mutant: once skipped, always skipped.
CheckTurnLimitSticky ==
    /\ mainAt = "checkTurn"
    /\ skip' = [skip EXCEPT ![cur] = @ \/ counter[cur] > LimitTurn]
    /\ mainAt' = "log"
    /\ UNCHANGED <<turn, cur, exceeded, results, cancel, world, applied, logged, caller,
                   bufferVars, playerVars, timerVars>>

CheckTurnLimit ==
    /\ mainAt = "checkTurn"
    /\ skip' = [skip EXCEPT ![cur] = counter[cur] > LimitTurn]
    /\ mainAt' = "log"
    /\ UNCHANGED <<turn, cur, exceeded, results, cancel, world, applied, logged, caller,
                   bufferVars, playerVars, timerVars>>

LogCount ==
    /\ mainAt = "log"
    /\ logged' = [logged EXCEPT ![cur] = counter[cur]]
    /\ IF cur + 1 < NumPlayers
       THEN cur' = cur + 1 /\ mainAt' = "run"
       ELSE mainAt' = "decide" /\ UNCHANGED cur
    /\ UNCHANGED <<turn, skip, exceeded, results, cancel, world, applied, caller,
                   bufferVars, playerVars, timerVars>>

\* Mutant: a time-out does not keep the round from being played.
DecideDespiteTimeout ==
    /\ mainAt = "decide"
    /\ mainAt' = IF exceeded THEN "stop" ELSE "execute"
    /\ UNCHANGED <<turn, cur, skip, exceeded, results, cancel, world, applied, logged, caller,
                   bufferVars, playerVars, timerVars>>

\* Mutant: a game that ends early is scored.
DecideWithScores ==
    /\ mainAt = "decide"
    /\ mainAt' = IF exceeded \/ TimedOut(Main) THEN "scores" ELSE "execute"
    /\ UNCHANGED <<turn, cur, skip, exceeded, results, cancel, world, applied, logged, caller,
                   bufferVars, playerVars, timerVars>>

\* A forfeit or a time-out ends the game before the round is played.
Decide ==
    /\ mainAt = "decide"
    /\ mainAt' = IF exceeded \/ TimedOut(Main) THEN "stop" ELSE "execute"
    /\ UNCHANGED <<turn, cur, skip, exceeded, results, cancel, world, applied, logged, caller,
                   bufferVars, playerVars, timerVars>>

\* ExecutePlayerCommands.
Execute ==
    /\ mainAt = "execute"
    /\ applied' = Append(applied, [p \in Players |-> IF skip[p] THEN Skipped ELSE moves[p]])
    /\ mainAt' = "update"
    /\ UNCHANGED <<turn, cur, skip, exceeded, results, cancel, world, logged, caller,
                   bufferVars, playerVars, timerVars>>

\* UpdateMainState.
UpdateMain ==
    /\ mainAt = "update"
    /\ world' = world + 1
    /\ mainAt' = "publish"
    /\ UNCHANGED <<turn, cur, skip, exceeded, results, cancel, applied, logged, caller,
                   bufferVars, playerVars, timerVars>>

\* UpdatePlayerStates, and on to the next turn.
Publish ==
    /\ mainAt = "publish"
    /\ PublishState
    /\ turn' = turn + 1
    /\ cur' = 0
    /\ mainAt' = Turns(turn + 1)
    /\ UNCHANGED <<skip, exceeded, results, cancel, world, applied, logged, caller,
                   running, counter, playerVars, timerVars>>

SetScores ==
    /\ mainAt = "scores"
    /\ results' = [p \in Players |-> "NORMAL"]
    /\ mainAt' = "stop"
    /\ UNCHANGED <<turn, cur, skip, exceeded, cancel, world, applied, logged, caller,
                   bufferVars, playerVars, timerVars>>

\* The log is written, the timer cancelled and the results returned.
Stop ==
    /\ mainAt = "stop"
    /\ Timers!Cancel({Main})
    /\ mainAt' = "returned"
    /\ UNCHANGED <<turn, cur, skip, exceeded, results, cancel, world, applied, logged, caller,
                   bufferVars, playerVars>>

\* Mutant: the cancellation is not acknowledged.
AbortSilently ==
    /\ mainAt = "abort"
    /\ Timers!Cancel({Main})
    /\ mainAt' = "returned"
    /\ UNCHANGED <<turn, cur, skip, exceeded, results, cancel, world, applied, logged, caller,
                   bufferVars, playerVars>>

\* The same, after a cancellation, which the main driver acknowledges.
Abort ==
    /\ mainAt = "abort"
    /\ Timers!Cancel({Main})
    /\ cancel' = FALSE
    /\ mainAt' = "returned"
    /\ UNCHANGED <<turn, cur, skip, exceeded, results, world, applied, logged, caller,
                   bufferVars, playerVars>>

MainStep ==
    \/ StartMain \/ RunPlayer \/ LeaveSpin \/ LookAtCancel
    \/ CheckGameLimit \/ CheckTurnLimit \/ LogCount \/ Decide
    \/ Execute \/ UpdateMain \/ Publish \/ SetScores \/ Stop \/ Abort

-----------------------------------------------------------------------------
(* MainDriver::Cancel, called once, from another thread.                   *)

CallCancel ==
    /\ caller = "idle"
    /\ cancel' = TRUE
    /\ caller' = "waiting"
    /\ UNCHANGED <<mainVars, bufferVars, playerVars, timerVars>>

ReturnFromCancel ==
    /\ caller = "waiting"
    /\ ~cancel
    /\ caller' = "returned"
    /\ UNCHANGED <<mainVars, cancel, bufferVars, playerVars, timerVars>>

-----------------------------------------------------------------------------
(* The player driver of player p.                                          *)

Go(p, place) == playerAt' = [playerAt EXCEPT ![p] = place]

StartPlayer(p) ==
    /\ playerAt[p] = "boot"
    /\ Timers!Start(p)
    /\ Go(p, IF MaxTurns > 0 THEN "wait" ELSE "exit")
    /\ UNCHANGED <<mainVars, cancel, caller, bufferVars, seen, count, turnsDone>>

\* Mutant: only the turn is waited for.
LeaveWaitForTurn(p) ==
    /\ playerAt[p] = "wait"
    /\ running[p]
    /\ Go(p, "look")
    /\ UNCHANGED <<mainVars, cancel, caller, bufferVars, seen, count, turnsDone, timerVars>>

\* Wait for the turn or the timer.
LeaveWait(p) ==
    /\ playerAt[p] = "wait"
    /\ running[p] \/ TimedOut(p)
    /\ Go(p, "look")
    /\ UNCHANGED <<mainVars, cancel, caller, bufferVars, seen, count, turnsDone, timerVars>>

\* Mutant: the player's code is called whatever ended the wait.
LookAtNothing(p) ==
    /\ playerAt[p] = "look"
    /\ Go(p, "think")
    /\ count' = [count EXCEPT ![p] = 0]
    /\ seen' = [seen EXCEPT ![p] = view[p]]
    /\ UNCHANGED <<mainVars, cancel, caller, bufferVars, turnsDone, timerVars>>

\* Stop if the time is up; otherwise call the player's code with a copy of the
\* shared state.
LookAtTimer(p) ==
    /\ playerAt[p] = "look"
    /\ IF TimedOut(p)
       THEN Go(p, "exit") /\ UNCHANGED <<seen, count>>
       ELSE /\ Go(p, "think")
            /\ count' = [count EXCEPT ![p] = 0]
            /\ seen' = [seen EXCEPT ![p] = view[p]]
    /\ UNCHANGED <<mainVars, cancel, caller, bufferVars, turnsDone, timerVars>>

\* The player's code returns and its result begins to be assigned to the shared state.
Think(p) ==
    /\ playerAt[p] = "think"
    /\ \E n \in Counts[p] : count' = [count EXCEPT ![p] = n]
    /\ moves' = [moves EXCEPT ![p] = Torn]
    /\ Go(p, "write")
    /\ UNCHANGED <<mainVars, cancel, caller, running, counter, view, seen, turnsDone, timerVars>>

\* The assignment, which brings the state the player saw along, is complete.
Write(p) ==
    /\ playerAt[p] = "write"
    /\ moves' = [moves EXCEPT ![p] = seen[p]]
    /\ view' = [view EXCEPT ![p] = seen[p]]
    /\ Go(p, "count")
    /\ UNCHANGED <<mainVars, cancel, caller, running, counter, seen, count, turnsDone, timerVars>>

\* Mutant: the counter adds up over the game.
WriteTotalToShm(p) ==
    /\ playerAt[p] = "count"
    /\ counter' = [counter EXCEPT ![p] = @ + count[p]]
    /\ Go(p, "release")
    /\ UNCHANGED <<mainVars, cancel, caller, running, view, moves, seen, count, turnsDone, timerVars>>

WriteCountToShm(p) ==
    /\ playerAt[p] = "count"
    /\ counter' = [counter EXCEPT ![p] = count[p]]
    /\ Go(p, "release")
    /\ UNCHANGED <<mainVars, cancel, caller, running, view, moves, seen, count, turnsDone, timerVars>>

\* Mutant: the turn is counted but not handed back.
ReleaseNothing(p) ==
    /\ playerAt[p] = "release"
    /\ turnsDone' = [turnsDone EXCEPT ![p] = @ + 1]
    /\ Go(p, IF turnsDone[p] + 1 < MaxTurns THEN "wait" ELSE "exit")
    /\ UNCHANGED <<mainVars, cancel, caller, bufferVars, seen, count, timerVars>>

\* Hand the turn back, and wait for the next one if there is one.
Release(p) ==
    /\ playerAt[p] = "release"
    /\ running' = [running EXCEPT ![p] = FALSE]
    /\ turnsDone' = [turnsDone EXCEPT ![p] = @ + 1]
    /\ Go(p, IF turnsDone[p] + 1 < MaxTurns THEN "wait" ELSE "exit")
    /\ UNCHANGED <<mainVars, cancel, caller, counter, view, moves, seen, count, timerVars>>

\* The debug logs are written, the timer cancelled.
Exit(p) ==
    /\ playerAt[p] = "exit"
    /\ Timers!Cancel({p})
    /\ Go(p, "done")
    /\ UNCHANGED <<mainVars, cancel, caller, bufferVars, seen, count, turnsDone>>

\* The process dies: its code crashed, or it was terminated.
Crash(p) ==
    /\ playerAt[p] \notin {"done", "crashed"}
    /\ Go(p, "crashed")
    /\ UNCHANGED <<mainVars, cancel, caller, bufferVars, seen, count, turnsDone, timerVars>>

PlayerStep(p) ==
    \/ StartPlayer(p) \/ LeaveWait(p) \/ LookAtTimer(p) \/ Think(p) \/ Write(p)
    \/ WriteCountToShm(p) \/ Release(p) \/ Exit(p)

-----------------------------------------------------------------------------

\* A game timer fires, is dropped once cancelled, or loses its callback: the
\* callback is a parameter of Start, of which the timer's thread has only a
\* reference until it copies it, and Start may have returned by then.
TimerStep(p) ==
    /\ p \in Players => playerAt[p] # "crashed"
    /\ Timers!Fire(p) \/ Timers!Drop(p) \/ Timers!Lose(p)
    /\ UNCHANGED <<mainVars, cancel, caller, bufferVars, playerVars>>

Next ==
    \/ MainStep
    \/ CallCancel \/ ReturnFromCancel
    \/ \E p \in Players : PlayerStep(p) \/ Crash(p)
    \/ \E p \in Processes : TimerStep(p)

\* The main driver and its timer are scheduled, and so are the player drivers
\* and theirs; but nothing makes a player's code return, and a timer that is
\* scheduled may still lose its callback.
Fairness ==
    /\ WF_vars(MainStep)
    /\ WF_vars(ReturnFromCancel)
    /\ \A p \in Processes : WF_vars(TimerStep(p))
    /\ \A p \in Players : WF_vars(PlayerStep(p) /\ playerAt[p] # "think")

Spec == Init /\ [][Next]_vars /\ Fairness

-----------------------------------------------------------------------------
(* Properties.                                                             *)

\* Types; the turn counts stay within the number of turns.
TypeOK ==
    /\ mainAt \in MainPlaces
    /\ turn \in 0..MaxTurns
    /\ cur \in Players
    /\ skip \in [Players -> BOOLEAN]
    /\ exceeded \in BOOLEAN
    /\ results \in [Players -> {"UNDEFINED", "NORMAL", "EXCEEDED_INSTRUCTION_LIMIT"}]
    /\ cancel \in BOOLEAN
    /\ world \in 0..MaxTurns
    /\ applied \in Seq([Players -> Int])
    /\ logged \in [Players -> Nat]
    /\ caller \in {"idle", "waiting", "returned"}
    /\ running \in [Players -> BOOLEAN]
    /\ counter \in [Players -> Nat]
    /\ view \in [Players -> Nat]
    /\ moves \in [Players -> Int]
    /\ playerAt \in [Players -> PlayerPlaces]
    /\ seen \in [Players -> Nat]
    /\ count \in [Players -> Nat]
    /\ turnsDone \in [Players -> 0..MaxTurns]
    /\ timer \in [Processes -> Timers!Statuses]
    /\ timerAsked \subseteq Processes

\* Where the main driver accesses the shared player states, and where a player
\* driver does.
MainInBuffers == {"execute", "update", "publish"}
PlayerInBuffer == {"think", "write", "count", "release"}

\* player_state is not atomic: while the main driver is at the players' states
\* no player is, however turns end, time-outs strike and players die.
Exclusion ==
    mainAt \in MainInBuffers => \A p \in Players : playerAt[p] \notin PlayerInBuffer

\* Main and player drivers count turns separately, and neither gets ahead.
Lockstep == \A p \in Players : turnsDone[p] \in {turn, turn + 1}

\* When a round is executed each player has finished this very turn, what was
\* logged is what its code used, and it is skipped iff that is beyond the limit.
CountsAreOfThisTurn ==
    mainAt = "execute" =>
        \A p \in Players :
            /\ turnsDone[p] = turn + 1
            /\ logged[p] = count[p]
            /\ count[p] <= LimitGame
            /\ skip[p] <=> count[p] > LimitTurn

\* The forfeit of the match is never pronounced on an out-of-date counter.
ExceededIsDeserved ==
    \A p \in Players :
        results[p] = "EXCEEDED_INSTRUCTION_LIMIT" => count[p] > LimitGame

\* The results the driver returns, once it has returned.
Game == INSTANCE TurnGame WITH
    rounds <- applied,
    results <- IF mainAt = "returned" THEN results ELSE [p \in Players |-> "PENDING"]

\* The drivers implement the game: only moves made on the current state are
\* executed, and results are all-or-nothing; and unless the main driver's own
\* timer loses its callback, the main driver returns even when a player hangs
\* or dies.  If the timer does, nothing ends the wait for such a player.
ImplementsGame ==
    /\ Game!Init
    /\ [][Game!Next]_(Game!gameVars)
    /\ [](timer[Main] # "lost") => Game!Progress

\* A player process never outlives the game, unless its code does not return or
\* its timer loses its callback: it is its own timer that ends its last wait.
PlayersLeave ==
    <>[](\A p \in Players : playerAt[p] \in {"done", "crashed", "think"} \/ timer[p] = "lost")
=============================================================================
