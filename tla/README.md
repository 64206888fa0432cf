# TLA+ models of the Code Character simulator (2018)

Code Character is a programming game: two players submit C++ code, the simulator runs it in
turns against a common state of soldiers, towers, territory and money, and prints who has won.
This directory holds TLA+ models of the simulator, TLC configurations that check them on small
instances, and proofs, checked by TLAPS, of all their safety properties for every value of the
constants.

Paths below are relative to the repository's `src/`.

## 1. Inventory

| Component | State it keeps | Operations | Talks to |
|---|---|---|---|
| `MainDriver` (`drivers/src/main_driver.cpp`) | turn and player, `skip_player_turn`, results, `cancel`, a game timer | `Start`/`Run`, `Cancel` (another thread) | players through a `SharedBuffer` each; `StateSyncer` by calls; `Timer` by callback |
| `PlayerDriver` (`player_driver.cpp`) | its own turn count, `instruction_count`, a game timer | `Start`/`Run`, `WriteCountToShm` | its `SharedBuffer`; the player's code by calls |
| `SharedBuffer` (`drivers/shared_memory_utils`) | `is_player_running`, `instruction_counter` (atomic), `player_state` (not) | plain reads and writes from two processes | – |
| `Timer` (`timer.cpp`) | `is_running`, `cancel`, `cur_duration`, shared by all its runs | `Start`, `Cancel`; a detached thread per run | the callback of its owner |
| Simulator process (`main/main.cpp`) | `any_player_failed`, `players_failed` | one monitor thread per player process; `main()` joins, cancels, prints | player processes (exit codes, termination), `MainDriver::Cancel` |
| `StateSyncer` (`state/src/state_syncer`) | none of its own | `ExecutePlayerCommands`, `UpdateMainState`, `UpdatePlayerStates`, `GetScores` | `State`, `Map`, the players' copies of the state |
| `State` (`state.cpp`) | the soldiers, the managers | `MoveSoldier`, `AttackSoldier`, `AttackTower`, `BuildTower`, `UpgradeTower`, `SuicideTower`, `Update` | soldiers, `TowerManager`, `MoneyManager` |
| `TowerManager`, `Tower` | towers, three queues, towers to delete, territory counts | the queueing calls; `Update` with its four handlers | `MoneyManager`, `Map` |
| `MoneyManager` | a balance per player | `Increase`, `Decrease`, `RewardKill`, `RewardSuicide` | – |
| `Soldier` and `soldier_states/` | position, health, damage of the turn, target, destination, current state, counters | `Move`, `Attack`, `Update`, `LateUpdate`; `Enter`/`Update`/`Exit` of five states | other soldiers and towers by raw pointers, `MoneyManager` |
| `Map` | terrain and ownership flags of each element | the setter of one flag, look-up by offset or position | – |
| `PathPlanner`, `SimplePathPlanner` | a graph / nothing | `GetNextPosition` | `Map` |
| `Logger` | the game log, the towers it logged last, counts and errors of the turn, error codes | `LogInstructionCount`, `LogError`, `LogState`, `LogFinalGameParams`, `WriteGame` | `State`, read only |
| the rest | – | shared memory segments, `physics::Vector`, the instruction-counting LLVM pass, player wrapper, containers | – |

What is hard here:

* **Processes that trust each other's flags.** Main and player drivers have no lock: one atomic
  Boolean per player, plus three timers that fire on their own, decide who may touch
  `player_state`. Players hang, crash or are killed at any point.
* **Threads inside the simulator**: detached timer threads outlive the runs that started them,
  monitors share two variables, and `Cancel` is a handshake by spinning.
* **Checked now, done later.** The commands of a turn are checked against the state before it
  and queued; the queues are emptied after the other player's commands have been queued too.
* **One after the other, meant to be simultaneous.** Soldiers are updated in a fixed order, with
  damage and positions held back for a second pass so that the order should not matter.
* **Raw pointers** to soldiers and towers that die, return and are deleted.
* **Pictures and records of the state**: each player sees the map from its own corner, and the log
  keeps only what has changed; both must still say what the state is.
* **Rounding**: soldiers are led around water by steps that are rounded up.

`PROJECT.json` lists the hazards one by one, at the line where each bites, with the properties
that look after it.

## 2. Modules

| Module | Models | Lines of code it stands for |
|---|---|---|
| `TimerContract` | what a timer promises to the code that uses it: one outcome per run | `timer.h` |
| `Timer` | `Timer` thread by thread, up to three runs | `timer.cpp` |
| `TurnGame` | the abstract game: rounds played entirely or not at all, one result | `main_driver.h`, as the drivers realise it |
| `Drivers` | `MainDriver::Run`, `PlayerDriver::Run`, the shared buffers; timers as `TimerContract` | `main_driver.cpp`, `player_driver.cpp`, `shared_buffer` |
| `DriversInv`, `MCDrivers` | the inductive invariant of `Drivers` | – |
| `DriversProofs` | its proof and the theorems | – |
| `TimerProofs` | the inductive invariant of `Timer`, its proof and the theorems | – |
| `Simulator`, `MCSimulator` | `Drivers` with the monitors and the rest of `main()` | `main.cpp` |
| `Towers` | tower commands, `TowerManager`, `MoneyManager`, ownership | `state_syncer.cpp`, `tower_manager.cpp`, `tower.cpp`, `money_manager.cpp`, `map.cpp` |
| `PlayerView`, `MCTowers` | what the players are shown of map and towers | `state_syncer.cpp` (`UpdatePlayerStates`, `FlipMap`) |
| `Skirmish` | the abstract combat: all soldiers move and strike at once | `state.h`, `soldier.h` |
| `Soldiers`, `MCSoldiers` | soldier commands, the state machine, the two passes of `State::Update` | `soldier.cpp`, `soldier_states/`, `state.cpp`, `state_syncer.cpp` |
| `Game`, `MCGame` | towers and soldiers in one `State`, with targets of both kinds | `state.cpp`, `soldier.cpp`, `soldier_states/`, `state_syncer.cpp` |
| `GameLog` | the log and the calls that fill it | `logger.cpp`, `main_driver.cpp` |
| `SimulatorInv`, `TowersInv`, `SoldiersInv`, `GameInv`, `GameLogInv` | the inductive invariants | – |
| `SimulatorProofs`, `TowersProofs`, `SoldiersProofs`, `GameProofs`, `GameLogProofs` | their proofs and the theorems | – |
| `PathPlanner`, `MCPathPlanner` | breadth-first search and the march along its paths | `path_planner.cpp`, `move_state.cpp` |
| `PathPlannerProofs` | the inductive invariant of `PathPlanner`, its proof and the theorems | – |

```
 Timer  ==implements==>  TimerContract  --INSTANCE-->  Drivers  ==implements==>  TurnGame
                                                          ^
                                                          | EXTENDS
                                        Simulator --------+-------- DriversInv <-- DriversProofs
                                            ^                            ^              ^
                                            +------- SimulatorInv -------+              |
                                                          ^                             |
                                                          +------ SimulatorProofs ------+

 Soldiers  ==implements==>  Skirmish        Game  ==EXTENDS, implements==>  Towers
     ^                                       ^                                ^
     | EXTENDS                               | EXTENDS                        | EXTENDS
 SoldiersInv <-- SoldiersProofs           GameInv ---> TowersInv -------------+---- PlayerView
                                             ^             ^                            ^
                                        GameProofs --> TowersProofs --------------------+

 GameLog <-- GameLogInv <-- GameLogProofs        Timer <-- TimerProofs        PathPlanner <-- PathPlannerProofs
```

### How state and actions correspond to the code

**`Timer`.** One action per access to a shared variable: `Test`, `Sleep`, `Stop`, `Check` and
`Call` are lines 19, 20–21, 23, 24 and 25 of `timer.cpp`, for the thread of each run. The lambda
takes its callback through `std::ref(callback)`, a reference to `Start`'s parameter, when it
begins to run (`Copy`); `StartReturn` ends that parameter's life, so a `Copy` after it picks
among the outcomes a build can produce. `cancel`, `is_running` and `cur_duration` are shared by
the runs of one timer; the thread of a run is never joined. Durations are milliseconds and count
down as the code counts them: by 10 for each wake-up of 10.

**`Drivers`.** One action per access of the main driver to shared state, in the order of `Run`:
`RunPlayer`, `LeaveSpin`, `LookAtCancel`, `CheckGameLimit`, `CheckTurnLimit`, `LogCount` for each
player, then `Decide`, `Execute`, `UpdateMain`, `Publish`; and `SetScores`, `Stop`, `Abort` for
its exits. The instruction counter is read anew in three of them because the code reads the
atomic three times. A player's turn is `LeaveWait`, `LookAtTimer`, `Think`, `Write`,
`WriteCountToShm`, `Release`; the assignment to `player_state`, which is not atomic, has a state
in its middle in which it reads as `Torn`. The game's state is a number of rounds (`world`), a
player's copy of it the number of the state it shows (`view`), and a player's moves the number of
the state they were made on (`moves`): that is all that tells a fresh move from a stale or half
written one. `applied` is a history of what was executed.

**`Simulator`.** `Terminate`, `KeepWatching` and `Poll` are the two halves of a monitor's loop;
`CancelDriver`, `FinishCancel` and `PrintResults` are the end of `main()`. boost's `exit_code()`
is modelled as `main.cpp` uses it: 0 for a process that runs or has left, something else for one
that has died.

**`Towers`.** The phases of a turn are the two loops of `ExecutePlayerCommands` ("towerTasks",
"soldierTasks"), `TowerManager::Update` of each player ("update"), and the soldiers' updates
("soldiers") and late updates ("late"). `cursor` is the loop index a phase has reached, so that
commands are handled in the code's order and each tower or element at most once. `budget` is
`state_money`, `FitsPlan` is the test on `num_towers`, and the contents of `toSuicide` are
`razed_towers`. The handlers take one queue entry per step. A handler that would throw has no step,
and `NeverThrows` says that this does not happen. A soldier is reduced to its attack target, if
that is a tower, and to what it may do with it: take orders to attack another or none (`AttackTower`,
`GoElsewhere`), strike (`Strike`), drop a target that is dead (`DropTarget`), keep one that stands
(`PassOn`), or die (`LateUpdate`). The soldiers of a player are updated in their order, each with a
target of its own; the last two phases have `cursor` as the number of those that are done.

**`PlayerView`** adds operators to `Towers`: the picture of the map both players' are made from
(`PlayerMap`), turned in place for the second player (`FlipMap`, one `SwapElements` per step of the
loops), the towers' positions (`TowersSeen`) and `valid_territory` (`ValidSeen`). Its properties are
of the states in which `UpdatePlayerStates` is called, at the end of a turn.

**`Game`** replaces those liberties of `Towers` by `NumSoldiers` real soldiers for each player, with
the state machine of `soldier_states/`: `ChangeState` is a transition, `Pass`, `StrikeTower` and
`StrikeSoldier` the `Update` of a state that stays, `LateUpdateSoldier` the second pass. The attack
target of each is a tower (`target`, as in `Towers`) or a soldier of the enemy (`hunting`, its place in
the enemy's troop). Positions are left
out: `near` says whether the target is in range of the soldier that is being updated, and is chosen
anew when the loop comes to the next.

**`Soldiers`.** `who` is the soldier the loop has come to. A step of the loop inside
`Soldier::Update` is `ChangeState` (one transition: the old state's `Exit`, the new one's
`Enter`) or the final `Idle`, `StayDead`, `March` or `Strike` of a state that returns itself.
`LateUpdate` is `Soldier::LateUpdate`, including the entry into the dead state, whose first update
is made there. `rewards` and `before` are histories.

**`GameLog`.** A round is `LogInstructionCount` for each player, `Proceed` if it is played,
`LogError`s, `Update` and the frame: `LogFirstTowers`, or `BeginWalk` and one step for each turn of
the loops over the towers logged last and the towers there are (`MatchTower`, `LoseTower`,
`MeetTower`, `EndWalk`), and `LogRest`. `WriteGame` ends the file after the last round or in the
middle of one. What a turn may do to a player's towers is taken from `TowerManager`: any may fall or
be upgraded or damaged, and new ones, with greater ids, come to the end of the list. `Send` is a
reader of the log, who keeps the towers that the frames tell of.

**`PathPlanner`.** `Visit` takes one element off the queue of the breadth-first search from one
destination and puts the neighbours not yet visited in, in the order of the adjacency list
(`InOrder`). Then a soldier marches to that destination, a call of `GetNextPosition` each turn:
straight to the destination if it is on the next element, to the middle of the next element
otherwise, by a step of length `Speed` whose coordinates are rounded up and kept in the map. The
square roots are compared by their squares, so the rounding is exact; where the exact coordinate of
a step is a whole number, floating point may give a little more, and the model has both outcomes.

## 3. Runs

State counts are those of TLC with the configurations here.

| Run | Bounds | Distinct states | Shows |
|---|---|---|---|
| `timer` | 3 runs, 15 ms, wake-up 10 ms | 175 thousand | threads of successive runs do not count together; a run ends early only if cancelled; `Cancel` returns within a wake-up; `Timer` implements `TimerContract` |
| `timer_stale` | the same | violation | finding 1 |
| `drivers` | 2 players, 2 turns, counts 1 and 1, 2, 3 against limits 1 and 2 | 460 thousand | exclusion, lock step, judgement by this turn's count, and the inductive invariant; the drivers implement `TurnGame`, its liveness as long as the main driver's timer does not lose its callback; player processes leave unless their timers do |
| `simulator` | 2 players, 1 turn, counts 1 and 1, 3 | 490 thousand | who is blamed; a normal result needs a complete game; orderly runs end if no timer loses its callback; a timely cancellation ends the simulator |
| `simulator_cancel` | the same, count 1 | violation | finding 2 |
| `towers` | 3 by 3 map, 2 levels, 2 towers and 2 soldiers a player, ids below 4 | 1.12 million | the queues never make a manager throw; territory, towers and targets agree; the players' pictures of them are true |
| `towers_dead` | the same | violation | finding 3 |
| `soldiers` | 2 against 1 on a line of 3, two blows kill | 1.80 million | combat is simultaneous; deaths are paid once; no null target |
| `soldiers_immune` | the same | violation | finding 4 |
| `game` | 2 soldiers and 2 towers of one level a player, ids below 3, one blow kills; 2 and 1 soldiers get orders | 456 thousand | with real soldiers, `Game` implements `Towers`; no state acts on a target it has not got; turns end |
| `log` | 2 rounds, 2 messages, towers of 2 levels, ids below 5 | 2.34 million | a reader gets the towers back; frames and legend are of the right turns |
| `planner` | all 512 maps of 3 by 3, 45 journeys | 164 thousand | paths are shortest and over land; soldiers keep to land and arrive |

Why the bounds are enough to be interesting:

* *Timer*: three runs are needed because the thread of the first can meet the flag of the second
  and the count of the third; 15 ms is not a multiple of the wake-up, so the count passes below
  zero as it may in the code. The real durations only add more equal rounds of the loop.
* *Drivers*: two players make "the first has finished, the second has not"; two turns make a stale
  count or state of an earlier turn possible. The counts of the second player lie within the turn's limit, beyond it,
  and beyond the game's; the first player keeps within the limits, since what its counter may do to
  the round, the second's does too, and with the first already judged. More players and turns are the business of the theorems.
* *Simulator*: both players may die in one polling period, or one be terminated for the other's
  death. One turn has every place of the loop in it; what monitors do does not depend on the turn.
* *Towers*: the bases are at the ends of a row of three and their ranges overlap in its middle
  element and those around it, so both players claim elements in the same turn; the second level
  covers the whole map. With two units of money to start with, which is also the cap, and prices of
  one, two commands compete for one budget. A player has the base and one more tower at a time.
  `ActorIdBound` is the only bound that is not a constant of the program: two towers are built in
  all, by either player, which allows one to fall and another to be built in its place. Both
  soldiers of a player may strike the one tower there is in the same turn, of which one brings it down
  and is rewarded. Different towers to strike take three towers a player (`MaxNumTowers = 3`), which has
  been checked with `MCMaxHps == <<1, 1>>`: 2.45 million states, too many to be repeated each time. The map's
  size is odd, so that `FlipMap` has its middle row to do; `MAP_SIZE` is even.
* *Soldiers*: two attackers and one victim is the least that has "several blows on one victim";
  two blows kill, so that it makes a difference in which turn they fall. Dying takes two turns and
  immunity one, so that a soldier returns within a behaviour in which others still act.
* *Game*: what is at stake is what becomes of the target of each soldier when its tower falls, is
  rebuilt or commits suicide, or its soldier dies and returns; one blow and one tower besides the base
  have all of it. The two soldiers of the first player may attack the same tower or soldier, different
  soldiers, or one a tower and the other a soldier. `Led` is a bound: of the second player's soldiers one is given orders
  and the other only stands there to be attacked, dies and returns. The instance in which all four are
  led has 2.1 million states and too long a liveness check to be repeated each time; its invariants
  (`NeverBlind`, and `GInv` with `IInv` of the proofs) have been checked. So have `NeverBlind` and
  `ImplementsTowers` where the soldiers of the first player may strike different towers in one turn:
  three towers a player, ids below 4, and only the first player's soldiers led (492 thousand states). More soldiers, towers and
  levels are the business of the theorems.
* *GameLog*: three towers are built in all, up to three in one turn and up to three by one player,
  so that neighbours in the list can fall together while others rise; the second frame is the first
  with differences, the third the first whose differences are to those of the second. Two messages
  make two codes.
* *PathPlanner*: maps of 3 by 3 have detours around one element of water, dead ends and islands.
  As in the game a soldier's speed equals the width of an element (there 50, here 4); the journeys
  begin and end in corners of the map, in the middle of elements and on both sides of their edges.

Deadlock is not checked in the runs of timers, drivers and simulator, of the log and of the path
planner, where everything really stops at the end. It is checked in `towers`, `soldiers` and `game`,
whose loop never ends.

### Fairness

* `Timer`: the timer's threads are scheduled, and an owner that has called `Start` or `Cancel` goes
  on in it. An owner need not call anything.
* `Drivers`: the main driver, the player drivers and the timers are scheduled (they are threads and
  processes of their own that spin or sleep and never wait for a lock). That a timer is scheduled does
  not make it fire: it may as well lose its callback (`Lose`), and what would then have waited for it
  waits for ever. So liveness that needs a timer is stated under the condition that it is not lost. There is none for the
  player's own code: a player driver in `think` may stay there for ever. Crashes and calls of
  `Cancel` are never forced.
* `Simulator`: the same, with the monitor threads and `main()` scheduled.
* `Towers`, `Soldiers`, `Game`, `PathPlanner`: one thread, weakly fair as a whole. `GameLog` has none,
  as it has no liveness property.

## 4. Properties, and what they found

Abstract specifications:

* `TurnGame`: a game is a sequence of rounds, each executing for every player the moves it made on
  the state that round began with, or skipping it; it ends once, with normal results for all
  after the last turn or for none. `ImplementsGame` says that `Drivers` does this whatever
  players and timers do, and that it ends unless the main driver's timer loses its callback.
* `TimerContract`: a run fires, is dropped after a cancellation, or is lost with its callback;
  only runs of which cancellation was asked may be dropped. `Drivers` uses it in place of `Timer`,
  with one timer for each process; `Timer` is shown to implement it. A run that
  is not cancelled is never dropped, but it may be lost, and `Drivers` has that outcome (`TimerStep`).
  If the main driver's timer is lost, `is_game_timed_out` is never set, and on a player that hangs or
  has died the main driver spins at `main_driver.cpp:75` for ever; if a player's is, the player waits
  at `player_driver.cpp:53` for ever when the main driver has stopped without handing over to it, and
  its monitor and the simulator wait with it. No safety property suffers; the liveness properties
  that need a timer are `ImplementsGame` (the main driver's), `PlayersLeave` (each player's its own)
  and `OrderlyRunEnds` (all), and `TimelyCancelEnds` needs none.
* `Skirmish`: a turn decides everything from the army at its beginning. It allows a difference by
  order in one place: a soldier updated after the blow that kills its target sees it dead and
  stands still, one updated before it marches on. TLC showed that this difference exists; it
  decides no fight. The refinement needs `RespawnTurns` of at least 2 (it is 10): with 1, a soldier
  would return before everybody has dropped it as a target.

* `Towers` is itself the abstract specification of `Game`: whatever orders soldiers get and whatever
  happens to them, they do with towers only what `Towers` allows. This is what makes its
  `TargetsAreKept`, the safety of raw pointers to towers, a statement about the real soldiers: a
  soldier whose target has left the list drops it before the manager frees it two turns later.

Findings, each a run that TLC ends with the counterexample:

1. `timer_stale`: a timer cancelled long before its end may call its callback: the thread clears
   `is_running` before it looks at `cancel` a second time, and `Cancel` resets `cancel` in between.
   `timer.h:78` promises the opposite.
2. `simulator_cancel`: `MainDriver::Cancel` spins for ever if the main driver has already passed
   its last look at the flag. This takes only a player that dies after its last turn.
3. `towers_dead`: a tower brought down by soldiers, and paid for, is restored by an upgrade ordered
   for the next turn, as upgrades are handled before deaths.
4. `soldiers_immune`: blows on an immune soldier that would have killed it are rewarded as a kill.

What else the models show of the code:

* The timer thread may copy a callback that no longer exists, as it is given a reference to a
  parameter of `Start` (`Copy` after `StartReturn` in `Timer`); the run is then lost, with the
  consequences told above. It is a data race that depends on the build, which no doc of the
  repository speaks of.
* The failure of a player that dies together with another may not be reported (`SomeoneIsBlamed`
  says that one of them is), and a player whose code never returns keeps the simulator from ending,
  though not the main driver (`OrderlyRunEnds` has this as its hypothesis).
* `game.proto:62` says: "If the instruction limit causes a complete game abort, the last frame's
  instruction_limit_error will hold the offending frame's inst. count". **The code does the opposite**:
  a frame is written by `LogState` only, which `UpdatePlayerStates` calls (`state_syncer.cpp:205`)
  before the first round and after each that is played (`main_driver.cpp:44`, `128`). A round broken
  off by a forfeit, a time-out or a cancellation ends the game at `main_driver.cpp:112-117` or `80-86`,
  and its counts, the offending one with them, are in no frame of the file (`WriteGame` in place
  "decide" of `GameLog`). Nor is there a field `instruction_limit_error`. `FramesAreOfTheirTurn` is
  about the frames that are written and says nothing of such a round.
* On a map of odd size the element in the middle keeps its territories unswapped for the second
  player; `ViewIsTrue` leaves this element out, which the real map does not have.
* `PathPlanner` leads a soldier that cannot reach its destination towards the corner `(0, 0)`, or
  throws if that way ends on water; the properties are about those that can.

Every property has a mutant in `PROJECT.json`: a small change to a definition, of the kind a slip
in the code would make, under which the run finds the property violated.

## 5. Proofs

Every theorem is proved for every value of the constants that the named assumption of its module
allows; the runs show the same properties on small instances. The assumptions ask for little: types,
`LimitTurn <= LimitGame` (`DriversAssumption`), a positive wake-up (`TimerAssumption`), that the
ranges of towers do not shrink with the level (`TowersAssumption`; `TOWER_RANGES` is `{2, 3, 4}` in
`constants/tower.h`), `RespawnTurns` of at least 2 (it is 10), and, for `PathPlanner`, elements of a
size above 2 and a speed from 2 up to that size (both are 50: `MAP_ELEMENT_SIZE` in `constants/map.h:15`
and `SOLDIER_SPEED` in `constants/soldier.h:17`). The last is no convenience: on elements of 2, with a
speed of 2, a soldier in the lower left corner of its element that is led to the middle of the one
below has to go 1.41 to the right, which is rounded up to 2 and carries it out of its column. TLC
finds such a soldier on water.

| Module | Theorem | States, of the behaviours of `Spec` (`GameSpec`, `SimSpec`) |
|---|---|---|
| `DriversProofs` | `Invariance`, `TypeCorrect` | the inductive invariant, types |
| | `MutualExclusion`, `LockstepHolds`, `CountsUpToDate`, `ForfeitsAreDeserved` | `Exclusion`, `Lockstep`, `CountsAreOfThisTurn`, `ExceededIsDeserved` |
| | `PlaysTheGame` | `Drivers` implements the safety part of `TurnGame` |
| `SimulatorProofs` | `SimInvariance` | the invariants of drivers and monitors together |
| | `OnlyTheCrashedAreBlamed`, `CrashesAreBlamed`, `NormalGamesAreComplete` | `BlamedOnlyIfCrashed`, `SomeoneIsBlamed`, `NormalMeansComplete` |
| | `DriversAreSound`, `PlaysTheGameWatched` | what `DriversProofs` shows holds under the monitors too |
| `TimerProofs` | `Invariance`, `TypeCorrect` | the inductive invariant, types |
| | `NoTwoCount`, `EarlyStopsAreAsked`, `CancelIsPrompt` | `OneCountingThread`, `StopsEarlyOnlyIfCancelled`, `CancelBlocksOneWakeUp` |
| | `KeepsItsContract` | `Timer` implements the safety part of `TimerContract` |
| `TowersProofs` | `Invariance`, `TypeCorrect` | the inductive invariant, types |
| | `OrdersCanBeCarriedOut`, `TowersFitTheArray`, `OneTowerEach` | `NeverThrows`, `TowersFit`, `OneTowerPerElement` |
| | `TerritoryIsTrue`, `TargetsStayInMemory`, `BasesAlwaysStand` | `TerritoryMatchesTowers`, `TargetsAreKept`, `BasesStand` |
| | `ViewIsAlwaysTrue`, `ValidAlwaysMeansBuildable` | `ViewIsTrue`, `ValidMeansBuildable` of `PlayerView` |
| `SoldiersProofs` | `Invariance`, `TypeCorrect` | the inductive invariant, types |
| | `TargetsAreThere`, `OrdersExclude`, `DeathsArePaidOnce`, `DeadAreForgotten` | `NoNullTarget`, `OneOrder`, `DeathIsPaidOnce`, `TheDeadAreForgotten` |
| | `TurnInvariance` | the invariant of a turn |
| | `TurnsAreSkirmishes` | `ImplementsSkirmish`: every turn is one in which all act at once |
| `GameProofs` | `GameInvariance` | the invariants of towers and soldiers together |
| | `SoldiersAreAsAssumed` | `ImplementsTowers`: each step of `Game` is one of `Towers`, or stutters |
| | `NobodyFightsBlindly` | `NeverBlind` |
| | `TowersAreSoundInGames` | the safety properties of `Towers`, of games with any number of real soldiers |
| `GameLogProofs` | `LogInvariance` | the inductive invariant |
| | `ReadersSeeTheTowers`, `FramesAreTheirTurns`, `LegendIsComplete` | `ReplayGivesTowers`, `FramesAreOfTheirTurn`, `LegendExplainsErrors` |
| `PathPlannerProofs` | `PathPlannerInvariant` | the inductive invariant |
| | `SearchFindsShortestPaths`, `PathsKeepToLand` | `NextNodesAreShortest`, `KeepsToLand` |
| | `ReferenceIsComplete` | the reference of both, `Within`, needs no more steps than its bound |

Hardly one of these properties is inductive. What has to be added says why the code works.

**Drivers** (`IInv` of `DriversInv`):

* `MainPart` ties each place of the main driver to turn, player and rounds executed, and `Outcome`
  the results to the end of the game;
* `HandOver`: a player is in its buffer only while `is_player_running` is set;
* `Waited`: the main driver goes past a player only if the flag is down or the timer has fired, and
  as a timer that has fired stays so, `Decide` will then not let the round be played: this is what
  `Exclusion` rests on;
* `TurnCount`: the flag and the main driver's place determine how the two turn counts compare;
* `Counted` and `Settled`: the counter is the player's own count unless its turn is under way, so
  what was logged and decided is what is executed;
* `Fresh`: views and moves carry the number of the turn, from which each executed round uses moves
  of its own state.

The proof has one lemma for `TypeOK` and one for `Outcome` and `MainPart`, one for each action of
the main driver and its effect on one player (`StartMainPart` ... `AbortPart`), one for a player's
own steps (`OwnStep`) and one for steps that concern others (`PlayerFrame`). `PlaysTheGame` then
maps each step: `Execute` to `PlayRound`, `Stop` and `Abort` to `Complete` or `StopGame`, all others
to stuttering.

**Simulator** (`HostInv` of `SimulatorInv`). Every step is one of the drivers or leaves them alone
(`DriversStep`), so their invariant is had for nothing. The monitors look at a process and act on it
in two steps; what saves them is that a monitor which has found a failure is done and its process
dead (`FailedByItself`), that a process terminated on another's account is never polled again
(`TerminatedUnseen`), and that `any_player_failed` and `players_failed` are set together
(`FailureHasAName`).

**Timer** (`IInv` of `TimerProofs`). A thread counts if and only if it belongs to the latest run
and `is_running` is up (`OneCountingThread`), `cancel` is up exactly while the owner is in `Cancel`
(`CancelPart`), and a thread woken while the owner waits does not sleep again (`SleepPart`).

**Towers** (`IInv` of `TowersInv`).

* `Funded`: the budget with the cost of all that is queued is the money until the queues are
  emptied, and from then on the money is enough for the rest. Costs are sums over a queue; they are
  stated as the number of `Coins`, units of money set aside for single towers, since cardinalities
  can be reasoned about without recursion (`AddedPairs`, `SameCount`).
* `UpgradesStand`, `SuicidesStand`, `SitesStand`: what is queued is there, each order once, and an
  element queued to be built on is the player's alone (`owners` is that of the turn before), which
  is why both players may be checked against the same picture.
* `Territory`: a count is the number of towers whose range an element is in. An upgrade adds the new
  rim, burial takes off the range of the present level; that ranges do not shrink makes these agree.
* `Targeted`: a target is on the list or was buried in this turn, before the
  soldiers that have it are updated (`MayBeBuried`); in their update they drop it, and it is freed
  two turns later.

`Survivors`, the list without the dead, is written with cardinalities for the same reason;
`SurvivorsAreTheLiving` shows that it is what `SelectSeq` would give.

**Soldiers** (`SoldierPart` of `SoldiersInv`). `Guided` and `Settled` say which orders go with which
state, and that a soldier in the attack state that has no target has a destination, which its update
looks at first. `Paid`: there is a reward for a victim exactly when the damage held back has come up
to its health. `Forgets`: at the time of its first countdown a dead soldier is nobody's target.

That a turn is one of `Skirmish` rests on a second invariant, `TurnInv`, which relates the soldiers in
the middle of the loops to `before`, the army as the commands left it:

* `Struck`: the damage held back is that of the blows of all who have been updated and hunt the
  victim in range, up to its health. A soldier that finds its target without health left does not
  strike, but then the blows are enough already, so the sum is as if it did;
* `Fights`: whoever lives as the turn begins is, until its `LateUpdate`, as `before` has it, but for
  its orders, and what it has decided (`Plan`) is among what `Skirmish` allows (`Conducts`);
* `Rests` and `Returns`: the dead count down or come back in the middle of the update loop. That
  others look at the position and health of their targets in the same loop does no harm, since
  `Ordered` says that a dead target does not come back in this turn: here `Forgets` is used, and
  with it `RespawnTurns` of at least 2;
* those whose `LateUpdate` is over are an outcome of `Skirmish` already, and the last completes its
  `Turn` (`LateOutcome`, `TurnRefines`).

**Game** (`GInv` of `GameInv`). The proof that each of its steps is one of `Towers` needs of the
soldiers that the dead have no target (`DeadAreDown`), that one with another order has none
(`OrdersExclude`), and that one that stays idle or marches has dropped its own (`NoneForgotten`):
`SoldierPart` says it of each soldier, and a step changes one of them and perhaps the damage of its
victim (`OneChanges`, `OneTarget`). With it, `IInv` of `Towers` is had as the invariant
of `Game` as well.

**Log** (`LogInv` of `GameLogInv`). That a walk over two lists finds all changes rests on the order of
the ids (`IdsRise`), on ids being given once (`IdsAreTaken`), and on this: a tower that is not
logged is newer than all that are (`OldOrNew`). So both pointers are always at the same place and
all before it is in order (`WalkIsInStep`), the branch of the code for an entry with a greater id
than the tower's is never taken with different ids (`NoOlderTower`), and when the entries come to
their end all that remains is new. The reader has what is logged at every step, even inside the walk
(`ReaderHasTheLog`). Codes are the numbers below that of the messages, each given once
(`CodesDiffer`).

**What a fold or a recursive function returns.** `FlipMap` is a fold over the set of elements its loops
reach, and the reference of the path planner, `Within`, a recursive function of the number of steps.
The induction theorems of the library take an operator as a parameter, which the provers cannot
instantiate. Both modules go round that by the least counterexample: `LeastNatural`, a set of naturals
that is not empty has a least member, follows from the well-foundedness of inclusion among finite sets,
which the library states without such a parameter. That the chosen recursive functions exist at all is
shown in the same way (`FoldsExist`, `BallsExist`).

**PlayerView** (in `TowersProofs`). `FoldTurns`: after any of the steps, what the steps have reached is
exchanged with what is opposite and all else is as it was, in whatever order they are taken, provided
that no step reaches what another one's partner is (`Apart`). `FlipMapTurns` shows that the loops are
apart and reach one of each opposite pair, but for the element in the middle. From there `ViewIsTrue`
needs of `IInv` that towers stand on their owner's territory, and `ValidMeansBuildable` nothing but
types.

**PathPlanner** (`IInv` of `PathPlannerProofs`). `Distance` is the least number of steps over land from
the destination.

* `QueueInOrder`: the land elements in the queue are in the order of their distances, and no two
  differ by more than one. Water that waits among them, which the code's test of the wrong element
  lets in, has no distance and no neighbours; the order is that of the others;
* `FoundOverLand`, `Expanded`: what is visited on land is connected with the destination, and either
  waits or has had its neighbours visited. So the nearest element that is not found yet is behind one
  that waits (`NearestWaits`), hence a neighbour of the head is one step farther than the head, never
  nearer, and nothing is missing when the queue is empty;
* `LeadsNearer`: the next element of each is beside it, on land, and one step nearer.

`SearchEnds` then hands the march a tree of shortest paths, and what is left is geometry. A step's
coordinates exceed the exact ones by at most one if those are positive, and are not greater in size
if they are negative (`RoundedUpIsRounded`). Along the direction of the next element, a step as long
as an element at most does not get past it (`StepsAlong`); across that direction, the soldier stays
in its row, since a step that left it would be longer than the rounding allows, as the middle of the
next element is at least half an element away (`StaysInRow`, with `TooFarUp` and `TooFarDown`). If
the destination is on the next element or the soldier's own, a step is shorter than the way to go and
overshoots in neither coordinate (`NoOvershoot`), and the element it ends on is one of the two
(`BetweenTwo`).

TLC has checked every one of these invariants before it was proved, with the constants of the runs:
`IInv` in `drivers` and `towers`, where it is among the properties, and the others on their own
(490 thousand states for `HostInv` with `IInv`, 175 thousand for `Timer`, 1.80 million for
`IInv` and `TurnInv` of `Soldiers`, 456 thousand for `GInv` with `IInv`, and 2.1
million with all soldiers led, 2.34 million for `LogInv`,
164 thousand for `IInv` of `PathPlanner`, with `0 .. 12` for the naturals among which a distance is
looked for); add them to the configuration to repeat that.

Only model-checked is the liveness: `PlayersLeave`, `OrderlyRunEnds`, `TimelyCancelEnds`,
`CancelReturns`, `TurnsEnd`, `Arrives`, and that of the abstract specifications, whose safety parts are
proved to be implemented. Fairness and `ENABLED` are beyond the prover. `Arrives` needs a measure
besides: a soldier that keeps to land might still go back and forth.

## 6. Abstractions, and what is not modelled

* The main driver's `game_timer.Cancel()` is one step with its return; what `Cancel` does inside is
  in `Timer`. Player debug logs and log files are left out.
* Player code is the environment: it returns after any number of instructions in `Counts`, or never,
  or the process dies.
* Positions of soldiers are on a line and whole in `Soldiers`, left open in `Game`, and whole ones of
  the plane in `PathPlanner`. A player may order a soldier to a fractional position;
  `PathPlanner::GetNextPosition` rounds even the destination up, so a soldier would never arrive
  there. This is not modelled: `main` uses `SimplePathPlanner`, which does not round. Elsewhere the
  arithmetic of `physics::Vector` is left out.
* Refused commands leave no trace but the errors in `GameLog`, and so do commands not given.
* In `GameLog`, soldiers and money, written in full in every frame, and the constants of the game are
  left out.
* Not modelled at all: the creation and removal of shared memory segments, the compiler pass, the
  containers, and the protobuf encoding of the log: they have no behaviour of their own to check
  against this code.

## 7. Plan

Done: 1 `TimerContract`, `Timer`; 2 `TurnGame`, `Drivers`, with proofs; 3 `Simulator`; 4 `Towers`;
5 `Skirmish`, `Soldiers`; 6 `Game`, the composition of both; 7 `PlayerView`; 8 `GameLog`;
9 `PathPlanner`.

Proofs done: `Drivers`, then `Timer` with its contract, `Soldiers` with `Skirmish`, `Towers`, `Game` as an
implementation of `Towers`, `Simulator`, `GameLog`, `PathPlanner`, `PlayerView`: every invariant and action
property that a run checks.

Left open: fractional positions (section 6).
