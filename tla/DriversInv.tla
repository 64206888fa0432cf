---------------------------- MODULE DriversInv -----------------------------
(***************************************************************************)
(* The inductive invariant of Drivers: why the turn-taking over plain      *)
(* flags is sound.  DriversProofs proves it inductive and derives the      *)
(* safety properties of Drivers from it.                                   *)
(***************************************************************************)
EXTENDS Drivers

\* The places of a turn, and those where a round is played.
TurnPlaces == {"run", "spin", "look", "checkGame", "checkTurn", "log", "decide"}
RoundPlaces == {"execute", "update", "publish"}
Ending == {"stop", "abort", "returned"}

\* The main driver has handed the present turn to p.
Handed(p) ==
    \/ p < cur
    \/ p = cur /\ mainAt \notin {"start", "run", "scores"}

\* The main driver has checked and logged p's count in the present turn.
Checked(p) == p < cur \/ (p = cur /\ mainAt \in {"decide"} \cup RoundPlaces)

\* The main driver has done with waiting for p in the present turn.
Awaited(p) ==
    p < cur \/ (p = cur /\ mainAt \in {"checkGame", "checkTurn", "log", "decide"})

\* What the main driver decides for a player follows from the count n.
Judged(p, n) == IF n > LimitGame THEN exceeded ELSE skip[p] <=> n > LimitTurn

-----------------------------------------------------------------------------
(* About the main driver alone.                                            *)

\* The turn, the player and the state it is at.
MainPart ==
    /\ mainAt = "start" => turn = 0
    /\ mainAt \in {"start", "scores"} => cur = 0
    /\ mainAt \in {"decide"} \cup RoundPlaces => cur = NumPlayers - 1
    /\ mainAt \in TurnPlaces \cup RoundPlaces => turn < MaxTurns
    /\ mainAt = "scores" => turn = MaxTurns
    /\ mainAt = "look" => StopsSpinning
    /\ mainAt = "checkTurn" /\ ~TimedOut(Main) => counter[cur] <= LimitGame
    /\ mainAt = "log" /\ ~TimedOut(Main) => Judged(cur, counter[cur])
    /\ world = IF mainAt = "publish" THEN turn + 1 ELSE turn
    /\ Len(applied) = IF mainAt \in {"update", "publish"} THEN turn + 1 ELSE turn

\* Results are normal for all, after all turns, or for none.
Outcome ==
    \/ /\ mainAt \in {"stop", "returned"}
       /\ Len(applied) = MaxTurns
       /\ results = [p \in Players |-> "NORMAL"]
    \/ results \in [Players -> {"UNDEFINED", "EXCEEDED_INSTRUCTION_LIMIT"}]

-----------------------------------------------------------------------------
(* About the main driver and player p.                                     *)

\* A player is in its turn only while is_player_running is set.
HandOver(p) ==
    /\ playerAt[p] \in PlayerInBuffer => running[p]
    /\ playerAt[p] = "look" => running[p] \/ TimedOut(p)

\* The main driver leaves a player's turn behind only when the flag is down, or
\* when a time-out, which is for good, keeps it from ever playing the round.
Waited(p) ==
    /\ mainAt \in {"start", "scores"} \cup RoundPlaces => ~running[p]
    /\ mainAt \in TurnPlaces /\ Awaited(p) => ~running[p] \/ TimedOut(Main)
    /\ mainAt \in TurnPlaces /\ ~Handed(p) => ~running[p]

\* Main and player drivers agree on the turn.
TurnCount(p) ==
    /\ turnsDone[p] \in {turn, turn + 1}
    /\ running[p] => turnsDone[p] = turn /\ turn < MaxTurns
    /\ mainAt \notin Ending /\ ~Handed(p) => turnsDone[p] = turn
    /\ mainAt \notin Ending /\ Handed(p) /\ ~running[p] => turnsDone[p] = turn + 1

\* The counter is up to date when the main driver reads it, unless it timed out.
Counted(p) ==
    /\ mainAt = "start" => count[p] = 0
    /\ ~running[p] \/ playerAt[p] = "release" => counter[p] = count[p]
    /\ counter[p] > LimitGame => counter[p] = count[p]
    /\ running[p] /\ playerAt[p] \in {"boot", "wait", "look", "think", "write", "count"}
          => counter[p] <= LimitGame
    /\ mainAt \in TurnPlaces /\ ~Handed(p) => counter[p] <= LimitGame
    /\ results[p] = "EXCEEDED_INSTRUCTION_LIMIT" => counter[p] > LimitGame

\* What was logged and decided for p is what the counter still says.
Settled(p) ==
    /\ mainAt \in TurnPlaces /\ Checked(p) /\ ~TimedOut(Main)
          => logged[p] = counter[p] /\ Judged(p, counter[p])
    /\ mainAt \in RoundPlaces
          => /\ logged[p] = counter[p]
             /\ counter[p] <= LimitGame
             /\ skip[p] <=> counter[p] > LimitTurn

\* States and moves are numbered by the turn they belong to.
Fresh(p) ==
    /\ view[p] = turn
    /\ playerAt[p] \in {"think", "write"} => seen[p] = turn
    /\ playerAt[p] \in {"count", "release"} => moves[p] = turn
    /\ turnsDone[p] = turn + 1 => moves[p] = turn

\* The part of the invariant about player p, and the inductive invariant.
PlayerPart(p) ==
    HandOver(p) /\ Waited(p) /\ TurnCount(p) /\ Counted(p) /\ Settled(p) /\ Fresh(p)

IInv ==
    /\ TypeOK
    /\ MainPart
    /\ Outcome
    /\ \A p \in Players : PlayerPart(p)
=============================================================================
