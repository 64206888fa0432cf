----------------------------- MODULE TurnGame ------------------------------
(***************************************************************************)
(* What the main driver promises of a game (main_driver.h, player_result.h), *)
(* whatever the player processes and the timers do: rounds are played one  *)
(* after the other, in each the moves of a player are executed only if they *)
(* were made on the state that round started from, and the game ends either *)
(* complete, with a normal result for all, or stopped, with one for none.  *)
(***************************************************************************)
EXTENDS Integers, Sequences

CONSTANTS
    Players,
    MaxTurns

VARIABLES
    rounds,     \* rounds[k][p]: the state p's moves in round k were made on, or Skipped
    results     \* results[p]: the status of p's result

gameVars == <<rounds, results>>

Skipped == -3

Undecided == [p \in Players |-> "PENDING"]

Init ==
    /\ rounds = <<>>
    /\ results = Undecided

\* States are numbered by the rounds played before them.
PlayRound ==
    /\ results = Undecided
    /\ Len(rounds) < MaxTurns
    /\ \E round \in [Players -> {Len(rounds), Skipped}] : rounds' = Append(rounds, round)
    /\ UNCHANGED results

\* All turns were played.
Complete ==
    /\ results = Undecided
    /\ Len(rounds) = MaxTurns
    /\ results' = [p \in Players |-> "NORMAL"]
    /\ UNCHANGED rounds

\* A time-out, a cancellation, or players beyond the instruction limit.
StopGame ==
    /\ results = Undecided
    /\ results' \in [Players -> {"UNDEFINED", "EXCEEDED_INSTRUCTION_LIMIT"}]
    /\ UNCHANGED rounds

Next == PlayRound \/ Complete \/ StopGame

\* A game does not go on for ever.
Progress == WF_gameVars(Next)

Spec == Init /\ [][Next]_gameVars /\ Progress
=============================================================================
