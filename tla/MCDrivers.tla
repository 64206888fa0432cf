----------------------------- MODULE MCDrivers ------------------------------
(***************************************************************************)
(* Against limits of 1 for a turn and 2 for the game, the second player    *)
(* keeps within the limits, or exceeds that of its turn, or both; the      *)
(* first keeps within them.                                                *)
(***************************************************************************)
EXTENDS DriversInv

MCCounts == [p \in {0, 1} |-> IF p = 0 THEN {1} ELSE {1, 2, 3}]
=============================================================================
