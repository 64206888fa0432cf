---------------------------- MODULE MCSimulator -----------------------------
(***************************************************************************)
(* Counts[p] in small instances of Simulator: the second player is within  *)
(* the limits or beyond both, or both players are always within.           *)
(***************************************************************************)
EXTENDS SimulatorInv

MCCounts == [p \in {0, 1} |-> IF p = 0 THEN {1} ELSE {1, 3}]
MCWithinLimits == [p \in {0, 1} |-> {1}]
=============================================================================
