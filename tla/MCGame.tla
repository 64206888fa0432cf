------------------------------- MODULE MCGame --------------------------------
(***************************************************************************)
(* A small instance of Game: two soldiers of the first player against two  *)
(* of the second, of which one only stands there to be attacked.  The      *)
(* bases are at the ends of a row of a 3 by 3 map, and their ranges        *)
(* overlap in the middle; towers have one level.                           *)
(***************************************************************************)
EXTENDS GameInv

MCBase == [p \in {0, 1} |-> IF p = 0 THEN <<0, 0>> ELSE <<0, 2>>]
MCLed == [p \in {0, 1} |-> IF p = 0 THEN {1, 2} ELSE {1}]
MCBuildCosts == <<1>>
MCRanges == <<1>>
MCMaxHps == <<1>>
MCKillRewards == <<1>>
MCSuicideRewards == <<1>>
=============================================================================
