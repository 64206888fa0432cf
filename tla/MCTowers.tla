------------------------------ MODULE MCTowers ------------------------------
(***************************************************************************)
(* A small instance of Towers: the bases are in two corners of a 3 by 3    *)
(* map, at the ends of the same row, and their ranges overlap in the       *)
(* middle; of the two levels, the second reaches the whole map.            *)
(***************************************************************************)
EXTENDS PlayerView, TowersInv

MCBase == [p \in {0, 1} |-> IF p = 0 THEN <<0, 0>> ELSE <<0, 2>>]
MCBuildCosts == <<1, 2>>
MCRanges == <<1, 2>>
MCMaxHps == <<1, 2>>
MCKillRewards == <<2, 2>>
MCSuicideRewards == <<2, 2>>
=============================================================================
