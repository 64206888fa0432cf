----------------------------- MODULE MCSoldiers -----------------------------
(***************************************************************************)
(* The last soldier belongs to one player, all others to the other; the    *)
(* bases are at the ends of the line.                                      *)
(***************************************************************************)
EXTENDS SoldiersInv

MCOwner == [s \in 0 .. NumSoldiers - 1 |-> IF s = NumSoldiers - 1 THEN 1 ELSE 0]
MCSpawn == [p \in {0, 1} |-> IF p = 0 THEN 0 ELSE Width - 1]
=============================================================================
