---------------------------- MODULE MCPathPlanner ----------------------------
(***************************************************************************)
(* Every map of 3 by 3 elements; journeys to and from the corners and the  *)
(* edges of elements, in which a soldier marches as far in a turn as an    *)
(* element is wide, as in the game.                                        *)
(***************************************************************************)
EXTENDS PathPlanner

MCTerrains == SUBSET Offsets

\* Corners of the map, middles of elements, and both sides of the lines between them.
Starts == {0, 7, 11} \X {3, 4, 10}
Goals == {<<11, 11>>, <<4, 3>>, <<3, 8>>, <<5, 6>>, <<0, 7>>}
MCJourneys == Starts \X Goals
=============================================================================
