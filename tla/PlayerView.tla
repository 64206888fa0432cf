----------------------------- MODULE PlayerView ------------------------------
(***************************************************************************)
(* What UpdatePlayerStates (state_syncer.cpp) writes into the shared state *)
(* of each player before a turn: the map with the territories and the      *)
(* elements where a tower may be built, and the lists of towers.  Each     *)
(* player is at the lower left corner of its own picture: the second one's *)
(* map is turned in place, element by element, and its positions one by    *)
(* one; its orders are turned back in StateSyncer's BuildTower.            *)
(***************************************************************************)
EXTENDS Towers

Opposite(c) == FlipOffset(1, c)

\* The picture of the map that both players' are made from.
PlayerMap ==
    [c \in Offsets |-> [territory |-> 0 \in owners[c], enemyTerritory |-> 1 \in owners[c]]]

\* A step of FlipMap: an element and the one opposite exchange their places,
\* and each its territories.
SwapElements(c, map) ==
    LET swapped(e) == [territory |-> e.enemyTerritory, enemyTerritory |-> e.territory] IN
    [map EXCEPT ![c] = swapped(map[Opposite(c)]), ![Opposite(c)] = swapped(map[c])]

\* Mutant: the loops go over the whole map.
FlipWholeMap(map) == FoldSet(SwapElements, map, Offsets)

\* The first half of the map, and of its middle row if its size is odd.
FlipMap(map) ==
    LET half == MapSize \div 2
        middle == {c \in Offsets : MapSize % 2 = 1 /\ c[1] = half /\ c[2] < half} IN
    FoldSet(SwapElements, map, middle \cup {c \in Offsets : c[1] < half})

MapSeen(p) == IF p = 1 THEN FlipMap(PlayerMap) ELSE PlayerMap

\* AssignTowerAttributes: the towers of q as p sees them.
TowersSeen(p, q) ==
    [i \in DOMAIN towers[q] |-> [towers[q][i] EXCEPT !.offset = FlipOffset(p, @)]]

\* A player's own, uncontested territory (and a mutant of ValidSeen).
OpenTerritory(p) ==
    LET map == MapSeen(p) IN {c \in Offsets : map[c].territory /\ ~map[c].enemyTerritory}

\* The elements with valid_territory.
ValidSeen(p) == OpenTerritory(p) \ {TowersSeen(p, p)[i].offset : i \in DOMAIN towers[p]}

-----------------------------------------------------------------------------
(* Properties, of the states that UpdatePlayerStates is called in.         *)

TurnBegins == phase = "towerTasks" /\ who = 0 /\ cursor = 0

\* Alone on a map of odd size, the element in the middle is not turned.
Turned(c) == c # Opposite(c)

\* Both players are shown the same map, from opposite corners: territory is
\* that of the one who looks, and each tower stands on its owner's.
ViewIsTrue ==
    TurnBegins =>
        \A p \in Players :
            LET map == MapSeen(p) IN
            /\ \A c \in {c \in Offsets : Turned(c)} :
                map[c] = [territory |-> p \in owners[FlipOffset(p, c)],
                          enemyTerritory |-> Enemy(p) \in owners[FlipOffset(p, c)]]
            /\ \A q \in Players : \A i \in DOMAIN towers[q] :
                LET c == TowersSeen(p, q)[i].offset IN
                Turned(c) =>
                    IF p = q THEN map[c].territory ELSE map[c].enemyTerritory

\* Where the picture says a tower may be built, StateSyncer accepts the order
\* for it, and nowhere else.
ValidMeansBuildable ==
    TurnBegins =>
        \A p \in Players : \A c \in {c \in Offsets : Turned(c)} :
            c \in ValidSeen(p) <=> ValidTerritory(p, FlipOffset(p, c))
=============================================================================
