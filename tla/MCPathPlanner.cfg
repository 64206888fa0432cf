\* All maps, with water or without, of 3 by 3 elements.
SPECIFICATION Spec
CONSTANTS
    MapSize = 3
    ElementSize = 4
    Speed = 4
    Terrains <- MCTerrains
    Journeys <- MCJourneys
INVARIANT NextNodesAreShortest
PROPERTIES
    KeepsToLand
    Arrives
CHECK_DEADLOCK FALSE
