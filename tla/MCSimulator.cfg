\* Two players and one turn; one player's counts are within the limits or beyond
\* both.
SPECIFICATION SimSpec
CONSTANTS
    NumPlayers = 2
    MaxTurns = 1
    LimitTurn = 1
    LimitGame = 2
    Counts <- MCCounts
INVARIANTS
    BlamedOnlyIfCrashed
    SomeoneIsBlamed
    NormalMeansComplete
PROPERTIES
    OrderlyRunEnds
    TimelyCancelEnds
CHECK_DEADLOCK FALSE
