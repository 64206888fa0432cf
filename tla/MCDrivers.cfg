\* Two players, two turns; one player's counts are within the turn's limit, beyond
\* it but within the game's, or beyond both.
SPECIFICATION Spec
CONSTANTS
    NumPlayers = 2
    MaxTurns = 2
    LimitTurn = 1
    LimitGame = 2
    Counts <- MCCounts
INVARIANTS
    Exclusion
    Lockstep
    CountsAreOfThisTurn
    ExceededIsDeserved
    IInv
PROPERTIES
    ImplementsGame
    PlayersLeave
CHECK_DEADLOCK FALSE
