\* Two players and one turn, within the limits.
SPECIFICATION SimSpec
CONSTANTS
    NumPlayers = 2
    MaxTurns = 1
    LimitTurn = 1
    LimitGame = 2
    Counts <- MCWithinLimits
PROPERTY CancelReturns
CHECK_DEADLOCK FALSE
