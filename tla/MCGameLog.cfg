\* Two rounds after the first frame; each player may lose and gain a tower in a
\* turn, and the two built in the first turn may fall in the second.
SPECIFICATION Spec
CONSTANTS
    NumRounds = 2
    Counts = {1, 2}
    Messages = {immune, funds}
    MaxHp = 1
    MaxLevel = 2
    ActorIdBound = 5
    MaxErrors = 1
INVARIANTS
    ReplayGivesTowers
    FramesAreOfTheirTurn
    LegendExplainsErrors
CHECK_DEADLOCK FALSE
