\* One tower besides the bases.
SPECIFICATION GameSpec
CONSTANTS
    MapSize = 3
    Base <- MCBase
    BuildCosts <- MCBuildCosts
    Ranges <- MCRanges
    MaxHps <- MCMaxHps
    KillRewards <- MCKillRewards
    SuicideRewards <- MCSuicideRewards
    SoldierReward = 1
    AttackDamage = 1
    NumSoldiers = 2
    MoneyStart = 1
    MaxMoney = 1
    MaxNumTowers = 2
    ActorIdBound = 3
    SoldierHp = 1
    RespawnTurns = 2
    ShieldTurns = 0
    Led <- MCLed
INVARIANT NeverBlind
PROPERTIES
    ImplementsTowers
    TurnsEnd
