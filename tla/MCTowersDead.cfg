\* As MCTowers.
SPECIFICATION Spec
CONSTANTS
    MapSize = 3
    Base <- MCBase
    BuildCosts <- MCBuildCosts
    Ranges <- MCRanges
    MaxHps <- MCMaxHps
    KillRewards <- MCKillRewards
    SuicideRewards <- MCSuicideRewards
    SoldierReward = 2
    AttackDamage = 1
    NumSoldiers = 2
    MoneyStart = 2
    MaxMoney = 2
    MaxNumTowers = 2
    ActorIdBound = 4
PROPERTY DeadTowersAreDeleted
