\* Two towers for each player, of which two can be bought in one turn.
SPECIFICATION Spec
CONSTANTS
    MapSize = 3
    Base <- MCBase
    BuildCosts <- MCBuildCosts
    Ranges <- MCRanges
    MaxHps <- MCMaxHps
    KillRewards <- MCKillRewards
    SuicideRewards <- MCSuicideRewards
    SoldierReward = 2
    AttackDamage = 1
    NumSoldiers = 2
    MoneyStart = 2
    MaxMoney = 2
    MaxNumTowers = 2
    ActorIdBound = 4
INVARIANTS
    TypeOK
    NeverThrows
    TerritoryMatchesTowers
    OneTowerPerElement
    TowersFit
    TargetsAreKept
    BasesStand
    ViewIsTrue
    ValidMeansBuildable
