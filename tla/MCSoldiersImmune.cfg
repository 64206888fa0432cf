\* As MCSoldiers.
SPECIFICATION Spec
CONSTANTS
    NumSoldiers = 3
    Owner <- MCOwner
    Width = 3
    Spawn <- MCSpawn
    Speed = 1
    AttackRange = 1
    AttackDamage = 1
    MaxHp = 2
    RespawnTurns = 2
    ShieldTurns = 1
INVARIANT RewardedOnlyForKills
