------------------------------- MODULE Towers -------------------------------
(***************************************************************************)
(* Towers, territory and money: the tower commands of StateSyncer          *)
(* (state_syncer.cpp), the TowerManager of each player                     *)
(* (tower_manager.cpp), the MoneyManager they share (money_manager.cpp)    *)
(* and the ownership flags of the map.  A turn executes the commands of    *)
(* both players, which only fill queues, then lets each TowerManager empty *)
(* its queues and remove its dead towers, and then updates the soldiers.   *)
(*                                                                         *)
(* The soldiers are abstracted to the towers they have as attack targets:  *)
(* whether one is in range of its target is left open.  Actor ids count    *)
(* from 0; the soldiers', which come first, are left out.                  *)
(***************************************************************************)
EXTENDS Integers, Sequences, FiniteSets, FiniteSetsExt

CONSTANTS
    MapSize,            \* MAP_SIZE
    Base,               \* Base[p]: the map element of the base tower of p
    BuildCosts,         \* TOWER_BUILD_COSTS, by level
    Ranges,             \* TOWER_RANGES, by level
    MaxHps,             \* TOWER_HPS, by level
    KillRewards,        \* TOWER_KILL_REWARD_AMOUNTS, by level
    SuicideRewards,     \* TOWER_SUICIDE_REWARD_AMOUNT, by level
    SoldierReward,      \* SOLDIER_KILL_REWARD_AMOUNT
    AttackDamage,       \* SOLDIER_ATTACK_DAMAGE
    NumSoldiers,        \* NUM_SOLDIERS
    MoneyStart,         \* MONEY_START
    MaxMoney,           \* MONEY_MAX
    MaxNumTowers,       \* MAX_NUM_TOWERS
    ActorIdBound        \* bound: no tower is built past this id

Players == {0, 1}
Enemy(p) == 1 - p
Offsets == (0 .. MapSize - 1) \X (0 .. MapSize - 1)
Levels == 1 .. Len(BuildCosts)
NoTarget == -1

\* The soldiers of a player, in the order in which they are handled.
Troop == 1 .. NumSoldiers

ASSUME TowersAssumption ==
    /\ MapSize \in Nat \ {0}
    /\ Base \in [Players -> Offsets]
    /\ Base[0] # Base[1]
    /\ BuildCosts \in Seq(Nat \ {0}) \ {<<>>}
    /\ {Ranges, MaxHps, KillRewards, SuicideRewards} \subseteq [Levels -> Nat \ {0}]
    /\ \A l, m \in Levels : l <= m => Ranges[l] <= Ranges[m]
    /\ {SoldierReward, AttackDamage, NumSoldiers, MaxNumTowers} \subseteq Nat \ {0}
    /\ MaxMoney \in Nat
    /\ MoneyStart \in 0 .. MaxMoney
    /\ ActorIdBound \in Nat \ {0, 1}

VARIABLES
    money,              \* MoneyManager::player_money
    towers,             \* TowerManager::towers of each player
    toBuild,            \* towers_to_build_offsets of each player
    toUpgrade,          \* towers_to_upgrade of each player
    toSuicide,          \* towers_to_suicide of each player
    toDelete,           \* towers_to_delete of each player: <<two turns old, one turn old>>
    refs,               \* territory_refs of each player
    owners,             \* owners[c]: the players whose ownership flag of c is set
    nextId,             \* Actor::actor_id_increment
    budget,             \* state_money, a local of ExecutePlayerCommands
    phase,              \* what is being executed
    who,                \* for which player
    cursor,             \* the last index its loop has handled
    target              \* target[p][s]: the tower soldier s of p has as attack_target

stateVars == <<money, towers, toBuild, toUpgrade, toSuicide, toDelete, refs, owners, nextId>>
vars == <<stateVars, budget, phase, who, cursor, target>>

-----------------------------------------------------------------------------
(* Towers and the map.                                                     *)

NewTower(id, offset, isBase) ==
    [id |-> id, offset |-> offset, level |-> 1, hp |-> MaxHps[1], isBase |-> isBase]

\* The map elements in the range of a tower.
CalculateBounds(t) ==
    LET span(x) == x - Ranges[t.level] .. x + Ranges[t.level] IN
    {c \in Offsets : c[1] \in span(t.offset[1]) /\ c[2] \in span(t.offset[2])}

\* A player sees the map from its own corner.
FlipOffset(p, c) ==
    IF p = 0 THEN c ELSE <<MapSize - 1 - c[1], MapSize - 1 - c[2]>>

Ids(p) == {towers[p][i].id : i \in DOMAIN towers[p]}
IndexOf(p, id) == CHOOSE i \in DOMAIN towers[p] : towers[p][i].id = id

Elements(s) == {s[i] : i \in DOMAIN s}

\* Count the towers' claims, and set the flag, on the elements of "area".
Claim(p, area) ==
    /\ refs' = [refs EXCEPT ![p] = [c \in Offsets |-> @[c] + IF c \in area THEN 1 ELSE 0]]
    /\ owners' = [c \in Offsets |-> owners[c] \cup IF c \in area THEN {p} ELSE {}]

-----------------------------------------------------------------------------
(* MoneyManager.                                                           *)

CanDecrease(p, amount) == amount <= money[p]

Decrease(p, amount) == money' = [money EXCEPT ![p] = @ - amount]

\* Mutant: the balance is not capped.
IncreaseUncapped(p, amount) == money' = [money EXCEPT ![p] = @ + amount]

Increase(p, amount) ==
    money' = [money EXCEPT ![p] = IF @ + amount > MaxMoney THEN MaxMoney ELSE @ + amount]

-----------------------------------------------------------------------------

Init ==
    LET base(p) == NewTower(p, Base[p], TRUE) IN
    /\ money = [p \in Players |-> MoneyStart]
    /\ towers = [p \in Players |-> <<base(p)>>]
    /\ toBuild = [p \in Players |-> <<>>]
    /\ toUpgrade = [p \in Players |-> <<>>]
    /\ toSuicide = [p \in Players |-> <<>>]
    /\ toDelete = [p \in Players |-> <<{}, {}>>]
    /\ refs = [p \in Players |->
                  [c \in Offsets |-> IF c \in CalculateBounds(base(p)) THEN 1 ELSE 0]]
    /\ owners = [c \in Offsets |-> {p \in Players : c \in CalculateBounds(base(p))}]
    /\ nextId = 2
    /\ budget = money
    /\ phase = "towerTasks"
    /\ who = 0
    /\ cursor = 0
    /\ target = [p \in Players |-> [s \in Troop |-> NoTarget]]

\* The loop over the players goes on to the next one, or "next" follows it.
NextPlayer(next) ==
    /\ cursor' = 0
    /\ who' = 1 - who
    /\ phase' = IF who = 1 THEN next ELSE phase

\* The local budget is gone when ExecutePlayerCommands returns.
EndLoop(from, next) ==
    /\ phase = from
    /\ NextPlayer(next)
    /\ budget' = IF phase' = "update" THEN [p \in Players |-> 0] ELSE budget
    /\ UNCHANGED <<stateVars, target>>

-----------------------------------------------------------------------------
(* ExecutePlayerCommands, first loop: each tower may have one task, in the *)
(* order of the towers.  A refused command changes nothing but the log.    *)

\* Mutant: the cost is not taken off the budget of the following commands.
UpgradeTowerOnCredit(i, id) ==
    LET t == towers[who][i] IN
    /\ phase = "towerTasks"
    /\ i > cursor
    /\ id = t.id
    /\ t.level # Len(BuildCosts)
    /\ budget[who] >= BuildCosts[t.level + 1]
    /\ toUpgrade' = [toUpgrade EXCEPT ![who] = Append(@, id)]
    /\ cursor' = i
    /\ UNCHANGED <<money, towers, toBuild, toSuicide, toDelete, refs, owners, nextId,
                   budget, phase, who, target>>

UpgradeTower(i, id) ==
    LET t == towers[who][i] IN
    /\ phase = "towerTasks"
    /\ i > cursor
    /\ id = t.id
    /\ t.level # Len(BuildCosts)
    /\ budget[who] >= BuildCosts[t.level + 1]
    /\ budget' = [budget EXCEPT ![who] = @ - BuildCosts[t.level + 1]]
    /\ toUpgrade' = [toUpgrade EXCEPT ![who] = Append(@, id)]
    /\ cursor' = i
    /\ UNCHANGED <<money, towers, toBuild, toSuicide, toDelete, refs, owners, nextId,
                   phase, who, target>>

SuicideTower(i, id) ==
    LET t == towers[who][i] IN
    /\ phase = "towerTasks"
    /\ i > cursor
    /\ id = t.id
    /\ ~t.isBase
    /\ toSuicide' = [toSuicide EXCEPT ![who] = Append(@, id)]
    /\ cursor' = i
    /\ UNCHANGED <<money, towers, toBuild, toUpgrade, toDelete, refs, owners, nextId,
                   budget, phase, who, target>>

-----------------------------------------------------------------------------
(* ExecutePlayerCommands, second loop: the command of each soldier of a    *)
(* player, in their order, and then the map elements it has marked to      *)
(* build a tower on, row by row.                                           *)

\* Mutant: the base may be attacked.
AttackTowerOrBase(s, id) ==
    /\ phase = "soldierTasks"
    /\ s > cursor
    /\ id \in Ids(Enemy(who))
    /\ id \notin Elements(toSuicide[Enemy(who)])
    /\ target' = [target EXCEPT ![who][s] = id]
    /\ cursor' = s
    /\ UNCHANGED <<stateVars, budget, phase, who>>

\* The target must be a tower of the enemy, not its base nor one that is
\* about to commit suicide (razed_towers).
AttackTower(s, id) ==
    /\ phase = "soldierTasks"
    /\ s > cursor
    /\ id \in Ids(Enemy(who))
    /\ ~towers[Enemy(who)][IndexOf(Enemy(who), id)].isBase
    /\ id \notin Elements(toSuicide[Enemy(who)])
    /\ target' = [target EXCEPT ![who][s] = id]
    /\ cursor' = s
    /\ UNCHANGED <<stateVars, budget, phase, who>>

\* An order to move or to attack a soldier takes the place of the target.
GoElsewhere(s) ==
    /\ phase = "soldierTasks"
    /\ s > cursor
    /\ target' = [target EXCEPT ![who][s] = NoTarget]
    /\ cursor' = s
    /\ UNCHANGED <<stateVars, budget, phase, who>>

\* The place of a map element in the loop that looks for build_tower marks.
MapIndex(seen) == NumSoldiers + 1 + seen[1] * MapSize + seen[2]

\* num_towers: the towers there are and those already queued.
PlannedTowers(p) == Len(towers[p]) + Len(toBuild[p])

\* Mutant: the queued towers are not counted.
FitsNow(p) == Len(towers[p]) + 1 <= MaxNumTowers

FitsPlan(p) == PlannedTowers(p) + 1 <= MaxNumTowers

\* Mutant: an element with a tower on it is valid territory.
OwnTerritory(p, offset) == owners[offset] = {p}

ValidTerritory(p, offset) ==
    /\ owners[offset] = {p}
    /\ \A i \in DOMAIN towers[p] : towers[p][i].offset # offset

BuildTower(seen) ==
    LET offset == FlipOffset(who, seen) IN
    /\ phase = "soldierTasks"
    /\ MapIndex(seen) > cursor
    /\ FitsPlan(who)
    /\ ValidTerritory(who, offset)
    /\ budget[who] >= BuildCosts[1]
    /\ nextId + Len(toBuild[0]) + Len(toBuild[1]) < ActorIdBound
    /\ budget' = [budget EXCEPT ![who] = @ - BuildCosts[1]]
    /\ toBuild' = [toBuild EXCEPT ![who] = Append(@, offset)]
    /\ cursor' = MapIndex(seen)
    /\ UNCHANGED <<money, towers, toUpgrade, toSuicide, toDelete, refs, owners, nextId,
                   phase, who, target>>

-----------------------------------------------------------------------------
(* TowerManager::Update of player "who": four handlers in turn, the first  *)
(* three with one step per entry of their queue, each when those before it *)
(* have emptied theirs.                                                    *)

Building == phase = "update" /\ toBuild[who] # <<>>
Upgrading == phase = "update" /\ toBuild[who] = <<>> /\ toUpgrade[who] # <<>>
Suiciding ==
    /\ phase = "update"
    /\ toBuild[who] = <<>>
    /\ toUpgrade[who] = <<>>
    /\ toSuicide[who] # <<>>
Burying ==
    /\ phase = "update"
    /\ toBuild[who] = <<>>
    /\ toUpgrade[who] = <<>>
    /\ toSuicide[who] = <<>>

HandleTowerBuildUpdates ==
    /\ Building
    /\ CanDecrease(who, BuildCosts[1])
    /\ Decrease(who, BuildCosts[1])
    /\ LET t == NewTower(nextId, Head(toBuild[who]), FALSE) IN
       /\ towers' = [towers EXCEPT ![who] = Append(@, t)]
       /\ Claim(who, CalculateBounds(t))
    /\ nextId' = nextId + 1
    /\ toBuild' = [toBuild EXCEPT ![who] = Tail(@)]
    /\ UNCHANGED <<toUpgrade, toSuicide, toDelete, budget, phase, who, cursor, target>>

\* Tower::Upgrade: the next level, with full health.
Upgraded(t) == [t EXCEPT !.level = @ + 1, !.hp = MaxHps[t.level + 1]]

Upgradable(p, id) ==
    /\ id \in Ids(p)
    /\ LET t == towers[p][IndexOf(p, id)] IN
       /\ t.level # Len(BuildCosts)
       /\ CanDecrease(p, BuildCosts[t.level + 1])

\* Mutant: the territory the tower already had is claimed again.
HandleTowerUpgradeUpdatesTwice ==
    /\ Upgrading
    /\ Upgradable(who, Head(toUpgrade[who]))
    /\ LET i == IndexOf(who, Head(toUpgrade[who]))
           t == towers[who][i] IN
       /\ Decrease(who, BuildCosts[t.level + 1])
       /\ towers' = [towers EXCEPT ![who][i] = Upgraded(t)]
       /\ Claim(who, CalculateBounds(Upgraded(t)))
    /\ toUpgrade' = [toUpgrade EXCEPT ![who] = Tail(@)]
    /\ UNCHANGED <<toBuild, toSuicide, toDelete, nextId, budget, phase, who, cursor, target>>

HandleTowerUpgradeUpdates ==
    /\ Upgrading
    /\ Upgradable(who, Head(toUpgrade[who]))
    /\ LET i == IndexOf(who, Head(toUpgrade[who]))
           t == towers[who][i] IN
       /\ Decrease(who, BuildCosts[t.level + 1])
       /\ towers' = [towers EXCEPT ![who][i] = Upgraded(t)]
       /\ Claim(who, CalculateBounds(Upgraded(t)) \ CalculateBounds(t))
    /\ toUpgrade' = [toUpgrade EXCEPT ![who] = Tail(@)]
    /\ UNCHANGED <<toBuild, toSuicide, toDelete, nextId, budget, phase, who, cursor, target>>

HandleTowerSuicideUpdates ==
    /\ Suiciding
    /\ Head(toSuicide[who]) \in Ids(who)
    /\ LET i == IndexOf(who, Head(toSuicide[who])) IN
       /\ towers' = [towers EXCEPT ![who][i].hp = 0]
       /\ Increase(who, SuicideRewards[towers[who][i].level])
    /\ toSuicide' = [toSuicide EXCEPT ![who] = Tail(@)]
    /\ UNCHANGED <<toBuild, toUpgrade, toDelete, refs, owners, nextId,
                   budget, phase, who, cursor, target>>

\* The next entry of a queue makes its handler throw std::out_of_range, which
\* nothing catches: the simulation stops there.
Throws ==
    \/ Building /\ ~CanDecrease(who, BuildCosts[1])
    \/ Upgrading /\ ~Upgradable(who, Head(toUpgrade[who]))
    \/ Suiciding /\ Head(toSuicide[who]) \notin Ids(who)

IsAlive(t) == t.hp > 0

\* A list of towers without the dead ones: SelectSeq(s, IsAlive), in terms that
\* can be reasoned about.
Survivors(s) ==
    LET alive == {i \in DOMAIN s : IsAlive(s[i])}
        nth(k) == CHOOSE i \in alive : Cardinality({j \in alive : j <= i}) = k IN
    [k \in 1 .. Cardinality(alive) |-> s[nth(k)]]

\* The dead towers of a player, and how many of them claimed an element.
Dead(p) == {t \in Elements(towers[p]) : ~IsAlive(t)}
DeadClaims(p, c) == Cardinality({t \in Dead(p) : c \in CalculateBounds(t)})

\* Mutant: the dead towers are deleted at once.
HandleTowerDeathUpdatesAtOnce ==
    /\ Burying
    /\ toDelete' = [toDelete EXCEPT ![who] = <<{}, {}>>]
    /\ towers' = [towers EXCEPT ![who] = Survivors(@)]
    /\ refs' = [refs EXCEPT ![who] = [c \in Offsets |-> @[c] - DeadClaims(who, c)]]
    /\ owners' = [c \in Offsets |->
                     IF DeadClaims(who, c) > 0 /\ refs'[who][c] = 0
                     THEN owners[c] \ {who} ELSE owners[c]]
    /\ who' = 1 - who
    /\ phase' = IF who = 1 THEN "soldiers" ELSE phase
    /\ UNCHANGED <<money, toBuild, toUpgrade, toSuicide, nextId, budget, cursor, target>>

\* Give up the territory of the dead towers and take them off the list; they
\* are kept for two more turns.  The other manager, or the soldiers, follow.
HandleTowerDeathUpdates ==
    /\ Burying
    /\ toDelete' = [toDelete EXCEPT ![who] = <<@[2], {t.id : t \in Dead(who)}>>]
    /\ towers' = [towers EXCEPT ![who] = Survivors(@)]
    /\ refs' = [refs EXCEPT ![who] = [c \in Offsets |-> @[c] - DeadClaims(who, c)]]
    /\ owners' = [c \in Offsets |->
                     IF DeadClaims(who, c) > 0 /\ refs'[who][c] = 0
                     THEN owners[c] \ {who} ELSE owners[c]]
    /\ who' = 1 - who
    /\ phase' = IF who = 1 THEN "soldiers" ELSE phase
    /\ UNCHANGED <<money, toBuild, toUpgrade, toSuicide, nextId, budget, cursor, target>>

-----------------------------------------------------------------------------
(* Soldier::Update, then Soldier::LateUpdate, of the soldiers of both      *)
(* players one by one, as far as towers and money are concerned.           *)

\* The soldier that is updated.
Current == cursor + 1

NextSoldier(next) ==
    IF Current < NumSoldiers
    THEN cursor' = Current /\ UNCHANGED <<phase, who>>
    ELSE NextPlayer(next)

\* It strikes the tower.  The one whose blow brings it down is rewarded; those
\* that come later find it dead.
Strike ==
    LET e == Enemy(who)
        i == IndexOf(e, target[who][Current])
        hp == Max({0, towers[e][i].hp - AttackDamage}) IN
    /\ phase = "soldiers"
    /\ target[who][Current] \in Ids(e)
    /\ IsAlive(towers[e][i])
    /\ towers' = [towers EXCEPT ![e][i].hp = hp]
    /\ IF hp = 0 THEN Increase(who, KillRewards[towers[e][i].level]) ELSE UNCHANGED money
    /\ NextSoldier("late")
    /\ UNCHANGED <<toBuild, toUpgrade, toSuicide, toDelete, refs, owners, nextId,
                   budget, target>>

\* It kills an enemy soldier, and so has no tower for its target.
KillSoldier ==
    /\ phase = "soldiers"
    /\ target[who][Current] = NoTarget
    /\ Increase(who, SoldierReward)
    /\ NextSoldier("late")
    /\ UNCHANGED <<towers, toBuild, toUpgrade, toSuicide, toDelete, refs, owners, nextId,
                   budget, target>>

TargetIsDead(p, s) ==
    \A i \in DOMAIN towers[Enemy(p)] :
        towers[Enemy(p)][i].id = target[p][s] => ~IsAlive(towers[Enemy(p)][i])

\* A soldier whose target is dead drops it before it could strike.
DropTarget ==
    /\ phase = "soldiers"
    /\ target[who][Current] # NoTarget
    /\ TargetIsDead(who, Current)
    /\ target' = [target EXCEPT ![who][Current] = NoTarget]
    /\ UNCHANGED <<stateVars, budget, phase, who, cursor>>

\* One that is in pursuit of a target that stands keeps it.
PassOn ==
    /\ phase = "soldiers"
    /\ target[who][Current] = NoTarget \/ ~TargetIsDead(who, Current)
    /\ NextSoldier("late")
    /\ UNCHANGED <<stateVars, budget, target>>

\* The late update, in which a soldier that dies drops its target.  After the
\* last one a new turn begins with the money there now is.
LateUpdate ==
    /\ phase = "late"
    /\ target' \in {target, [target EXCEPT ![who][Current] = NoTarget]}
    /\ NextSoldier("towerTasks")
    /\ budget' = IF phase' = "towerTasks" THEN money ELSE budget
    /\ UNCHANGED stateVars

-----------------------------------------------------------------------------

TowerTasks ==
    \/ \E i \in DOMAIN towers[who], id \in 0 .. nextId - 1 : UpgradeTower(i, id)
    \/ \E i \in DOMAIN towers[who], id \in 0 .. nextId - 1 : SuicideTower(i, id)
    \/ EndLoop("towerTasks", "soldierTasks")

SoldierTasks ==
    \/ \E s \in Troop, id \in 0 .. nextId - 1 : AttackTower(s, id)
    \/ \E s \in Troop : GoElsewhere(s)
    \/ \E seen \in Offsets : BuildTower(seen)
    \/ EndLoop("soldierTasks", "update")

ManagerUpdate ==
    \/ HandleTowerBuildUpdates
    \/ HandleTowerUpgradeUpdates
    \/ HandleTowerSuicideUpdates
    \/ HandleTowerDeathUpdates

SoldiersUpdate ==
    \/ Strike
    \/ KillSoldier
    \/ DropTarget
    \/ PassOn
    \/ LateUpdate

Next == TowerTasks \/ SoldierTasks \/ ManagerUpdate \/ SoldiersUpdate

\* Everything is executed by the main driver's thread.
Spec == Init /\ [][Next]_vars /\ WF_vars(Next)

-----------------------------------------------------------------------------
(* Properties.                                                             *)

\* Types; the balances stay within their cap, a tower's health within that of
\* its level.
TypeOK ==
    /\ money \in [Players -> 0 .. MaxMoney]
    /\ budget \in [Players -> 0 .. MaxMoney]
    /\ \A p \in Players :
        /\ \A t \in Elements(towers[p]) :
            /\ t.id \in 0 .. nextId - 1
            /\ t.offset \in Offsets
            /\ t.level \in Levels
            /\ t.hp \in 0 .. MaxHps[t.level]
            /\ t.isBase \in BOOLEAN
        /\ Elements(toBuild[p]) \subseteq Offsets
        /\ Elements(toUpgrade[p]) \cup Elements(toSuicide[p]) \subseteq 0 .. nextId - 1
        /\ \A k \in 1 .. 2 : toDelete[p][k] \subseteq 0 .. nextId - 1
        /\ \A s \in Troop : target[p][s] \in {NoTarget} \cup 0 .. nextId - 1
    /\ refs \in [Players -> [Offsets -> Nat]]
    /\ owners \in [Offsets -> SUBSET Players]
    /\ nextId \in 2 .. ActorIdBound
    /\ phase \in {"towerTasks", "soldierTasks", "update", "soldiers", "late"}
    /\ who \in Players
    /\ cursor \in 0 .. MapSize * MapSize + NumSoldiers + MaxNumTowers

\* What StateSyncer lets into the queues never makes a TowerManager throw: the
\* money is there and the tower exists and has a next level, although all this
\* was checked before the queues of the turn were begun.
NeverThrows == ~Throws

\* Builds, upgrades, suicides and kills, in any order, leave the reference
\* counts and the ownership flags as the standing towers' ranges say; scores
\* and the valid territory are read from them.
TerritoryMatchesTowers ==
    \A p \in Players, c \in Offsets :
        /\ refs[p][c] = Cardinality({t \in Elements(towers[p]) : c \in CalculateBounds(t)})
        /\ p \in owners[c] <=> refs[p][c] > 0

\* No two towers, of whichever players, stand on one map element, although the
\* players' commands of a turn are checked against the towers before it.
OneTowerPerElement ==
    \A p, q \in Players : \A i \in DOMAIN towers[p], j \in DOMAIN towers[q] :
        towers[p][i].offset = towers[q][j].offset => p = q /\ i = j

\* A player never has more towers than the array of its shared state holds.
TowersFit == \A p \in Players : Len(towers[p]) <= MaxNumTowers

\* A tower that any soldier has as its attack target is still in memory.
TargetsAreKept ==
    \A p \in Players, s \in Troop :
        target[p][s] # NoTarget =>
            target[p][s] \in Ids(Enemy(p)) \cup UNION Elements(toDelete[Enemy(p)])

\* State::GetScores: the map elements a player owns.
Score(p) == Cardinality({c \in Offsets : p \in owners[c]})

\* The base of a player is always its first tower, unharmed, and so the player
\* scores at least the base's territory whatever else it loses.
BasesStand ==
    \A p \in Players :
        /\ towers[p][1].isBase
        /\ towers[p][1].hp = MaxHps[towers[p][1].level]
        /\ Score(p) >= Cardinality(CalculateBounds(NewTower(0, Base[p], TRUE)))

\* tower_manager.cpp says of HandleTowerDeathUpdates: "Delete Dead Towers".  So
\* a tower that has been brought to 0, and paid for, is not alive again later.
DeadTowersAreDeleted ==
    [][\A p \in Players : \A t \in Dead(p) : \A u \in Elements(towers'[p]) :
            u.id = t.id => ~IsAlive(u)]_vars
=============================================================================
