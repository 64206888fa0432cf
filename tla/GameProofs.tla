----------------------------- MODULE GameProofs -----------------------------
(***************************************************************************)
(* Proofs about Game: real soldiers do with the towers what Towers assumes *)
(* of them, so what is proved of Towers holds of the whole game, and they  *)
(* never fight without a target.                                           *)
(***************************************************************************)
EXTENDS GameInv, TowersProofs

-----------------------------------------------------------------------------
(* The state machine of a soldier.                                         *)

LEMMA GameConstants ==
    /\ SoldierHp \in Nat /\ SoldierHp > 0
    /\ RespawnTurns \in Nat /\ RespawnTurns > 1
    /\ ShieldTurns \in Nat
    /\ AttackDamage \in Nat
    /\ NumSoldiers \in Nat /\ NumSoldiers > 0
    /\ \A p \in Players : Led[p] \subseteq Troop
    /\ Nobody \notin Troop
BY GameAssumption, Constants DEF GameAssumption, Nobody, Troop

\* A soldier has these fields.
LEMMA SoldierFields ==
    ASSUME SoldiersTyped, NEW p \in Players, NEW s \in Troop
    PROVE  LET x == soldiers[p][s] IN
           /\ x \in Soldier
           /\ x.state \in {"idle", "move", "attack", "pursuit", "dead"}
           /\ x.hp \in Nat /\ x.hp <= SoldierHp
           /\ x.damage \in Nat /\ x.damage <= x.hp
           /\ x.moving \in BOOLEAN
           /\ x.hunting \in {Nobody} \cup Troop
           /\ x.down \in Nat
           /\ x.shield \in Nat
<1> DEFINE x == soldiers[p][s]
<1>1. x \in Soldier /\ x.damage <= x.hp
  BY DEF SoldiersTyped
<1> HIDE DEF x
<1>2. /\ x.state \in {"idle", "move", "attack", "pursuit", "dead"}
      /\ x.hp \in 0 .. SoldierHp /\ x.damage \in Nat
      /\ x.moving \in BOOLEAN /\ x.hunting \in {Nobody} \cup Troop
      /\ x.down \in Nat /\ x.shield \in Nat
  BY <1>1 DEF Soldier
<1>3. x.hp \in Nat /\ x.hp <= SoldierHp
  BY <1>2, GameConstants
<1>4. QED
  BY <1>1, <1>2, <1>3 DEF x

\* What the Update of each state may lead to, and why.
LEMMA Transitions ==
    ASSUME SoldiersTyped, NEW p \in Players, NEW s \in Troop, DeadAreDown(p, s),
           NEW new \in NewStates(p, s)
    PROVE  LET x == soldiers[p][s] IN
           /\ new \in {"same", "idle", "move", "attack", "pursuit"}
           /\ x.state = "dead" => new \in {"same", "idle"}
           /\ x.state = "idle" /\ x.moving => new = "move"
           /\ x.state = "idle" /\ ~x.moving /\ HasTarget(p, s) => new \in {"attack", "pursuit"}
           /\ x.state = "idle" /\ ~x.moving /\ ~HasTarget(p, s) => new = "same"
           /\ x.state = "move" /\ HasTarget(p, s) => new \in {"attack", "pursuit"}
           /\ x.state = "move" /\ ~HasTarget(p, s) => new \in {"same", "idle"}
           /\ x.state \in {"attack", "pursuit"} /\ x.moving => new = "move"
           /\ x.state \in {"attack", "pursuit"} /\ ~x.moving /\ TargetHasDied(p, s) => new = "idle"
           /\ x.state \in {"attack", "pursuit"} /\ ~x.moving /\ ~TargetHasDied(p, s) =>
                 new \in {"same", "attack", "pursuit"}
<1> DEFINE x == soldiers[p][s]
           chase == IF near THEN "attack" ELSE "pursuit"
<1>1. /\ x.state \in {"idle", "move", "attack", "pursuit", "dead"}
      /\ x.hp \in Nat /\ (x.hp = 0 <=> x.state = "dead")
  BY SoldierFields DEF DeadAreDown
<1>2. CASE x.state = "dead"
  <2>1. NewStates(p, s) = IF x.down = 0 THEN {"idle"} ELSE {"same"}
    BY <1>1, <1>2 DEF NewStates
  <2>2. QED
    BY <1>2, <2>1
<1>3. CASE x.state = "idle"
  <2>1. NewStates(p, s) =
           IF x.moving THEN {"move"} ELSE IF HasTarget(p, s) THEN {chase} ELSE {"same"}
    BY <1>1, <1>3 DEF NewStates
  <2>2. QED
    BY <1>3, <2>1
<1>4. CASE x.state = "move"
  <2>1. NewStates(p, s) = IF HasTarget(p, s) THEN {chase} ELSE {"same", "idle"}
    BY <1>1, <1>4 DEF NewStates
  <2>2. QED
    BY <1>4, <2>1
<1>5. CASE x.state \in {"attack", "pursuit"}
  <2>1. NewStates(p, s) = IF x.moving THEN {"move"}
                          ELSE IF TargetHasDied(p, s) THEN {"idle"}
                          ELSE IF x.state = chase THEN {"same"} ELSE {chase}
    BY <1>1, <1>5 DEF NewStates
  <2>2. QED
    BY <1>5, <2>1
<1>6. QED
  BY <1>1, <1>2, <1>3, <1>4, <1>5

-----------------------------------------------------------------------------
(* What a step may change.                                                 *)

\* NeverBlind, of one soldier.
Sees(p, s) ==
    LET x == soldiers[p][s] IN
    x.state \in {"attack", "pursuit"} /\ x.hp > 0 /\ ~x.moving => HasTarget(p, s)

SoldierPart(p, s) ==
    DeadAreDown(p, s) /\ OrdersExclude(p, s) /\ NoneForgotten(p, s) /\ Sees(p, s)

LEMMA GParts ==
    GInv <=> SoldiersTyped /\ \A p \in Players, s \in Troop : SoldierPart(p, s)
BY DEF GInv, NeverBlind, SoldierPart, Sees

\* All soldiers, and all targets, but those of soldier k of q stay as they are.
OthersKept(q, k) ==
    \A p \in Players, s \in Troop : ~(p = q /\ s = k) =>
        soldiers'[p][s] = soldiers[p][s] /\ target'[p][s] = target[p][s]

\* No soldier but soldier k of q is done with its update by this step.
OthersWait(q, k) ==
    \A p \in Players, s \in Troop : ~(p = q /\ s = k) => (Updated(p, s)' => Updated(p, s))

LEMMA OneStep ==
    ASSUME GInv, NEW q, NEW k, OthersKept(q, k), OthersWait(q, k), SoldiersTyped',
           q \in Players /\ k \in Troop => SoldierPart(q, k)'
    PROVE  GInv'
<1>1. ASSUME NEW p \in Players, NEW s \in Troop PROVE SoldierPart(p, s)'
  <2>1. CASE p = q /\ s = k
    BY <2>1
  <2>2. CASE ~(p = q /\ s = k)
    <3>1. /\ soldiers'[p][s] = soldiers[p][s] /\ target'[p][s] = target[p][s]
          /\ Updated(p, s)' => Updated(p, s)
          /\ SoldierPart(p, s)
      BY <2>2, GParts DEF OthersKept, OthersWait
    <3>2. QED
      BY <3>1 DEF SoldierPart, DeadAreDown, OrdersExclude, NoneForgotten, Sees, HasTarget
  <2>3. QED
    BY <2>1, <2>2
<1>2. QED
  BY <1>1 DEF GInv, NeverBlind, SoldierPart, Sees

\* Soldier k of q becomes t, or gets "id" for its target.
Becomes(q, k, t) == soldiers' = [soldiers EXCEPT ![q][k] = t]
Aimed(q, k, id) == target' = [target EXCEPT ![q][k] = id]

LEMMA OneChanges ==
    ASSUME SoldiersTyped, NEW q \in Players, NEW k \in Troop, NEW t \in Soldier,
           t.damage <= t.hp, Becomes(q, k, t)
    PROVE  /\ SoldiersTyped'
           /\ soldiers'[q][k] = t
           /\ \A p \in Players, s \in Troop :
                 ~(p = q /\ s = k) => soldiers'[p][s] = soldiers[p][s]
<1>1. soldiers \in [Players -> [Troop -> Soldier]]
  BY DEF SoldiersTyped
<1>2. soldiers' \in [Players -> [Troop -> Soldier]]
  BY <1>1 DEF Becomes
<1>3. /\ soldiers'[q][k] = t
      /\ \A p \in Players, s \in Troop :
            ~(p = q /\ s = k) => soldiers'[p][s] = soldiers[p][s]
  BY <1>1 DEF Becomes
<1>4. \A p \in Players, s \in Troop : soldiers'[p][s].damage <= soldiers'[p][s].hp
  BY <1>3 DEF SoldiersTyped
<1>5. QED
  BY <1>2, <1>3, <1>4 DEF SoldiersTyped

LEMMA OneTarget ==
    ASSUME IInv, NEW q \in Players, NEW k \in Troop, NEW id, Aimed(q, k, id)
    PROVE  /\ target'[q][k] = id
           /\ \A p \in Players, s \in Troop :
                 ~(p = q /\ s = k) => target'[p][s] = target[p][s]
BY Parts DEF Shapes, Aimed

\* Steps that have nothing to do with the soldiers.
LEMMA ElsewhereStep ==
    ASSUME IInv, GInv, Elsewhere
    PROVE  Next /\ GInv'
<1>1. Next
  BY DEF Elsewhere, Next, SoldierTasks
<1>2. /\ soldiers' = soldiers /\ target' = target
      /\ phase' # "late"
      /\ phase' = "soldiers" => who' = 0 /\ cursor' = 0
  <2>1. soldiers' = soldiers
    BY DEF Elsewhere
  <2>2. CASE TowerTasks
    BY <2>1, <2>2 DEF TowerTasks, UpgradeTower, SuicideTower, EndLoop, NextPlayer
  <2>3. CASE \E seen \in Offsets : BuildTower(seen)
    BY <2>1, <2>3 DEF BuildTower
  <2>4. CASE EndLoop("soldierTasks", "update")
    BY <2>1, <2>4 DEF EndLoop, NextPlayer
  <2>5. CASE ManagerUpdate
    <3>1. phase = "update" /\ cursor = 0 /\ who \in Players /\ target' = target /\ cursor' = cursor
      <4>1. phase = "update" /\ target' = target /\ cursor' = cursor
        BY <2>5 DEF ManagerUpdate, HandleTowerBuildUpdates, HandleTowerUpgradeUpdates,
                    HandleTowerSuicideUpdates, HandleTowerDeathUpdates,
                    Building, Upgrading, Suiciding, Burying
      <4>2. QED
        BY <4>1, Parts DEF Emptied
    <3>2. CASE HandleTowerDeathUpdates
      BY <2>1, <3>1, <3>2 DEF HandleTowerDeathUpdates, Players
    <3>3. CASE ~HandleTowerDeathUpdates
      BY <2>1, <2>5, <3>1, <3>3
      DEF ManagerUpdate, HandleTowerBuildUpdates, HandleTowerUpgradeUpdates,
          HandleTowerSuicideUpdates
    <3>4. QED
      BY <3>2, <3>3
  <2>6. QED
    BY <2>2, <2>3, <2>4, <2>5 DEF Elsewhere
<1>3. ASSUME NEW p \in Players, NEW s \in Troop PROVE ~Updated(p, s)'
  <2>1. ~(p < 0) /\ ~(s <= 0)
    BY GameConstants DEF Players, Troop
  <2>2. QED
    BY <1>2, <2>1 DEF Updated
<1>4. OthersKept(who, Nobody) /\ OthersWait(who, Nobody)
  BY <1>2, <1>3 DEF OthersKept, OthersWait
<1>5. SoldiersTyped'
  BY <1>2, GParts DEF SoldiersTyped
<1>6. GInv'
  BY <1>4, <1>5, OneStep, GameConstants
<1>7. QED
  BY <1>1, <1>6

\* An order that a living soldier is given.
LEMMA OrdersStep ==
    ASSUME IInv, GInv, Orders
    PROVE  Next /\ GInv'
<1>1. PICK s \in Led[who] :
        \/ \E id \in 0 .. nextId - 1 : OrderAttackTower(s, id)
        \/ OrderMove(s)
        \/ \E victim \in Troop : OrderAttackSoldier(s, victim)
  BY DEF Orders
<1>2. who \in Players /\ s \in Troop
  BY <1>1, Parts, GameConstants
<1>3. PICK moving \in BOOLEAN, hunting \in {Nobody} \cup Troop, aim \in Nat \cup {NoTarget} :
        /\ Obeys(s) /\ Order(s, moving, hunting)
        /\ phase = "soldierTasks" /\ phase' = phase
        /\ target' = [target EXCEPT ![who][s] = aim]
        /\ moving \/ hunting # Nobody <=> aim = NoTarget
  <2>1. ASSUME NEW id \in 0 .. nextId - 1, OrderAttackTower(s, id)
        PROVE  /\ Obeys(s) /\ Order(s, FALSE, Nobody)
               /\ phase = "soldierTasks" /\ phase' = phase
               /\ target' = [target EXCEPT ![who][s] = id]
               /\ id \in Nat /\ id # NoTarget
    <3>1. id \in Nat /\ id # NoTarget
      BY Parts, Typed DEF NoTarget
    <3>2. QED
      BY <2>1, <3>1 DEF OrderAttackTower, AttackTower
  <2>2. CASE OrderMove(s)
    BY <2>2 DEF OrderMove, GoElsewhere
  <2>3. ASSUME NEW victim \in Troop, OrderAttackSoldier(s, victim)
        PROVE  /\ Obeys(s) /\ Order(s, FALSE, victim) /\ victim # Nobody
               /\ phase = "soldierTasks" /\ phase' = phase
               /\ target' = [target EXCEPT ![who][s] = NoTarget]
    BY <2>3, GameConstants DEF OrderAttackSoldier, GoElsewhere
  <2>4. QED
    BY <1>1, <2>1, <2>2, <2>3
<1>4. Next
  <2>1. (\E id \in 0 .. nextId - 1 : AttackTower(s, id)) \/ GoElsewhere(s)
    BY <1>1 DEF OrderAttackTower, OrderMove, OrderAttackSoldier
  <2>2. QED
    BY <1>2, <2>1 DEF Next, SoldierTasks
<1> DEFINE x == soldiers[who][s]
           t == [x EXCEPT !.moving = moving, !.hunting = hunting]
<1>5. /\ x \in Soldier /\ x.damage <= x.hp /\ x.hp # 0
      /\ SoldiersTyped /\ SoldierPart(who, s)
  BY <1>2, <1>3, GParts, SoldierFields DEF Obeys
<1>6. soldiers' = [soldiers EXCEPT ![who][s] = t]
  BY <1>2, <1>3, <1>5 DEF Order, SoldiersTyped
<1> HIDE DEF x
<1>7. /\ t \in Soldier /\ t.damage <= t.hp
      /\ t.state = x.state /\ t.hp = x.hp /\ t.moving = moving /\ t.hunting = hunting
  BY <1>3, <1>5 DEF Soldier
<1> HIDE DEF t
<1>8. /\ SoldiersTyped' /\ soldiers'[who][s] = t
      /\ target'[who][s] = aim
      /\ OthersKept(who, s)
  <2>1. Becomes(who, s, t) /\ Aimed(who, s, aim)
    BY <1>3, <1>6 DEF Becomes, Aimed
  <2>2. /\ SoldiersTyped' /\ soldiers'[who][s] = t
        /\ \A p \in Players, q \in Troop :
              ~(p = who /\ q = s) => soldiers'[p][q] = soldiers[p][q]
    BY <1>2, <1>5, <1>7, <2>1, OneChanges
  <2>3. /\ target'[who][s] = aim
        /\ \A p \in Players, q \in Troop :
              ~(p = who /\ q = s) => target'[p][q] = target[p][q]
    BY <1>2, <2>1, OneTarget
  <2>4. QED
    BY <2>2, <2>3 DEF OthersKept
<1>9. \A p \in Players, q \in Troop : ~Updated(p, q)'
  BY <1>3 DEF Updated
<1>10. ASSUME NEW q \in Players, q = who PROVE SoldierPart(q, s)'
  <2>1. x.state # "dead" /\ x.hp # 0 /\ (x.hp = 0 <=> x.state = "dead")
    BY <1>5 DEF SoldierPart, DeadAreDown, x
  <2>2. soldiers'[q][s] = t /\ target'[q][s] = aim
    BY <1>8, <1>10
  <2>3. DeadAreDown(q, s)' /\ OrdersExclude(q, s)'
    BY <1>3, <1>7, <2>1, <2>2 DEF DeadAreDown, OrdersExclude
  <2>4. NoneForgotten(q, s)'
    BY <1>2, <1>9 DEF NoneForgotten
  <2>5. Sees(q, s)'
    BY <1>3, <1>7, <2>2 DEF Sees, HasTarget
  <2>6. QED
    BY <2>3, <2>4, <2>5 DEF SoldierPart
<1>11. GInv'
  <2>1. OthersWait(who, s)
    BY <1>9 DEF OthersWait
  <2>2. PICK q \in Players : q = who
    BY <1>2
  <2>3. SoldierPart(q, s)' /\ OthersKept(q, s) /\ OthersWait(q, s)
    BY <1>8, <1>10, <2>1, <2>2
  <2>4. QED
    BY <1>2, <1>8, <2>3, OneStep
<1>12. QED
  BY <1>4, <1>11

-----------------------------------------------------------------------------
(* The updates of the soldiers.                                            *)

\* The state machine takes one step: a target is lost with the tower, or there
\* was none.
LEMMA ChangeStateStep ==
    ASSUME IInv, GInv, NEW new, ChangeState(new)
    PROVE  [Next]_vars /\ GInv'
<1> DEFINE x == soldiers[who][Current]
           t == Changed(x, new)
           left == TargetAfter(who, Current, new)
           old == target[who][Current]
<1>1. /\ phase = "soldiers"
      /\ new \in NewStates(who, Current) /\ new # "same"
      /\ target' = [target EXCEPT ![who][Current] = left]
      /\ UNCHANGED <<stateVars, budget, phase, who, cursor>>
  BY DEF ChangeState, Updating
<1>2. /\ who \in Players /\ Current \in Troop
      /\ SoldiersTyped /\ SoldierPart(who, Current)
      /\ target \in [Players -> [Troop -> Nat \cup {NoTarget}]]
  <2>1. cursor \in Nat /\ cursor < NumSoldiers /\ NumSoldiers \in Nat
    BY <1>1, Parts, Typed, GameConstants DEF InTroop
  <2>2. Current \in Troop
    BY <2>1 DEF Current, Troop
  <2>3. QED
    BY <2>2, Parts, GParts DEF Shapes
<1>3. soldiers' = [soldiers EXCEPT ![who][Current] = t]
  BY <1>2 DEF ChangeState, SoldiersTyped
<1>4. /\ x \in Soldier /\ x.damage <= x.hp /\ x.hp \in Nat
      /\ x.state \in {"idle", "move", "attack", "pursuit", "dead"}
      /\ x.moving \in BOOLEAN
      /\ x.hp = 0 <=> x.state = "dead"
      /\ x.state = "dead" => old = NoTarget
      /\ x.moving \/ x.hunting # Nobody => old = NoTarget
      /\ Sees(who, Current)
  BY <1>2, SoldierFields DEF SoldierPart, DeadAreDown, OrdersExclude
<1>5. /\ new \in {"idle", "move", "attack", "pursuit"}
      /\ x.state = "dead" => new = "idle"
      /\ x.state = "idle" /\ x.moving => new = "move"
      /\ x.state = "idle" => x.moving \/ (HasTarget(who, Current) /\ new \in {"attack", "pursuit"})
      /\ x.state = "move" =>
            \/ HasTarget(who, Current) /\ new \in {"attack", "pursuit"}
            \/ ~HasTarget(who, Current) /\ new = "idle"
      /\ x.state \in {"attack", "pursuit"} =>
            \/ x.moving /\ new = "move"
            \/ ~x.moving /\ TargetHasDied(who, Current) /\ new = "idle"
            \/ ~x.moving /\ ~TargetHasDied(who, Current) /\ new \in {"attack", "pursuit"}
  BY <1>1, <1>2, <1>4, Transitions DEF SoldierPart
<1>6. HasTarget(who, Current) <=> x.hunting # Nobody \/ old # NoTarget
  BY DEF HasTarget
<1>7. left = IF x.state = "dead" \/ (x.state \in {"attack", "pursuit"} /\ new \notin {"attack", "pursuit"})
             THEN NoTarget ELSE old
  BY DEF TargetAfter
<1>8. x.state \in {"attack", "pursuit"} /\ x.hp > 0 /\ ~x.moving => x.hunting # Nobody \/ old # NoTarget
  BY <1>4, <1>6 DEF Sees
<1>9. x.hunting = Nobody /\ TargetHasDied(who, Current) => TargetIsDead(who, Current)
  BY DEF TargetHasDied
<1> HIDE DEF x, left, old
<1>10. /\ t \in Soldier /\ t.damage <= t.hp
       /\ t.state = new
       /\ t.hp # 0
       /\ x.state = "dead" => ~t.moving /\ t.hunting = Nobody
       /\ x.state = "idle" => t.moving = x.moving /\ t.hunting = x.hunting
       /\ x.state = "move" => ~t.moving /\ t.hunting = x.hunting
       /\ x.state \in {"attack", "pursuit"} =>
             /\ t.moving = x.moving
             /\ t.hunting = IF new \in {"attack", "pursuit"} THEN x.hunting ELSE Nobody
  <2>1. CASE x.state = "dead"
    <3>1. t = [Recruit EXCEPT !.shield = ShieldTurns + 1]
      BY <2>1 DEF Changed
    <3>2. new = "idle" /\ ShieldTurns + 1 \in Nat /\ SoldierHp \in Nat /\ SoldierHp > 0
      BY <1>5, <2>1, GameConstants
    <3>3. t = [state |-> "idle", hp |-> SoldierHp, damage |-> 0, moving |-> FALSE,
               hunting |-> Nobody, down |-> 0, shield |-> ShieldTurns + 1]
      BY <3>1 DEF Recruit
    <3> HIDE DEF t
    <3>4. QED
      BY <2>1, <3>2, <3>3 DEF Soldier
  <2>2. CASE x.state = "idle"
    <3>1. t = [x EXCEPT !.state = new]
      BY <2>2 DEF Changed
    <3> HIDE DEF t
    <3>2. QED
      BY <1>4, <1>5, <2>2, <3>1 DEF Soldier
  <2>3. CASE x.state = "move"
    <3>1. t = [x EXCEPT !.state = new, !.moving = FALSE]
      BY <2>3 DEF Changed
    <3> HIDE DEF t
    <3>2. QED
      BY <1>4, <1>5, <2>3, <3>1 DEF Soldier
  <2>4. CASE x.state \in {"attack", "pursuit"}
    <3> DEFINE prey == IF new \in {"attack", "pursuit"} THEN x.hunting ELSE Nobody
    <3>1. t = [x EXCEPT !.state = new, !.hunting = prey]
      BY <2>4 DEF Changed
    <3>2. prey \in {Nobody} \cup Troop
      BY <1>4 DEF Soldier
    <3>3. x.state \notin {"dead", "idle", "move"}
      BY <2>4
    <3> HIDE DEF t, prey
    <3>4. /\ t \in Soldier /\ t.damage <= t.hp /\ t.state = new /\ t.hp # 0
          /\ t.moving = x.moving /\ t.hunting = prey
      BY <1>4, <1>5, <3>1, <3>2, <3>3 DEF Soldier
    <3>5. QED
      BY <3>3, <3>4 DEF prey
  <2>5. QED
    BY <1>4, <2>1, <2>2, <2>3, <2>4
<1> HIDE DEF t
<1>11. /\ SoldiersTyped' /\ soldiers'[who][Current] = t
       /\ target'[who][Current] = left
       /\ OthersKept(who, Current)
  <2>1. Becomes(who, Current, t) /\ Aimed(who, Current, left)
    BY <1>1, <1>3 DEF Becomes, Aimed
  <2>2. /\ SoldiersTyped' /\ soldiers'[who][Current] = t
        /\ \A p \in Players, s \in Troop :
              ~(p = who /\ s = Current) => soldiers'[p][s] = soldiers[p][s]
    BY <1>2, <1>10, <2>1, OneChanges
  <2>3. /\ target'[who][Current] = left
        /\ \A p \in Players, s \in Troop :
              ~(p = who /\ s = Current) => target'[p][s] = target[p][s]
    BY <1>2, <2>1, OneTarget
  <2>4. QED
    BY <2>2, <2>3 DEF OthersKept
<1>12. [Next]_vars
  <2>1. CASE left = old
    <3>1. target' = target
      BY <1>1, <1>2, <2>1 DEF old
    <3>2. QED
      BY <1>1, <3>1 DEF vars
  <2>2. CASE left # old
    <3>1. /\ left = NoTarget /\ old # NoTarget
          /\ x.state \in {"attack", "pursuit"} /\ new \notin {"attack", "pursuit"}
      BY <1>4, <1>7, <2>2 DEF old
    <3>2. ~x.moving /\ x.hunting = Nobody /\ TargetHasDied(who, Current)
      BY <1>4, <1>5, <3>1
    <3>3. DropTarget
      BY <1>1, <1>9, <3>1, <3>2 DEF DropTarget, old
    <3>4. QED
      BY <3>3 DEF Next, SoldiersUpdate
  <2>3. QED
    BY <2>1, <2>2
<1>13. (Current)' = Current /\ who' = who /\ phase' = phase /\ cursor' = cursor
  BY <1>1 DEF Current
<1>14. OthersWait(who, Current)
  BY <1>13 DEF OthersWait, Updated
<1>15. ASSUME NEW q, NEW k, q = who, k = Current PROVE SoldierPart(q, k)'
  <2>1. soldiers'[q][k] = t /\ target'[q][k] = left
    BY <1>11, <1>15
  <2>2. DeadAreDown(q, k)'
    BY <1>5, <1>10, <2>1 DEF DeadAreDown
  <2>3. OrdersExclude(q, k)'
    BY <1>4, <1>5, <1>7, <1>10, <2>1 DEF OrdersExclude
  <2>4. NoneForgotten(q, k)'
    <3>1. ~Updated(q, k)'
      <4>1. cursor \in Nat /\ who \in Nat
        BY Parts, Typed DEF Players
      <4>2. ~(cursor + 1 <= cursor) /\ ~(who < who)
        BY <4>1
      <4>3. QED
        BY <1>1, <1>13, <1>15, <4>2 DEF Updated, Current
    <3>2. QED
      BY <3>1 DEF NoneForgotten
  <2>5. Sees(q, k)'
    <3>1. SUFFICES ASSUME new \in {"attack", "pursuit"}, ~t.moving
                   PROVE  t.hunting # Nobody \/ left # NoTarget
      BY <1>10, <2>1 DEF Sees, HasTarget
    <3>2. x.state # "dead" /\ left = old /\ t.hunting = x.hunting
      BY <1>4, <1>5, <1>7, <1>10, <3>1
    <3>3. CASE x.state \in {"idle", "move"}
      BY <1>4, <1>5, <1>6, <1>10, <3>1, <3>2, <3>3
    <3>4. CASE x.state \in {"attack", "pursuit"}
      <4>1. ~x.moving /\ x.hp > 0
        BY <1>4, <1>10, <3>1, <3>4
      <4>2. QED
        BY <1>8, <3>2, <3>4, <4>1
    <3>5. QED
      BY <1>4, <3>2, <3>3, <3>4
  <2>6. QED
    BY <2>2, <2>3, <2>4, <2>5 DEF SoldierPart
<1>16. GInv'
  <2>1. \A q, k : q = who /\ k = Current => SoldierPart(q, k)'
    BY <1>15
  <2>2. \E q \in Players, k \in Troop : q = who /\ k = Current
    BY <1>2
  <2>3. PICK q \in Players, k \in Troop : q = who /\ k = Current
    BY <2>2
  <2>4. SoldierPart(q, k)' /\ OthersKept(q, k) /\ OthersWait(q, k)
    BY <1>11, <1>14, <2>1, <2>3
  <2>5. QED
    BY <1>11, <2>4, OneStep
<1>17. QED
  BY <1>12, <1>16

\* Nothing that the invariant looks at changes in any soldier.
SameDoings ==
    \A p \in Players, s \in Troop :
        /\ soldiers'[p][s].state = soldiers[p][s].state
        /\ soldiers'[p][s].hp = soldiers[p][s].hp
        /\ soldiers'[p][s].moving = soldiers[p][s].moving
        /\ soldiers'[p][s].hunting = soldiers[p][s].hunting

\* The soldier whose turn it is, and what is known of it.
LEMMA CurrentFacts ==
    ASSUME IInv, GInv, phase \in {"soldiers", "late"}
    PROVE  /\ who \in Players /\ Current \in Troop
           /\ SoldiersTyped /\ SoldierPart(who, Current)
           /\ target \in [Players -> [Troop -> Nat \cup {NoTarget}]]
<1>1. cursor \in Nat /\ cursor < NumSoldiers /\ NumSoldiers \in Nat
  BY Parts, Typed, GameConstants DEF InTroop
<1>2. Current \in Troop
  BY <1>1 DEF Current, Troop
<1>3. QED
  BY <1>2, Parts, GParts DEF Shapes

\* The update of a soldier is over: it does not wait for orders with a target.
LEMMA UpdateIsOver ==
    ASSUME IInv, GInv, phase = "soldiers", NextSoldier("late"), target' = target,
           SoldiersTyped', SameDoings,
           soldiers[who][Current].state \in {"idle", "move"} => target[who][Current] = NoTarget
    PROVE  GInv'
<1>1. ASSUME NEW p \in Players, NEW s \in Troop, Updated(p, s)'
      PROVE  Updated(p, s) \/ (p = who /\ s = Current)
  <2>1. /\ cursor \in Nat /\ who \in Players /\ s \in Nat /\ NumSoldiers \in Nat
        /\ 1 <= s /\ s <= NumSoldiers /\ Current = cursor + 1
        /\ \/ cursor' = Current /\ phase' = phase /\ who' = who
           \/ cursor' = 0 /\ who = 0 /\ who' = 1 /\ phase' = phase /\ Current = NumSoldiers
           \/ cursor' = 0 /\ who = 1 /\ who' = 0 /\ phase' = "late" /\ Current = NumSoldiers
    BY Parts, Typed, NextSoldierFacts, GameConstants DEF Current, Troop
  <2>2. CASE cursor' = Current /\ phase' = phase /\ who' = who
    <3>1. p < who \/ (p = who /\ s <= cursor + 1)
      BY <1>1, <2>1, <2>2 DEF Updated
    <3>2. CASE p < who
      BY <3>2 DEF Updated
    <3>3. CASE p = who /\ s <= cursor + 1
      <4>1. s <= cursor \/ s = Current
        BY <2>1, <3>3
      <4>2. QED
        BY <3>3, <4>1 DEF Updated
    <3>4. QED
      BY <3>1, <3>2, <3>3
  <2>3. CASE cursor' = 0 /\ who = 0 /\ who' = 1 /\ phase' = phase /\ Current = NumSoldiers
    <3>1. p < 1 \/ s <= 0
      BY <1>1, <2>3 DEF Updated
    <3>2. p = who
      BY <2>1, <2>3, <3>1 DEF Players
    <3>3. s <= cursor \/ s = Current
      BY <2>1, <2>3
    <3>4. QED
      BY <3>2, <3>3 DEF Updated
  <2>4. CASE cursor' = 0 /\ who = 1 /\ who' = 0 /\ phase' = "late" /\ Current = NumSoldiers
    <3>1. p < who \/ p = who
      BY <2>4 DEF Players
    <3>2. s <= cursor \/ s = Current
      BY <2>1, <2>4
    <3>3. QED
      BY <3>1, <3>2 DEF Updated
  <2>5. QED
    BY <2>1, <2>2, <2>3, <2>4
<1>2. ASSUME NEW p \in Players, NEW s \in Troop PROVE SoldierPart(p, s)'
  <2>1. SoldierPart(p, s)
    BY GParts
  <2>2. DeadAreDown(p, s)' /\ OrdersExclude(p, s)' /\ Sees(p, s)'
    BY <2>1 DEF SameDoings, SoldierPart, DeadAreDown, OrdersExclude, Sees, HasTarget
  <2>3. NoneForgotten(p, s)'
    <3>1. SUFFICES ASSUME Updated(p, s)', soldiers[p][s].state \in {"idle", "move"}
                   PROVE  target[p][s] = NoTarget
      BY DEF SameDoings, NoneForgotten
    <3>2. CASE Updated(p, s)
      BY <2>1, <3>1, <3>2 DEF SoldierPart, NoneForgotten
    <3>3. CASE p = who /\ s = Current
      BY <3>1, <3>3
    <3>4. QED
      BY <1>1, <3>1, <3>2, <3>3
  <2>4. QED
    BY <2>2, <2>3 DEF SoldierPart
<1>3. QED
  BY <1>2 DEF GInv, NeverBlind, SoldierPart, Sees

\* The next soldier: this one has no target or sees it alive.
LEMMA EndUpdateStep ==
    ASSUME IInv, GInv, EndUpdate, phase = "soldiers", SoldiersTyped', SameDoings,
           soldiers[who][Current].state \in {"idle", "move"} => target[who][Current] = NoTarget,
           target[who][Current] = NoTarget \/ ~TargetIsDead(who, Current)
    PROVE  Next /\ GInv'
<1>1. PassOn
  BY DEF PassOn, EndUpdate
<1>2. Next
  BY <1>1 DEF Next, SoldiersUpdate
<1>3. NextSoldier("late") /\ target' = target
  BY DEF EndUpdate
<1>4. QED
  BY <1>2, <1>3, UpdateIsOver

\* Nothing to do, or on the way.
LEMMA PassStep ==
    ASSUME IInv, GInv, Pass
    PROVE  Next /\ GInv'
<1> DEFINE x == soldiers[who][Current]
           down == IF x.state = "dead" THEN x.down - 1 ELSE x.down
           t == [x EXCEPT !.down = down]
<1>1. phase = "soldiers" /\ "same" \in NewStates(who, Current) /\ x.state # "attack" /\ EndUpdate
  BY DEF Pass, Updating
<1>2. /\ who \in Players /\ Current \in Troop /\ SoldiersTyped /\ SoldierPart(who, Current)
      /\ x \in Soldier /\ x.down \in Nat /\ x.damage <= x.hp
      /\ x.state \in {"idle", "move", "attack", "pursuit", "dead"}
      /\ x.moving \in BOOLEAN
  BY <1>1, CurrentFacts, SoldierFields
<1>3. soldiers' = [soldiers EXCEPT ![who][Current] = t]
  <2>1. soldiers' = [soldiers EXCEPT ![who][Current].down =
                        IF x.state = "dead" THEN @ - 1 ELSE @]
    BY DEF Pass
  <2>2. QED
    BY <1>2, <2>1 DEF SoldiersTyped
<1>4. x.state = "dead" => x.down # 0
  <2>1. x.state = "dead" => NewStates(who, Current) = IF x.down = 0 THEN {"idle"} ELSE {"same"}
    BY DEF NewStates
  <2>2. QED
    BY <1>1, <2>1
<1>5. /\ x.state \in {"idle", "move"} => ~HasTarget(who, Current)
      /\ x.state = "pursuit" => ~TargetHasDied(who, Current)
      /\ x.state = "dead" => target[who][Current] = NoTarget
      /\ x.hunting # Nobody => target[who][Current] = NoTarget
  <2>1. DeadAreDown(who, Current) /\ OrdersExclude(who, Current)
    BY <1>2 DEF SoldierPart
  <2>2. /\ x.state = "idle" => ~x.moving /\ ~HasTarget(who, Current)
        /\ x.state = "move" => ~HasTarget(who, Current)
        /\ x.state = "pursuit" => ~x.moving /\ ~TargetHasDied(who, Current)
    BY <1>1, <1>2, <2>1, Transitions
  <2>3. QED
    BY <2>1, <2>2 DEF DeadAreDown, OrdersExclude
<1>6. x.state \in {"idle", "move"} => target[who][Current] = NoTarget
  BY <1>5 DEF HasTarget
<1>7. target[who][Current] = NoTarget \/ ~TargetIsDead(who, Current)
  BY <1>1, <1>2, <1>5, <1>6 DEF TargetHasDied
<1>8. t \in Soldier /\ t.damage <= t.hp
      /\ t.state = x.state /\ t.hp = x.hp /\ t.moving = x.moving /\ t.hunting = x.hunting
  <2> HIDE DEF x
  <2>1. down \in Nat
    BY <1>2, <1>4
  <2> HIDE DEF down
  <2>2. QED
    BY <1>2, <2>1 DEF Soldier
<1>9. SoldiersTyped' /\ SameDoings
  <2> HIDE DEF t
  <2>1. /\ SoldiersTyped' /\ soldiers'[who][Current] = t
        /\ \A p \in Players, s \in Troop :
              ~(p = who /\ s = Current) => soldiers'[p][s] = soldiers[p][s]
    <3>1. Becomes(who, Current, t)
      BY <1>3 DEF Becomes
    <3>2. QED
      BY <1>2, <1>8, <3>1, OneChanges
  <2>2. QED
    BY <1>8, <2>1 DEF SameDoings
<1>10. QED
  BY <1>1, <1>6, <1>7, <1>9, EndUpdateStep

\* A blow at a tower.
LEMMA StrikeTowerStep ==
    ASSUME IInv, GInv, StrikeTower
    PROVE  Next /\ GInv'
<1>1. /\ phase = "soldiers" /\ soldiers[who][Current].state = "attack"
      /\ Strike /\ soldiers' = soldiers
  BY DEF StrikeTower, Attacks, Updating
<1>2. Next
  BY <1>1 DEF Next, SoldiersUpdate
<1>3. NextSoldier("late") /\ target' = target
  BY <1>1 DEF Strike
<1>4. SoldiersTyped' /\ SameDoings
  BY <1>1, GParts DEF SoldiersTyped, SameDoings
<1>5. QED
  BY <1>1, <1>2, <1>3, <1>4, UpdateIsOver

\* Damage never exceeds the health that is left.
LEMMA MinFacts ==
    ASSUME NEW m \in Nat, NEW n \in Nat
    PROVE  Min({m, n}) \in Nat /\ Min({m, n}) <= m
<1>1. \E x \in {m, n} : \A y \in {m, n} : x <= y
  <2>1. CASE m <= n
    BY <2>1
  <2>2. CASE n <= m
    BY <2>2
  <2>3. QED
    BY <2>1, <2>2
<1>2. Min({m, n}) \in {m, n} /\ \A y \in {m, n} : Min({m, n}) <= y
  BY <1>1 DEF Min
<1>3. QED
  BY <1>2

\* A blow at a soldier.
LEMMA StrikeSoldierStep ==
    ASSUME IInv, GInv, StrikeSoldier
    PROVE  Next /\ GInv'
<1> DEFINE e == Enemy(who)
           v == soldiers[who][Current].hunting
           victim == soldiers[e][v]
           harm == Min({victim.hp, victim.damage + AttackDamage})
           t == [victim EXCEPT !.damage = harm]
<1>1. /\ phase = "soldiers"
      /\ soldiers[who][Current].state = "attack" /\ v # Nobody
      /\ soldiers' = [soldiers EXCEPT ![e][v].damage = harm]
      /\ KillSoldier \/ EndUpdate
  BY DEF StrikeSoldier, Attacks, Updating, Prey
<1>2. /\ who \in Players /\ Current \in Troop /\ e \in Players /\ v \in Troop
      /\ SoldiersTyped /\ SoldierPart(who, Current)
  BY <1>1, CurrentFacts, SoldierFields, Enemies
<1>3. /\ victim \in Soldier /\ victim.hp \in Nat /\ victim.damage \in Nat
      /\ victim.damage <= victim.hp /\ AttackDamage \in Nat
  BY <1>2, SoldierFields, GameConstants
<1>4. target[who][Current] = NoTarget
  BY <1>1, <1>2 DEF SoldierPart, OrdersExclude
<1>5. harm \in Nat /\ harm <= victim.hp
  <2> HIDE DEF victim
  <2>1. victim.damage + AttackDamage \in Nat
    BY <1>3
  <2>2. QED
    BY <1>3, <2>1, MinFacts
<1>6. soldiers' = [soldiers EXCEPT ![e][v] = t]
  <2> HIDE DEF harm
  <2>1. QED
    BY <1>1, <1>2 DEF SoldiersTyped
<1>7. /\ t \in Soldier /\ t.damage <= t.hp
      /\ t.state = victim.state /\ t.hp = victim.hp
      /\ t.moving = victim.moving /\ t.hunting = victim.hunting
  <2> HIDE DEF harm, victim
  <2>1. QED
    BY <1>3, <1>5 DEF Soldier
<1>8. SoldiersTyped' /\ SameDoings
  <2> HIDE DEF t, e, v
  <2>1. /\ SoldiersTyped' /\ soldiers'[e][v] = t
        /\ \A p \in Players, s \in Troop :
              ~(p = e /\ s = v) => soldiers'[p][s] = soldiers[p][s]
    <3>1. Becomes(e, v, t)
      BY <1>6 DEF Becomes
    <3>2. QED
      BY <1>2, <1>7, <3>1, OneChanges
  <2>2. QED
    BY <1>7, <2>1 DEF SameDoings
<1> HIDE DEF t, e, v
<1>9. CASE KillSoldier
  <2>1. Next
    BY <1>9 DEF Next, SoldiersUpdate
  <2>2. NextSoldier("late") /\ target' = target
    BY <1>9 DEF KillSoldier
  <2>3. QED
    BY <1>1, <1>4, <1>8, <2>1, <2>2, UpdateIsOver
<1>10. CASE EndUpdate
  BY <1>1, <1>4, <1>8, <1>10, EndUpdateStep
<1>11. QED
  BY <1>1, <1>9, <1>10

\* A count that goes down to zero.
LEMMA MaxFacts == \A n \in Nat : Max({0, n - 1}) \in Nat
<1>1. SUFFICES ASSUME NEW n \in Nat PROVE Max({0, n - 1}) \in Nat
  OBVIOUS
<1>2. \E x \in {0, n - 1} : \A y \in {0, n - 1} : x >= y
  <2>1. CASE n = 0
    BY <2>1
  <2>2. CASE n > 0
    BY <2>2
  <2>3. QED
    BY <2>1, <2>2
<1>3. Max({0, n - 1}) \in {0, n - 1} /\ \A y \in {0, n - 1} : Max({0, n - 1}) >= y
  BY <1>2 DEF Max
<1>4. QED
  BY <1>3

\* The late update: the damage counts, and who has no health left is dead.
LEMMA LateUpdateSoldierStep ==
    ASSUME IInv, GInv, LateUpdateSoldier
    PROVE  Next /\ GInv'
<1> DEFINE x == soldiers[who][Current]
           old == target[who][Current]
           left == IF IsInvulnerable(x) THEN x.hp ELSE LatestHp(x)
           later == [x EXCEPT !.hp = left, !.damage = 0, !.shield = Max({0, @ - 1})]
           dies == left = 0 /\ x.state # "dead"
           t == IF dies THEN [Changed(later, "dead") EXCEPT !.down = RespawnTurns - 1] ELSE later
           lost == IF dies THEN TargetAfter(who, Current, "dead") ELSE old
<1>1. /\ phase = "late"
      /\ soldiers' = [soldiers EXCEPT ![who][Current] = t]
      /\ NextSoldier("towerTasks")
      /\ budget' = IF phase' = "towerTasks" THEN money ELSE budget
      /\ UNCHANGED stateVars
  BY DEF LateUpdateSoldier
<1>2. /\ who \in Players /\ Current \in Troop
      /\ SoldiersTyped /\ SoldierPart(who, Current)
      /\ target \in [Players -> [Troop -> Nat \cup {NoTarget}]]
  BY <1>1, CurrentFacts
<1>3. target' = [target EXCEPT ![who][Current] = lost]
  <2>1. target' = [target EXCEPT ![who][Current] =
                     IF dies THEN TargetAfter(who, Current, "dead") ELSE @]
    BY DEF LateUpdateSoldier
  <2> HIDE DEF dies
  <2>2. QED
    BY <1>2, <2>1
<1>4. /\ x \in Soldier /\ x.damage \in Nat /\ x.damage <= x.hp /\ x.hp \in Nat /\ x.hp <= SoldierHp
      /\ x.shield \in Nat /\ SoldierHp \in Nat
      /\ x.state \in {"idle", "move", "attack", "pursuit", "dead"}
      /\ x.hp = 0 <=> x.state = "dead"
      /\ x.state = "dead" => old = NoTarget
      /\ x.moving \/ x.hunting # Nobody => old = NoTarget
      /\ x.state \in {"idle", "move"} => old = NoTarget
  BY <1>1, <1>2, SoldierFields, GameConstants
  DEF SoldierPart, DeadAreDown, OrdersExclude, NoneForgotten, Updated
<1>5. x.state \in {"attack", "pursuit"} /\ x.hp > 0 /\ ~x.moving => x.hunting # Nobody \/ old # NoTarget
  BY <1>2 DEF SoldierPart, Sees, HasTarget
<1>6. TargetAfter(who, Current, "dead") =
         IF x.state \in {"dead", "attack", "pursuit"} THEN NoTarget ELSE old
  BY DEF TargetAfter
<1> HIDE DEF x, old
<1>7. /\ later \in Soldier /\ later.damage <= later.hp /\ later.hp = left
      /\ left \in Nat /\ left <= x.hp
      /\ later.state = x.state /\ later.moving = x.moving /\ later.hunting = x.hunting
  <2> DEFINE sh == Max({0, x.shield - 1})
  <2>1. sh \in Nat
    BY <1>4, MaxFacts
  <2>2. left \in Nat /\ left <= x.hp /\ left \in 0 .. SoldierHp
    BY <1>4 DEF LatestHp
  <2> HIDE DEF left
  <2>3. later = [x EXCEPT !.hp = left, !.damage = 0, !.shield = sh]
    OBVIOUS
  <2> HIDE DEF sh, later
  <2>4. /\ later.hp = left /\ later.damage = 0
        /\ later.state = x.state /\ later.moving = x.moving /\ later.hunting = x.hunting
    BY <1>4, <2>3 DEF Soldier
  <2>5. later \in Soldier
    BY <1>4, <2>1, <2>2, <2>3 DEF Soldier
  <2>6. QED
    BY <2>2, <2>4, <2>5
<1>8. /\ t \in Soldier /\ t.damage <= t.hp
      /\ t.hp = left
      /\ t.state = IF dies THEN "dead" ELSE x.state
      /\ dies => lost = NoTarget
      /\ ~dies => /\ lost = old
                  /\ t.moving = x.moving /\ t.hunting = x.hunting
  <2>1. CASE ~dies
    <3>1. t = later /\ lost = old
      BY <2>1
    <3> HIDE DEF t, later, left, lost
    <3>2. QED
      BY <1>7, <2>1, <3>1
  <2>2. CASE dies
    <3> DEFINE c == Changed(later, "dead")
    <3>1. t = [c EXCEPT !.down = RespawnTurns - 1] /\ lost = TargetAfter(who, Current, "dead")
      BY <2>2
    <3>2. lost = NoTarget
      <4>1. x.state # "dead"
        BY <2>2
      <4> HIDE DEF t, lost, dies
      <4>2. QED
        BY <1>4, <1>6, <3>1, <4>1
    <3>3. c \in Soldier /\ c.damage <= c.hp /\ c.hp = left /\ c.state = "dead"
      <4>0. Nobody \in {Nobody} \cup Troop /\ x.state # "dead"
        BY <2>2
      <4> HIDE DEF later, left, dies
      <4>1. CASE x.state = "idle"
        BY <1>7, <4>1 DEF Changed, Soldier
      <4>2. CASE x.state = "move"
        BY <1>7, <4>2 DEF Changed, Soldier
      <4>3. CASE x.state \in {"attack", "pursuit"}
        <5>1. later.state \in {"attack", "pursuit"} /\ later.state \notin {"dead", "move"}
          BY <1>7, <4>3
        <5>2. c = [later EXCEPT !.state = "dead", !.hunting = Nobody]
          BY <5>1 DEF Changed
        <5> HIDE DEF c
        <5>3. QED
          BY <1>7, <4>0, <5>2 DEF Soldier
      <4>4. QED
        BY <1>4, <4>0, <4>1, <4>2, <4>3
    <3>4. RespawnTurns - 1 \in Nat
      BY GameConstants
    <3> HIDE DEF c, t, later, left, lost
    <3>5. QED
      BY <2>2, <3>1, <3>2, <3>3, <3>4 DEF Soldier
  <2>3. QED
    BY <2>1, <2>2
<1>9. left = 0 <=> t.state = "dead"
  <2>1. dies <=> left = 0 /\ x.state # "dead"
    OBVIOUS
  <2> HIDE DEF dies, t, left, lost, later
  <2>2. QED
    BY <1>4, <1>7, <1>8, <2>1
<1> HIDE DEF t, lost, dies, later, left
<1>10. /\ SoldiersTyped' /\ soldiers'[who][Current] = t
       /\ target'[who][Current] = lost
       /\ OthersKept(who, Current)
  <2>1. Becomes(who, Current, t) /\ Aimed(who, Current, lost)
    BY <1>1, <1>3 DEF Becomes, Aimed
  <2>2. /\ SoldiersTyped' /\ soldiers'[who][Current] = t
        /\ \A p \in Players, s \in Troop :
              ~(p = who /\ s = Current) => soldiers'[p][s] = soldiers[p][s]
    BY <1>2, <1>8, <2>1, OneChanges
  <2>3. /\ target'[who][Current] = lost
        /\ \A p \in Players, s \in Troop :
              ~(p = who /\ s = Current) => target'[p][s] = target[p][s]
    BY <1>2, <2>1, OneTarget
  <2>4. QED
    BY <2>2, <2>3 DEF OthersKept
<1>11. Next
  <2>1. target' \in {target, [target EXCEPT ![who][Current] = NoTarget]}
    <3>1. CASE dies
      BY <1>3, <1>8, <3>1
    <3>2. CASE ~dies
      <4>1. target' = target
        BY <1>2, <1>3, <1>8, <3>2 DEF old
      <4>2. QED
        BY <4>1
    <3>3. QED
      BY <3>1, <3>2
  <2>2. LateUpdate
    BY <1>1, <2>1 DEF LateUpdate
  <2>3. QED
    BY <2>2 DEF Next, SoldiersUpdate
<1>12. OthersWait(who, Current)
  BY <1>1 DEF OthersWait, Updated
<1>13. ASSUME NEW q \in Players, NEW k \in Troop, q = who, k = Current PROVE SoldierPart(q, k)'
  <2>1. soldiers'[q][k] = t /\ target'[q][k] = lost
    BY <1>10, <1>13
  <2>2. DeadAreDown(q, k)'
    <3>1. t.state = "dead" => lost = NoTarget
      BY <1>4, <1>8
    <3>2. QED
      BY <1>8, <1>9, <2>1, <3>1 DEF DeadAreDown
  <2>3. OrdersExclude(q, k)'
    BY <1>4, <1>8, <2>1 DEF OrdersExclude
  <2>4. NoneForgotten(q, k)'
    BY <1>4, <1>8, <2>1 DEF NoneForgotten
  <2>5. Sees(q, k)'
    <3>1. SUFFICES ASSUME t.state \in {"attack", "pursuit"}, ~t.moving
                   PROVE  t.hunting # Nobody \/ lost # NoTarget
      BY <2>1 DEF Sees, HasTarget
    <3>2. /\ x.state \in {"attack", "pursuit"} /\ ~x.moving
          /\ t.hunting = x.hunting /\ lost = old
      BY <1>8, <3>1
    <3>3. x.hp > 0
      BY <1>4, <3>2
    <3>4. QED
      BY <1>5, <3>2, <3>3
  <2>6. QED
    BY <2>2, <2>3, <2>4, <2>5 DEF SoldierPart
<1>14. GInv'
  <2>1. PICK q \in Players, k \in Troop : q = who /\ k = Current
    BY <1>2
  <2>2. SoldierPart(q, k)' /\ OthersKept(q, k) /\ OthersWait(q, k)
    BY <1>10, <1>12, <1>13, <2>1
  <2>3. QED
    BY <1>10, <2>2, OneStep
<1>15. QED
  BY <1>11, <1>14

-----------------------------------------------------------------------------
(* The theorems.                                                           *)

LEMMA GameInitInv ==
    ASSUME GameInit
    PROVE  GInv
<1>1. /\ soldiers = [p \in Players |-> [s \in Troop |-> Recruit]] /\ phase = "towerTasks"
      /\ target = [p \in Players |-> [s \in Troop |-> NoTarget]]
  BY DEF GameInit, Init
<1>2. Recruit \in Soldier
  BY GameConstants DEF Recruit, Soldier
<1>3. SoldiersTyped
  BY <1>1, <1>2, GameConstants DEF SoldiersTyped, Recruit
<1>4. ASSUME NEW p \in Players, NEW s \in Troop PROVE SoldierPart(p, s)
  <2>1. soldiers[p][s] = Recruit /\ target[p][s] = NoTarget
    BY <1>1
  <2>2. QED
    BY <2>1, GameConstants
    DEF Recruit, SoldierPart, DeadAreDown, OrdersExclude, NoneForgotten, Sees
<1>5. QED
  BY <1>3, <1>4, GParts

LEMMA GameStep ==
    ASSUME IInv, GInv, [GameNext]_gameVars
    PROVE  [Next]_vars /\ GInv'
<1>1. CASE GameNext
  <2>1. CASE Elsewhere
    BY <2>1, ElsewhereStep
  <2>2. CASE Orders
    BY <2>2, OrdersStep
  <2>3. CASE UpdateSoldier
    BY <2>3, ChangeStateStep, PassStep, StrikeTowerStep, StrikeSoldierStep
    DEF UpdateSoldier
  <2>4. CASE LateUpdateSoldier
    BY <2>4, LateUpdateSoldierStep
  <2>5. QED
    BY <1>1, <2>1, <2>2, <2>3, <2>4 DEF GameNext
<1>2. CASE UNCHANGED gameVars
  <2>1. UNCHANGED vars /\ soldiers' = soldiers /\ UNCHANGED <<phase, who, cursor, target>>
    BY <1>2 DEF gameVars, vars
  <2>2. OthersKept(who, Nobody) /\ OthersWait(who, Nobody) /\ SoldiersTyped'
    BY <2>1, GParts DEF OthersKept, OthersWait, Updated, SoldiersTyped
  <2>3. GInv'
    BY <2>2, OneStep, GameConstants
  <2>4. QED
    BY <2>1, <2>3
<1>3. QED
  BY <1>1, <1>2

\* In a game with real soldiers, as many as there are, what is said of towers
\* and of soldiers holds.
THEOREM GameInvariance == GameSpec => [](IInv /\ GInv)
<1>1. GameInit => IInv /\ GInv
  BY InitIInv, GameInitInv DEF GameInit
<1>2. IInv /\ GInv /\ [GameNext]_gameVars => (IInv /\ GInv)'
  BY GameStep, NextIInv
<1>3. QED
  BY <1>1, <1>2, PTL DEF GameSpec

\* Whatever the soldiers are ordered to do and whatever happens to them, each
\* step of theirs is one that Towers allows.
THEOREM SoldiersAreAsAssumed == GameSpec => ImplementsTowers
<1>1. GameInit => Init
  BY DEF GameInit
<1>2. IInv /\ GInv /\ [GameNext]_gameVars => [Next]_vars
  BY GameStep
<1>3. QED
  BY <1>1, <1>2, GameInvariance, PTL DEF GameSpec, ImplementsTowers

\* The attack and pursuit states find a target whenever they look at it.
THEOREM NobodyFightsBlindly == GameSpec => []NeverBlind
<1>1. GInv => NeverBlind
  BY DEF GInv
<1>2. QED
  BY <1>1, GameInvariance, PTL

\* What Towers promises holds in a game with real soldiers, for every map,
\* price list and bound: no accepted order makes a TowerManager throw, the
\* territory is that of the standing towers, targets stay in memory and the
\* bases stand.
THEOREM TowersAreSoundInGames ==
    GameSpec => [](/\ NeverThrows /\ TerritoryMatchesTowers /\ OneTowerPerElement /\ TowersFit
                   /\ TargetsAreKept /\ BasesStand)
<1>1. IInv => /\ NeverThrows /\ TerritoryMatchesTowers /\ OneTowerPerElement /\ TowersFit
              /\ TargetsAreKept /\ BasesStand
  BY CarriedOut, TrueTerritory, Fitting, Remembered, StandingBases DEF IInv
<1>2. QED
  BY <1>1, GameInvariance, PTL
=============================================================================
