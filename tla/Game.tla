-------------------------------- MODULE Game ---------------------------------
(***************************************************************************)
(* A whole State (state.cpp): the towers of Towers together with the       *)
(* soldiers of both players, each of which may attack a tower or a soldier *)
(* of the enemy.  Towers leaves the soldiers' doings open; here they       *)
(* follow from their state machine (soldier.cpp, soldier_states/) and from *)
(* the orders StateSyncer accepts.                                         *)
(*                                                                         *)
(* An attack_target is a tower, kept in "target", or a soldier, kept in    *)
(* "hunting".  Positions are left out: whether a target is in range is     *)
(* open, but does not change while a soldier is updated.                   *)
(***************************************************************************)
EXTENDS Towers

CONSTANTS
    SoldierHp,          \* SOLDIER_MAX_HP
    RespawnTurns,       \* SOLDIER_TOTAL_TURNS_TO_RESPAWN
    ShieldTurns,        \* SOLDIER_NUM_TURNS_INVULNERABLE
    Led                 \* bound: Led[p] are the soldiers of p that are given orders

ASSUME GameAssumption ==
    /\ SoldierHp \in Nat \ {0}
    /\ RespawnTurns \in Nat \ {0, 1}
    /\ ShieldTurns \in Nat
    /\ Led \in [Players -> SUBSET Troop]

VARIABLES
    soldiers,           \* soldiers[p][s]: soldier s of p
    near                \* IsAttackTargetInRange of the soldier that is updated

gameVars == <<vars, soldiers, near>>

LatestHp(s) == s.hp - s.damage
IsInvulnerable(s) == s.shield > 0

\* "hunting" is the place of the enemy's soldier, or this.
Nobody == 0

HasTarget(p, s) == soldiers[p][s].hunting # Nobody \/ target[p][s] # NoTarget

\* BuildSoldier.
Recruit ==
    [state |-> "idle", hp |-> SoldierHp, damage |-> 0, moving |-> FALSE, hunting |-> Nobody,
     down |-> 0, shield |-> 0]

GameInit ==
    /\ Init
    /\ soldiers = [p \in Players |-> [s \in Troop |-> Recruit]]
    /\ near = FALSE

-----------------------------------------------------------------------------
(* Orders, accepted from a soldier that is alive.  State::AttackActor      *)
(* tells soldiers from towers by the id.                                   *)

Obeys(s) == soldiers[who][s].hp # 0

Order(s, moving, hunting) ==
    soldiers' = [soldiers EXCEPT ![who][s].moving = moving, ![who][s].hunting = hunting]

OrderAttackTower(s, id) == Obeys(s) /\ AttackTower(s, id) /\ Order(s, FALSE, Nobody)

OrderMove(s) == Obeys(s) /\ GoElsewhere(s) /\ Order(s, TRUE, Nobody)

OrderAttackSoldier(s, victim) ==
    /\ Obeys(s)
    /\ soldiers[Enemy(who)][victim].hp # 0
    /\ GoElsewhere(s)
    /\ Order(s, FALSE, victim)

-----------------------------------------------------------------------------
(* Soldier::Update of the soldier whose turn it is, "Current" of "who".    *)

\* The soldier that soldier s of p hunts.
Prey(p, s) == soldiers[Enemy(p)][soldiers[p][s].hunting]

\* Mutant: a tower that is off the list is not dead.
TargetSeemsDead(p, s) ==
    IF soldiers[p][s].hunting # Nobody THEN LatestHp(Prey(p, s)) = 0
    ELSE \E i \in DOMAIN towers[Enemy(p)] :
            towers[Enemy(p)][i].id = target[p][s] /\ ~IsAlive(towers[Enemy(p)][i])

\* GetLatestHp of the target is 0: a tower's is its hp, also when it has been
\* taken off the list.
TargetHasDied(p, s) ==
    IF soldiers[p][s].hunting # Nobody THEN LatestHp(Prey(p, s)) = 0 ELSE TargetIsDead(p, s)

\* The states that the Update of the current state may return, or "same".
NewStates(p, s) ==
    LET x == soldiers[p][s]
        chase == IF near THEN "attack" ELSE "pursuit" IN
    CASE x.state = "dead" -> IF x.down = 0 THEN {"idle"} ELSE {"same"}
      [] x.state # "dead" /\ x.hp = 0 -> {"dead"}
      [] x.state = "idle" /\ x.hp > 0 ->
            IF x.moving THEN {"move"} ELSE IF HasTarget(p, s) THEN {chase} ELSE {"same"}
      [] x.state = "move" /\ x.hp > 0 -> IF HasTarget(p, s) THEN {chase} ELSE {"same", "idle"}
      [] x.state \in {"attack", "pursuit"} /\ x.hp > 0 ->
            IF x.moving THEN {"move"}
            ELSE IF TargetHasDied(p, s) THEN {"idle"}
            ELSE IF x.state = chase THEN {"same"} ELSE {chase}

\* The transition of a soldier from its state to "new", but for its target.
Changed(x, new) ==
    CASE x.state = "dead" -> [Recruit EXCEPT !.shield = ShieldTurns + 1]
      [] x.state = "move" -> [x EXCEPT !.state = new, !.moving = FALSE]
      [] x.state \in {"attack", "pursuit"} ->
            [x EXCEPT !.state = new, !.hunting = IF new \in {"attack", "pursuit"} THEN @ ELSE Nobody]
      [] OTHER -> [x EXCEPT !.state = new]

\* Mutant: a target that walks out of range is lost.
TargetUnlessKept(p, s, new) ==
    IF soldiers[p][s].state \in {"dead", "attack", "pursuit"} /\ new # "attack"
    THEN NoTarget ELSE target[p][s]

\* Mutant: the tower that a soldier attacked is still its target.
KeptTarget(p, s, new) == target[p][s]

TargetAfter(p, s, new) ==
    LET from == soldiers[p][s].state IN
    IF from = "dead" \/ (from \in {"attack", "pursuit"} /\ new \notin {"attack", "pursuit"})
    THEN NoTarget ELSE target[p][s]

Updating == phase = "soldiers"

ChangeState(new) ==
    /\ Updating
    /\ new \in NewStates(who, Current) \ {"same"}
    /\ soldiers' = [soldiers EXCEPT ![who][Current] = Changed(@, new)]
    /\ target' = [target EXCEPT ![who][Current] = TargetAfter(who, Current, new)]
    /\ UNCHANGED <<stateVars, budget, phase, who, cursor>>

\* The next soldier, or the late updates.
EndUpdate ==
    /\ NextSoldier("late")
    /\ UNCHANGED <<stateVars, budget, target>>

\* Idle, marching, or waiting to come back.
Pass ==
    LET x == soldiers[who][Current] IN
    /\ Updating
    /\ "same" \in NewStates(who, Current)
    /\ x.state # "attack"
    /\ soldiers' = [soldiers EXCEPT ![who][Current].down = IF x.state = "dead" THEN @ - 1 ELSE @]
    /\ EndUpdate

Attacks ==
    /\ Updating
    /\ soldiers[who][Current].state = "attack"
    /\ NewStates(who, Current) = {"same"}

\* A tower takes the damage at once.
StrikeTower ==
    /\ Attacks
    /\ soldiers[who][Current].hunting = Nobody
    /\ Strike
    /\ UNCHANGED soldiers

\* A soldier does at its late update.  The blow that takes the last of its
\* health is rewarded; those that come later find it dead.
StrikeSoldier ==
    LET victim == Prey(who, Current)
        harm == Min({victim.hp, victim.damage + AttackDamage}) IN
    /\ Attacks
    /\ soldiers[who][Current].hunting # Nobody
    /\ soldiers' = [soldiers EXCEPT ![Enemy(who)][soldiers[who][Current].hunting].damage = harm]
    /\ IF harm = victim.hp THEN KillSoldier ELSE EndUpdate

-----------------------------------------------------------------------------

\* Soldier::LateUpdate.  A soldier that dies enters the dead state, whose first
\* Update counts.
LateUpdateSoldier ==
    LET x == soldiers[who][Current]
        left == IF IsInvulnerable(x) THEN x.hp ELSE LatestHp(x)
        later == [x EXCEPT !.hp = left, !.damage = 0, !.shield = Max({0, @ - 1})]
        dies == left = 0 /\ x.state # "dead" IN
    /\ phase = "late"
    /\ soldiers' = [soldiers EXCEPT ![who][Current] =
                      IF dies THEN [Changed(later, "dead") EXCEPT !.down = RespawnTurns - 1]
                      ELSE later]
    /\ target' = [target EXCEPT ![who][Current] =
                      IF dies THEN TargetAfter(who, Current, "dead") ELSE @]
    /\ NextSoldier("towerTasks")
    /\ budget' = IF phase' = "towerTasks" THEN money ELSE budget
    /\ UNCHANGED stateVars

-----------------------------------------------------------------------------

\* What has nothing to do with the soldiers.
Elsewhere ==
    /\ \/ TowerTasks
       \/ \E seen \in Offsets : BuildTower(seen)
       \/ EndLoop("soldierTasks", "update")
       \/ ManagerUpdate
    /\ UNCHANGED soldiers

Orders ==
    \E s \in Led[who] :
        \/ \E id \in 0 .. nextId - 1 : OrderAttackTower(s, id)
        \/ OrderMove(s)
        \/ \E victim \in Troop : OrderAttackSoldier(s, victim)

UpdateSoldier ==
    \/ \E new \in {"idle", "move", "attack", "pursuit", "dead"} : ChangeState(new)
    \/ Pass
    \/ StrikeTower
    \/ StrikeSoldier

\* Whether the soldier that is to be updated has a target, near or not.
Aims == Updating /\ HasTarget(who, Current)

\* Where the soldier is that comes next.
LookAround ==
    near' \in IF ~Aims' THEN {FALSE}
              ELSE IF Updating /\ who' = who /\ cursor' = cursor THEN {near}
              ELSE BOOLEAN

GameNext == (Elsewhere \/ Orders \/ UpdateSoldier \/ LateUpdateSoldier) /\ LookAround

\* Everything is executed by the main driver's thread.
GameSpec == GameInit /\ [][GameNext]_gameVars /\ WF_gameVars(GameNext)

-----------------------------------------------------------------------------
(* Properties.                                                             *)

\* Whatever the soldiers are ordered to do and whatever happens to them, they
\* treat the towers as Towers assumes of them: in particular none keeps a
\* target that the tower's manager is about to free.  So the invariants of
\* Towers hold with real soldiers.
ImplementsTowers == Init /\ [][Next]_vars

\* The attack and pursuit states, which do not look whether there is a target,
\* have one whenever they get as far as using it, a tower or a soldier.
NeverBlind ==
    \A p \in Players, s \in Troop :
        LET x == soldiers[p][s] IN
        (x.state \in {"attack", "pursuit"} /\ x.hp > 0 /\ ~x.moving) => HasTarget(p, s)

\* A turn never hangs in the transitions of a soldier's states, nor in the
\* queues of a tower manager: there is always another turn.
TurnsEnd == []<>(phase = "towerTasks" /\ who = 0 /\ cursor = 0)
=============================================================================
