------------------------------ MODULE Soldiers ------------------------------
(***************************************************************************)
(* The soldiers: their state machine (soldier.cpp and soldier_states/),    *)
(* the soldier commands of StateSyncer (state_syncer.cpp) and the two      *)
(* passes of State::Update over them (state.cpp), which update all         *)
(* soldiers one after the other and then late-update them in that order.   *)
(*                                                                         *)
(* Positions are on a line and marching is SimplePathPlanner's.  Targets   *)
(* are soldiers; those that are towers are in Towers.  Of the money only   *)
(* the rewards of the turn are kept.                                       *)
(***************************************************************************)
EXTENDS Integers, FiniteSets

CONSTANTS
    NumSoldiers,        \* the number of soldiers, whose ids are 0 .. NumSoldiers - 1
    Owner,              \* Owner[s]: the player of soldier s
    Width,              \* positions are 0 .. Width - 1
    Spawn,              \* BASE_TOWER_POSITIONS, by player
    Speed,              \* SOLDIER_SPEED
    AttackRange,        \* SOLDIER_ATTACK_RANGE
    AttackDamage,       \* SOLDIER_ATTACK_DAMAGE
    MaxHp,              \* SOLDIER_MAX_HP
    RespawnTurns,       \* SOLDIER_TOTAL_TURNS_TO_RESPAWN
    ShieldTurns         \* SOLDIER_NUM_TURNS_INVULNERABLE

Soldiers == 0 .. NumSoldiers - 1
Positions == 0 .. Width - 1
None == -1

ASSUME SoldiersAssumption ==
    /\ {NumSoldiers, Width, AttackDamage, MaxHp} \subseteq Nat \ {0}
    /\ {Speed, AttackRange, ShieldTurns} \subseteq Nat
    /\ RespawnTurns \in Nat \ {0, 1}
    /\ Owner \in [Soldiers -> {0, 1}]
    /\ Spawn \in [{0, 1} -> Positions]

VARIABLES
    pos,                \* position
    hp,                 \* hp
    state,              \* the name of the current SoldierState
    target,             \* attack_target, None for nullptr
    dest,               \* destination, None unless is_destination_set
    newPos,             \* new_position, None unless is_new_position_set
    damage,             \* damage_incurred
    down,               \* remaining_turns_to_respawn of the DeadState
    shield,             \* num_turns_invulnerable; is_invulnerable while above 0
    phase,              \* the loop being executed: "commands", "update" or "late"
    who,                \* the soldier it has come to
    rewards,            \* history: RewardKill calls of this turn, by victim
    before              \* history: the army as this turn's commands left it

orders == <<target, dest>>
body == <<pos, hp, damage, shield>>
vars == <<body, orders, state, newPos, down, phase, who, rewards, before>>

Distance(x, y) == IF x < y THEN y - x ELSE x - y

\* SimplePathPlanner::GetNextPosition.
GetNextPosition(source, destination) ==
    IF Distance(source, destination) <= Speed THEN destination
    ELSE IF source < destination THEN source + Speed ELSE source - Speed

IsInvulnerable(s) == shield[s] > 0
LatestHp(s) == hp[s] - damage[s]
InRange(s) == Distance(pos[s], pos[target[s]]) <= AttackRange

Smaller(x, y) == IF x < y THEN x ELSE y

\* The soldiers as a player sees them between turns.
Army ==
    [s \in Soldiers |-> [pos |-> pos[s], hp |-> hp[s], target |-> target[s], dest |-> dest[s],
                         down |-> down[s], shield |-> shield[s]]]

Init ==
    /\ pos = [s \in Soldiers |-> Spawn[Owner[s]]]
    /\ hp = [s \in Soldiers |-> MaxHp]
    /\ state = [s \in Soldiers |-> "idle"]
    /\ target = [s \in Soldiers |-> None]
    /\ dest = [s \in Soldiers |-> None]
    /\ newPos = [s \in Soldiers |-> None]
    /\ damage = [s \in Soldiers |-> 0]
    /\ down = [s \in Soldiers |-> 0]
    /\ shield = [s \in Soldiers |-> 0]
    /\ phase = "commands"
    /\ who = 0
    /\ rewards = [s \in Soldiers |-> 0]
    /\ before = Army

\* The loop goes on to the next soldier, or the next loop begins.
NextSoldier(next) ==
    /\ who' = (who + 1) % NumSoldiers
    /\ phase' = IF who + 1 = NumSoldiers THEN next ELSE phase

-----------------------------------------------------------------------------
(* Commands: at most one per soldier, in the order of the soldiers.  One   *)
(* that is refused only leaves an error in the log.                        *)

EndCommand ==
    /\ NextSoldier("update")
    /\ UNCHANGED <<body, state, newPos, down, rewards>>
    /\ before' = Army'

NoCommand ==
    /\ phase = "commands"
    /\ UNCHANGED orders
    /\ EndCommand

\* Mutant: the attack target survives an order to move.
MoveSoldierKeepsTarget(x) ==
    /\ phase = "commands"
    /\ hp[who] # 0
    /\ dest' = [dest EXCEPT ![who] = x]
    /\ UNCHANGED target
    /\ EndCommand

MoveSoldier(x) ==
    /\ phase = "commands"
    /\ hp[who] # 0
    /\ dest' = [dest EXCEPT ![who] = x]
    /\ target' = [target EXCEPT ![who] = None]
    /\ EndCommand

\* Mutant: dead enemies may be attacked.
AttackAnySoldier(t) ==
    /\ phase = "commands"
    /\ hp[who] # 0
    /\ Owner[t] # Owner[who]
    /\ target' = [target EXCEPT ![who] = t]
    /\ dest' = [dest EXCEPT ![who] = None]
    /\ EndCommand

\* An immune enemy is reported to the log, but may be attacked.
AttackSoldier(t) ==
    /\ phase = "commands"
    /\ hp[who] # 0
    /\ Owner[t] # Owner[who]
    /\ hp[t] # 0
    /\ target' = [target EXCEPT ![who] = t]
    /\ dest' = [dest EXCEPT ![who] = None]
    /\ EndCommand

-----------------------------------------------------------------------------
(* Soldier::Update runs the Update of the current SoldierState, and as long *)
(* as that returns another state enters it and runs its Update in turn.    *)

\* Mutant: the damage of this turn is not counted.
TargetHadDied(s) == hp[target[s]] = 0

TargetIsDead(s) == LatestHp(target[s]) = 0

\* The state that the Update of the current state of s returns, or "same".
NewState(s) ==
    LET hunt == IF InRange(s) THEN "attack" ELSE "pursuit" IN
    CASE state[s] = "dead" -> IF down[s] = 0 THEN "idle" ELSE "same"
      [] state[s] # "dead" /\ hp[s] = 0 -> "dead"
      [] state[s] = "idle" /\ hp[s] > 0 ->
            IF dest[s] # None THEN "move" ELSE IF target[s] # None THEN hunt ELSE "same"
      [] state[s] = "move" /\ hp[s] > 0 ->
            IF target[s] # None THEN hunt ELSE IF pos[s] = dest[s] THEN "idle" ELSE "same"
      [] state[s] \in {"attack", "pursuit"} /\ hp[s] > 0 ->
            IF dest[s] # None THEN "move"
            ELSE IF TargetIsDead(s) THEN "idle"
            ELSE IF state[s] = hunt THEN "same" ELSE hunt

\* Mutant: a target that walks out of range is lost.
NewTargetUnlessKept(s, new) ==
    IF state[s] \in {"dead", "attack", "pursuit"} /\ new # "attack" THEN None ELSE target[s]

\* On leaving the attack and pursuit states, unless for each other, they reset
\* the target; MoveState's Exit unsets the destination; DeadState's resets both.
NewTarget(s, new) ==
    IF state[s] = "dead" \/ (state[s] \in {"attack", "pursuit"} /\ new \notin {"attack", "pursuit"})
    THEN None ELSE target[s]

NewDest(s) == IF state[s] \in {"move", "dead"} THEN None ELSE dest[s]

\* A transition: the old state's Exit, the new one's Enter.  Leaving the dead
\* state, the soldier is back at its base, immune for the turns to come and
\* for this one.
ChangeState ==
    LET new == NewState(who) IN
    /\ phase = "update"
    /\ new # "same"
    /\ state' = [state EXCEPT ![who] = new]
    /\ target' = [target EXCEPT ![who] = NewTarget(who, new)]
    /\ dest' = [dest EXCEPT ![who] = NewDest(who)]
    /\ IF state[who] = "dead"
       THEN /\ pos' = [pos EXCEPT ![who] = Spawn[Owner[who]]]
            /\ hp' = [hp EXCEPT ![who] = MaxHp]
            /\ shield' = [shield EXCEPT ![who] = ShieldTurns + 1]
       ELSE UNCHANGED <<pos, hp, shield>>
    /\ UNCHANGED <<damage, newPos, down, phase, who, rewards, before>>

EndUpdate ==
    /\ phase = "update"
    /\ NewState(who) = "same"
    /\ NextSoldier("late")
    /\ UNCHANGED <<orders, pos, hp, shield, state, before>>

Idle ==
    /\ state[who] = "idle"
    /\ EndUpdate
    /\ UNCHANGED <<damage, newPos, down, rewards>>

StayDead ==
    /\ state[who] = "dead"
    /\ EndUpdate
    /\ down' = [down EXCEPT ![who] = @ - 1]
    /\ UNCHANGED <<damage, newPos, rewards>>

\* To the destination, or after the target.
March ==
    LET goal == IF state[who] = "move" THEN dest[who] ELSE pos[target[who]] IN
    /\ state[who] \in {"move", "pursuit"}
    /\ EndUpdate
    /\ newPos' = [newPos EXCEPT ![who] = GetNextPosition(pos[who], goal)]
    /\ UNCHANGED <<damage, down, rewards>>

\* Mutant: the damage takes effect at once.
StrikeAtOnce ==
    LET t == target[who]
        harm == Smaller(hp[t], AttackDamage) IN
    /\ phase = "update"
    /\ state[who] = "attack"
    /\ NewState(who) = "same"
    /\ NextSoldier("late")
    /\ hp' = [hp EXCEPT ![t] = IF IsInvulnerable(t) THEN @ ELSE @ - harm]
    /\ rewards' = [rewards EXCEPT ![t] = IF hp[t] = harm THEN @ + 1 ELSE @]
    /\ UNCHANGED <<orders, pos, shield, damage, state, before, newPos, down>>

\* The damage takes effect at the end of the turn.  Whoever deals the last of
\* the victim's health is rewarded.
Strike ==
    LET t == target[who]
        harm == Smaller(hp[t], damage[t] + AttackDamage) IN
    /\ state[who] = "attack"
    /\ EndUpdate
    /\ damage' = [damage EXCEPT ![t] = harm]
    /\ rewards' = [rewards EXCEPT ![t] = IF hp[t] = harm THEN @ + 1 ELSE @]
    /\ UNCHANGED <<newPos, down>>

-----------------------------------------------------------------------------
(* Soldier::LateUpdate.                                                    *)

LateUpdate ==
    LET left == IF IsInvulnerable(who) THEN hp[who] ELSE LatestHp(who)
        dies == left = 0 /\ state[who] # "dead" IN
    /\ phase = "late"
    /\ pos' = [pos EXCEPT ![who] = IF newPos[who] # None THEN newPos[who] ELSE @]
    /\ newPos' = [newPos EXCEPT ![who] = None]
    /\ hp' = [hp EXCEPT ![who] = left]
    /\ damage' = [damage EXCEPT ![who] = 0]
    /\ shield' = [shield EXCEPT ![who] = IF @ > 0 THEN @ - 1 ELSE 0]
    /\ IF dies
       THEN \* into the dead state, whose first Update counts
            /\ state' = [state EXCEPT ![who] = "dead"]
            /\ target' = [target EXCEPT ![who] = NewTarget(who, "dead")]
            /\ dest' = [dest EXCEPT ![who] = NewDest(who)]
            /\ down' = [down EXCEPT ![who] = RespawnTurns - 1]
       ELSE UNCHANGED <<state, target, dest, down>>
    /\ rewards' = IF who + 1 = NumSoldiers THEN [s \in Soldiers |-> 0] ELSE rewards
    /\ before' = IF who + 1 = NumSoldiers THEN Army' ELSE before
    /\ NextSoldier("commands")

-----------------------------------------------------------------------------

Commands ==
    \/ NoCommand
    \/ \E x \in Positions : MoveSoldier(x)
    \/ \E t \in Soldiers : AttackSoldier(t)

Update == ChangeState \/ Idle \/ StayDead \/ March \/ Strike

Next == Commands \/ Update \/ LateUpdate

\* Everything is executed by the main driver's thread.
Spec == Init /\ [][Next]_vars /\ WF_vars(Next)

-----------------------------------------------------------------------------
(* Properties.                                                             *)

\* Types; the counters stay within the numbers of turns they are started with.
TypeOK ==
    /\ pos \in [Soldiers -> Positions]
    /\ hp \in [Soldiers -> 0 .. MaxHp]
    /\ state \in [Soldiers -> {"idle", "move", "attack", "pursuit", "dead"}]
    /\ target \in [Soldiers -> Soldiers \cup {None}]
    /\ dest \in [Soldiers -> Positions \cup {None}]
    /\ newPos \in [Soldiers -> Positions \cup {None}]
    /\ damage \in [Soldiers -> 0 .. MaxHp]
    /\ down \in [Soldiers -> 0 .. RespawnTurns - 1]
    /\ shield \in [Soldiers -> 0 .. ShieldTurns + 1]
    /\ phase \in {"commands", "update", "late"}
    /\ who \in Soldiers
    /\ rewards \in [Soldiers -> Nat]

\* The attack and pursuit states, which use the target without looking whether
\* there is one, always have one when they do.
NoNullTarget ==
    \A s \in Soldiers :
        (/\ state[s] \in {"attack", "pursuit"}
         /\ hp[s] > 0
         /\ dest[s] = None) => target[s] # None

\* A soldier never has two orders at once.
OneOrder == \A s \in Soldiers : target[s] = None \/ dest[s] = None

\* A death is paid for once: of all soldiers that strike a victim in a turn
\* one is rewarded, if it dies, and if it does not, none, unless it is immune.
DeathIsPaidOnce ==
    \A s \in Soldiers :
        /\ rewards[s] <= 1
        /\ (phase = "late" /\ who <= s /\ ~IsInvulnerable(s) /\ state[s] # "dead")
              => (LatestHp(s) = 0 <=> rewards[s] = 1)

\* By the time a dead soldier returns, nobody still has it as the target.
TheDeadAreForgotten ==
    \A s, t \in Soldiers :
        (phase = "commands" /\ state[t] = "dead" /\ down[t] < RespawnTurns - 1)
            => target[s] # t

\* Seen from the players, all soldiers move and strike at the same time: during
\* a turn they see the army as it began.
Shown == IF phase = "commands" THEN Army ELSE before
Skirmish == INSTANCE Skirmish WITH army <- Shown
ImplementsSkirmish == Skirmish!Spec

\* money_manager.h says of RewardKill: "Reward the player for killing an enemy
\* actor".  So there is no reward for a soldier that does not die of it.
RewardedOnlyForKills ==
    \A s \in Soldiers :
        (phase = "late" /\ who <= s /\ rewards[s] > 0) => ~IsInvulnerable(s)
=============================================================================
