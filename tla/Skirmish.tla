------------------------------ MODULE Skirmish ------------------------------
(***************************************************************************)
(* What a turn does to the soldiers of two players, as the players see it: *)
(* everybody moves and strikes at the same time.  Who strikes whom, and    *)
(* from where, is settled by the positions, orders and health at the       *)
(* beginning of the turn, so the order of the soldiers decides no fight:   *)
(* one that dies still strikes or moves in the turn in which it dies.  It  *)
(* decides only whether a soldier sees its target fall in the same turn.   *)
(***************************************************************************)
EXTENDS Integers, FiniteSets

CONSTANTS
    Soldiers,           \* the ids of all soldiers
    Owner,              \* Owner[s]: the player of s
    Width,              \* positions are 0 .. Width - 1, on a line
    Spawn,              \* Spawn[p]: the base of player p
    Speed, AttackRange, AttackDamage, MaxHp,
    RespawnTurns,       \* turns a soldier stays dead
    ShieldTurns,        \* turns it is invulnerable after that
    None                \* no soldier, or no position

VARIABLE army           \* each soldier's position, health, order and counters

Positions == 0 .. Width - 1

Fresh(s) ==
    [pos |-> Spawn[Owner[s]], hp |-> MaxHp, target |-> None, dest |-> None,
     down |-> 0, shield |-> 0]

Distance(x, y) == IF x < y THEN y - x ELSE x - y

\* The position after a turn's march from x to y.
Towards(x, y) ==
    IF Distance(x, y) <= Speed THEN y ELSE IF x < y THEN x + Speed ELSE x - Speed

\* x less y, but not below 0.
Less(x, y) == IF x > y THEN x - y ELSE 0

Alive(s) == army[s].hp > 0
InRange(s, t) == Distance(army[s].pos, army[t].pos) <= AttackRange
Enemies(s) == {t \in Soldiers : Owner[t] # Owner[s]}

Init == army = [s \in Soldiers |-> Fresh(s)]

\* A player's orders to a living soldier: go somewhere or attack an enemy.
March(s, x) ==
    /\ Alive(s)
    /\ army' = [army EXCEPT ![s].dest = x, ![s].target = None]

Attack(s, t) ==
    /\ Alive(s)
    /\ t \in Enemies(s)
    /\ Alive(t)
    /\ army' = [army EXCEPT ![s].target = t, ![s].dest = None]

Hunts(s, t) == Alive(s) /\ army[s].target = t /\ Alive(t)

Harm(t) == AttackDamage * Cardinality({s \in Soldiers : Hunts(s, t) /\ InRange(s, t)})

NewHp(s) == IF army[s].shield > 0 THEN army[s].hp ELSE Less(army[s].hp, Harm(s))

\* How a living soldier may carry out its order.  A soldier that has arrived
\* has no destination any more.  An attack ends when the target is dead; in a
\* turn in which enough blows to kill the target fall on it, the soldier may
\* see it fall first, and then neither pursues nor keeps it.
Conducts(s) ==
    LET me == army[s]
        t == me.target
        stand == [me EXCEPT !.dest = None, !.target = None]
        pursue == IF InRange(s, t) THEN me
                  ELSE [me EXCEPT !.pos = Towards(me.pos, army[t].pos)] IN
    IF me.dest # None
    THEN {IF me.dest = me.pos THEN stand
          ELSE [me EXCEPT !.pos = Towards(me.pos, me.dest)]}
    ELSE IF t = None \/ ~Alive(t)
    THEN {stand}
    ELSE IF Harm(t) >= army[t].hp THEN {pursue, stand} ELSE {pursue}

Outcomes(s) ==
    IF Alive(s)
    THEN IF NewHp(s) > 0
         THEN {[c EXCEPT !.hp = NewHp(s), !.shield = Less(@, 1)] : c \in Conducts(s)}
         ELSE {[Fresh(s) EXCEPT !.pos = c.pos, !.hp = 0, !.down = RespawnTurns - 1]
                  : c \in Conducts(s)}
    ELSE IF army[s].down > 0
    THEN {[army[s] EXCEPT !.down = @ - 1]}
    ELSE {[Fresh(s) EXCEPT !.shield = ShieldTurns]}

Turn ==
    /\ \A s \in Soldiers : army'[s] \in Outcomes(s)
    /\ DOMAIN army' = Soldiers

Next ==
    \/ \E s \in Soldiers, x \in Positions : March(s, x)
    \/ \E s, t \in Soldiers : Attack(s, t)
    \/ Turn

Spec == Init /\ [][Next]_army
=============================================================================
