------------------------------ MODULE GameInv -------------------------------
(***************************************************************************)
(* The inductive invariant of Game: why the soldiers' states, orders and   *)
(* targets never disagree in a way that Towers rules out.  GameProofs      *)
(* proves it inductive, together with the one of Towers.                   *)
(***************************************************************************)
EXTENDS Game, TowersInv

Soldier ==
    [state : {"idle", "move", "attack", "pursuit", "dead"}, hp : 0 .. SoldierHp, damage : Nat,
     moving : BOOLEAN, hunting : {Nobody} \cup Troop, down : Nat, shield : Nat]

SoldiersTyped ==
    /\ soldiers \in [Players -> [Troop -> Soldier]]
    /\ \A p \in Players, s \in Troop : soldiers[p][s].damage <= soldiers[p][s].hp

\* A soldier is dead when its health is gone, and then it has no tower as its
\* target: orders are refused.
DeadAreDown(p, s) ==
    /\ soldiers[p][s].hp = 0 <=> soldiers[p][s].state = "dead"
    /\ soldiers[p][s].state = "dead" => target[p][s] = NoTarget

\* An order takes the place of the one before it.
OrdersExclude(p, s) ==
    soldiers[p][s].moving \/ soldiers[p][s].hunting # Nobody => target[p][s] = NoTarget

\* The soldier has been updated in this turn.
Updated(p, s) ==
    \/ phase = "late"
    \/ phase = "soldiers" /\ (p < who \/ (p = who /\ s <= cursor))

\* One that is idle or marches when its update is over has no target.
NoneForgotten(p, s) ==
    Updated(p, s) /\ soldiers[p][s].state \in {"idle", "move"} => target[p][s] = NoTarget

GInv ==
    /\ SoldiersTyped
    /\ \A p \in Players, s \in Troop :
        DeadAreDown(p, s) /\ OrdersExclude(p, s) /\ NoneForgotten(p, s)
    /\ NeverBlind
=============================================================================
