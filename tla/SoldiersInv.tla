----------------------------- MODULE SoldiersInv -----------------------------
(***************************************************************************)
(* The inductive invariants of Soldiers: why states that use raw pointers  *)
(* without looking, and rewards given at the last blow, are sound; and why *)
(* a turn has an outcome that Skirmish allows.  SoldiersProofs proves them *)
(* inductive.                                                              *)
(***************************************************************************)
EXTENDS Soldiers

\* The Update of s in this turn is over.
Updated(s) == phase = "late" \/ (phase = "update" /\ s < who)

\* The LateUpdate of s, or none, is still to come before the next commands.
Awaited(s) == phase = "update" \/ (phase = "late" /\ s >= who)

\* A soldier without health is in the dead state as soon as it has none, and
\* takes no more damage than it has health.
Vital(s) ==
    /\ state[s] = "dead" <=> hp[s] = 0
    /\ damage[s] <= hp[s]

\* Orders and states: one order at a time, none for the dead, something to do
\* for those that move, and a target for those that attack.
Guided(s) ==
    /\ target[s] = None \/ dest[s] = None
    /\ state[s] = "dead" => target[s] = None /\ dest[s] = None
    /\ state[s] = "move" => target[s] # None \/ dest[s] # None
    /\ state[s] \in {"attack", "pursuit"} /\ dest[s] = None => target[s] # None

\* Between its Update and its next order, the state of a soldier is that of
\* its order.
Settled(s) ==
    Updated(s) \/ (phase = "commands" /\ s >= who) =>
        /\ target[s] # None => state[s] \in {"attack", "pursuit"}
        /\ dest[s] # None => state[s] = "move"

\* Damage and rewards of the turn: there is a reward for s when the damage has
\* come up to its health.
Paid(s) ==
    /\ rewards[s] <= 1
    /\ phase = "commands" => rewards[s] = 0
    /\ ~Awaited(s) => damage[s] = 0
    /\ Awaited(s) => (rewards[s] = 1 <=> state[s] # "dead" /\ damage[s] = hp[s])

\* Who is updated has dropped a dead target; who dies later than that is
\* forgotten in the next turn, the first in which it counts down.
Forgets(s) ==
    target[s] # None =>
        /\ Updated(s) /\ phase = "update" => state[target[s]] # "dead"
        /\ phase # "update" /\ state[target[s]] = "dead" => down[target[s]] = RespawnTurns - 1

\* The part of the invariant about soldier s, and the inductive invariant.
SoldierPart(s) ==
    Vital(s) /\ Guided(s) /\ Settled(s) /\ Paid(s) /\ Forgets(s)

IInv ==
    /\ TypeOK
    /\ \A s \in Soldiers : SoldierPart(s)

-----------------------------------------------------------------------------
(* The invariant of a turn, of which ImplementsSkirmish follows: how far   *)
(* the loops have come from the army they began with to one that Skirmish  *)
(* allows as its outcome.                                                  *)

\* Skirmish, of the army as the commands left it.
Begun == INSTANCE Skirmish WITH army <- before

\* A soldier as a player sees it.
Sight ==
    [pos : Positions, hp : 0 .. MaxHp, target : Soldiers \cup {None}, dest : Positions \cup {None},
     down : 0 .. RespawnTurns - 1, shield : 0 .. ShieldTurns + 1]

\* One order at a time, and none for the dead.  The target of an order, if it
\* is dead, does not come back in this turn.
Ordered(s) ==
    LET b == before[s] IN
    /\ b.target = None \/ b.dest = None
    /\ b.hp = 0 => b.target = None /\ b.dest = None /\ b.shield = 0
    /\ b.target # None /\ before[b.target].hp = 0 => before[b.target].down > 0

\* Those whose blow at t is counted, or came after enough of them.
Strikers(t) == {s \in Soldiers : Updated(s) /\ Begun!Hunts(s, t) /\ Begun!InRange(s, t)}

Struck(t) == damage[t] = Smaller(before[t].hp, AttackDamage * Cardinality(Strikers(t)))

KeepsBody(s) ==
    /\ pos[s] = before[s].pos
    /\ hp[s] = before[s].hp
    /\ shield[s] = before[s].shield

KeepsOrders(s) == target[s] = before[s].target /\ dest[s] = before[s].dest

NoOrders(s) == target[s] = None /\ dest[s] = None

\* An order ends where it leads, or when enough blows have fallen on the target.
OrderEnds(s) ==
    LET b == before[s] IN
    IF b.dest # None THEN b.dest = b.pos
    ELSE b.target # None /\ damage[b.target] = before[b.target].hp

\* What s has decided to do.
Plan(s) ==
    [before[s] EXCEPT !.pos = IF newPos[s] # None THEN newPos[s] ELSE pos[s],
                      !.target = target[s], !.dest = dest[s]]

\* Alive at the beginning of the turn: s does not change before its LateUpdate,
\* but for its orders.
Fights(s) ==
    /\ KeepsBody(s)
    /\ down[s] = before[s].down
    /\ Updated(s) => Plan(s) \in Begun!Conducts(s)
    /\ ~Updated(s) =>
        /\ newPos[s] = None
        /\ KeepsOrders(s) \/ (s = who /\ NoOrders(s) /\ OrderEnds(s))

\* Dead, and not to come back in this turn.
Rests(s) ==
    /\ KeepsBody(s)
    /\ NoOrders(s)
    /\ down[s] = IF Updated(s) THEN before[s].down - 1 ELSE before[s].down

\* Dead, and coming back: before and after the transition.
Returns(s) ==
    /\ NoOrders(s)
    /\ down[s] = 0
    /\ \/ ~Updated(s) /\ KeepsBody(s)
       \/ pos[s] = Spawn[Owner[s]] /\ hp[s] = MaxHp /\ shield[s] = ShieldTurns + 1

\* Soldier s before its LateUpdate, and after it.
Acts(s) ==
    IF before[s].hp > 0 THEN Fights(s)
    ELSE newPos[s] = None /\ IF before[s].down > 0 THEN Rests(s) ELSE Returns(s)

TurnPart(s) ==
    /\ Ordered(s)
    /\ Awaited(s) => Acts(s) /\ Struck(s)
    /\ ~Awaited(s) => Army[s] \in Begun!Outcomes(s) /\ newPos[s] = None

TurnInv ==
    /\ IInv
    /\ before \in [Soldiers -> Sight]
    /\ \A s \in Soldiers : hp[s] = 0 => shield[s] = 0
    /\ phase = "commands" => before = Army /\ \A s \in Soldiers : newPos[s] = None
    /\ phase # "commands" => \A s \in Soldiers : TurnPart(s)
=============================================================================
