----------------------------- MODULE TowersInv ------------------------------
(***************************************************************************)
(* The inductive invariant of Towers: why orders that are checked before   *)
(* the queues of a turn are begun can still be carried out when their turn *)
(* comes, and why counts, flags, targets and towers agree.  TowersProofs   *)
(* proves it inductive.                                                    *)
(***************************************************************************)
EXTENDS Towers

Tower == [id : Nat, offset : Offsets, level : Levels, hp : Nat, isBase : BOOLEAN]

\* The shapes of the lists, which TypeOK leaves open.
Shapes ==
    /\ towers \in [Players -> Seq(Tower)]
    /\ toBuild \in [Players -> Seq(Offsets)]
    /\ toUpgrade \in [Players -> Seq(Nat)]
    /\ toSuicide \in [Players -> Seq(Nat)]
    /\ toDelete \in [Players -> (SUBSET Nat) \X (SUBSET Nat)]
    /\ target \in [Players -> [Troop -> Nat \cup {NoTarget}]]

\* There is a soldier to be updated.
InTroop == phase \in {"soldiers", "late"} => cursor < NumSoldiers

\* Commands are being executed: no queue is being emptied.
Ordering == phase \in {"towerTasks", "soldierTasks"}

\* There is room, and there are ids, for what is queued.
IdsLast == nextId + Len(toBuild[0]) + Len(toBuild[1]) <= ActorIdBound

\* The list of towers: its ids differ, it has room for what is queued, and
\* the base, whose id is the player's number, is the first and unharmed.
Listed(p) ==
    /\ \A i, j \in DOMAIN towers[p] : towers[p][i].id = towers[p][j].id => i = j
    /\ Len(towers[p]) + Len(toBuild[p]) <= MaxNumTowers
    /\ towers[p] # <<>>
    /\ towers[p][1].id = p
    /\ towers[p][1].isBase
    /\ towers[p][1].offset = Base[p]
    /\ towers[p][1].hp = MaxHps[towers[p][1].level]

\* Queues are empty until their player's commands are executed, and again when
\* its tower manager is done; no cursor is needed to empty them.
Emptied(p) ==
    /\ phase = "update" => cursor = 0
    /\ ~Ordering /\ ~(phase = "update" /\ p >= who) =>
        toBuild[p] = <<>> /\ toUpgrade[p] = <<>> /\ toSuicide[p] = <<>>
    /\ phase = "towerTasks" => toBuild[p] = <<>>
    /\ phase = "towerTasks" /\ p > who => toUpgrade[p] = <<>>
    /\ phase = "soldierTasks" /\ p > who => toBuild[p] = <<>>

\* What is queued for an upgrade is there, may still be upgraded, and is queued
\* once.
UpgradesStand(p) ==
    /\ \A j \in DOMAIN toUpgrade[p] : \E i \in DOMAIN towers[p] :
        /\ towers[p][i].id = toUpgrade[p][j]
        /\ towers[p][i].level # Len(BuildCosts)
        /\ phase = "towerTasks" /\ p = who => i <= cursor
    /\ \A j, k \in DOMAIN toUpgrade[p] : toUpgrade[p][j] = toUpgrade[p][k] => j = k

\* What is queued for suicide is there, and not the base.
SuicidesStand(p) ==
    \A j \in DOMAIN toSuicide[p] : toSuicide[p][j] \in Ids(p) \ {p}

\* What is queued to be built on is free of towers and queued once.
SitesStand(p) ==
    \A k \in DOMAIN toBuild[p] :
        LET c == toBuild[p][k] IN
        /\ \A q \in Players : \A i \in DOMAIN towers[q] : towers[q][i].offset # c
        /\ \A q \in Players : \A j \in DOMAIN toBuild[q] :
            toBuild[q][j] = c => p = q /\ j = k
        /\ Ordering => owners[c] = {p}
        /\ phase = "soldierTasks" /\ p = who => MapIndex(FlipOffset(p, c)) <= cursor

\* The money for the upgrades that are queued, unit by unit: ts is a list of
\* towers, ids what is queued.
Coins(ts, ids) ==
    UNION {{i} \X (1 .. BuildCosts[ts[i].level + 1]) :
            i \in {i \in DOMAIN ts : ts[i].id \in Elements(ids)}}

Costs(p) ==
    Len(toBuild[p]) * BuildCosts[1] + Cardinality(Coins(towers[p], toUpgrade[p]))

\* The money for all that is queued is there: it has been taken off the budget.
Funded(p) ==
    /\ IsFiniteSet(Coins(towers[p], toUpgrade[p]))
    /\ Ordering => budget[p] + Costs(p) = money[p]
    /\ phase = "update" /\ p >= who => Costs(p) <= money[p]

\* The towers on a list whose range an element is in.
Claims(ts, c) == {i \in DOMAIN ts : c \in CalculateBounds(ts[i])}

Territory(p) ==
    \A c \in Offsets :
        /\ refs[p][c] = Cardinality(Claims(towers[p], c))
        /\ p \in owners[c] <=> refs[p][c] > 0

\* Soldier s of p may still have a target that has been buried in this turn: it
\* is updated later.
MayBeBuried(p, s) ==
    \/ phase = "update" /\ Enemy(p) < who
    \/ phase = "soldiers" /\ (p > who \/ (p = who /\ s > cursor))

\* A target is not a base, and is on the list or was buried in this turn.
Sound(p, s) ==
    target[p][s] # NoTarget =>
        /\ target[p][s] # Enemy(p)
        /\ \/ target[p][s] \in Ids(Enemy(p))
           \/ MayBeBuried(p, s) /\ target[p][s] \in toDelete[Enemy(p)][2]

Targeted(p) == \A s \in Troop : Sound(p, s)

PlayerPart(p) ==
    /\ Listed(p)
    /\ Emptied(p)
    /\ UpgradesStand(p)
    /\ SuicidesStand(p)
    /\ SitesStand(p)
    /\ Funded(p)
    /\ Territory(p)
    /\ Targeted(p)

IInv ==
    /\ TypeOK
    /\ Shapes
    /\ InTroop
    /\ IdsLast
    /\ OneTowerPerElement
    /\ \A p \in Players : PlayerPart(p)
=============================================================================
