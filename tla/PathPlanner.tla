----------------------------- MODULE PathPlanner -----------------------------
(***************************************************************************)
(* The path planner that leads around water (path_planner.cpp): its        *)
(* constructor's breadth-first search from one destination, and then the   *)
(* march of a soldier that is led to a position on that map element by     *)
(* GetNextPosition, turn after turn, as in MoveState.  The searches from   *)
(* different destinations share nothing, so one of them stands for all.    *)
(*                                                                         *)
(* Positions are whole, as those are that GetNextPosition returns.         *)
(***************************************************************************)
EXTENDS Integers, Sequences, SequencesExt

CONSTANTS
    MapSize,            \* GetSize of the map
    ElementSize,        \* GetElementSize of the map
    Speed,              \* the speed given to GetNextPosition
    Terrains,           \* the maps, each as the set of its land elements
    Journeys            \* where the soldier is and where it is to go

Offsets == (0 .. MapSize - 1) \X (0 .. MapSize - 1)
Positions == (0 .. MapSize * ElementSize - 1) \X (0 .. MapSize * ElementSize - 1)

\* Faster soldiers would march past the next element, and on elements of 2 a step
\* that is rounded up may leave the row.
ASSUME PathPlannerAssumption ==
    /\ MapSize \in Nat \ {0}
    /\ ElementSize \in Nat /\ ElementSize > 2
    /\ Speed \in 2 .. ElementSize
    /\ Terrains \subseteq SUBSET Offsets
    /\ Journeys \subseteq Positions \X Positions

VARIABLES
    land,               \* the elements whose terrain is LAND
    queue,              \* queue, a local of ComputeAllPathsFromNode
    visited,            \* visited, likewise
    nextNode,           \* next_node_matrix, that becomes paths of the destination's node
    position,           \* where the soldier is
    destination,        \* where it goes
    stage               \* "search", "march", "arrived", or "thrown"

vars == <<land, queue, visited, nextNode, position, destination, stage>>

\* The map element of a position.
NodeOf(p) == <<p[1] \div ElementSize, p[2] \div ElementSize>>

Init ==
    /\ land \in Terrains
    /\ \E j \in Journeys :
        /\ position = j[1]
        /\ destination = j[2]
    /\ queue = <<NodeOf(destination)>>
    /\ visited = {NodeOf(destination)}
    /\ nextNode = [c \in Offsets |-> IF c = NodeOf(destination) THEN c ELSE <<0, 0>>]
    /\ stage = "search"

-----------------------------------------------------------------------------
(* Breadth-first search.                                                   *)

Around(c) == <<<<c[1], c[2] + 1>>, <<c[1], c[2] - 1>>, <<c[1] + 1, c[2]>>, <<c[1] - 1, c[2]>>>>

\* Mutant: water has neighbours too.
AllNeighbors(c) == ToSet(Around(c)) \cap Offsets

\* The elements of the adjacency list: that of a water element is empty, but it
\* may be a neighbour of others.
FindNeighbors(c) == IF c \in land THEN ToSet(Around(c)) \cap Offsets ELSE {}

\* Those of a set, in the order of the adjacency list.
InOrder(c, set) ==
    LET one(i) == IF Around(c)[i] \in set THEN <<Around(c)[i]>> ELSE << >> IN
    one(1) \o one(2) \o one(3) \o one(4)

\* Mutant: the neighbours are searched before the elements already waiting.
PutFirst(new) == new \o Tail(queue)

PutLast(new) == Tail(queue) \o new

\* The element at the head of the queue and its neighbours.
Visit ==
    LET current == Head(queue)
        new == InOrder(current, FindNeighbors(current) \ visited) IN
    /\ stage = "search"
    /\ queue # <<>>
    /\ queue' = PutLast(new)
    /\ visited' = visited \cup ToSet(new)
    /\ nextNode' = [c \in Offsets |-> IF c \in ToSet(new) THEN current ELSE nextNode[c]]
    /\ UNCHANGED <<land, position, destination, stage>>

SearchEnds ==
    /\ stage = "search"
    /\ queue = <<>>
    /\ stage' = "march"
    /\ UNCHANGED <<land, queue, visited, nextNode, position, destination>>

-----------------------------------------------------------------------------
(* GetNextNode and GetNextPosition.                                        *)

IsLand(c) == c \in Offsets /\ c \in land

\* GetNextNode throws out_of_range otherwise.
HasNextNode == IsLand(NodeOf(position)) /\ IsLand(NodeOf(destination))

Sq(x) == x * x
SquaredDistance(p, q) == Sq(p[1] - q[1]) + Sq(p[2] - q[2])

\* The middle of a map element.
MiddleOf(next) ==
    <<next[1] * ElementSize + ElementSize \div 2, next[2] * ElementSize + ElementSize \div 2>>

\* To the destination, if it is on the next element, or to the middle of that.
NextDest(next) ==
    IF next = NodeOf(destination) THEN destination
    ELSE MiddleOf(next)

\* Mutant: the unit vector is rounded up, not the step.
UnitRoundedUp(d, sq) ==
    {Speed * (IF d > 0 THEN 1 ELSE IF Sq(d) = sq THEN -1 ELSE 0)}

\* Speed times d / magnitude, rounded up, of a coordinate d of a vector whose
\* squared magnitude is "sq".  If the exact value is whole, that of the floating
\* point operations may be a little more, unless the vector is parallel to an axis.
RoundedUp(d, sq) ==
    LET whole(m) == Sq(m) * sq = Sq(d * Speed)
        up == IF d >= 0
              THEN CHOOSE m \in 0 .. Speed :
                       Sq(m) * sq >= Sq(d * Speed) /\ (m = 0 \/ Sq(m - 1) * sq < Sq(d * Speed))
              ELSE CHOOSE m \in -Speed .. 0 :
                       Sq(m) * sq <= Sq(d * Speed) /\ (m = -Speed \/ Sq(m - 1) * sq > Sq(d * Speed))
    IN IF whole(up) /\ d # 0 /\ Sq(d) # sq THEN {up, up + 1} ELSE {up}

\* The bounds checks: the upper one is beyond the last position.
Clamp(x) ==
    IF x < 0 THEN 0 ELSE IF x > ElementSize * MapSize THEN ElementSize * MapSize ELSE x

\* The positions one step towards p.  If the soldier is there, the unit vector
\* is not a number, and the bounds checks make it 0.
StepTowards(p) ==
    LET sq == SquaredDistance(position, p) IN
    IF sq = 0 THEN {<<0, 0>>}
    ELSE {<<Clamp(position[1] + x), Clamp(position[2] + y)>> :
              x \in RoundedUp(p[1] - position[1], sq), y \in RoundedUp(p[2] - position[2], sq)}

\* A turn in MoveState, which ends when the soldier is at its destination.
March ==
    /\ stage = "march"
    /\ IF position = destination
       THEN stage' = "arrived" /\ UNCHANGED position
       ELSE IF SquaredDistance(position, destination) <= Sq(Speed)
       THEN position' = destination /\ UNCHANGED stage
       ELSE IF HasNextNode
       THEN /\ position' \in StepTowards(NextDest(nextNode[NodeOf(position)]))
            /\ UNCHANGED stage
       ELSE stage' = "thrown" /\ UNCHANGED position
    /\ UNCHANGED <<land, queue, visited, nextNode, destination>>

-----------------------------------------------------------------------------

Next == Visit \/ SearchEnds \/ March

\* Everything is executed by the main driver's thread, turn after turn.
Spec == Init /\ [][Next]_vars /\ WF_vars(Next)

-----------------------------------------------------------------------------
(* Properties.                                                             *)

\* The reference: the land elements that are within k steps of an element.
Within(c, k) ==
    LET ball[i \in 0 .. k] ==
            IF i = 0 THEN {c} \cap land
            ELSE land \cap UNION {{b} \cup ToSet(Around(b)) : b \in ball[i - 1]}
    IN ball[k]

Connected == NodeOf(position) \in Within(NodeOf(destination), MapSize * MapSize)

\* The search leaves, for every land element connected with the destination, a
\* neighbour on land that is one step nearer to it: it finds all such elements,
\* its paths are shortest ones and none leads over water, although water gets
\* into the queue.
NextNodesAreShortest ==
    (stage = "search" /\ queue = <<>>) =>
        LET goal == NodeOf(destination) IN
        \A k \in 1 .. MapSize * MapSize :
            \A c \in Within(goal, k) \ Within(goal, k - 1) :
                nextNode[c] \in ToSet(Around(c)) \cap Within(goal, k - 1)

\* A soldier that can reach its destination over land stays on land that is
\* connected with it, inside the map, and so its turns never throw, although its
\* steps are rounded up and may carry it past the middle of an element, and it
\* goes straight ahead as soon as the destination is on the next.
KeepsToLand == [][(stage = "march" /\ Connected) => (Connected' /\ stage' # "thrown")]_vars

\* Such a soldier arrives: rounding makes it neither stop nor turn back.
Arrives == (stage = "search" /\ Connected) ~> (stage = "arrived")
=============================================================================
