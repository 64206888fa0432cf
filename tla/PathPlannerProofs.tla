-------------------------- MODULE PathPlannerProofs --------------------------
(***************************************************************************)
(* Proofs about PathPlanner, for any map, any elements of more than 2, and *)
(* any speed that does not carry a soldier past the next element.          *)
(*                                                                         *)
(* The reference, Within, is a recursive function of the number of steps,  *)
(* and so are the distances it gives.  What holds of all of them is proved *)
(* by taking the least number it does not hold of.                         *)
(***************************************************************************)
EXTENDS PathPlanner, FiniteSetTheorems, TLAPS

-----------------------------------------------------------------------------
(* Induction over the naturals.                                            *)

\* A set of naturals that is not empty has a least member, for the intervals
\* from zero are well-founded under inclusion.
LEMMA LeastNatural ==
    ASSUME NEW T, T \subseteq Nat, T # {}
    PROVE  \E n \in T : \A m \in T : n <= m
<1> DEFINE U == {0 .. n : n \in T}
<1>1. IsWellFoundedOn(StrictSubsetOrdering(Nat), FiniteSubsetsOf(Nat))
  BY FS_StrictSubsetOrderingWellFounded
<1>2. U \subseteq FiniteSubsetsOf(Nat)
  <2>1. \A n \in T : IsFiniteSet(0 .. n)
    BY FS_Interval
  <2> QED
    BY <2>1 DEF FiniteSubsetsOf
<1>3. U # {}
  OBVIOUS
<1>4. \E x \in U : \A y \in U : <<y, x>> \notin StrictSubsetOrdering(Nat)
  <2> HIDE DEF U
  <2> QED
    BY <1>1, <1>2, <1>3, WFMin
<1>5. PICK n \in T : \A m \in T : <<0 .. m, 0 .. n>> \notin StrictSubsetOrdering(Nat)
  BY <1>4
<1>6. \A m \in T : m < n => <<0 .. m, 0 .. n>> \in StrictSubsetOrdering(Nat)
  <2> SUFFICES ASSUME NEW m \in T, m < n
               PROVE  <<0 .. m, 0 .. n>> \in StrictSubsetOrdering(Nat)
    OBVIOUS
  <2>1. 0 .. m \subseteq Nat /\ 0 .. n \subseteq Nat /\ 0 .. m \subseteq 0 .. n
    OBVIOUS
  <2>2. n \in 0 .. n /\ n \notin 0 .. m
    OBVIOUS
  <2> QED
    BY <2>1, <2>2 DEF StrictSubsetOrdering
<1>7. \A m \in T : ~ (m < n) => n <= m
  OBVIOUS
<1> QED
  BY <1>5, <1>6, <1>7

-----------------------------------------------------------------------------
(* The reference: what Within is, level by level.                          *)

\* The land elements that are in a set or beside one of its elements.
Grown(s) == land \cap UNION {{b} \cup ToSet(Around(b)) : b \in s}

\* f gives the elements within each number of steps up to k.
IsBall(f, c, k) ==
    f = [i \in 0 .. k |-> IF i = 0 THEN {c} \cap land ELSE Grown(f[i - 1])]

\* What IsBall says, step by step.
LEMMA BallsByElement ==
    ASSUME NEW f, NEW c, NEW k \in Nat, IsBall(f, c, k)
    PROVE  /\ f[0] = {c} \cap land
           /\ \A i \in 1 .. k : f[i] = Grown(f[i - 1])
<1> DEFINE B(i) == IF i = 0 THEN {c} \cap land ELSE Grown(f[i - 1])
<1>1. f = [i \in 0 .. k |-> B(i)]
  BY DEF IsBall
<1>2. \A i \in 0 .. k : f[i] = B(i)
  <2> HIDE DEF B
  <2> QED
    BY <1>1
<1> QED
  BY <1>2

\* There are balls for any number of steps: the least number without one has a
\* predecessor with one.
LEMMA BallsExist == \A c : \A k \in Nat : \E f : IsBall(f, c, k)
<1> SUFFICES ASSUME NEW c
             PROVE  \A k \in Nat : \E f : IsBall(f, c, k)
  OBVIOUS
<1> DEFINE Bad == {k \in Nat : ~ \E f : IsBall(f, c, k)}
<1>1. SUFFICES ASSUME Bad # {} PROVE FALSE
  OBVIOUS
<1>2. PICK k \in Bad : \A m \in Bad : k <= m
  <2>1. Bad \subseteq Nat
    OBVIOUS
  <2> HIDE DEF Bad
  <2> QED
    BY <1>1, <2>1, LeastNatural
<1>3. CASE k = 0
  <2>1. IsBall([i \in 0 .. 0 |-> {c} \cap land], c, 0)
    BY DEF IsBall
  <2> QED
    BY <1>3, <2>1
<1>4. CASE k # 0
  <2>1. k - 1 \in Nat /\ k - 1 \notin Bad
    <3> HIDE DEF Bad
    <3> k \in Nat
      BY DEF Bad
    <3> QED
      BY <1>2, <1>4
  <2>2. PICK f : IsBall(f, c, k - 1)
    BY <2>1
  <2> DEFINE g == [i \in 0 .. k |-> IF i = k THEN Grown(f[k - 1]) ELSE f[i]]
  <2>3. IsBall(g, c, k)
    <3> DEFINE B(h, i) == IF i = 0 THEN {c} \cap land ELSE Grown(h[i - 1])
    <3>1. \A i \in 0 .. k : i = k => g[i] = B(g, i)
      BY <2>1, <1>4
    <3>2. \A i \in 0 .. k : i # k => i \in 0 .. k - 1 /\ g[i] = f[i]
      BY <2>1
    <3>3. f[0] = {c} \cap land /\ \A i \in 1 .. k - 1 : f[i] = Grown(f[i - 1])
      BY <2>1, <2>2, BallsByElement
    <3>4. \A i \in 1 .. k - 1 : g[i - 1] = f[i - 1]
      BY <2>1
    <3>5. \A i \in 0 .. k : i # k => g[i] = B(g, i)
      <4> SUFFICES ASSUME NEW i \in 0 .. k, i # k PROVE g[i] = B(g, i)
        OBVIOUS
      <4>1. CASE i = 0
        BY <4>1, <3>2, <3>3
      <4>2. CASE i # 0
        <5>1. i \in 1 .. k - 1
          BY <4>2, <2>1
        <5>2. g[i - 1] = f[i - 1] /\ f[i] = Grown(f[i - 1]) /\ g[i] = f[i]
          BY <5>1, <3>2, <3>3, <3>4
        <5> HIDE DEF g
        <5> QED
          BY <5>2, <4>2
      <4> QED
        BY <4>1, <4>2
    <3>6. g = [i \in 0 .. k |-> B(g, i)]
      <4>1. \A i \in 0 .. k : g[i] = B(g, i)
        BY <3>1, <3>5
      <4>2. g = [i \in 0 .. k |-> g[i]]
        OBVIOUS
      <4> HIDE DEF g, B
      <4> QED
        BY <4>1, <4>2
    <3> HIDE DEF g
    <3> QED
      BY <3>6 DEF IsBall
  <2> QED
    BY <2>3
<1> QED
  BY <1>3, <1>4

\* Balls of the same element agree, as far as both go.
LEMMA BallsAgree ==
    ASSUME NEW c, NEW f, NEW g, NEW m \in Nat, NEW n \in Nat,
           IsBall(f, c, m), IsBall(g, c, n), NEW i \in Nat, i <= m, i <= n
    PROVE  f[i] = g[i]
<1> DEFINE Bad == {j \in Nat : j <= m /\ j <= n /\ f[j] # g[j]}
<1>1. SUFFICES ASSUME Bad # {} PROVE FALSE
  OBVIOUS
<1>2. PICK k \in Bad : \A j \in Bad : k <= j
  <2>1. Bad \subseteq Nat
    OBVIOUS
  <2> HIDE DEF Bad
  <2> QED
    BY <1>1, <2>1, LeastNatural
<1>3. f[0] = g[0]
  BY BallsByElement
<1>4. k \in Nat /\ k # 0 /\ k \in 1 .. m /\ k \in 1 .. n /\ f[k] # g[k]
  BY <1>3
<1>5. k - 1 \in Nat /\ f[k - 1] = g[k - 1]
  BY <1>2, <1>4
<1>6. f[k] = Grown(f[k - 1]) /\ g[k] = Grown(g[k - 1])
  BY <1>4, BallsByElement
<1> QED
  BY <1>4, <1>5, <1>6

\* Within is the last step of a ball, chosen as recursive functions are.
LEMMA WithinIsBall ==
    ASSUME NEW c, NEW k \in Nat
    PROVE  \E f : IsBall(f, c, k) /\ Within(c, k) = f[k]
<1> DEFINE f == CHOOSE g : g = [i \in 0 .. k |->
                    IF i = 0 THEN {c} \cap land
                    ELSE land \cap UNION {{b} \cup ToSet(Around(b)) : b \in g[i - 1]}]
<1>1. Within(c, k) = f[k]
  BY DEF Within
<1>2. \E g : IsBall(g, c, k)
  BY BallsExist
<1>3. IsBall(f, c, k)
  BY <1>2, Zenon DEF IsBall, Grown
<1> QED
  BY <1>1, <1>3

LEMMA WithinZero == \A c : Within(c, 0) = {c} \cap land
  BY WithinIsBall DEF IsBall

\* One step more.
LEMMA WithinNext == \A c : \A k \in Nat : Within(c, k + 1) = Grown(Within(c, k))
<1> SUFFICES ASSUME NEW c, NEW k \in Nat
             PROVE  Within(c, k + 1) = Grown(Within(c, k))
  OBVIOUS
<1>1. PICK f : IsBall(f, c, k) /\ Within(c, k) = f[k]
  BY WithinIsBall
<1>2. PICK g : IsBall(g, c, k + 1) /\ Within(c, k + 1) = g[k + 1]
  BY WithinIsBall
<1>3. f[k] = g[k]
  BY <1>1, <1>2, BallsAgree
<1>4. g[k + 1] = Grown(g[k])
  <2>1. k + 1 \in 1 .. k + 1 /\ (k + 1) - 1 = k
    OBVIOUS
  <2>2. \A i \in 1 .. k + 1 : g[i] = Grown(g[i - 1])
    BY <1>2, BallsByElement
  <2>3. g[k + 1] = Grown(g[(k + 1) - 1])
    BY <2>1, <2>2
  <2> QED
    BY <2>1, <2>3
<1> QED
  BY <1>1, <1>2, <1>3, <1>4

\* More steps lead to more elements, all on land.
LEMMA WithinGrows ==
    ASSUME NEW c, NEW k \in Nat
    PROVE  /\ Within(c, k) \subseteq land
           /\ Within(c, k) \subseteq Within(c, k + 1)
<1>1. Within(c, 0) \subseteq land
  BY WithinZero
<1>2. \A j \in Nat : Within(c, j + 1) \subseteq land
  BY WithinNext DEF Grown
<1>3. \A j \in Nat : Within(c, j) \subseteq land
  <2> SUFFICES ASSUME NEW j \in Nat, j # 0 PROVE Within(c, j) \subseteq land
    BY <1>1
  <2>1. j - 1 \in Nat /\ (j - 1) + 1 = j
    OBVIOUS
  <2>2. Within(c, (j - 1) + 1) \subseteq land
    BY <2>1, <1>2
  <2> QED
    BY <2>1, <2>2
<1>4. Within(c, k) \subseteq Grown(Within(c, k))
  BY <1>3 DEF Grown
<1> QED
  BY <1>3, <1>4, WithinNext

LEMMA WithinMonotone ==
    ASSUME NEW c, NEW k \in Nat, NEW j \in Nat, k <= j
    PROVE  Within(c, k) \subseteq Within(c, j)
<1> DEFINE Bad == {m \in Nat : k <= m /\ ~ (Within(c, k) \subseteq Within(c, m))}
<1>1. SUFFICES ASSUME Bad # {} PROVE FALSE
  OBVIOUS
<1>2. PICK m \in Bad : \A i \in Bad : m <= i
  <2>1. Bad \subseteq Nat
    OBVIOUS
  <2> HIDE DEF Bad
  <2> QED
    BY <1>1, <2>1, LeastNatural
<1>3. m \in Nat /\ k <= m /\ m # k /\ ~ (Within(c, k) \subseteq Within(c, m))
  OBVIOUS
<1>4. m - 1 \in Nat /\ k <= m - 1 /\ (m - 1) + 1 = m
  BY <1>3
<1>5. m - 1 \notin Bad
  <2> HIDE DEF Bad
  <2> QED
    BY <1>2, <1>3, <1>4
<1>6. Within(c, k) \subseteq Within(c, m - 1)
  BY <1>4, <1>5
<1>7. Within(c, m - 1) \subseteq Within(c, (m - 1) + 1)
  BY <1>4, WithinGrows
<1> QED
  BY <1>3, <1>4, <1>6, <1>7

-----------------------------------------------------------------------------
(* The distance from the destination's element over land.                  *)

Goal == NodeOf(destination)

\* It can be reached from there.
Reached(c) == \E k \in Nat : c \in Within(Goal, k)

Distance(c) ==
    CHOOSE k \in Nat : c \in Within(Goal, k) /\ \A j \in Nat : c \in Within(Goal, j) => k <= j

LEMMA DistanceIsLeast ==
    ASSUME NEW c, Reached(c)
    PROVE  /\ Distance(c) \in Nat
           /\ c \in Within(Goal, Distance(c))
           /\ \A j \in Nat : c \in Within(Goal, j) => Distance(c) <= j
<1> DEFINE T == {k \in Nat : c \in Within(Goal, k)}
           P(k) == c \in Within(Goal, k) /\ \A j \in Nat : c \in Within(Goal, j) => k <= j
<1>1. T \subseteq Nat /\ T # {}
  BY DEF Reached
<1>2. \E k \in T : \A j \in T : k <= j
  <2> HIDE DEF T
  <2> QED
    BY <1>1, LeastNatural
<1>3. \E k \in Nat : P(k)
  BY <1>2
<1>4. Distance(c) = CHOOSE k \in Nat : P(k)
  BY DEF Distance
<1>5. Distance(c) \in Nat /\ P(Distance(c))
  <2> HIDE DEF P
  <2> QED
    BY <1>3, <1>4
<1> QED
  BY <1>5

\* What the proofs use of the reference.
LEMMA WithinMeans ==
    \A c : \A k \in Nat : c \in Within(Goal, k) <=> Reached(c) /\ Distance(c) <= k
<1> SUFFICES ASSUME NEW c, NEW k \in Nat
             PROVE  c \in Within(Goal, k) <=> Reached(c) /\ Distance(c) <= k
  OBVIOUS
<1>1. ASSUME c \in Within(Goal, k) PROVE Reached(c) /\ Distance(c) <= k
  <2>1. Reached(c)
    BY <1>1 DEF Reached
  <2> QED
    BY <1>1, <2>1, DistanceIsLeast
<1>2. ASSUME Reached(c), Distance(c) <= k PROVE c \in Within(Goal, k)
  <2>1. Distance(c) \in Nat /\ c \in Within(Goal, Distance(c))
    BY <1>2, DistanceIsLeast
  <2>2. Within(Goal, Distance(c)) \subseteq Within(Goal, k)
    BY <1>2, <2>1, WithinMonotone
  <2> QED
    BY <2>1, <2>2
<1> QED
  BY <1>1, <1>2

\* What is reached is land.
LEMMA ReachedIsLand == \A c : Reached(c) => c \in land /\ Distance(c) \in Nat
<1> SUFFICES ASSUME NEW c, Reached(c) PROVE c \in land /\ Distance(c) \in Nat
  OBVIOUS
<1>1. Distance(c) \in Nat /\ c \in Within(Goal, Distance(c))
  BY DistanceIsLeast
<1> QED
  BY <1>1, WithinGrows

\* The destination is at no distance from itself.
LEMMA GoalIsReached == Goal \in land => Reached(Goal) /\ Distance(Goal) = 0
<1> SUFFICES ASSUME Goal \in land PROVE Reached(Goal) /\ Distance(Goal) = 0
  OBVIOUS
<1>1. Goal \in Within(Goal, 0)
  BY WithinZero
<1>2. Reached(Goal) /\ Distance(Goal) <= 0
  BY <1>1, WithinMeans
<1> QED
  BY <1>2, ReachedIsLand

\* Land beside what is reached is reached, by at most one step more.
LEMMA NeighborIsReached ==
    \A b, c : Reached(c) /\ b \in land /\ b \in ToSet(Around(c)) =>
        Reached(b) /\ Distance(b) <= Distance(c) + 1
<1> SUFFICES ASSUME NEW b, NEW c, Reached(c), b \in land, b \in ToSet(Around(c))
             PROVE  Reached(b) /\ Distance(b) <= Distance(c) + 1
  OBVIOUS
<1>1. Distance(c) \in Nat /\ c \in Within(Goal, Distance(c))
  BY DistanceIsLeast
<1>2. b \in Grown(Within(Goal, Distance(c)))
  BY <1>1 DEF Grown
<1>3. b \in Within(Goal, Distance(c) + 1)
  BY <1>1, <1>2, WithinNext
<1>4. Distance(c) + 1 \in Nat
  BY <1>1
<1> QED
  BY <1>3, <1>4, WithinMeans

\* Each element but the destination has a neighbour one step nearer.
LEMMA OneIsNearer ==
    \A c : Reached(c) /\ c # Goal =>
        \E b : Reached(b) /\ c \in ToSet(Around(b)) /\ Distance(b) + 1 = Distance(c)
<1> SUFFICES ASSUME NEW c, Reached(c), c # Goal
             PROVE  \E b : Reached(b) /\ c \in ToSet(Around(b)) /\ Distance(b) + 1 = Distance(c)
  OBVIOUS
<1> DEFINE k == Distance(c) - 1
<1>1. Distance(c) \in Nat /\ c \in Within(Goal, Distance(c))
  BY DistanceIsLeast
<1>2. Distance(c) # 0
  BY <1>1, WithinZero
<1>3. k \in Nat /\ k + 1 = Distance(c)
  BY <1>1, <1>2
<1> HIDE DEF k
<1>4. c \in Grown(Within(Goal, k))
  BY <1>1, <1>3, WithinNext
<1>5. c \notin Within(Goal, k)
  BY <1>3, WithinMeans
<1>6. PICK b \in Within(Goal, k) : c \in ToSet(Around(b))
  BY <1>4, <1>5 DEF Grown
<1>7. Reached(b) /\ Distance(b) <= k
  BY <1>3, <1>6, WithinMeans
<1>8. c \in land
  BY ReachedIsLand
<1>9. Distance(c) <= Distance(b) + 1 /\ Distance(b) \in Nat
  BY <1>6, <1>7, <1>8, NeighborIsReached, ReachedIsLand
<1> QED
  BY <1>1, <1>3, <1>6, <1>7, <1>9
-----------------------------------------------------------------------------
(* The inductive invariant.                                                *)

TypeOK ==
    /\ land \subseteq Offsets
    /\ queue \in Seq(Offsets)
    /\ visited \subseteq Offsets
    /\ nextNode \in [Offsets -> Offsets]
    /\ position \in (0 .. MapSize * ElementSize) \X (0 .. MapSize * ElementSize)
    /\ destination \in Positions
    /\ stage \in {"search", "march", "arrived", "thrown"}

\* What waits was found, and the search is over when nothing waits.
Frontier ==
    /\ Goal \in visited
    /\ ToSet(queue) \subseteq visited
    /\ nextNode[Goal] = Goal
    /\ stage # "search" => queue = <<>>

\* The land elements wait in the order of their distances, of which there are
\* at most two, one after the other.
QueueInOrder ==
    \A i, j \in DOMAIN queue :
        (i < j /\ queue[i] \in land /\ queue[j] \in land) =>
            /\ Distance(queue[i]) <= Distance(queue[j])
            /\ Distance(queue[j]) <= Distance(queue[i]) + 1

\* The land elements that are found are connected with the destination.
FoundOverLand == \A c \in visited \cap land : Reached(c)

\* What does not wait any more has been expanded.
Expanded == \A c \in visited \cap land : c \in ToSet(queue) \/ FindNeighbors(c) \subseteq visited

\* The next element of each one found is beside it, and one step nearer.
LeadsNearer ==
    \A c \in (visited \cap land) \ {Goal} :
        /\ nextNode[c] \in ToSet(Around(c))
        /\ Reached(nextNode[c])
        /\ Distance(nextNode[c]) + 1 = Distance(c)

IInv == TypeOK /\ Frontier /\ QueueInOrder /\ FoundOverLand /\ Expanded /\ LeadsNearer

-----------------------------------------------------------------------------
(* Arithmetic, sequences and neighbours.                                   *)

\* Division of integers.
LEMMA Quotient ==
    ASSUME NEW x \in Int, NEW e \in Nat, e > 0, NEW q \in Int
    PROVE  (x \div e = q) <=> (q * e <= x /\ x < q * e + e)
  OBVIOUS

\* Positions lie on elements of the map.
LEMMA NodesAreOffsets == \A p \in Positions : NodeOf(p) \in Offsets
  BY PathPlannerAssumption, Quotient DEF NodeOf, Offsets, Positions

LEMMA AroundSet ==
    ASSUME NEW c
    PROVE  ToSet(Around(c)) = {<<c[1], c[2] + 1>>, <<c[1], c[2] - 1>>,
                               <<c[1] + 1, c[2]>>, <<c[1] - 1, c[2]>>}
  BY DEF ToSet, Around

LEMMA AroundIsSymmetric ==
    \A b, c \in Offsets : c \in ToSet(Around(b)) => b \in ToSet(Around(c))
  BY AroundSet, PathPlannerAssumption DEF Offsets

\* The elements of a concatenation, and of a queue without its head.
LEMMA ConcatElements ==
    ASSUME NEW S, NEW s \in Seq(S), NEW t \in Seq(S)
    PROVE  ToSet(s \o t) = ToSet(s) \cup ToSet(t)
<1>1. \A i \in DOMAIN s : s[i] = (s \o t)[i] /\ i \in DOMAIN (s \o t)
  OBVIOUS
<1>2. \A i \in DOMAIN t : t[i] = (s \o t)[Len(s) + i] /\ Len(s) + i \in DOMAIN (s \o t)
  OBVIOUS
<1>3. \A i \in DOMAIN (s \o t) : i \in DOMAIN s \/ i - Len(s) \in DOMAIN t
  OBVIOUS
<1>4. \A i \in DOMAIN (s \o t) : (s \o t)[i] \in ToSet(s) \cup ToSet(t)
  BY <1>3 DEF ToSet
<1>5. ToSet(s) \subseteq ToSet(s \o t)
  BY <1>1 DEF ToSet
<1>6. ToSet(t) \subseteq ToSet(s \o t)
  BY <1>2 DEF ToSet
<1>7. ToSet(s \o t) \subseteq ToSet(s) \cup ToSet(t)
  BY <1>4 DEF ToSet
<1> QED
  BY <1>5, <1>6, <1>7

LEMMA TailElements ==
    ASSUME NEW S, NEW s \in Seq(S), s # <<>>
    PROVE  ToSet(s) = {Head(s)} \cup ToSet(Tail(s))
<1>1. Len(s) > 0 /\ Head(s) = s[1] /\ 1 \in DOMAIN s
  OBVIOUS
<1>2. \A i \in DOMAIN Tail(s) : Tail(s)[i] = s[i + 1] /\ i + 1 \in DOMAIN s
  OBVIOUS
<1>3. \A i \in DOMAIN s : i = 1 \/ (i - 1 \in DOMAIN Tail(s) /\ Tail(s)[i - 1] = s[i])
  OBVIOUS
<1>4. Head(s) \in ToSet(s)
  BY <1>1 DEF ToSet
<1>5. ToSet(Tail(s)) \subseteq ToSet(s)
  BY <1>2 DEF ToSet
<1>6. \A i \in DOMAIN s : s[i] \in {Head(s)} \cup ToSet(Tail(s))
  BY <1>1, <1>3 DEF ToSet
<1>7. ToSet(s) \subseteq {Head(s)} \cup ToSet(Tail(s))
  BY <1>6 DEF ToSet
<1> QED
  BY <1>4, <1>5, <1>7

\* What InOrder lists.
LEMMA InOrderElements ==
    ASSUME NEW c, NEW set, set \subseteq Offsets
    PROVE  /\ InOrder(c, set) \in Seq(Offsets)
           /\ ToSet(InOrder(c, set)) = ToSet(Around(c)) \cap set
<1> DEFINE one(i) == IF Around(c)[i] \in set THEN <<Around(c)[i]>> ELSE << >>
           a == one(1) \o one(2)
           b == a \o one(3)
<1>1. \A i \in 1 .. 4 : one(i) \in Seq(Offsets) /\ ToSet(one(i)) = {Around(c)[i]} \cap set
  BY DEF ToSet
<1>2. InOrder(c, set) = b \o one(4)
  BY DEF InOrder
<1>3. ToSet(Around(c)) = {Around(c)[1], Around(c)[2], Around(c)[3], Around(c)[4]}
  BY DEF ToSet, Around
<1> HIDE DEF one
<1>4. a \in Seq(Offsets) /\ ToSet(a) = ToSet(one(1)) \cup ToSet(one(2))
  BY <1>1, ConcatElements
<1> HIDE DEF a
<1>5. b \in Seq(Offsets) /\ ToSet(b) = ToSet(a) \cup ToSet(one(3))
  BY <1>1, <1>4, ConcatElements
<1> HIDE DEF b
<1>6. b \o one(4) \in Seq(Offsets) /\ ToSet(b \o one(4)) = ToSet(b) \cup ToSet(one(4))
  BY <1>1, <1>5, ConcatElements
<1> QED
  BY <1>1, <1>2, <1>3, <1>4, <1>5, <1>6

\* The distances are those of the map and the destination, which stay.
LEMMA Unmoved ==
    ASSUME land' = land, destination' = destination
    PROVE  /\ Goal' = Goal
           /\ \A c : Reached(c)' <=> Reached(c)
           /\ \A c : Distance(c)' = Distance(c)
<1>1. Goal' = Goal
  BY DEF Goal, NodeOf
<1>2. \A c, k : Within(c, k)' = Within(c, k)
  BY Zenon DEF Within
<1>3. \A c, k : Within(Goal, k)' = Within(Goal, k)
  BY <1>1, <1>2
<1>4. \A c : Reached(c)' <=> Reached(c)
  BY <1>3, Zenon DEF Reached
<1>5. \A c : Distance(c)' = Distance(c)
  BY <1>3, Zenon DEF Distance
<1> QED
  BY <1>1, <1>4, <1>5

\* What is not found yet is behind a land element that waits: the nearest such
\* element has a nearer neighbour, which is found and so is either waiting or
\* expanded.
LEMMA NearestWaits ==
    ASSUME TypeOK, Frontier, Expanded
    PROVE  \A c : Reached(c) /\ c \notin visited =>
               \E b \in ToSet(queue) : Reached(b) /\ Distance(b) < Distance(c)
<1> DEFINE Waits(c) == \E b \in ToSet(queue) : Reached(b) /\ Distance(b) < Distance(c)
           Missed(c) == Reached(c) /\ c \notin visited /\ ~ Waits(c)
           Bad == {k \in Nat : \E c : Missed(c) /\ Distance(c) = k}
<1>1. SUFFICES ASSUME NEW d, Missed(d) PROVE FALSE
  OBVIOUS
<1>2. Bad \subseteq Nat /\ Distance(d) \in Bad
  BY <1>1, ReachedIsLand
<1>3. PICK k \in Bad : \A m \in Bad : k <= m
  <2> HIDE DEF Bad
  <2> QED
    BY <1>2, LeastNatural
<1>4. PICK c : Missed(c) /\ Distance(c) = k
  OBVIOUS
<1>5. c # Goal /\ c \in land /\ c \in Offsets
  BY <1>4, ReachedIsLand DEF Frontier, TypeOK
<1>6. PICK b : Reached(b) /\ c \in ToSet(Around(b)) /\ Distance(b) + 1 = Distance(c)
  BY <1>4, <1>5, OneIsNearer
<1>7. b \in land /\ Distance(b) \in Nat /\ Distance(b) < Distance(c)
  BY <1>6, ReachedIsLand
<1>8. CASE b \in visited
  <2>1. c \in FindNeighbors(b)
    BY <1>5, <1>6, <1>7 DEF FindNeighbors
  <2>2. b \in ToSet(queue)
    BY <1>4, <1>7, <1>8, <2>1 DEF Expanded
  <2> QED
    BY <1>4, <1>6, <1>7, <2>2
<1>9. CASE b \notin visited
  <2>1. Distance(b) \notin Bad
    <3> HIDE DEF Bad
    <3> QED
      BY <1>2, <1>3, <1>4, <1>7
  <2>2. PICK a \in ToSet(queue) : Reached(a) /\ Distance(a) < Distance(b)
    BY <1>6, <1>7, <1>9, <2>1
  <2>3. Distance(a) \in Nat
    BY <2>2, ReachedIsLand
  <2>4. Distance(a) < Distance(c)
    BY <1>7, <2>2, <2>3, <1>6
  <2> QED
    BY <1>4, <2>2, <2>4
<1> QED
  BY <1>8, <1>9
-----------------------------------------------------------------------------
(* The search.                                                             *)

LEMMA InitIInv == Init => IInv
<1> SUFFICES ASSUME Init PROVE IInv
  OBVIOUS
<1>1. PICK j \in Journeys : position = j[1] /\ destination = j[2]
  BY DEF Init
<1>2. position \in Positions /\ destination \in Positions
  BY <1>1, PathPlannerAssumption
<1>3. Goal \in Offsets
  BY <1>2, NodesAreOffsets DEF Goal
<1>4. queue = <<Goal>> /\ visited = {Goal} /\ stage = "search"
      /\ nextNode = [c \in Offsets |-> IF c = Goal THEN c ELSE <<0, 0>>]
  BY DEF Init, Goal
<1>5. <<0, 0>> \in Offsets
  BY PathPlannerAssumption DEF Offsets
<1>6. TypeOK
  <2>1. land \subseteq Offsets
    BY PathPlannerAssumption DEF Init
  <2>2. position \in (0 .. MapSize * ElementSize) \X (0 .. MapSize * ElementSize)
    BY <1>2, PathPlannerAssumption DEF Positions
  <2> QED
    BY <1>2, <1>3, <1>4, <1>5, <2>1, <2>2 DEF TypeOK
<1>7. DOMAIN queue = {1} /\ queue[1] = Goal /\ ToSet(queue) = {Goal}
  BY <1>4 DEF ToSet
<1>8. Frontier
  BY <1>3, <1>4, <1>7 DEF Frontier
<1>9. QueueInOrder
  BY <1>7 DEF QueueInOrder
<1>10. FoundOverLand
  BY <1>4, GoalIsReached DEF FoundOverLand
<1>11. Expanded
  BY <1>4, <1>7 DEF Expanded
<1>12. LeadsNearer
  BY <1>4 DEF LeadsNearer
<1> QED
  BY <1>6, <1>8, <1>9, <1>10, <1>11, <1>12 DEF IInv

\* A visited element gives its neighbours one step more than its own distance.
\* None is nearer: then it would have been behind an element that waits and is
\* nearer than the head of the queue, and the queue is in order.
LEMMA VisitIInv == IInv /\ Visit => IInv'
<1> SUFFICES ASSUME IInv, Visit PROVE IInv'
  OBVIOUS
<1> DEFINE current == Head(queue)
           rest == Tail(queue)
           new == InOrder(current, FindNeighbors(current) \ visited)
<1> USE DEF IInv
<1>1. /\ queue # <<>> /\ queue' = rest \o new /\ visited' = visited \cup ToSet(new)
      /\ nextNode' = [c \in Offsets |-> IF c \in ToSet(new) THEN current ELSE nextNode[c]]
      /\ land' = land /\ position' = position /\ destination' = destination /\ stage' = stage
  BY DEF Visit, PutLast
<1>2. stage = "search"
  BY DEF Visit
<1>3. /\ current \in Offsets /\ current \in visited
      /\ rest \in Seq(Offsets) /\ ToSet(queue) = {current} \cup ToSet(rest)
  <2>1. queue \in Seq(Offsets)
    BY DEF TypeOK
  <2>2. ToSet(queue) = {current} \cup ToSet(rest)
    BY <1>1, <2>1, TailElements
  <2>3. current \in Offsets /\ rest \in Seq(Offsets)
    BY <1>1, <2>1
  <2> QED
    BY <2>2, <2>3 DEF Frontier
<1>4. /\ new \in Seq(Offsets)
      /\ ToSet(new) = (ToSet(Around(current)) \cap FindNeighbors(current)) \ visited
  <2>1. FindNeighbors(current) \ visited \subseteq Offsets
    BY DEF FindNeighbors
  <2>2. /\ new \in Seq(Offsets)
        /\ ToSet(new) = ToSet(Around(current)) \cap (FindNeighbors(current) \ visited)
    BY <2>1, InOrderElements
  <2> QED
    BY <2>2
<1>5. \A c \in ToSet(new) : /\ c \in ToSet(Around(current)) /\ current \in land
                            /\ c \in Offsets /\ c \notin visited
  BY <1>4 DEF FindNeighbors
<1>6. FindNeighbors(current) \subseteq visited \cup ToSet(new)
  BY <1>4 DEF FindNeighbors
<1>7. ToSet(rest \o new) = ToSet(rest) \cup ToSet(new)
  <2> HIDE DEF rest, new
  <2> QED
    BY <1>3, <1>4, ConcatElements
<1>8. /\ Goal' = Goal
      /\ \A c : Reached(c)' <=> Reached(c)
      /\ \A c : Distance(c)' = Distance(c)
  BY <1>1, Unmoved
<1> HIDE DEF new, rest
<1>9. current \in land => Reached(current) /\ Distance(current) \in Nat
  BY <1>3, ReachedIsLand DEF FoundOverLand
<1>10. \A b \in ToSet(queue) : current \in land /\ b \in land =>
           /\ Distance(current) <= Distance(b) /\ Distance(b) <= Distance(current) + 1
           /\ Distance(b) \in Nat
  <2> SUFFICES ASSUME NEW b \in ToSet(queue), current \in land, b \in land
               PROVE  /\ Distance(current) <= Distance(b) /\ Distance(b) <= Distance(current) + 1
                      /\ Distance(b) \in Nat
    OBVIOUS
  <2>1. PICK i \in DOMAIN queue : b = queue[i]
    BY DEF ToSet
  <2>2. queue \in Seq(Offsets) /\ 1 \in DOMAIN queue /\ current = queue[1]
        /\ (i = 1 \/ 1 < i)
    BY <1>1 DEF TypeOK
  <2>3. CASE i = 1
    BY <1>9, <2>1, <2>2, <2>3
  <2>4. CASE 1 < i
    <3>1. /\ Distance(queue[1]) <= Distance(queue[i])
          /\ Distance(queue[i]) <= Distance(queue[1]) + 1
      BY <2>1, <2>2, <2>4 DEF QueueInOrder
    <3>2. Reached(b)
      BY DEF Frontier, FoundOverLand
    <3> QED
      BY <2>1, <2>2, <3>1, <3>2, ReachedIsLand
  <2> QED
    BY <2>2, <2>3, <2>4
<1>11. \A c \in ToSet(new) : c \in land =>
           Reached(c) /\ Distance(c) = Distance(current) + 1
  <2> SUFFICES ASSUME NEW c \in ToSet(new), c \in land
               PROVE  Reached(c) /\ Distance(c) = Distance(current) + 1
    OBVIOUS
  <2>1. /\ c \in ToSet(Around(current)) /\ c \notin visited
        /\ current \in land /\ Reached(current) /\ Distance(current) \in Nat
    BY <1>5, <1>9
  <2>2. Reached(c) /\ Distance(c) <= Distance(current) + 1
    BY <2>1, NeighborIsReached
  <2>3. PICK b \in ToSet(queue) : Reached(b) /\ Distance(b) < Distance(c)
    BY <2>1, <2>2, NearestWaits
  <2>4. Distance(current) <= Distance(b) /\ Distance(b) \in Nat /\ Distance(c) \in Nat
    BY <1>10, <2>1, <2>2, <2>3, ReachedIsLand
  <2> QED
    BY <2>1, <2>2, <2>3, <2>4
<1>12. TypeOK'
  <2>1. queue' \in Seq(Offsets)
    BY <1>1, <1>3, <1>4
  <2>2. visited' \subseteq Offsets
    BY <1>1, <1>5 DEF TypeOK
  <2>3. nextNode' \in [Offsets -> Offsets]
    BY <1>1, <1>3 DEF TypeOK
  <2> QED
    BY <1>1, <2>1, <2>2, <2>3 DEF TypeOK
<1>13. Goal \in Offsets
  BY NodesAreOffsets DEF Goal, TypeOK
<1>14. Frontier'
  <2>1. Goal' \in visited'
    BY <1>1, <1>8 DEF Frontier
  <2>2. ToSet(queue') \subseteq visited'
    BY <1>1, <1>3, <1>7 DEF Frontier
  <2>3. nextNode'[Goal'] = Goal'
    <3>1. Goal \notin ToSet(new)
      BY <1>5 DEF Frontier
    <3>2. nextNode'[Goal] = nextNode[Goal]
      BY <1>1, <1>13, <3>1
    <3> QED
      BY <1>8, <3>2 DEF Frontier
  <2>4. stage' = "search"
    BY <1>1, <1>2
  <2> QED
    BY <2>1, <2>2, <2>3, <2>4 DEF Frontier
<1>15. QueueInOrder'
  <2> DEFINE both == rest \o new
  <2>1. ASSUME NEW i \in DOMAIN both, NEW j \in DOMAIN both, i < j,
               both[i] \in land, both[j] \in land
        PROVE  /\ Distance(both[i]) <= Distance(both[j])
               /\ Distance(both[j]) <= Distance(both[i]) + 1
    <3> DEFINE Old(k) == k \in DOMAIN rest /\ both[k] = rest[k]
               Added(k) == k - Len(rest) \in DOMAIN new /\ both[k] = new[k - Len(rest)]
    <3>0. \A k \in DOMAIN both : Old(k) \/ Added(k)
      BY <1>3, <1>4
    <3>1. Old(i) \/ Added(i)
      BY <3>0
    <3>2. Old(j) \/ Added(j)
      BY <3>0
    <3>3. CASE j \in DOMAIN rest
      <4>1. i \in DOMAIN rest /\ i + 1 \in DOMAIN queue /\ j + 1 \in DOMAIN queue
            /\ rest[i] = queue[i + 1] /\ rest[j] = queue[j + 1] /\ i + 1 < j + 1
            /\ both[i] = rest[i] /\ both[j] = rest[j]
        BY <1>1, <1>3, <1>4, <2>1, <3>3 DEF rest, TypeOK
      <4> QED
        BY <2>1, <4>1 DEF QueueInOrder
    <3>4. CASE j \notin DOMAIN rest
      <4>1. both[j] \in ToSet(new)
        BY <3>2, <3>4 DEF ToSet
      <4>2. current \in land /\ Distance(current) \in Nat /\ Distance(both[j]) = Distance(current) + 1
        BY <1>5, <1>9, <1>11, <2>1, <4>1
      <4>3. both[i] \in ToSet(rest) \/ both[i] \in ToSet(new)
        BY <3>1 DEF ToSet
      <4>4. CASE both[i] \in ToSet(rest)
        <5>1. /\ Distance(current) <= Distance(both[i])
              /\ Distance(both[i]) <= Distance(current) + 1 /\ Distance(both[i]) \in Nat
          BY <1>3, <1>10, <2>1, <4>2, <4>4
        <5> HIDE DEF both
        <5> QED
          BY <4>2, <5>1
      <4>5. CASE both[i] \in ToSet(new)
        <5>1. Distance(both[i]) = Distance(current) + 1
          BY <1>11, <2>1, <4>5
        <5> HIDE DEF both
        <5> QED
          BY <4>2, <5>1
      <4> QED
        BY <4>3, <4>4, <4>5
    <3> QED
      BY <3>3, <3>4
  <2>2. queue' = both
    BY <1>1
  <2> HIDE DEF both
  <2> QED
    BY <1>1, <1>8, <2>1, <2>2 DEF QueueInOrder
<1>16. FoundOverLand'
  <2>1. \A c \in visited' \cap land' : Reached(c)
    BY <1>1, <1>11 DEF FoundOverLand
  <2> QED
    BY <1>8, <2>1 DEF FoundOverLand
<1>17. Expanded'
  <2>1. \A c : FindNeighbors(c)' = FindNeighbors(c)
    BY <1>1 DEF FindNeighbors
  <2>2. ASSUME NEW c \in visited' \cap land'
        PROVE  c \in ToSet(queue') \/ FindNeighbors(c) \subseteq visited'
    BY <1>1, <1>3, <1>6, <1>7 DEF Expanded
  <2> QED
    BY <2>1, <2>2 DEF Expanded
<1>18. LeadsNearer'
  <2>1. ASSUME NEW c \in (visited' \cap land') \ {Goal}
        PROVE  /\ nextNode'[c] \in ToSet(Around(c))
               /\ Reached(nextNode'[c])
               /\ Distance(nextNode'[c]) + 1 = Distance(c)
    <3>1. c \in Offsets /\ c \in land
      BY <1>1 DEF TypeOK
    <3>2. CASE c \in ToSet(new)
      <4>1. nextNode'[c] = current
        BY <1>1, <3>1, <3>2
      <4>2. current \in land /\ Reached(current) /\ current \in ToSet(Around(c))
        BY <1>3, <1>5, <1>9, <3>2, AroundIsSymmetric
      <4>3. Distance(c) = Distance(current) + 1
        BY <1>11, <3>1, <3>2
      <4> QED
        BY <4>1, <4>2, <4>3
    <3>3. CASE c \notin ToSet(new)
      <4>1. nextNode'[c] = nextNode[c] /\ c \in visited
        BY <1>1, <3>1, <3>3
      <4> QED
        BY <3>1, <4>1 DEF LeadsNearer
    <3> QED
      BY <3>2, <3>3
  <2> QED
    BY <1>8, <2>1 DEF LeadsNearer
<1> QED
  BY <1>12, <1>14, <1>15, <1>16, <1>17, <1>18

\* The march changes neither the map nor what the search has found.
LEMMA MapStays ==
    ASSUME Frontier, QueueInOrder, FoundOverLand, Expanded, LeadsNearer,
           UNCHANGED <<land, queue, visited, nextNode, destination>>,
           stage' # "search" => queue = <<>>
    PROVE  (Frontier /\ QueueInOrder /\ FoundOverLand /\ Expanded /\ LeadsNearer)'
<1>1. /\ Goal' = Goal
      /\ \A c : Reached(c)' <=> Reached(c)
      /\ \A c : Distance(c)' = Distance(c)
  BY Unmoved
<1>2. Frontier'
  BY <1>1 DEF Frontier
<1>3. QueueInOrder'
  BY <1>1 DEF QueueInOrder
<1>4. FoundOverLand'
  BY <1>1 DEF FoundOverLand
<1>5. Expanded'
  BY DEF Expanded, FindNeighbors
<1>6. LeadsNearer'
  BY <1>1 DEF LeadsNearer
<1> QED
  BY <1>2, <1>3, <1>4, <1>5, <1>6
-----------------------------------------------------------------------------
(* The march: rounding up.                                                 *)

LEMMA Constants ==
    /\ Speed \in Nat /\ Speed > 1 /\ Speed <= ElementSize
    /\ ElementSize \in Nat /\ ElementSize > 2 /\ MapSize \in Nat /\ MapSize > 0
  BY PathPlannerAssumption

LEMMA SquareFacts ==
    \A x \in Int : Sq(x) \in Nat /\ (x # 0 => Sq(x) > 0) /\ Sq(x) = Sq(-x)
  BY DEF Sq

LEMMA SquaresGrow ==
    \A x, y \in Nat : x <= y => Sq(x) <= Sq(y)
  BY DEF Sq

LEMMA ProductsGrow ==
    /\ \A x, y, z \in Nat : x <= y => x * z <= y * z
    /\ \A x, y, z \in Nat : x < y /\ z > 0 => x * z < y * z
    /\ \A x, y \in Nat : x * y \in Nat /\ x * y = y * x
  OBVIOUS

\* A coordinate of a step, whose exact value is Speed * d / sqrt(Sq(d) + Sq(e)).
Rounded(x, d, e) ==
    LET sq == Sq(d) + Sq(e) IN
    /\ x \in -Speed .. Speed
    /\ d > 0 => x = 0 \/ (x > 0 /\ Sq(x - 1) * sq <= Sq(d) * Sq(Speed))
    /\ d = 0 => x = 0
    /\ d < 0 => x <= 0 /\ Sq(x) * sq <= Sq(d) * Sq(Speed)

\* What RoundedUp returns exceeds a positive coordinate by at most 1, and is not
\* greater in size than a negative one.
LEMMA RoundedUpIsRounded ==
    ASSUME NEW d \in Int, NEW e \in Int, Sq(d) + Sq(e) # 0,
           NEW x \in RoundedUp(d, Sq(d) + Sq(e))
    PROVE  Rounded(x, d, e)
<1> DEFINE sq == Sq(d) + Sq(e)
           exact == Sq(d * Speed)
           Least(m) == Sq(m) * sq >= exact /\ (m = 0 \/ Sq(m - 1) * sq < exact)
           Most(m) == Sq(m) * sq <= exact /\ (m = -Speed \/ Sq(m - 1) * sq > exact)
           up == IF d >= 0 THEN CHOOSE m \in 0 .. Speed : Least(m)
                 ELSE CHOOSE m \in -Speed .. 0 : Most(m)
<1>1. x = up \/ (x = up + 1 /\ Sq(up) * sq = exact /\ d # 0 /\ Sq(d) # sq)
  BY DEF RoundedUp
<1>2. Sq(d) \in Nat /\ Sq(e) \in Nat /\ Sq(Speed) \in Nat /\ Sq(Speed) > 0
      /\ (d # 0 => Sq(d) > 0)
  BY SquareFacts, Constants
<1>3. sq \in Nat /\ sq > 0 /\ Sq(d) <= sq
  BY <1>2
<1>4. exact = Sq(d) * Sq(Speed) /\ exact \in Nat
  BY Constants DEF Sq
<1>5. exact <= Sq(Speed) * sq /\ (Sq(d) # sq => exact < Sq(Speed) * sq)
  <2>1. Sq(d) * Sq(Speed) <= sq * Sq(Speed) /\ sq * Sq(Speed) = Sq(Speed) * sq
    BY <1>2, <1>3, ProductsGrow
  <2>2. Sq(d) # sq => Sq(d) * Sq(Speed) < sq * Sq(Speed)
    <3>1. Sq(d) # sq => Sq(d) < sq
      BY <1>2, <1>3
    <3> QED
      BY <1>2, <1>3, <3>1, ProductsGrow
  <2> QED
    BY <1>4, <2>1, <2>2
<1>6. \A m \in Int : Sq(m) \in Nat /\ Sq(m) * sq \in Nat
  BY <1>3, SquareFacts, ProductsGrow
<1> HIDE DEF sq, exact
<1>7. CASE d >= 0
  <2> DEFINE T == {m \in Nat : Sq(m) * sq >= exact}
  <2>1. Speed \in T
    BY <1>5, <1>4, <1>6, Constants
  <2>2. PICK n \in T : \A m \in T : n <= m
    <3>1. T \subseteq Nat /\ T # {}
      BY <2>1
    <3> HIDE DEF T
    <3> QED
      BY <3>1, LeastNatural
  <2>3. n \in 0 .. Speed
    BY <2>1, <2>2, Constants
  <2>4. n = 0 \/ Sq(n - 1) * sq < exact
    <3> SUFFICES ASSUME n # 0 PROVE Sq(n - 1) * sq < exact
      OBVIOUS
    <3>1. n - 1 \in Nat /\ n - 1 \notin T
      BY <2>2
    <3> QED
      BY <3>1, <1>4, <1>6
  <2>5. \E m \in 0 .. Speed : Least(m)
    BY <2>2, <2>3, <2>4
  <2>6. up \in 0 .. Speed /\ Least(up)
    <3>1. up = CHOOSE m \in 0 .. Speed : Least(m)
      BY <1>7
    <3> HIDE DEF up, Least
    <3> QED
      BY <2>5, <3>1
  <2> HIDE DEF up, T
  <2>7. CASE d = 0
    <3>1. exact = 0
      BY <2>7, Constants DEF exact, Sq
    <3>2. up = 0
      <4> SUFFICES ASSUME up # 0 PROVE FALSE
        OBVIOUS
      <4>1. Sq(up - 1) * sq \in Nat
        BY <2>6, <1>6
      <4> QED
        BY <2>6, <3>1, <4>1
    <3> QED
      BY <1>1, <2>7, <3>2, Constants DEF Rounded
  <2>8. CASE d > 0 /\ x = up
    <3>1. x = 0 \/ (x > 0 /\ Sq(x - 1) * sq <= exact)
      BY <2>6, <2>8, <1>4, <1>6
    <3> QED
      BY <2>6, <2>8, <3>1, <1>4, Constants DEF Rounded, sq
  <2>9. CASE d > 0 /\ x = up + 1 /\ Sq(up) * sq = exact /\ Sq(d) # sq
    <3>1. up # Speed
      BY <2>9, <1>4, <1>5
    <3>2. x \in 1 .. Speed /\ x - 1 = up
      BY <2>6, <2>9, <3>1, Constants
    <3>3. Sq(x - 1) * sq <= exact
      BY <2>9, <3>2, <1>4
    <3> QED
      BY <2>9, <3>2, <3>3, <1>4, Constants DEF Rounded, sq
  <2> QED
    BY <1>1, <1>7, <2>7, <2>8, <2>9
<1>8. CASE d < 0
  <2> DEFINE T == {k \in Nat : Sq(k - Speed) * sq <= exact}
  <2>0. Speed - Speed = 0 /\ Sq(0) * sq = 0
    BY <1>3, Constants DEF Sq
  <2>1. Speed \in T
    BY <2>0, <1>4, Constants
  <2>2. PICK n \in T : \A k \in T : n <= k
    <3>1. T \subseteq Nat /\ T # {}
      BY <2>1
    <3> HIDE DEF T
    <3> QED
      BY <3>1, LeastNatural
  <2>3. n - Speed \in -Speed .. 0
    BY <2>1, <2>2, Constants
  <2>4. n - Speed = -Speed \/ Sq((n - Speed) - 1) * sq > exact
    <3> SUFFICES ASSUME n # 0 PROVE Sq((n - Speed) - 1) * sq > exact
      BY Constants
    <3>1. n - 1 \in Nat /\ n - 1 \notin T
      BY <2>2
    <3>2. (n - Speed) - 1 = (n - 1) - Speed /\ (n - Speed) - 1 \in Int
      BY <2>2, Constants
    <3>3. ~ (Sq((n - 1) - Speed) * sq <= exact)
      BY <3>1
    <3> QED
      BY <3>2, <3>3, <1>4, <1>6
  <2>5. \E m \in -Speed .. 0 : Most(m)
    BY <2>2, <2>3, <2>4
  <2>6. up \in -Speed .. 0 /\ Most(up)
    <3>1. up = CHOOSE m \in -Speed .. 0 : Most(m)
      BY <1>8
    <3> HIDE DEF up, Most
    <3> QED
      BY <2>5, <3>1
  <2> HIDE DEF up, T
  <2>7. CASE x = up
    BY <2>6, <2>7, <1>4, <1>8, Constants DEF Rounded, sq
  <2>8. CASE x = up + 1 /\ Sq(up) * sq = exact
    <3>1. exact > 0
      BY <1>2, <1>4, <1>8, ProductsGrow
    <3>2. up # 0
      BY <2>0, <2>8, <3>1
    <3>3. x \in -Speed .. 0
      BY <2>6, <2>8, <3>2, Constants
    <3>4. Sq(x) <= Sq(up)
      <4>1. -x \in Nat /\ -up \in Nat /\ -x <= -up
        BY <2>6, <2>8, <3>3, Constants
      <4>2. Sq(-x) <= Sq(-up)
        BY <4>1, SquaresGrow
      <4> QED
        BY <2>6, <3>3, <4>2, SquareFacts, Constants
    <3>5. Sq(x) * sq <= Sq(up) * sq
      BY <1>3, <1>6, <2>6, <3>3, <3>4, ProductsGrow, Constants
    <3>6. Sq(x) * sq <= exact
      BY <2>8, <3>5
    <3> QED
      BY <1>4, <1>8, <3>3, <3>6, Constants DEF Rounded, sq
  <2> QED
    BY <1>1, <2>7, <2>8
<1> QED
  BY <1>7, <1>8
-----------------------------------------------------------------------------
(* The march: where a step leads.                                          *)

\* A step towards a destination that is farther away than the step is long.
LEMMA NoOvershoot ==
    ASSUME NEW d \in Int, NEW e \in Int, Sq(d) + Sq(e) > Sq(Speed), NEW x, Rounded(x, d, e)
    PROVE  (d >= 0 => 0 <= x /\ x <= d) /\ (d <= 0 => d <= x /\ x <= 0) /\ x \in Int
<1> DEFINE sq == Sq(d) + Sq(e)
<1>1. x \in Int
  BY Constants DEF Rounded
<1>2. Sq(d) \in Nat /\ Sq(Speed) \in Nat /\ sq \in Nat /\ Sq(Speed) < sq
  BY SquareFacts, Constants
<1>3. d # 0 => Sq(d) * Sq(Speed) < Sq(d) * sq
  <2>1. d # 0 => Sq(d) > 0
    BY SquareFacts
  <2>2. d # 0 => Sq(Speed) * Sq(d) < sq * Sq(d)
    BY <1>2, <2>1, ProductsGrow
  <2> HIDE DEF sq
  <2> QED
    BY <1>2, <2>2, ProductsGrow
<1>4. ASSUME d > 0, x > d PROVE FALSE
  <2>1. x > 0 /\ Sq(x - 1) * sq <= Sq(d) * Sq(Speed)
    BY <1>1, <1>4 DEF Rounded
  <2>2. d \in Nat /\ x - 1 \in Nat /\ d <= x - 1
    BY <1>1, <1>4
  <2>3. Sq(d) <= Sq(x - 1) /\ Sq(x - 1) \in Nat
    BY <2>2, SquaresGrow, SquareFacts
  <2>4. Sq(d) * sq <= Sq(x - 1) * sq
    BY <1>2, <2>3, ProductsGrow
  <2>5. Sq(d) * Sq(Speed) \in Nat /\ Sq(d) * sq \in Nat /\ Sq(x - 1) * sq \in Nat
    BY <1>2, <2>3, ProductsGrow
  <2> HIDE DEF sq
  <2> QED
    BY <1>3, <1>4, <2>1, <2>4, <2>5
<1>5. ASSUME d < 0, x < d PROVE FALSE
  <2>1. Sq(x) * sq <= Sq(d) * Sq(Speed)
    BY <1>1, <1>5 DEF Rounded
  <2>2. -d \in Nat /\ -x \in Nat /\ -d <= -x
    BY <1>1, <1>5
  <2>3. Sq(d) <= Sq(x) /\ Sq(x) \in Nat
    BY <1>1, <2>2, SquaresGrow, SquareFacts
  <2>4. Sq(d) * sq <= Sq(x) * sq
    BY <1>2, <2>3, ProductsGrow
  <2>5. Sq(d) * Sq(Speed) \in Nat /\ Sq(d) * sq \in Nat /\ Sq(x) * sq \in Nat
    BY <1>2, <2>3, ProductsGrow
  <2> HIDE DEF sq
  <2> QED
    BY <1>3, <1>5, <2>1, <2>4, <2>5
<1> QED
  BY <1>1, <1>4, <1>5 DEF Rounded

\* Steps of x that lead out of a row are longer than the rounded ones: s is the
\* square of the speed, g the distance from the middle of the row to its upper
\* end, rounded up, and sq the square of the distance to go.
LEMMA TooFarUp ==
    ASSUME NEW g \in Nat, NEW d \in Nat, NEW x \in Nat, NEW sq \in Nat, NEW s \in Nat,
           g > 1, d > 0, x >= g + d, s <= 4 * Sq(g), Sq(d) + Sq(g) <= sq
    PROVE  Sq(d) * s < Sq(x - 1) * sq
<1> DEFINE gd == g * d
           y == g + d - 1
           t == Sq(d) + Sq(g)
<1>1. /\ Sq(d) \in Nat /\ Sq(g) \in Nat /\ 4 * Sq(g) \in Nat /\ t \in Nat
      /\ y \in Nat /\ Sq(y) \in Nat /\ x - 1 \in Nat /\ Sq(x - 1) \in Nat /\ gd \in Nat
  BY SquareFacts, ProductsGrow
<1>2. Sq(y) <= Sq(x - 1)
  <2>1. y <= x - 1
    OBVIOUS
  <2> QED
    BY <1>1, <2>1, SquaresGrow
<1>3. Sq(y) * t <= Sq(x - 1) * sq
  <2> HIDE DEF y, t
  <2>1. Sq(y) * t <= Sq(x - 1) * t
    BY <1>1, <1>2, ProductsGrow
  <2>2. t <= sq
    BY DEF t
  <2>3. t * Sq(x - 1) <= sq * Sq(x - 1)
    BY <1>1, <2>2, ProductsGrow
  <2>4. t * Sq(x - 1) = Sq(x - 1) * t /\ sq * Sq(x - 1) = Sq(x - 1) * sq
        /\ Sq(y) * t \in Nat /\ Sq(x - 1) * t \in Nat /\ Sq(x - 1) * sq \in Nat
    BY <1>1, ProductsGrow
  <2> QED
    BY <2>1, <2>3, <2>4
<1>4. Sq(d) * s <= Sq(d) * (4 * Sq(g))
  <2>1. s * Sq(d) <= (4 * Sq(g)) * Sq(d)
    BY <1>1, ProductsGrow
  <2> QED
    BY <1>1, <2>1, ProductsGrow
<1>5. Sq(d) * (4 * Sq(g)) < Sq(y) * t
  <2>1. CASE d = 1 /\ g = 2
    BY <2>1 DEF Sq
  <2>2. CASE d > 1 \/ g > 2
    <3>1. gd > 0
      BY ProductsGrow
    <3>2. 2 * gd <= t
      <4>1. Sq(g - d) = t - 2 * gd
        BY DEF Sq
      <4>2. Sq(g - d) \in Nat
        BY SquareFacts
      <4> HIDE DEF gd, t
      <4> QED
        BY <4>1, <4>2, <1>1
    <3>3. 2 * gd < Sq(y)
      <4>1. Sq(y) = 2 * gd + Sq(g - 1) + Sq(d - 1) - 1
        BY DEF Sq
      <4>2. \A n \in Nat : Sq(n) >= n
        BY DEF Sq
      <4>3. Sq(g - 1) >= g - 1 /\ Sq(d - 1) >= d - 1 /\ Sq(g - 1) \in Nat /\ Sq(d - 1) \in Nat
        <5>1. g - 1 \in Nat /\ d - 1 \in Nat
          OBVIOUS
        <5> QED
          BY <5>1, <4>2, SquareFacts
      <4>4. Sq(g - 1) + Sq(d - 1) > 1
        BY <4>3, <2>2
      <4> HIDE DEF gd, y
      <4> QED
        BY <4>1, <4>3, <4>4, <1>1
    <3>4. Sq(d) * (4 * Sq(g)) = (2 * gd) * (2 * gd)
      BY DEF Sq
    <3> HIDE DEF gd, y, t
    <3>5. (2 * gd) * (2 * gd) < Sq(y) * (2 * gd)
      BY <1>1, <3>1, <3>3, ProductsGrow
    <3>6. (2 * gd) * Sq(y) <= t * Sq(y)
      BY <1>1, <3>2, ProductsGrow
    <3>7. (2 * gd) * Sq(y) = Sq(y) * (2 * gd) /\ t * Sq(y) = Sq(y) * t
          /\ Sq(y) * (2 * gd) \in Nat /\ Sq(y) * t \in Nat /\ (2 * gd) * (2 * gd) \in Nat
      BY <1>1, ProductsGrow
    <3> QED
      BY <3>4, <3>5, <3>6, <3>7
  <2> QED
    BY <2>1, <2>2
<1>6. Sq(d) * s \in Nat /\ Sq(d) * (4 * Sq(g)) \in Nat /\ Sq(y) * t \in Nat
      /\ Sq(x - 1) * sq \in Nat
  <2> HIDE DEF y, t
  <2> QED
    BY <1>1, ProductsGrow
<1> HIDE DEF y, t
<1> QED
  BY <1>3, <1>4, <1>5, <1>6

\* Likewise downwards, where nothing is rounded: k is the distance.
LEMMA TooFarDown ==
    ASSUME NEW g \in Nat, NEW k \in Nat, NEW x \in Nat, NEW sq \in Nat, NEW s \in Nat,
           k > 0, x >= 2 * k, s <= 4 * Sq(g), Sq(k) + Sq(g) <= sq
    PROVE  Sq(k) * s < Sq(x) * sq
<1>1. /\ Sq(k) \in Nat /\ Sq(k) > 0 /\ Sq(g) \in Nat /\ 4 * Sq(g) \in Nat /\ 4 * Sq(k) \in Nat
      /\ Sq(x) \in Nat /\ 2 * k \in Nat
  BY SquareFacts
<1>2. 4 * Sq(k) <= Sq(x) /\ Sq(x) > 0
  <2>1. Sq(2 * k) <= Sq(x)
    BY <1>1, SquaresGrow
  <2>2. Sq(2 * k) = 4 * Sq(k)
    BY DEF Sq
  <2> QED
    BY <1>1, <2>1, <2>2
<1>3. Sq(g) < sq
  BY <1>1
<1>4. s * Sq(k) <= (4 * Sq(g)) * Sq(k)
  BY <1>1, ProductsGrow
<1>5. (4 * Sq(k)) * Sq(g) <= Sq(x) * Sq(g)
  BY <1>1, <1>2, ProductsGrow
<1>6. Sq(g) * Sq(x) < sq * Sq(x)
  BY <1>1, <1>2, <1>3, ProductsGrow
<1>7. /\ s * Sq(k) = Sq(k) * s /\ Sq(g) * Sq(x) = Sq(x) * Sq(g) /\ sq * Sq(x) = Sq(x) * sq
      /\ Sq(k) * s \in Nat /\ Sq(x) * Sq(g) \in Nat /\ Sq(x) * sq \in Nat
      /\ (4 * Sq(k)) * Sq(g) \in Nat
  BY <1>1, ProductsGrow
<1>8. (4 * Sq(g)) * Sq(k) = (4 * Sq(k)) * Sq(g)
  BY <1>1
<1> QED
  BY <1>4, <1>5, <1>6, <1>7, <1>8

\* A step towards the middle of the next element, across the direction in which
\* that lies: h is the middle of the row, r the place in it, and e the distance
\* along that direction.
LEMMA StaysInRow ==
    ASSUME NEW r \in 0 .. ElementSize - 1, NEW h \in Nat, h = ElementSize \div 2,
           NEW e \in Int, e >= ElementSize - h \/ -e >= ElementSize - h,
           NEW x, Rounded(x, h - r, e)
    PROVE  r + x \in 0 .. ElementSize - 1
<1> DEFINE g == ElementSize - h
           d == h - r
           sq == Sq(d) + Sq(e)
<1>1. h > 0 /\ g \in Nat /\ g > 1 /\ h <= g /\ g <= h + 1 /\ ElementSize = g + h /\ r \in Nat
  BY Constants
<1>2. d \in Int /\ d <= h /\ -d < g /\ x \in Int /\ r = h - d
  BY Constants, <1>1 DEF Rounded
<1>3. Sq(Speed) <= 4 * Sq(g) /\ Sq(Speed) \in Nat
  <2>1. Speed <= 2 * g /\ 2 * g \in Nat
    BY <1>1, Constants
  <2>2. Sq(Speed) <= Sq(2 * g)
    BY <2>1, SquaresGrow, Constants
  <2>3. Sq(2 * g) = 4 * Sq(g)
    BY <1>1 DEF Sq
  <2> QED
    BY <2>2, <2>3, SquareFacts, Constants
<1>4. /\ Sq(g) \in Nat /\ Sq(e) \in Nat /\ Sq(d) \in Nat /\ sq \in Nat
      /\ Sq(d) + Sq(g) <= sq /\ Sq(-d) = Sq(d) /\ Sq(-x) = Sq(x)
  <2>1. Sq(g) <= Sq(e)
    <3>1. CASE e >= g
      BY <1>1, <3>1, SquaresGrow
    <3>2. CASE -e >= g
      <4>1. -e \in Nat /\ g <= -e
        BY <1>1, <3>2
      <4>2. Sq(g) <= Sq(-e)
        BY <1>1, <4>1, SquaresGrow
      <4> QED
        BY <4>2, SquareFacts
    <3> QED
      BY <3>1, <3>2
  <2>2. Sq(g) \in Nat /\ Sq(e) \in Nat /\ Sq(d) \in Nat /\ Sq(-d) = Sq(d) /\ Sq(-x) = Sq(x)
    BY <1>1, <1>2, SquareFacts
  <2> QED
    BY <2>1, <2>2
<1>5. /\ d > 0 => x = 0 \/ (x > 0 /\ Sq(x - 1) * sq <= Sq(d) * Sq(Speed))
      /\ d = 0 => x = 0
      /\ d < 0 => x <= 0 /\ Sq(x) * sq <= Sq(d) * Sq(Speed)
  BY DEF Rounded
<1> HIDE DEF d, g, sq
<1>6. ASSUME d > 0, x >= g + d PROVE FALSE
  <2>1. d \in Nat /\ x \in Nat /\ x > 0
    BY <1>1, <1>2, <1>6
  <2>2. Sq(d) * Sq(Speed) < Sq(x - 1) * sq
    BY <1>1, <1>3, <1>4, <1>6, <2>1, TooFarUp
  <2>3. Sq(d) * Sq(Speed) \in Nat /\ Sq(x - 1) * sq \in Nat
    BY <1>3, <1>4, <2>1, SquareFacts, ProductsGrow
  <2> QED
    BY <1>5, <1>6, <2>1, <2>2, <2>3
<1>7. ASSUME d < 0, x < -r PROVE FALSE
  <2>1. -d \in Nat /\ -d > 0 /\ -x \in Nat /\ -x >= 2 * (-d)
    BY <1>1, <1>2, <1>7
  <2>2. Sq(-d) * Sq(Speed) < Sq(-x) * sq
    <3>1. Sq(-d) + Sq(g) <= sq
      BY <1>4
    <3> QED
      BY <1>1, <1>3, <1>4, <2>1, <3>1, TooFarDown
  <2>3. Sq(d) * Sq(Speed) \in Nat /\ Sq(x) * sq \in Nat
    BY <1>2, <1>3, <1>4, SquareFacts, ProductsGrow
  <2> QED
    BY <1>4, <1>5, <1>7, <2>2, <2>3
<1>8. CASE d > 0
  BY <1>1, <1>2, <1>5, <1>6, <1>8
<1>9. CASE d = 0
  BY <1>1, <1>2, <1>5, <1>9
<1>10. CASE d < 0
  BY <1>1, <1>2, <1>5, <1>7, <1>10
<1> QED
  BY <1>2, <1>8, <1>9, <1>10
\* One coordinate of a step: it stays on the map, and between the elements
\* where it starts and where it leads.
LEMMA BetweenTwo ==
    ASSUME NEW a \in Nat, a < MapSize * ElementSize, NEW t \in Nat, t < MapSize * ElementSize,
           NEW x \in Int, t >= a => 0 <= x /\ x <= t - a, t <= a => t - a <= x /\ x <= 0,
           t \div ElementSize = a \div ElementSize
           \/ t \div ElementSize = a \div ElementSize + 1
           \/ t \div ElementSize = a \div ElementSize - 1
    PROVE  /\ Clamp(a + x) \in 0 .. MapSize * ElementSize - 1
           /\ \/ Clamp(a + x) \div ElementSize = a \div ElementSize
              \/ Clamp(a + x) \div ElementSize = t \div ElementSize
<1> DEFINE k == a \div ElementSize
           n == t \div ElementSize
           b == a + x
           size == MapSize * ElementSize
<1>1. size \in Nat /\ size = ElementSize * MapSize
  BY Constants
<1>2. b \in Nat /\ b < size
  BY <1>1
<1>3. Clamp(b) = b
  BY <1>1, <1>2 DEF Clamp
<1>4. k \in Int /\ n \in Int /\ k * ElementSize <= a /\ a < k * ElementSize + ElementSize
      /\ n * ElementSize <= t /\ t < n * ElementSize + ElementSize
  BY Constants, Quotient
<1>5. b \div ElementSize = k \/ b \div ElementSize = n
  <2>1. CASE n = k
    <3>1. k * ElementSize \in Int /\ n * ElementSize = k * ElementSize
      BY <1>4, <2>1, Constants
    <3>2. k * ElementSize <= b /\ b < k * ElementSize + ElementSize
      <4>1. (a <= b /\ b <= t) \/ (t <= b /\ b <= a)
        OBVIOUS
      <4>2. k * ElementSize <= t /\ t < k * ElementSize + ElementSize
        BY <1>4, <3>1
      <4> HIDE DEF k, n
      <4> QED
        BY <1>2, <1>4, <3>1, <4>1, <4>2, Constants
    <3> QED
      BY <1>2, <1>4, <3>2, Quotient, Constants
  <2>2. CASE n = k + 1
    <3>1. n * ElementSize = k * ElementSize + ElementSize
      BY <1>4, <2>2, Constants
    <3>2. k * ElementSize \in Int /\ k * ElementSize <= b /\ b < n * ElementSize + ElementSize
      BY <1>4, <3>1, Constants
    <3>3. (k * ElementSize <= b /\ b < k * ElementSize + ElementSize)
          \/ (n * ElementSize <= b /\ b < n * ElementSize + ElementSize)
      BY <1>2, <3>1, <3>2, Constants
    <3> QED
      BY <1>2, <1>4, <3>3, Quotient, Constants
  <2>3. CASE n = k - 1
    <3>1. k * ElementSize = n * ElementSize + ElementSize
      BY <1>4, <2>3, Constants
    <3>2. n * ElementSize \in Int /\ n * ElementSize <= b /\ b < k * ElementSize + ElementSize
      BY <1>4, <3>1, Constants
    <3>3. (k * ElementSize <= b /\ b < k * ElementSize + ElementSize)
          \/ (n * ElementSize <= b /\ b < n * ElementSize + ElementSize)
      BY <1>2, <3>1, <3>2, Constants
    <3> QED
      BY <1>2, <1>4, <3>3, Quotient, Constants
  <2> QED
    BY <2>1, <2>2, <2>3
<1> QED
  BY <1>1, <1>2, <1>3, <1>5

\* The coordinate along the direction of the next element.
LEMMA StepsAlong ==
    ASSUME NEW a \in Nat, NEW k \in Int, k = a \div ElementSize,
           NEW n \in 0 .. MapSize - 1, n = k + 1 \/ n = k - 1, k \in 0 .. MapSize - 1,
           NEW h \in Nat, h = ElementSize \div 2, NEW e \in Int,
           NEW x, Rounded(x, n * ElementSize + h - a, e)
    PROVE  /\ Clamp(a + x) \in 0 .. MapSize * ElementSize - 1
           /\ Clamp(a + x) \div ElementSize \in {k, n}
<1> DEFINE b == a + x
           size == MapSize * ElementSize
           d == n * ElementSize + h - a
<1>1. /\ size \in Nat /\ size = ElementSize * MapSize /\ n * ElementSize \in Nat
      /\ k * ElementSize \in Nat /\ h < ElementSize
  BY Constants
<1>2. /\ n * ElementSize + ElementSize <= size /\ k * ElementSize + ElementSize <= size
  <2>1. n + 1 \in Nat /\ n + 1 <= MapSize /\ k + 1 \in Nat /\ k + 1 <= MapSize
    BY Constants
  <2>2. (n + 1) * ElementSize <= size /\ (k + 1) * ElementSize <= size
    BY <2>1, Constants, ProductsGrow
  <2>3. (n + 1) * ElementSize = n * ElementSize + ElementSize
        /\ (k + 1) * ElementSize = k * ElementSize + ElementSize
    BY Constants
  <2> QED
    BY <2>2, <2>3
<1>3. k * ElementSize <= a /\ a < k * ElementSize + ElementSize
  BY Constants, Quotient
<1>4. x \in Int /\ x <= ElementSize /\ -ElementSize <= x /\ (d > 0 => x >= 0) /\ (d < 0 => x <= 0)
  BY <1>1, Constants DEF Rounded
<1>5. /\ b \in Nat /\ b < size
      /\ (k * ElementSize <= b /\ b < k * ElementSize + ElementSize)
         \/ (n * ElementSize <= b /\ b < n * ElementSize + ElementSize)
  <2>1. CASE n = k + 1
    <3>1. n * ElementSize = k * ElementSize + ElementSize
      BY <2>1, Constants
    <3>2. x >= 0
      <4>1. d > 0
        BY <1>1, <1>3, <3>1
      <4> QED
        BY <1>4, <4>1
    <3> QED
      BY <1>1, <1>2, <1>3, <1>4, <3>1, <3>2, Constants
  <2>2. CASE n = k - 1
    <3>1. k * ElementSize = n * ElementSize + ElementSize
      BY <2>2, Constants
    <3>2. x <= 0
      <4>1. d < 0
        BY <1>1, <1>3, <3>1, Constants
      <4> QED
        BY <1>4, <4>1
    <3> QED
      BY <1>1, <1>2, <1>3, <1>4, <3>1, <3>2, Constants
  <2> QED
    BY <2>1, <2>2
<1>6. Clamp(b) = b
  BY <1>1, <1>5 DEF Clamp
<1>7. b \div ElementSize = k \/ b \div ElementSize = n
  BY <1>5, Quotient, Constants
<1> QED
  BY <1>1, <1>5, <1>6, <1>7

\* The coordinate across it.
LEMMA StepsAcross ==
    ASSUME NEW a \in Nat, NEW k \in 0 .. MapSize - 1, k = a \div ElementSize,
           NEW h \in Nat, h = ElementSize \div 2, NEW e \in Int,
           e >= ElementSize - h \/ -e >= ElementSize - h,
           NEW x, Rounded(x, k * ElementSize + h - a, e)
    PROVE  /\ Clamp(a + x) \in 0 .. MapSize * ElementSize - 1
           /\ Clamp(a + x) \div ElementSize = k
<1> DEFINE b == a + x
           size == MapSize * ElementSize
           r == a - k * ElementSize
<1>1. /\ size \in Nat /\ size = ElementSize * MapSize
      /\ k * ElementSize \in Nat /\ k * ElementSize + ElementSize <= size
  <2>1. k + 1 \in Nat /\ k + 1 <= MapSize
    BY Constants
  <2>2. (k + 1) * ElementSize <= size
    BY <2>1, Constants, ProductsGrow
  <2>3. (k + 1) * ElementSize = k * ElementSize + ElementSize
    BY Constants
  <2> QED
    BY <2>2, <2>3, Constants
<1>2. k * ElementSize <= a /\ a < k * ElementSize + ElementSize
  BY Constants, Quotient
<1>3. r \in 0 .. ElementSize - 1 /\ k * ElementSize + h - a = h - r
  BY <1>1, <1>2, Constants
<1>4. Rounded(x, h - r, e)
  BY <1>3
<1>5. r + x \in 0 .. ElementSize - 1
  <2> HIDE DEF r
  <2> QED
    BY <1>3, <1>4, StaysInRow
<1>6. x \in Int
  BY <1>4, Constants DEF Rounded
<1>7. b \in Nat /\ k * ElementSize <= b /\ b < k * ElementSize + ElementSize /\ b < size
  BY <1>1, <1>5, <1>6, Constants
<1>8. Clamp(b) = b
  BY <1>1, <1>7 DEF Clamp
<1> QED
  BY <1>1, <1>7, <1>8, Quotient, Constants

\* The coordinates of a step.
LEMMA StepsAreRounded ==
    ASSUME NEW p \in Int \X Int, position \in Int \X Int, SquaredDistance(position, p) # 0,
           NEW q \in StepTowards(p)
    PROVE  \E x, y :
               /\ q = <<Clamp(position[1] + x), Clamp(position[2] + y)>>
               /\ Rounded(x, p[1] - position[1], p[2] - position[2])
               /\ Rounded(y, p[2] - position[2], p[1] - position[1])
<1> DEFINE d == p[1] - position[1]
           e == p[2] - position[2]
           sq == SquaredDistance(position, p)
<1>1. d \in Int /\ e \in Int
  OBVIOUS
<1>2. sq = Sq(d) + Sq(e) /\ sq = Sq(e) + Sq(d)
  <2>1. Sq(position[1] - p[1]) = Sq(d) /\ Sq(position[2] - p[2]) = Sq(e)
    BY DEF Sq
  <2>2. Sq(d) \in Nat /\ Sq(e) \in Nat
    BY <1>1, SquareFacts
  <2> QED
    BY <2>1, <2>2 DEF SquaredDistance
<1>3. PICK x \in RoundedUp(d, sq), y \in RoundedUp(e, sq) :
          q = <<Clamp(position[1] + x), Clamp(position[2] + y)>>
  BY DEF StepTowards
<1>4. sq # 0
  OBVIOUS
<1> HIDE DEF d, e, sq
<1>5. Rounded(x, d, e)
  BY <1>1, <1>2, <1>3, <1>4, RoundedUpIsRounded
<1>6. Rounded(y, e, d)
  BY <1>1, <1>2, <1>3, <1>4, RoundedUpIsRounded
<1> QED
  BY <1>3, <1>5, <1>6 DEF d, e

LEMMA PositionsAndNodes ==
    ASSUME NEW p \in Positions
    PROVE  /\ p[1] \in Nat /\ p[1] < MapSize * ElementSize /\ p[2] \in Nat
           /\ p[2] < MapSize * ElementSize /\ p \in Int \X Int
           /\ NodeOf(p)[1] = p[1] \div ElementSize /\ NodeOf(p)[2] = p[2] \div ElementSize
           /\ NodeOf(p)[1] \in 0 .. MapSize - 1 /\ NodeOf(p)[2] \in 0 .. MapSize - 1
           /\ NodeOf(p) = <<NodeOf(p)[1], NodeOf(p)[2]>>
<1>1. NodeOf(p) \in Offsets
  BY NodesAreOffsets
<1> QED
  BY <1>1, Constants DEF Positions, NodeOf, Offsets

\* The last steps, straight to the destination.
LEMMA StepToDestination ==
    ASSUME TypeOK, position \in Positions, NodeOf(position) = Goal \/ Goal \in ToSet(Around(NodeOf(position))),
           SquaredDistance(position, destination) > Sq(Speed),
           NEW q \in StepTowards(destination)
    PROVE  q \in Positions /\ NodeOf(q) \in {NodeOf(position), Goal}
<1> DEFINE c == NodeOf(position)
           d == destination[1] - position[1]
           e == destination[2] - position[2]
<1>1. destination \in Positions /\ Goal = NodeOf(destination)
  BY DEF TypeOK, Goal
<1>2. Sq(Speed) \in Nat
  BY SquareFacts, Constants
<1>3. SquaredDistance(position, destination) # 0
      /\ SquaredDistance(position, destination) = Sq(d) + Sq(e)
      /\ SquaredDistance(position, destination) = Sq(e) + Sq(d)
  <2>1. position \in Int \X Int /\ destination \in Int \X Int
    BY <1>1, PositionsAndNodes
  <2>2. Sq(d) \in Nat /\ Sq(e) \in Nat
    BY <2>1, SquareFacts
  <2>3. Sq(position[1] - destination[1]) = Sq(d) /\ Sq(position[2] - destination[2]) = Sq(e)
    BY <2>1 DEF Sq
  <2> QED
    BY <1>2, <2>2, <2>3 DEF SquaredDistance
<1>4. PICK x, y : /\ q = <<Clamp(position[1] + x), Clamp(position[2] + y)>>
                  /\ Rounded(x, d, e) /\ Rounded(y, e, d)
  BY <1>1, <1>3, StepsAreRounded, PositionsAndNodes
<1>5. d \in Int /\ e \in Int
  BY <1>1, PositionsAndNodes
<1>6. (d >= 0 => 0 <= x /\ x <= d) /\ (d <= 0 => d <= x /\ x <= 0) /\ x \in Int
  <2> HIDE DEF d, e
  <2> QED
    BY <1>3, <1>4, <1>5, NoOvershoot
<1>7. (e >= 0 => 0 <= y /\ y <= e) /\ (e <= 0 => e <= y /\ y <= 0) /\ y \in Int
  <2> HIDE DEF d, e
  <2> QED
    BY <1>3, <1>4, <1>5, NoOvershoot
<1>8. /\ c = Goal \/ Goal = <<c[1], c[2] + 1>> \/ Goal = <<c[1], c[2] - 1>>
      \/ Goal = <<c[1] + 1, c[2]>> \/ Goal = <<c[1] - 1, c[2]>>
  BY AroundSet
<1>9. /\ Clamp(position[1] + x) \in 0 .. MapSize * ElementSize - 1
      /\ \/ Clamp(position[1] + x) \div ElementSize = c[1]
         \/ Clamp(position[1] + x) \div ElementSize = Goal[1]
  <2>1. /\ position[1] \in Nat /\ position[1] < MapSize * ElementSize
        /\ destination[1] \in Nat /\ destination[1] < MapSize * ElementSize
        /\ c[1] = position[1] \div ElementSize /\ Goal[1] = destination[1] \div ElementSize
    BY <1>1, PositionsAndNodes
  <2>2. Goal[1] = c[1] \/ Goal[1] = c[1] + 1 \/ Goal[1] = c[1] - 1
    BY <1>8
  <2>3. /\ destination[1] >= position[1] => 0 <= x /\ x <= destination[1] - position[1]
        /\ destination[1] <= position[1] => destination[1] - position[1] <= x /\ x <= 0
    BY <1>6, <2>1
  <2> HIDE DEF c
  <2> QED
    BY <1>6, <2>1, <2>2, <2>3, BetweenTwo
<1>10. /\ Clamp(position[2] + y) \in 0 .. MapSize * ElementSize - 1
       /\ \/ Clamp(position[2] + y) \div ElementSize = c[2]
          \/ Clamp(position[2] + y) \div ElementSize = Goal[2]
  <2>1. /\ position[2] \in Nat /\ position[2] < MapSize * ElementSize
        /\ destination[2] \in Nat /\ destination[2] < MapSize * ElementSize
        /\ c[2] = position[2] \div ElementSize /\ Goal[2] = destination[2] \div ElementSize
    BY <1>1, PositionsAndNodes
  <2>2. Goal[2] = c[2] \/ Goal[2] = c[2] + 1 \/ Goal[2] = c[2] - 1
    BY <1>8
  <2>3. /\ destination[2] >= position[2] => 0 <= y /\ y <= destination[2] - position[2]
        /\ destination[2] <= position[2] => destination[2] - position[2] <= y /\ y <= 0
    BY <1>7, <2>1
  <2> HIDE DEF c
  <2> QED
    BY <1>7, <2>1, <2>2, <2>3, BetweenTwo
<1>11. q \in Positions /\ NodeOf(q) = <<q[1] \div ElementSize, q[2] \div ElementSize>>
       /\ q[1] = Clamp(position[1] + x) /\ q[2] = Clamp(position[2] + y)
  BY <1>4, <1>9, <1>10 DEF Positions, NodeOf
<1>12. c = <<c[1], c[2]>> /\ Goal = <<Goal[1], Goal[2]>>
  BY <1>1, PositionsAndNodes
<1> HIDE DEF c
<1>13. NodeOf(q) \in {c, Goal}
  <2>1. c[1] = Goal[1] \/ c[2] = Goal[2]
    BY <1>8
  <2> QED
    BY <1>9, <1>10, <1>11, <1>12, <2>1
<1> QED
  BY <1>11, <1>13 DEF c

\* A step towards the middle of the next element.
LEMMA StepToMiddle ==
    ASSUME position \in Positions, NEW n \in Offsets, n \in ToSet(Around(NodeOf(position))),
           NEW q \in StepTowards(MiddleOf(n))
    PROVE  q \in Positions /\ NodeOf(q) \in {NodeOf(position), n}
<1> DEFINE c == NodeOf(position)
           h == ElementSize \div 2
           p == MiddleOf(n)
           d == p[1] - position[1]
           e == p[2] - position[2]
           a == position[1]
           b == position[2]
<1>1. h \in Nat /\ h < ElementSize /\ ElementSize - h > 0 /\ ElementSize - h <= h + 1
  BY Constants
<1>2. n[1] \in 0 .. MapSize - 1 /\ n[2] \in 0 .. MapSize - 1
  BY DEF Offsets
<1>3. p[1] = n[1] * ElementSize + h /\ p[2] = n[2] * ElementSize + h
      /\ n[1] * ElementSize \in Nat /\ n[2] * ElementSize \in Nat /\ p \in Int \X Int
  BY <1>2, Constants DEF MiddleOf
<1>4. /\ a \in Nat /\ b \in Nat /\ position \in Int \X Int
      /\ c[1] = a \div ElementSize /\ c[2] = b \div ElementSize
      /\ c[1] \in 0 .. MapSize - 1 /\ c[2] \in 0 .. MapSize - 1 /\ c = <<c[1], c[2]>>
  BY PositionsAndNodes
<1> HIDE DEF c, h, p
<1>5. /\ c[1] * ElementSize <= a /\ a < c[1] * ElementSize + ElementSize
      /\ c[2] * ElementSize <= b /\ b < c[2] * ElementSize + ElementSize
      /\ c[1] * ElementSize \in Nat /\ c[2] * ElementSize \in Nat
  <2>1. \A x \in Nat : \A k \in 0 .. MapSize - 1 : k = x \div ElementSize =>
            k * ElementSize <= x /\ x < k * ElementSize + ElementSize /\ k * ElementSize \in Nat
    BY Quotient, Constants
  <2> HIDE DEF a, b
  <2> QED
    BY <1>4, <2>1
<1>6. \/ n[1] = c[1] /\ (n[2] = c[2] + 1 \/ n[2] = c[2] - 1)
      \/ n[2] = c[2] /\ (n[1] = c[1] + 1 \/ n[1] = c[1] - 1)
  BY AroundSet DEF c
<1>7. \A i, j \in 0 .. MapSize - 1 : \A x \in Nat :
          j * ElementSize <= x /\ x < j * ElementSize + ElementSize /\ (i = j + 1 \/ i = j - 1) =>
              \/ i * ElementSize + h - x >= ElementSize - h
              \/ -(i * ElementSize + h - x) >= ElementSize - h
  <2> SUFFICES ASSUME NEW i \in 0 .. MapSize - 1, NEW j \in 0 .. MapSize - 1, NEW x \in Nat,
                      j * ElementSize <= x, x < j * ElementSize + ElementSize,
                      i = j + 1 \/ i = j - 1
               PROVE  \/ i * ElementSize + h - x >= ElementSize - h
                      \/ -(i * ElementSize + h - x) >= ElementSize - h
    OBVIOUS
  <2>1. i * ElementSize \in Nat /\ j * ElementSize \in Nat
    BY Constants
  <2>2. CASE i = j + 1
    <3>1. i * ElementSize = j * ElementSize + ElementSize
      BY <2>2, Constants
    <3> QED
      BY <1>1, <2>1, <3>1, Constants
  <2>3. CASE i = j - 1
    <3>1. j * ElementSize = i * ElementSize + ElementSize
      BY <2>3, Constants
    <3> QED
      BY <1>1, <2>1, <3>1, Constants
  <2> QED
    BY <2>2, <2>3
<1>8. d \in Int /\ e \in Int
      /\ d = n[1] * ElementSize + h - a /\ e = n[2] * ElementSize + h - b
  BY <1>1, <1>3, <1>4
<1>9. \/ n[1] = c[1] /\ (n[2] = c[2] + 1 \/ n[2] = c[2] - 1)
         /\ (e >= ElementSize - h \/ -e >= ElementSize - h)
      \/ n[2] = c[2] /\ (n[1] = c[1] + 1 \/ n[1] = c[1] - 1)
         /\ (d >= ElementSize - h \/ -d >= ElementSize - h)
  BY <1>2, <1>4, <1>5, <1>6, <1>7, <1>8
<1>10. SquaredDistance(position, p) # 0
  <2>1. d # 0 \/ e # 0
    BY <1>1, <1>8, <1>9, Constants
  <2>2. Sq(position[1] - p[1]) = Sq(d) /\ Sq(position[2] - p[2]) = Sq(e)
    BY <1>3, <1>4 DEF Sq
  <2>3. Sq(d) \in Nat /\ Sq(e) \in Nat /\ (Sq(d) > 0 \/ Sq(e) > 0)
    BY <1>8, <2>1, SquareFacts
  <2> QED
    BY <2>2, <2>3 DEF SquaredDistance
<1>11. PICK x, y : /\ q = <<Clamp(a + x), Clamp(b + y)>>
                   /\ Rounded(x, d, e) /\ Rounded(y, e, d)
  <2>1. q \in StepTowards(p)
    BY DEF p
  <2> QED
    BY <1>3, <1>4, <1>10, <2>1, StepsAreRounded
<1> HIDE DEF a, b, d, e
<1>12. Rounded(x, n[1] * ElementSize + h - a, e) /\ Rounded(y, n[2] * ElementSize + h - b, d)
  BY <1>8, <1>11
<1>13. h = ElementSize \div 2
  BY DEF h
<1>14. CASE n[1] = c[1] /\ (n[2] = c[2] + 1 \/ n[2] = c[2] - 1)
            /\ (e >= ElementSize - h \/ -e >= ElementSize - h)
  <2>1. /\ Clamp(a + x) \in 0 .. MapSize * ElementSize - 1
        /\ Clamp(a + x) \div ElementSize = c[1]
    BY <1>1, <1>4, <1>8, <1>12, <1>13, <1>14, StepsAcross
  <2>2. /\ Clamp(b + y) \in 0 .. MapSize * ElementSize - 1
        /\ Clamp(b + y) \div ElementSize \in {c[2], n[2]}
    BY <1>1, <1>2, <1>4, <1>8, <1>12, <1>13, <1>14, StepsAlong
  <2>3. n = <<n[1], n[2]>>
    BY DEF Offsets
  <2>4. q \in Positions /\ NodeOf(q) = <<c[1], Clamp(b + y) \div ElementSize>>
    BY <1>11, <2>1, <2>2 DEF Positions, NodeOf
  <2> QED
    BY <1>4, <1>14, <2>2, <2>3, <2>4 DEF c
<1>15. CASE n[2] = c[2] /\ (n[1] = c[1] + 1 \/ n[1] = c[1] - 1)
            /\ (d >= ElementSize - h \/ -d >= ElementSize - h)
  <2>1. /\ Clamp(b + y) \in 0 .. MapSize * ElementSize - 1
        /\ Clamp(b + y) \div ElementSize = c[2]
    BY <1>1, <1>4, <1>8, <1>12, <1>13, <1>15, StepsAcross
  <2>2. /\ Clamp(a + x) \in 0 .. MapSize * ElementSize - 1
        /\ Clamp(a + x) \div ElementSize \in {c[1], n[1]}
    BY <1>1, <1>2, <1>4, <1>8, <1>12, <1>13, <1>15, StepsAlong
  <2>3. n = <<n[1], n[2]>>
    BY DEF Offsets
  <2>4. q \in Positions /\ NodeOf(q) = <<Clamp(a + x) \div ElementSize, c[2]>>
    BY <1>11, <2>1, <2>2 DEF Positions, NodeOf
  <2> QED
    BY <1>4, <1>15, <2>2, <2>3, <2>4 DEF c
<1> QED
  BY <1>9, <1>14, <1>15
-----------------------------------------------------------------------------
(* The march: turn after turn.                                             *)

LEMMA MapAreaIsNatural == MapSize * MapSize \in Nat
  BY Constants

\* The bounds checks keep steps on the map or at its upper ends.
LEMMA RoundedUpIsWhole ==
    ASSUME TypeOK, NEW p \in Int \X Int, NEW q \in StepTowards(p)
    PROVE  q \in (0 .. MapSize * ElementSize) \X (0 .. MapSize * ElementSize)
<1>1. MapSize * ElementSize \in Nat /\ MapSize * ElementSize = ElementSize * MapSize
  BY Constants
<1>2. \A i \in Int : Clamp(i) \in 0 .. MapSize * ElementSize
  BY <1>1 DEF Clamp
<1>3. CASE SquaredDistance(position, p) = 0
  BY <1>1, <1>3 DEF StepTowards
<1>4. CASE SquaredDistance(position, p) # 0
  <2>1. position \in Int \X Int
    BY <1>1 DEF TypeOK
  <2>2. PICK x, y :
            /\ q = <<Clamp(position[1] + x), Clamp(position[2] + y)>>
            /\ Rounded(x, p[1] - position[1], p[2] - position[2])
            /\ Rounded(y, p[2] - position[2], p[1] - position[1])
    BY <1>4, <2>1, StepsAreRounded
  <2>3. x \in Int /\ y \in Int
    BY <2>2, Constants DEF Rounded
  <2> QED
    BY <1>2, <2>1, <2>2, <2>3
<1> QED
  BY <1>3, <1>4

\* A soldier on land is not beyond the upper ends.
LEMMA HereIsAnElement ==
    TypeOK /\ IsLand(NodeOf(position)) => position \in Positions
<1> SUFFICES ASSUME TypeOK, IsLand(NodeOf(position)) PROVE position \in Positions
  OBVIOUS
<1> DEFINE size == MapSize * ElementSize
<1>1. size \in Nat
  BY Constants
<1>2. \A x \in 0 .. size : x \div ElementSize <= MapSize - 1 => x <= size - 1
  <2> SUFFICES ASSUME size \div ElementSize <= MapSize - 1 PROVE FALSE
    BY <1>1
  <2>1. size \div ElementSize = MapSize
    BY <1>1, Quotient, Constants
  <2> QED
    BY <2>1, Constants
<1>3. /\ position = <<position[1], position[2]>>
      /\ position[1] \in 0 .. size /\ position[2] \in 0 .. size
  BY DEF TypeOK
<1>4. position[1] \div ElementSize <= MapSize - 1 /\ position[2] \div ElementSize <= MapSize - 1
  <2>1. NodeOf(position)[1] \in 0 .. MapSize - 1 /\ NodeOf(position)[2] \in 0 .. MapSize - 1
    BY DEF IsLand, Offsets
  <2> QED
    BY <2>1, Constants DEF NodeOf
<1>5. position[1] <= size - 1 /\ position[2] <= size - 1
  <2> HIDE DEF size
  <2> QED
    BY <1>2, <1>3, <1>4
<1> QED
  BY <1>1, <1>3, <1>5 DEF Positions

LEMMA NextDestIsWhole ==
    ASSUME TypeOK, NEW n \in Offsets
    PROVE  NextDest(n) \in Int \X Int
<1>1. MiddleOf(n) \in Int \X Int
  BY Constants DEF MiddleOf, Offsets
<1> QED
  BY <1>1, PositionsAndNodes DEF NextDest, TypeOK

LEMMA MarchTypeOK == TypeOK /\ March => TypeOK'
<1> SUFFICES ASSUME TypeOK, March PROVE TypeOK'
  OBVIOUS
<1>1. /\ land' = land /\ queue' = queue /\ visited' = visited /\ nextNode' = nextNode
      /\ destination' = destination
  BY DEF March
<1>2. stage' \in {"search", "march", "arrived", "thrown"}
  BY DEF March, TypeOK
<1> DEFINE Whole == (0 .. MapSize * ElementSize) \X (0 .. MapSize * ElementSize)
<1>3. position' \in Whole
  <2>1. destination \in Whole
    BY Constants DEF TypeOK, Positions
  <2>2. ASSUME HasNextNode, position' \in StepTowards(NextDest(nextNode[NodeOf(position)]))
        PROVE  position' \in Whole
    <3>1. nextNode[NodeOf(position)] \in Offsets
      BY <2>2 DEF HasNextNode, IsLand, TypeOK
    <3> QED
      BY <2>2, <3>1, NextDestIsWhole, RoundedUpIsWhole
  <2>3. \/ position' = position
        \/ position' = destination
        \/ HasNextNode /\ position' \in StepTowards(NextDest(nextNode[NodeOf(position)]))
    <3>1. CASE position = destination
      BY <3>1 DEF March
    <3>2. CASE position # destination /\ SquaredDistance(position, destination) <= Sq(Speed)
      BY <3>2 DEF March
    <3>3. CASE position # destination /\ ~ (SquaredDistance(position, destination) <= Sq(Speed))
      BY <3>3 DEF March
    <3> QED
      BY <3>1, <3>2, <3>3
  <2> QED
    BY <2>1, <2>2, <2>3 DEF TypeOK
<1> QED
  BY <1>1, <1>2, <1>3 DEF TypeOK

LEMMA NextIInv == IInv /\ [Next]_vars => IInv'
<1> SUFFICES ASSUME IInv, [Next]_vars PROVE IInv'
  OBVIOUS
<1>1. CASE Visit
  BY <1>1, VisitIInv
<1>2. CASE SearchEnds
  <2>1. UNCHANGED <<land, queue, visited, nextNode, position, destination>>
        /\ queue = <<>> /\ stage' = "march"
    BY <1>2 DEF SearchEnds
  <2>2. TypeOK'
    BY <2>1 DEF IInv, TypeOK
  <2> QED
    BY <2>1, <2>2, MapStays DEF IInv
<1>3. CASE March
  <2>1. UNCHANGED <<land, queue, visited, nextNode, destination>> /\ stage = "march"
    BY <1>3 DEF March
  <2>2. queue = <<>>
    BY <2>1 DEF IInv, Frontier
  <2> QED
    BY <1>3, <2>1, <2>2, MapStays, MarchTypeOK DEF IInv
<1>4. CASE UNCHANGED vars
  <2>1. UNCHANGED <<land, queue, visited, nextNode, position, destination, stage>>
    BY <1>4 DEF vars
  <2>2. TypeOK'
    BY <2>1 DEF IInv, TypeOK
  <2>3. stage' # "search" => queue = <<>>
    BY <2>1 DEF IInv, Frontier
  <2> QED
    BY <2>1, <2>2, <2>3, MapStays DEF IInv
<1> QED
  BY <1>1, <1>2, <1>3, <1>4 DEF Next

\* The breadth-first search and the march keep the inductive invariant
\* (ComputeAllPathsFromNode, GetNextPosition).
THEOREM PathPlannerInvariant == Spec => []IInv
<1>1. Init => IInv
  BY InitIInv
<1>2. IInv /\ [Next]_vars => IInv'
  BY NextIInv
<1> QED
  BY <1>1, <1>2, PTL DEF Spec

\* When the search is over it has found everything that is connected with the
\* destination, and each such element leads nearer.
LEMMA AllFound ==
    ASSUME IInv, queue = <<>>
    PROVE  \A c : Reached(c) => c \in visited /\ c \in land /\ c \in Offsets
<1> SUFFICES ASSUME NEW c, Reached(c) PROVE c \in visited /\ c \in land /\ c \in Offsets
  OBVIOUS
<1>1. c \in land /\ c \in Offsets
  BY ReachedIsLand DEF IInv, TypeOK
<1>2. ToSet(queue) = {}
  BY DEF ToSet
<1>3. c \in visited
  BY <1>2, NearestWaits DEF IInv
<1> QED
  BY <1>1, <1>3

\* The paths found by the search are shortest ones over land, and none is
\* missing (ComputeAllPathsFromNode), on maps of every size.
THEOREM SearchFindsShortestPaths == Spec => []NextNodesAreShortest
<1>1. IInv => NextNodesAreShortest
  <2> SUFFICES ASSUME IInv, queue = <<>>,
                      NEW k \in 1 .. MapSize * MapSize,
                      NEW c \in Within(Goal, k) \ Within(Goal, k - 1)
               PROVE  nextNode[c] \in ToSet(Around(c)) \cap Within(Goal, k - 1)
    BY DEF NextNodesAreShortest, Goal
  <2>1. k \in Nat /\ k - 1 \in Nat /\ k - 1 < k
    BY MapAreaIsNatural
  <2>2. Reached(c) /\ Distance(c) = k
    <3>1. Reached(c) /\ Distance(c) <= k /\ ~ (Distance(c) <= k - 1)
      BY <2>1, WithinMeans
    <3> QED
      BY <2>1, <3>1, ReachedIsLand
  <2>3. c # Goal
    BY <2>1, <2>2, GoalIsReached, ReachedIsLand
  <2>4. c \in visited /\ c \in land
    BY <2>2, AllFound
  <2>5. /\ nextNode[c] \in ToSet(Around(c)) /\ Reached(nextNode[c])
        /\ Distance(nextNode[c]) + 1 = Distance(c)
    BY <2>3, <2>4 DEF IInv, LeadsNearer
  <2>6. Distance(nextNode[c]) <= k - 1
    BY <2>1, <2>2, <2>5, ReachedIsLand
  <2> QED
    BY <2>1, <2>5, <2>6, WithinMeans
<1> QED
  BY <1>1, PathPlannerInvariant, PTL

\* What is connected with the destination is reached.
LEMMA ConnectedMeans ==
    Connected <=> Reached(NodeOf(position)) /\ Distance(NodeOf(position)) <= MapSize * MapSize
  BY WithinMeans, MapAreaIsNatural DEF Connected, Goal

\* A turn of a soldier that is connected with its destination.
LEMMA MarchKeepsToLand ==
    IInv /\ March /\ Connected => Connected' /\ stage' # "thrown"
<1> SUFFICES ASSUME IInv, March, Connected PROVE Connected' /\ stage' # "thrown"
  OBVIOUS
<1> DEFINE c == NodeOf(position)
           n == nextNode[c]
           Near(b) == Reached(b) /\ Distance(b) <= MapSize * MapSize
<1>1. /\ land' = land /\ destination' = destination /\ stage = "march"
  BY DEF March
<1>2. queue = <<>>
  BY <1>1 DEF IInv, Frontier
<1>3. Near(c)
  BY ConnectedMeans
<1>4. c \in visited /\ c \in land /\ c \in Offsets /\ Distance(c) \in Nat
  BY <1>2, <1>3, AllFound, ReachedIsLand
<1>5. Goal \in land /\ Goal \in Offsets /\ Near(Goal)
  <2>1. c \in Within(Goal, Distance(c)) /\ Goal \in Offsets
    BY <1>3, DistanceIsLeast, NodesAreOffsets DEF IInv, TypeOK, Goal
  <2>2. Goal \in land
    <3> DEFINE T == {k \in Nat : Within(Goal, k) # {}}
    <3>1. T \subseteq Nat /\ Distance(c) \in T
      BY <1>4, <2>1
    <3>2. PICK k \in T : \A j \in T : k <= j
      <4> HIDE DEF T
      <4> QED
        BY <3>1, LeastNatural
    <3>3. CASE k = 0
      BY <3>2, <3>3, WithinZero
    <3>4. CASE k # 0
      <4>1. k - 1 \in Nat /\ k - 1 \notin T /\ (k - 1) + 1 = k
        <5>1. k \in Nat
          BY <3>1
        <5> HIDE DEF T
        <5> QED
          BY <3>2, <3>4, <5>1
      <4>2. Within(Goal, k) = Grown(Within(Goal, k - 1))
        <5>1. Within(Goal, (k - 1) + 1) = Grown(Within(Goal, k - 1))
          BY <4>1, WithinNext
        <5> QED
          BY <4>1, <5>1
      <4> QED
        BY <3>2, <4>1, <4>2 DEF Grown
    <3> QED
      BY <3>3, <3>4
  <2> QED
    BY <2>1, <2>2, GoalIsReached, MapAreaIsNatural
<1>6. HasNextNode /\ position \in Positions
  BY <1>4, <1>5, HereIsAnElement DEF HasNextNode, IsLand, Goal, IInv
<1>7. /\ n \in Offsets /\ Near(n)
      /\ c = Goal => n = Goal
      /\ c # Goal => n \in ToSet(Around(c))
  <2>1. CASE c = Goal
    BY <1>5, <2>1 DEF IInv, Frontier
  <2>2. CASE c # Goal
    <3>1. n \in ToSet(Around(c)) /\ Reached(n) /\ Distance(n) + 1 = Distance(c)
      BY <1>4, <2>2 DEF IInv, LeadsNearer
    <3>2. n \in Offsets /\ Distance(n) \in Nat
      BY <1>2, <3>1, AllFound, ReachedIsLand
    <3> QED
      BY <1>3, <1>4, <2>2, <3>1, <3>2, MapAreaIsNatural
  <2> QED
    BY <2>1, <2>2
<1> HIDE DEF n
<1>8. stage' # "thrown" /\
      \/ position' = position
      \/ position' = destination
      \/ /\ ~ (SquaredDistance(position, destination) <= Sq(Speed))
         /\ position' \in StepTowards(NextDest(n))
  BY <1>1, <1>6 DEF March, n
<1>9. NodeOf(position') \in {c, n, Goal}
  <2>1. CASE position' = position
    BY <2>1
  <2>2. CASE position' = destination
    BY <2>2 DEF Goal
  <2>3. CASE /\ ~ (SquaredDistance(position, destination) <= Sq(Speed))
             /\ position' \in StepTowards(NextDest(n))
    <3>1. CASE n = Goal
      <4>1. position' \in StepTowards(destination)
        BY <2>3, <3>1 DEF NextDest, Goal
      <4>2. c = Goal \/ Goal \in ToSet(Around(c))
        BY <1>7, <3>1
      <4>3. SquaredDistance(position, destination) > Sq(Speed)
        <5>1. position \in Int \X Int /\ destination \in Int \X Int
          BY <1>6, PositionsAndNodes DEF IInv, TypeOK
        <5>2. SquaredDistance(position, destination) \in Int /\ Sq(Speed) \in Int
          BY <5>1, Constants DEF SquaredDistance, Sq
        <5> QED
          BY <2>3, <5>2
      <4> QED
        BY <1>6, <4>1, <4>2, <4>3, StepToDestination DEF IInv
    <3>2. CASE n # Goal
      <4>1. position' \in StepTowards(MiddleOf(n))
        BY <2>3, <3>2 DEF NextDest, Goal
      <4>2. n \in ToSet(Around(c))
        BY <1>7, <3>2
      <4> QED
        BY <1>6, <1>7, <4>1, <4>2, StepToMiddle
    <3> QED
      BY <3>1, <3>2
  <2> QED
    BY <1>8, <2>1, <2>2, <2>3
<1>10. Near(NodeOf(position'))
  <2> HIDE DEF c, Near
  <2> QED
    BY <1>3, <1>5, <1>7, <1>9
<1>11. Connected'
  <2>1. Goal' = Goal /\ \A k : \A b : Within(b, k)' = Within(b, k)
    BY <1>1, Zenon DEF Goal, NodeOf, Within
  <2>2. NodeOf(position') \in Within(Goal, MapSize * MapSize)
    BY <1>10, WithinMeans, MapAreaIsNatural
  <2>3. Connected' <=> NodeOf(position') \in Within(Goal, MapSize * MapSize)
    BY <2>1 DEF Connected, Goal, NodeOf
  <2> QED
    BY <2>2, <2>3
<1> QED
  BY <1>8, <1>11

\* A soldier that can reach its destination over land is led over land only and
\* never sent where GetNextNode throws (GetNextPosition), whatever the size of
\* the map and of its elements.
THEOREM PathsKeepToLand == Spec => KeepsToLand
<1>1. IInv /\ [Next]_vars => [(stage = "march" /\ Connected) => (Connected' /\ stage' # "thrown")]_vars
  <2> SUFFICES ASSUME IInv, Next, stage = "march", Connected
               PROVE  Connected' /\ stage' # "thrown"
    OBVIOUS
  <2>1. March
    BY DEF Next, Visit, SearchEnds
  <2> QED
    BY <2>1, MarchKeepsToLand
<1> QED
  BY <1>1, PathPlannerInvariant, PTL DEF Spec, KeepsToLand

-----------------------------------------------------------------------------
(* The reference: its bound is enough.                                     *)

\* There is an element at every distance up to that of c.
LEMMA NoneIsSkipped ==
    ASSUME NEW c, Reached(c)
    PROVE  \A j \in 0 .. Distance(c) : \E b : Reached(b) /\ Distance(b) = j
<1> DEFINE At(j) == \E b : Reached(b) /\ Distance(b) = j
           n == Distance(c)
           Bad == {i \in Nat : i <= n /\ ~ At(n - i)}
<1>1. n \in Nat
  BY ReachedIsLand
<1>2. SUFFICES ASSUME Bad # {} PROVE FALSE
  <2> SUFFICES ASSUME NEW j \in 0 .. n, ~ At(j) PROVE Bad # {}
    OBVIOUS
  <2>1. n - j \in Nat /\ n - j <= n /\ n - (n - j) = j
    BY <1>1
  <2> HIDE DEF At, n
  <2> QED
    BY <2>1
<1>3. PICK i \in Bad : \A m \in Bad : i <= m
  <2> HIDE DEF Bad
  <2> QED
    BY <1>2, LeastNatural DEF Bad
<1>4. At(n)
  OBVIOUS
<1>5. i \in Nat /\ i <= n /\ ~ At(n - i)
  OBVIOUS
<1>6. i # 0
  <2> HIDE DEF At, n
  <2> QED
    BY <1>1, <1>4, <1>5
<1>7. i - 1 \in Nat /\ i - 1 <= n /\ i - 1 < i /\ n - (i - 1) = (n - i) + 1 /\ n - i \in Nat
  BY <1>1, <1>5, <1>6
<1>8. At(n - (i - 1))
  <2>1. i - 1 \notin Bad
    <3> HIDE DEF Bad
    <3> QED
      BY <1>3, <1>5, <1>7
  <2> HIDE DEF At, n
  <2> QED
    BY <1>7, <2>1
<1>9. PICK b : Reached(b) /\ Distance(b) = n - (i - 1)
  BY <1>8
<1>10. b # Goal
  <2>1. Distance(b) > 0
    BY <1>7, <1>9
  <2> QED
    BY <1>9, <2>1, GoalIsReached, ReachedIsLand
<1>11. PICK a : Reached(a) /\ Distance(a) + 1 = Distance(b)
  BY <1>9, <1>10, OneIsNearer
<1>12. Distance(a) = n - i
  <2>1. Distance(a) \in Nat
    BY <1>11, ReachedIsLand
  <2> HIDE DEF n
  <2> QED
    BY <1>7, <1>9, <1>11, <2>1
<1> QED
  BY <1>5, <1>11, <1>12

\* The map has MapSize * MapSize elements.
LEMMA OffsetsFinite == IsFiniteSet(Offsets) /\ Cardinality(Offsets) = MapSize * MapSize
<1> DEFINE side == 0 .. MapSize - 1
<1>1. MapSize \in Nat /\ MapSize > 0 /\ 0 \in Int /\ MapSize - 1 \in Int
  BY Constants
<1>2. IsFiniteSet(side) /\ Cardinality(side) = IF 0 > MapSize - 1 THEN 0 ELSE (MapSize - 1) - 0 + 1
  BY <1>1, FS_Interval
<1>3. Cardinality(side) = MapSize
  <2> HIDE DEF side
  <2> QED
    BY <1>1, <1>2
<1>4. Offsets = side \X side
  BY DEF Offsets
<1> HIDE DEF side
<1> QED
  BY <1>2, <1>3, <1>4, FS_Product

\* Nothing is farther away than there are elements.
LEMMA DistancesAreBounded ==
    ASSUME land \subseteq Offsets, NEW c, Reached(c)
    PROVE  Distance(c) < MapSize * MapSize
<1> DEFINE n == Distance(c)
           one(j) == CHOOSE b : Reached(b) /\ Distance(b) = j
           f == [j \in 0 .. n |-> one(j)]
<1>1. n \in Nat /\ 0 \in Int /\ n \in Int
  BY ReachedIsLand
<1>2. \A j \in 0 .. n : Reached(one(j)) /\ Distance(one(j)) = j
  BY NoneIsSkipped
<1>3. \A j \in 0 .. n : one(j) \in Offsets
  <2> HIDE DEF one
  <2> QED
    BY <1>2, ReachedIsLand
<1>4. f \in [0 .. n -> Offsets] /\ \A i, j \in 0 .. n : f[i] = f[j] => i = j
  <2> HIDE DEF n, one
  <2> QED
    BY <1>2, <1>3
<1>5. f \in Injection(0 .. n, Offsets)
  <2> HIDE DEF f, n
  <2> QED
    BY <1>4 DEF Injection, IsInjective
<1>6. Cardinality(0 .. n) <= Cardinality(Offsets)
  <2> HIDE DEF f, n
  <2> QED
    BY <1>5, OffsetsFinite, FS_Injection, Zenon
<1>7. Cardinality(0 .. n) = IF 0 > n THEN 0 ELSE n - 0 + 1
  <2> HIDE DEF n
  <2> QED
    BY <1>1, FS_Interval
<1>8. MapSize * MapSize \in Nat
  BY MapAreaIsNatural
<1> HIDE DEF n
<1>9. n < MapSize * MapSize
  BY <1>1, <1>6, <1>7, <1>8, OffsetsFinite
<1> QED
  BY <1>9 DEF n

\* The bound of the reference loses nothing: land that is connected with the
\* destination is so by less steps than the map has elements.
THEOREM ReferenceIsComplete ==
    Spec => [](\A k \in Nat :
                 Within(NodeOf(destination), k) \subseteq Within(NodeOf(destination), MapSize * MapSize))
<1> DEFINE All == \A k \in Nat :
                    Within(NodeOf(destination), k) \subseteq Within(NodeOf(destination), MapSize * MapSize)
<1>1. IInv => All
  <2> SUFFICES ASSUME IInv, NEW k \in Nat, NEW c \in Within(Goal, k)
               PROVE  c \in Within(Goal, MapSize * MapSize)
    BY DEF Goal
  <2>1. land \subseteq Offsets
    BY DEF IInv, TypeOK
  <2>2. Reached(c)
    BY DEF Reached
  <2>3. Distance(c) < MapSize * MapSize /\ Distance(c) \in Nat /\ MapSize * MapSize \in Nat
    BY <2>1, <2>2, DistancesAreBounded, ReachedIsLand, MapAreaIsNatural
  <2> QED
    BY <2>2, <2>3, WithinMeans
<1> QED
  BY <1>1, PathPlannerInvariant, PTL
=============================================================================
