---------------------------- MODULE TowersProofs ----------------------------
(***************************************************************************)
(* Proofs about Towers, and about what PlayerView shows the players of it, *)
(* for any map, any tables of costs, ranges, healths and rewards, and any  *)
(* limits.                                                                 *)
(***************************************************************************)
EXTENDS TowersInv, PlayerView, FiniteSetTheorems, SequenceTheorems, TLAPS

-----------------------------------------------------------------------------
(* Counting.                                                               *)

\* Two sets between which there is a one-to-one correspondence, one of them
\* finite, have as many members.
LEMMA SameCount ==
    ASSUME NEW S, NEW T, IsFiniteSet(S),
           NEW f \in [S -> T],
           \A x, y \in S : f[x] = f[y] => x = y,
           \A t \in T : \E x \in S : f[x] = t
    PROVE  IsFiniteSet(T) /\ Cardinality(T) = Cardinality(S)
<1>1. f \in Bijection(S, T)
  BY DEF Bijection, Injection, Surjection, IsInjective
<1>2. QED
  BY <1>1, FS_Bijection DEF ExistsBijection

\* The indices of a list, and any set of them, are finitely many.
LEMMA IndicesFinite ==
    ASSUME NEW S, NEW s \in Seq(S), NEW I \in SUBSET (DOMAIN s)
    PROVE  IsFiniteSet(I) /\ Cardinality(I) \in Nat /\ Cardinality(I) <= Len(s)
<1>1. DOMAIN s = 1 .. Len(s) /\ Len(s) \in Nat
  OBVIOUS
<1>2. IsFiniteSet(1 .. Len(s)) /\ Cardinality(1 .. Len(s)) = Len(s)
  <2>1. /\ IsFiniteSet(1 .. Len(s))
        /\ Cardinality(1 .. Len(s)) = IF 1 > Len(s) THEN 0 ELSE Len(s) - 1 + 1
    <3>1. 1 \in Int /\ Len(s) \in Int
      BY <1>1
    <3>2. QED
      BY <3>1, FS_Interval, Zenon
  <2>2. QED
    BY <1>1, <2>1
<1>3. QED
  BY <1>1, <1>2, FS_Subset, FS_CardinalityType

\* The rank of i among the members of A.
Rank(A, i) == Cardinality({j \in A : j <= i})

\* Among finitely many indices every rank up to their number
\* is that of exactly one of them, and they are in the order of their ranks.
LEMMA Ranks ==
    ASSUME NEW A \in SUBSET Nat, IsFiniteSet(A),
           NEW rank, rank = [i \in A |-> Rank(A, i)]
    PROVE  /\ rank \in [A -> 1 .. Cardinality(A)]
           /\ \A i, k \in A : rank[i] = rank[k] => i = k
           /\ \A k \in 1 .. Cardinality(A) : \E i \in A : rank[i] = k
<1> DEFINE n == Cardinality(A)
           below(i) == {j \in A : j <= i}
<1>a. \A i \in A : rank[i] = Cardinality(below(i))
  BY DEF Rank
<1>0. n \in Nat
  BY FS_CardinalityType
<1>1. ASSUME NEW i \in A
      PROVE  IsFiniteSet(below(i)) /\ rank[i] \in 1 .. n
  <2>1. IsFiniteSet(below(i)) /\ Cardinality(below(i)) <= n
    BY FS_Subset
  <2>2. Cardinality(below(i)) \in Nat
    BY <2>1, FS_CardinalityType
  <2>3. Cardinality(below(i)) # 0
    <3>1. i \in below(i)
      OBVIOUS
    <3>2. QED
      BY <2>1, <3>1, FS_EmptySet
  <2>4. QED
    BY <2>1, <2>2, <2>3, <1>0, <1>a
<1>b. \A i \in A : i \in Nat /\ rank[i] \in Nat
  <2>1. \A i \in A : rank[i] \in 1 .. n
    BY <1>1
  <2> HIDE DEF n
  <2>2. QED
    BY <1>0, <2>1
<1>2. ASSUME NEW i \in A, NEW k \in A, i < k
      PROVE  rank[i] < rank[k]
  <2>1. below(i) \subseteq below(k) /\ k \in below(k) /\ k \notin below(i)
    <3>1. i \in Nat /\ k \in Nat
      BY <1>b
    <3>2. \A j \in A : j <= i => j <= k
      BY <1>2, <1>b
    <3>3. k <= k /\ ~(k <= i)
      BY <1>2, <3>1
    <3>4. QED
      BY <3>2, <3>3
  <2>2. Cardinality(below(i)) <= Cardinality(below(k)) /\ Cardinality(below(k)) # Cardinality(below(i))
    BY <2>1, <1>1, FS_Subset
  <2>3. rank[i] \in Nat /\ rank[k] \in Nat
    BY <1>b
  <2>4. QED
    BY <2>2, <2>3, <1>a
<1>3. rank \in [A -> 1 .. n]
  BY <1>1
<1>4. \A i, k \in A : rank[i] = rank[k] => i = k
  <2>1. SUFFICES ASSUME NEW i \in A, NEW k \in A, i # k PROVE rank[i] # rank[k]
    OBVIOUS
  <2>2. i \in Nat /\ k \in Nat /\ rank[i] \in Nat /\ rank[k] \in Nat
    BY <1>b
  <2>3. i < k \/ k < i
    BY <2>1, <2>2
  <2>4. QED
    BY <1>2, <2>2, <2>3
<1>5. IsFiniteSet(1 .. n) /\ Cardinality(1 .. n) = n
  BY <1>0, FS_Interval
<1>6. rank \in Injection(A, 1 .. n)
  BY <1>3, <1>4 DEF Injection, IsInjective
<1>7. rank \in Surjection(A, 1 .. n)
  BY <1>5, <1>6, FS_Injection
<1>8. \A k \in 1 .. n : \E i \in A : rank[i] = k
  BY <1>7 DEF Surjection
<1>9. QED
  BY <1>3, <1>4, <1>8

\* Where the members of Survivors(s) come from: all the living ones, in the
\* same order.
LEMMA SurvivorsAreTheLiving ==
    ASSUME NEW s \in Seq(Tower)
    PROVE  /\ Survivors(s) \in Seq(Tower)
           /\ Len(Survivors(s)) <= Len(s)
           /\ \E f \in [DOMAIN Survivors(s) -> {i \in DOMAIN s : IsAlive(s[i])}] :
                /\ \A k \in DOMAIN Survivors(s) : Survivors(s)[k] = s[f[k]]
                /\ \A j, k \in DOMAIN Survivors(s) : f[j] = f[k] => j = k
                /\ \A i \in DOMAIN s : IsAlive(s[i]) => \E k \in DOMAIN Survivors(s) : f[k] = i
                /\ (1 \in DOMAIN s /\ IsAlive(s[1])) => 1 \in DOMAIN Survivors(s) /\ f[1] = 1
<1> DEFINE alive == {i \in DOMAIN s : IsAlive(s[i])}
           rank == [i \in alive |-> Rank(alive, i)]
           nth(k) == CHOOSE i \in alive : Rank(alive, i) = k
           n == Cardinality(alive)
           f == [k \in 1 .. n |-> nth(k)]
<1>1. DOMAIN s = 1 .. Len(s) /\ Len(s) \in Nat
  OBVIOUS
<1>2. IsFiniteSet(alive) /\ n \in Nat /\ n <= Len(s) /\ alive \in SUBSET Nat
  BY <1>1, IndicesFinite
<1>3. /\ rank \in [alive -> 1 .. n]
      /\ \A i, k \in alive : rank[i] = rank[k] => i = k
      /\ \A k \in 1 .. n : \E i \in alive : rank[i] = k
  <2>0. rank = [i \in alive |-> Rank(alive, i)]
    OBVIOUS
  <2> HIDE DEF alive, rank
  <2>1. QED
    BY <1>2, <2>0, Ranks
<1>4. \A k \in 1 .. n : nth(k) \in alive /\ rank[nth(k)] = k
  <2>0. \A i \in alive : rank[i] = Rank(alive, i)
    OBVIOUS
  <2> HIDE DEF alive, rank, n
  <2>1. SUFFICES ASSUME NEW k \in 1 .. n PROVE nth(k) \in alive /\ rank[nth(k)] = k
    OBVIOUS
  <2>2. \E i \in alive : Rank(alive, i) = k
    BY <1>3, <2>0
  <2>3. QED
    BY <2>0, <2>2
<1>5. \A i \in alive : nth(rank[i]) = i
  <2> HIDE DEF alive, rank, nth
  <2>1. QED
    BY <1>3, <1>4
<1>6. Survivors(s) = [k \in 1 .. n |-> s[nth(k)]]
  BY DEF Survivors, Rank
<1>7. \A k \in 1 .. n : s[nth(k)] \in Tower
  <2> HIDE DEF nth, n
  <2>1. \A k \in 1 .. n : nth(k) \in DOMAIN s
    BY <1>4
  <2>2. QED
    BY <1>1, <2>1
<1>8. Survivors(s) \in Seq(Tower) /\ DOMAIN Survivors(s) = 1 .. n /\ Len(Survivors(s)) = n
  <2> HIDE DEF nth, n
  <2>1. QED
    BY <1>2, <1>6, <1>7
<1>9. f \in [1 .. n -> alive]
  <2> HIDE DEF nth, n
  <2>1. QED
    BY <1>4
<1>10. 1 \in DOMAIN s /\ IsAlive(s[1]) => 1 \in 1 .. n /\ f[1] = 1
  <2>1. SUFFICES ASSUME 1 \in alive PROVE 1 \in 1 .. n /\ f[1] = 1
    OBVIOUS
  <2>2. {j \in alive : j <= 1} = {1}
    BY <1>1, <2>1
  <2>3. rank[1] = 1
    BY <2>1, <2>2, FS_Singleton DEF Rank
  <2> HIDE DEF rank, nth, n, alive
  <2>4. rank[1] \in 1 .. n
    BY <1>3, <2>1
  <2>5. nth(1) = 1
    BY <1>5, <2>1, <2>3
  <2>6. QED
    BY <2>3, <2>4, <2>5
<1>11. \A k \in 1 .. n : Survivors(s)[k] = s[f[k]]
  BY <1>6
<1>12. \A j, k \in 1 .. n : f[j] = f[k] => j = k
  <2> HIDE DEF nth, rank, n
  <2>1. QED
    BY <1>4
<1>13. \A i \in alive : rank[i] \in 1 .. n /\ f[rank[i]] = i
  <2> HIDE DEF nth, rank, n
  <2>1. QED
    BY <1>3, <1>5
<1>14. QED
  <2> HIDE DEF f, rank, nth, n
  <2>1. \A i \in DOMAIN s : IsAlive(s[i]) => \E k \in DOMAIN Survivors(s) : f[k] = i
    BY <1>8, <1>13
  <2>2. Len(Survivors(s)) <= Len(s)
    BY <1>2, <1>8
  <2>3. f \in [DOMAIN Survivors(s) -> alive]
    BY <1>8, <1>9
  <2>4. \A k \in DOMAIN Survivors(s) : Survivors(s)[k] = s[f[k]]
    BY <1>8, <1>11
  <2>5. \A j, k \in DOMAIN Survivors(s) : f[j] = f[k] => j = k
    BY <1>8, <1>12
  <2>6. (1 \in DOMAIN s /\ IsAlive(s[1])) => 1 \in DOMAIN Survivors(s) /\ f[1] = 1
    BY <1>8, <1>10
  <2> HIDE DEF f
  <2>7. QED
    BY <1>8, <2>1, <2>2, <2>3, <2>4, <2>5, <2>6, Zenon

\* A set to which c new pairs of a new first component are added.
LEMMA AddedPairs ==
    ASSUME NEW C, IsFiniteSet(C), NEW i, NEW c \in Nat, \A x \in C : x[1] # i
    PROVE  /\ IsFiniteSet(C \cup ({i} \X (1 .. c)))
           /\ Cardinality(C \cup ({i} \X (1 .. c))) = Cardinality(C) + c
           /\ Cardinality(C) \in Nat
<1> DEFINE D == {i} \X (1 .. c)
<1>1. IsFiniteSet(1 .. c) /\ Cardinality(1 .. c) = c
  <2>1. /\ IsFiniteSet(1 .. c)
        /\ Cardinality(1 .. c) = IF 1 > c THEN 0 ELSE c - 1 + 1
    BY FS_Interval
  <2>2. QED
    BY <2>1
<1>2. IsFiniteSet({i}) /\ Cardinality({i}) = 1
  BY FS_Singleton
<1>3. IsFiniteSet(D) /\ Cardinality(D) = 1 * c
  BY <1>1, <1>2, FS_Product
<1>4. C \cap D = {}
  OBVIOUS
<1>5. Cardinality({}) = 0 /\ Cardinality(C) \in Nat
  BY FS_EmptySet, FS_CardinalityType
<1>6. /\ IsFiniteSet(C \cup D)
      /\ Cardinality(C \cup D) = Cardinality(C) + Cardinality(D) - Cardinality(C \cap D)
  <2> HIDE DEF D
  <2>1. QED
    BY <1>3, FS_Union
<1>7. Cardinality(C \cup D) = Cardinality(C) + c
  <2>1. Cardinality(C \cap D) = 0
    BY <1>4, <1>5
  <2>2. Cardinality(D) = c
    BY <1>3
  <2> HIDE DEF D
  <2>3. QED
    BY <1>5, <1>6, <2>1, <2>2
<1>8. QED
  BY <1>5, <1>6, <1>7

-----------------------------------------------------------------------------
(* The constants, and what the invariant says of the lists, index by       *)
(* index.                                                                  *)

LEMMA Constants ==
    /\ MapSize \in Nat /\ MapSize > 1
    /\ \A p \in Players : Base[p] \in Offsets
    /\ Base[0] # Base[1]
    /\ Len(BuildCosts) \in Nat /\ Len(BuildCosts) > 0
    /\ Levels = 1 .. Len(BuildCosts)
    /\ \A l \in Levels :
        /\ BuildCosts[l] \in Nat /\ BuildCosts[l] > 0
        /\ Ranges[l] \in Nat
        /\ MaxHps[l] \in Nat /\ MaxHps[l] > 0
        /\ KillRewards[l] \in Nat
        /\ SuicideRewards[l] \in Nat
    /\ \A l, m \in Levels : l <= m => Ranges[l] <= Ranges[m]
    /\ SoldierReward \in Nat /\ AttackDamage \in Nat
    /\ MaxNumTowers \in Nat /\ MaxNumTowers > 0
    /\ MaxMoney \in Nat /\ MoneyStart \in 0 .. MaxMoney
    /\ ActorIdBound \in Nat /\ ActorIdBound >= 2
    /\ NumSoldiers \in Nat /\ NumSoldiers > 0
<1>1. Levels = 1 .. Len(BuildCosts) /\ Len(BuildCosts) \in Nat /\ Len(BuildCosts) > 0
  BY TowersAssumption DEF TowersAssumption, Levels
<1>2. \A l \in Levels : BuildCosts[l] \in Nat \ {0}
  BY <1>1, TowersAssumption DEF TowersAssumption
<1>3. /\ Ranges \in [Levels -> Nat \ {0}]
      /\ MaxHps \in [Levels -> Nat \ {0}]
      /\ KillRewards \in [Levels -> Nat \ {0}]
      /\ SuicideRewards \in [Levels -> Nat \ {0}]
  BY TowersAssumption DEF TowersAssumption
<1>4. MapSize \in Nat /\ MapSize > 1
  <2>1. MapSize \in Nat /\ MapSize > 0 /\ Base[0] \in Offsets /\ Base[1] \in Offsets /\ Base[0] # Base[1]
    BY TowersAssumption DEF TowersAssumption, Players
  <2>2. ASSUME MapSize = 1 PROVE Offsets = {<<0, 0>>}
    BY <2>2 DEF Offsets
  <2>3. QED
    BY <2>1, <2>2
<1>5. /\ SoldierReward \in Nat /\ AttackDamage \in Nat
      /\ MaxNumTowers \in Nat /\ MaxNumTowers > 0
      /\ NumSoldiers \in Nat /\ NumSoldiers > 0
  <2>1. {SoldierReward, AttackDamage, NumSoldiers, MaxNumTowers} \subseteq Nat \ {0}
    BY TowersAssumption DEF TowersAssumption
  <2>2. QED
    BY <2>1
<1>6. /\ \A p \in Players : Base[p] \in Offsets
      /\ Base[0] # Base[1]
      /\ \A l, m \in Levels : l <= m => Ranges[l] <= Ranges[m]
      /\ MaxMoney \in Nat /\ MoneyStart \in 0 .. MaxMoney
      /\ ActorIdBound \in Nat /\ ActorIdBound >= 2
  BY TowersAssumption DEF TowersAssumption
<1>7. QED
  BY SMTT(30), <1>1, <1>2, <1>3, <1>4, <1>5, <1>6

\* The types of the lists, of their indices and of what is on them.
LEMMA ListTypes ==
    ASSUME Shapes, NEW p \in Players
    PROVE  /\ towers[p] \in Seq(Tower)
           /\ Len(towers[p]) \in Nat /\ DOMAIN towers[p] = 1 .. Len(towers[p])
           /\ \A i \in DOMAIN towers[p] :
                /\ towers[p][i] \in Tower
                /\ towers[p][i].id \in Nat
                /\ towers[p][i].offset \in Offsets
                /\ towers[p][i].level \in Levels
                /\ towers[p][i].hp \in Nat
           /\ toBuild[p] \in Seq(Offsets)
           /\ Len(toBuild[p]) \in Nat /\ DOMAIN toBuild[p] = 1 .. Len(toBuild[p])
           /\ \A k \in DOMAIN toBuild[p] : toBuild[p][k] \in Offsets
           /\ toUpgrade[p] \in Seq(Nat)
           /\ Len(toUpgrade[p]) \in Nat /\ DOMAIN toUpgrade[p] = 1 .. Len(toUpgrade[p])
           /\ \A k \in DOMAIN toUpgrade[p] : toUpgrade[p][k] \in Nat
           /\ toSuicide[p] \in Seq(Nat)
           /\ Len(toSuicide[p]) \in Nat /\ DOMAIN toSuicide[p] = 1 .. Len(toSuicide[p])
           /\ \A k \in DOMAIN toSuicide[p] : toSuicide[p][k] \in Nat
           /\ \A s \in Troop : target[p][s] \in Nat \cup {NoTarget}
<1>1. /\ towers[p] \in Seq(Tower) /\ toBuild[p] \in Seq(Offsets)
      /\ toUpgrade[p] \in Seq(Nat) /\ toSuicide[p] \in Seq(Nat)
      /\ target[p] \in [Troop -> Nat \cup {NoTarget}]
  BY DEF Shapes
<1>2. \A i \in DOMAIN towers[p] : towers[p][i] \in Tower
  BY <1>1
<1>3. QED
  BY SMTT(30), <1>1, <1>2 DEF Tower

\* TypeOK, index by index.
LEMMA Typed ==
    ASSUME TypeOK, Shapes
    PROVE  /\ nextId \in Nat /\ nextId >= 2 /\ nextId <= ActorIdBound
           /\ who \in Players /\ Enemy(who) \in Players
           /\ cursor \in Nat
           /\ cursor <= MapSize * MapSize + NumSoldiers + MaxNumTowers
           /\ \A p \in Players :
                /\ money[p] \in Nat /\ money[p] <= MaxMoney
                /\ budget[p] \in Nat /\ budget[p] <= MaxMoney
                /\ \A i \in DOMAIN towers[p] :
                    /\ towers[p][i].id < nextId
                    /\ towers[p][i].hp <= MaxHps[towers[p][i].level]
                /\ \A k \in DOMAIN toUpgrade[p] : toUpgrade[p][k] < nextId
                /\ \A k \in DOMAIN toSuicide[p] : toSuicide[p][k] < nextId
<1>1. /\ nextId \in Nat /\ nextId >= 2 /\ nextId <= ActorIdBound
      /\ who \in Players /\ Enemy(who) \in Players
      /\ cursor \in Nat
      /\ cursor <= MapSize * MapSize + NumSoldiers + MaxNumTowers
  BY Constants DEF TypeOK, Players, Enemy
<1>2. ASSUME NEW p \in Players
      PROVE  /\ money[p] \in Nat /\ money[p] <= MaxMoney
             /\ budget[p] \in Nat /\ budget[p] <= MaxMoney
  BY Constants DEF TypeOK
<1>3. ASSUME NEW p \in Players, NEW i \in DOMAIN towers[p]
      PROVE  /\ towers[p][i].id < nextId
             /\ towers[p][i].hp <= MaxHps[towers[p][i].level]
  <2>1. towers[p][i] \in Elements(towers[p])
    BY DEF Elements
  <2>2. towers[p][i].id \in 0 .. nextId - 1 /\ towers[p][i].hp \in 0 .. MaxHps[towers[p][i].level]
    BY <2>1 DEF TypeOK
  <2>3. QED
    BY SMTT(30), <1>1, <2>2, ListTypes, Constants
<1>4. ASSUME NEW p \in Players
      PROVE  /\ \A k \in DOMAIN toUpgrade[p] : toUpgrade[p][k] < nextId
             /\ \A k \in DOMAIN toSuicide[p] : toSuicide[p][k] < nextId
  <2>1. Elements(toUpgrade[p]) \cup Elements(toSuicide[p]) \subseteq 0 .. nextId - 1
    BY DEF TypeOK
  <2>2. /\ \A k \in DOMAIN toUpgrade[p] : toUpgrade[p][k] \in 0 .. nextId - 1
        /\ \A k \in DOMAIN toSuicide[p] : toSuicide[p][k] \in 0 .. nextId - 1
    BY <2>1 DEF Elements
  <2>3. QED
    BY <1>1, <2>2
<1>5. QED
  BY <1>1, <1>2, <1>3, <1>4

\* The invariant, part by part.
LEMMA Parts ==
    ASSUME IInv
    PROVE  /\ TypeOK /\ Shapes /\ InTroop /\ IdsLast /\ OneTowerPerElement
           /\ who \in Players /\ Enemy(who) \in Players
           /\ \A p \in Players :
                /\ Listed(p) /\ Emptied(p)
                /\ UpgradesStand(p) /\ SuicidesStand(p) /\ SitesStand(p)
                /\ Funded(p) /\ Territory(p) /\ Targeted(p)
<1>1. TypeOK /\ Shapes /\ InTroop /\ IdsLast /\ OneTowerPerElement /\ \A p \in Players : PlayerPart(p)
  BY DEF IInv
<1>2. QED
  BY <1>1, Typed DEF PlayerPart

\* There is room for the towers.
LEMMA Fits ==
    ASSUME IInv, NEW p \in Players
    PROVE  Len(towers[p]) <= MaxNumTowers
<1>0. \A m, n, k \in Nat : m + n <= k => m <= k
  OBVIOUS
<1>1. Len(towers[p]) \in Nat /\ Len(toBuild[p]) \in Nat
  BY Parts, ListTypes
<1>2. Len(towers[p]) + Len(toBuild[p]) <= MaxNumTowers
  BY Parts DEF Listed
<1>3. MaxNumTowers \in Nat
  BY Constants
<1>4. QED
  BY <1>0, <1>1, <1>2, <1>3

\* The base is on the list.
LEMMA BaseListed ==
    ASSUME IInv, NEW p \in Players
    PROVE  1 \in DOMAIN towers[p]
<1>1. towers[p] \in Seq(Tower) /\ towers[p] # <<>>
  BY Parts, ListTypes DEF Listed
<1>2. QED
  BY <1>1

LEMMA Enemies ==
    \A p \in Players : Enemy(p) \in Players /\ Enemy(p) # p /\ Enemy(Enemy(p)) = p
BY DEF Enemy, Players

\* The map is turned into itself, and its elements have places in the loop.
LEMMA MapFacts ==
    ASSUME NEW p \in Players, NEW c \in Offsets
    PROVE  /\ FlipOffset(p, c) \in Offsets
           /\ FlipOffset(p, FlipOffset(p, c)) = c
           /\ MapIndex(c) \in Nat
           /\ MapIndex(c) <= MapSize * MapSize + NumSoldiers
<1>1. /\ c = <<c[1], c[2]>> /\ c[1] \in 0 .. MapSize - 1 /\ c[2] \in 0 .. MapSize - 1
      /\ MapSize \in Nat /\ MapSize > 1
  BY Constants DEF Offsets
<1>2. FlipOffset(p, c) \in Offsets /\ FlipOffset(p, FlipOffset(p, c)) = c
  BY <1>1 DEF FlipOffset, Offsets
<1>3. \A m \in Nat : \A x \in 0 .. m - 1 : x * m \in Nat /\ x * m <= (m - 1) * m
  OBVIOUS
<1>4. (MapSize - 1) * MapSize = MapSize * MapSize - MapSize /\ MapSize * MapSize \in Nat
  BY <1>1
<1>5. c[1] * MapSize \in Nat /\ c[1] * MapSize <= MapSize * MapSize - MapSize
  BY <1>1, <1>3, <1>4
<1>6. NumSoldiers \in Nat
  BY Constants
<1>7. QED
  BY <1>1, <1>2, <1>4, <1>5, <1>6 DEF MapIndex

\* The cursor has room for the soldiers.
LEMMA Room ==
    ASSUME NEW n \in 0 .. NumSoldiers
    PROVE  n \in 0 .. MapSize * MapSize + NumSoldiers + MaxNumTowers
<1>1. MapSize \in Nat /\ MaxNumTowers \in Nat /\ NumSoldiers \in Nat
  BY Constants
<1>2. MapSize * MapSize \in Nat
  BY <1>1
<1>3. QED
  BY <1>1, <1>2

\* The index of an id.
LEMMA IndexOfId ==
    ASSUME NEW p \in Players, NEW i \in DOMAIN towers[p], Listed(p)
    PROVE  /\ towers[p][i].id \in Ids(p)
           /\ IndexOf(p, towers[p][i].id) = i
BY DEF Listed, IndexOf, Ids

LEMMA IdHasIndex ==
    ASSUME NEW p \in Players, NEW id \in Ids(p)
    PROVE  IndexOf(p, id) \in DOMAIN towers[p] /\ towers[p][IndexOf(p, id)].id = id
<1>1. \E i \in DOMAIN towers[p] : towers[p][i].id = id
  BY DEF Ids
<1>2. QED
  BY <1>1 DEF IndexOf

\* The pairs in Coins.
LEMMA CoinsIn ==
    ASSUME NEW ts, NEW ids, NEW x
    PROVE  x \in Coins(ts, ids) <=>
             \E i \in DOMAIN ts :
                /\ ts[i].id \in Elements(ids)
                /\ x \in {i} \X (1 .. BuildCosts[ts[i].level + 1])
BY DEF Coins

LEMMA NoCoins ==
    ASSUME NEW ts
    PROVE  /\ IsFiniteSet(Coins(ts, <<>>))
           /\ Cardinality(Coins(ts, <<>>)) = 0
<1>1. Coins(ts, <<>>) = {}
  BY CoinsIn DEF Elements
<1>2. QED
  BY <1>1, FS_EmptySet

-----------------------------------------------------------------------------

\* Targets that are kept, or dropped, stay sound as long as no tower is taken off
\* the list and the soldiers that may be behind the times are the same.
LEMMA TargetsStaySound ==
    ASSUME IInv, NEW p \in Players, toDelete' = toDelete,
           Ids(Enemy(p)) \subseteq Ids(Enemy(p))',
           \A s \in Troop : target'[p][s] = NoTarget \/ target'[p][s] = target[p][s],
           \A s \in Troop :
                MayBeBuried(p, s) => MayBeBuried(p, s)' \/ target'[p][s] = NoTarget
                                     \/ target[p][s] \in Ids(Enemy(p))
    PROVE  Targeted(p)'
<1>1. ASSUME NEW s \in Troop PROVE Sound(p, s)'
  <2>1. SUFFICES ASSUME target'[p][s] # NoTarget
                 PROVE  /\ target'[p][s] # Enemy(p)
                        /\ \/ target'[p][s] \in Ids(Enemy(p))'
                           \/ MayBeBuried(p, s)' /\ target'[p][s] \in toDelete'[Enemy(p)][2]
    BY DEF Sound
  <2>2. target'[p][s] = target[p][s]
    BY <2>1
  <2>3. Sound(p, s)
    BY Parts DEF Targeted
  <2>4. QED
    BY <2>1, <2>2, <2>3 DEF Sound
<1>2. QED
  BY <1>1 DEF Targeted

LEMMA InitIInv == Init => IInv
<1> SUFFICES ASSUME Init PROVE IInv
  OBVIOUS
<1> USE Constants
<1>0. 1 \in Levels /\ NoTarget \notin Nat
  BY DEF NoTarget
<1>1. ASSUME NEW p \in Players
      PROVE  /\ towers[p] = <<NewTower(p, Base[p], TRUE)>>
             /\ NewTower(p, Base[p], TRUE) \in Tower
             /\ Elements(towers[p]) = {NewTower(p, Base[p], TRUE)}
             /\ towers[p] \in Seq(Tower)
  <2> DEFINE t == NewTower(p, Base[p], TRUE)
  <2>1. towers[p] = <<t>>
    BY DEF Init
  <2>2. t \in Tower
    BY <1>0 DEF NewTower, Tower, Players
  <2> HIDE DEF t
  <2>3. Elements(<<t>>) = {t} /\ <<t>> \in Seq(Tower)
    BY <2>2 DEF Elements
  <2>4. QED
    BY <2>1, <2>2, <2>3 DEF t
<1>2. Shapes
  <2>1. towers = [p \in Players |-> <<NewTower(p, Base[p], TRUE)>>]
    BY DEF Init
  <2>2. towers \in [Players -> Seq(Tower)]
    BY <1>1, <2>1
  <2>3. <<{}, {}>> \in (SUBSET Nat) \X (SUBSET Nat)
    OBVIOUS
  <2>4. toDelete \in [Players -> (SUBSET Nat) \X (SUBSET Nat)]
    BY <2>3 DEF Init
  <2>5. /\ toBuild \in [Players -> Seq(Offsets)]
        /\ toUpgrade \in [Players -> Seq(Nat)]
        /\ toSuicide \in [Players -> Seq(Nat)]
    BY DEF Init
  <2>6. target \in [Players -> [Troop -> Nat \cup {NoTarget}]]
    BY DEF Init
  <2>7. QED
    BY <2>2, <2>4, <2>5, <2>6 DEF Shapes
<1>3. TypeOK
  <2>1. \A p \in Players : \A t \in Elements(towers[p]) :
            /\ t.id \in 0 .. nextId - 1
            /\ t.offset \in Offsets
            /\ t.level \in Levels
            /\ t.hp \in 0 .. MaxHps[t.level]
            /\ t.isBase \in BOOLEAN
    <3>1. SUFFICES ASSUME NEW p \in Players, NEW t, t = NewTower(p, Base[p], TRUE)
                   PROVE  /\ t.id \in 0 .. nextId - 1
                          /\ t.offset \in Offsets
                          /\ t.level \in Levels
                          /\ t.hp \in 0 .. MaxHps[t.level]
                          /\ t.isBase \in BOOLEAN
      BY <1>1
    <3>2. nextId = 2
      BY DEF Init
    <3>3. QED
      BY <1>0, <3>1, <3>2 DEF NewTower, Players
  <2>2. /\ money \in [Players -> 0 .. MaxMoney]
        /\ budget \in [Players -> 0 .. MaxMoney]
        /\ nextId \in 2 .. ActorIdBound
        /\ phase \in {"towerTasks", "soldierTasks", "update", "soldiers", "late"}
        /\ who \in Players
    BY DEF Init, Players
  <2>3. refs \in [Players -> [Offsets -> Nat]] /\ owners \in [Offsets -> SUBSET Players]
    BY DEF Init
  <2>4. cursor \in 0 .. MapSize * MapSize + NumSoldiers + MaxNumTowers
    <3>1. MapSize * MapSize \in Nat /\ NumSoldiers \in Nat /\ MaxNumTowers \in Nat /\ cursor = 0
      BY DEF Init
    <3>2. QED
      BY ONLY <3>1
  <2>5. \A p \in Players :
        /\ Elements(toBuild[p]) \subseteq Offsets
        /\ Elements(toUpgrade[p]) \cup Elements(toSuicide[p]) \subseteq 0 .. nextId - 1
        /\ \A k \in 1 .. 2 : toDelete[p][k] \subseteq 0 .. nextId - 1
        /\ \A s \in Troop : target[p][s] \in {NoTarget} \cup 0 .. nextId - 1
    BY DEF Init, Elements
  <2>6. QED
    BY <2>1, <2>2, <2>3, <2>4, <2>5 DEF TypeOK
<1>4. IdsLast /\ InTroop
  BY DEF Init, IdsLast, InTroop, Players
<1>5. OneTowerPerElement
  BY <1>1 DEF OneTowerPerElement, NewTower, Players
<1>6. ASSUME NEW p \in Players PROVE PlayerPart(p)
  <2>1. Listed(p)
    BY <1>1 DEF Init, Listed, NewTower
  <2>2. Emptied(p) /\ UpgradesStand(p) /\ SuicidesStand(p) /\ SitesStand(p) /\ Targeted(p)
    BY DEF Init, Emptied, UpgradesStand, SuicidesStand, SitesStand, Targeted, Sound
  <2>3. Funded(p)
    <3>1. /\ toUpgrade[p] = <<>> /\ toBuild[p] = <<>> /\ budget[p] = money[p]
          /\ money[p] \in Nat /\ phase = "towerTasks"
      BY DEF Init
    <3>2. QED
      BY <3>1, NoCoins, <1>0 DEF Funded, Costs
  <2>4. Territory(p)
    <3>1. SUFFICES ASSUME NEW c \in Offsets
                   PROVE  /\ refs[p][c] = Cardinality(Claims(towers[p], c))
                          /\ p \in owners[c] <=> refs[p][c] > 0
      BY DEF Territory
    <3> DEFINE t == NewTower(p, Base[p], TRUE)
    <3>2. towers[p] = <<t>>
      BY <1>1
    <3>3. Claims(<<t>>, c) = IF c \in CalculateBounds(t) THEN {1} ELSE {}
      <4> HIDE DEF t
      <4>1. DOMAIN <<t>> = {1} /\ <<t>>[1] = t
        OBVIOUS
      <4>2. QED
        BY <4>1 DEF Claims
    <3>4. Cardinality({1}) = 1 /\ Cardinality({}) = 0
      BY FS_Singleton, FS_EmptySet
    <3>5. /\ refs[p][c] = IF c \in CalculateBounds(t) THEN 1 ELSE 0
          /\ p \in owners[c] <=> c \in CalculateBounds(t)
      BY DEF Init
    <3> HIDE DEF t
    <3>6. CASE c \in CalculateBounds(t)
      BY ONLY <3>2, <3>3, <3>4, <3>5, <3>6
    <3>7. CASE c \notin CalculateBounds(t)
      BY ONLY <3>2, <3>3, <3>4, <3>5, <3>7
    <3>8. QED
      BY <3>6, <3>7
  <2>5. QED
    BY <2>1, <2>2, <2>3, <2>4 DEF PlayerPart
<1>7. QED
  BY <1>2, <1>3, <1>4, <1>5, <1>6 DEF IInv

\* A list to which one element is added.
LEMMA AppendFacts ==
    ASSUME NEW S, NEW s \in Seq(S), NEW e \in S
    PROVE  /\ Append(s, e) \in Seq(S)
           /\ Len(Append(s, e)) = Len(s) + 1
           /\ DOMAIN Append(s, e) = 1 .. Len(s) + 1
           /\ \A k \in DOMAIN s : k \in DOMAIN Append(s, e) /\ Append(s, e)[k] = s[k]
           /\ Append(s, e)[Len(s) + 1] = e
           /\ \A k \in DOMAIN Append(s, e) : k \in DOMAIN s \/ k = Len(s) + 1
           /\ Len(s) + 1 \notin DOMAIN s
           /\ Elements(Append(s, e)) = Elements(s) \cup {e}
<1>1. /\ Append(s, e) \in Seq(S)
      /\ Len(Append(s, e)) = Len(s) + 1
      /\ DOMAIN Append(s, e) = 1 .. Len(s) + 1
      /\ \A k \in DOMAIN s : k \in DOMAIN Append(s, e) /\ Append(s, e)[k] = s[k]
      /\ Append(s, e)[Len(s) + 1] = e
      /\ \A k \in DOMAIN Append(s, e) : k \in DOMAIN s \/ k = Len(s) + 1
      /\ Len(s) + 1 \in DOMAIN Append(s, e)
      /\ Len(s) + 1 \notin DOMAIN s
  OBVIOUS
<1>2. Elements(Append(s, e)) = Elements(s) \cup {e}
  <2> DEFINE t == Append(s, e)
  <2>1. \A k \in DOMAIN s : k \in DOMAIN t /\ t[k] = s[k]
    BY <1>1
  <2>2. \A k \in DOMAIN t : k \in DOMAIN s \/ t[k] = e
    BY <1>1
  <2>3. \E k \in DOMAIN t : t[k] = e
    BY <1>1
  <2> HIDE DEF t
  <2>4. Elements(t) = Elements(s) \cup {e}
    BY ONLY <2>1, <2>2, <2>3 DEF Elements
  <2>5. QED
    BY <2>4 DEF t
<1>3. QED
  BY <1>1, <1>2

\* The queues and the budget when an upgrade is accepted.
LEMMA UpgradeTowerStep ==
    ASSUME IInv, NEW i \in DOMAIN towers[who], NEW id, UpgradeTower(i, id)
    PROVE  IInv'
<1> DEFINE cost == BuildCosts[towers[who][i].level + 1]
           old == toUpgrade[who]
<1>0. /\ TypeOK /\ Shapes /\ IdsLast /\ OneTowerPerElement
      /\ who \in Players
      /\ Listed(who) /\ UpgradesStand(who) /\ Funded(who)
  BY Parts
<1>1. /\ phase = "towerTasks" /\ phase' = phase /\ who' = who /\ cursor' = i /\ i > cursor
      /\ id = towers[who][i].id
      /\ towers[who][i].level # Len(BuildCosts)
      /\ budget[who] >= cost
      /\ UNCHANGED <<money, towers, toBuild, toSuicide, toDelete, refs, owners, nextId, target>>
  BY DEF UpgradeTower
<1>2. id \in Nat /\ id < nextId /\ i \in Nat /\ cost \in Nat /\ i <= MaxNumTowers
  <2>1. /\ id \in Nat /\ id < nextId /\ i \in 1 .. Len(towers[who])
        /\ towers[who][i].level \in Levels
    BY <1>0, <1>1, ListTypes, Typed
  <2>2. cost \in Nat
    BY <1>1, <2>1, Constants
  <2>3. Len(towers[who]) <= MaxNumTowers
    BY <1>0, Fits
  <2>4. QED
    BY <1>0, <2>1, <2>2, <2>3, ListTypes, Constants
<1>3. /\ \A p \in Players \ {who} : toUpgrade'[p] = toUpgrade[p] /\ budget'[p] = budget[p]
      /\ toUpgrade'[who] = Append(old, id)
      /\ budget'[who] = budget[who] - cost
      /\ toUpgrade' \in [Players -> Seq(Nat)]
      /\ budget' \in [Players -> 0 .. MaxMoney]
  <2>1. toUpgrade \in [Players -> Seq(Nat)]
    BY <1>0 DEF Shapes
  <2>2. /\ \A p \in Players \ {who} : toUpgrade'[p] = toUpgrade[p]
        /\ toUpgrade'[who] = Append(old, id)
        /\ toUpgrade' \in [Players -> Seq(Nat)]
    BY <1>0, <1>2, <2>1 DEF UpgradeTower
  <2>3. budget \in [Players -> 0 .. MaxMoney]
    BY <1>0 DEF TypeOK
  <2>4. budget[who] \in 0 .. MaxMoney /\ budget[who] - cost \in 0 .. MaxMoney
    BY <1>0, <1>1, <1>2, <2>3, Constants
  <2>5. budget' = [budget EXCEPT ![who] = @ - cost]
    BY DEF UpgradeTower
  <2>6. QED
    BY <1>0, <2>2, <2>3, <2>4, <2>5
<1>4. /\ old \in Seq(Nat) /\ Len(old) \in Nat
      /\ DOMAIN old = 1 .. Len(old) /\ DOMAIN Append(old, id) = 1 .. Len(old) + 1
      /\ \A k \in DOMAIN old : Append(old, id)[k] = old[k]
      /\ Append(old, id)[Len(old) + 1] = id
      /\ Elements(Append(old, id)) = Elements(old) \cup {id}
  <2>1. old \in Seq(Nat) /\ Len(old) \in Nat /\ DOMAIN old = 1 .. Len(old)
    BY <1>0, ListTypes
  <2> HIDE DEF old
  <2>2. QED
    BY <1>2, <2>1, AppendFacts
<1>5. id \notin Elements(old)
  <2>1. SUFFICES ASSUME NEW k \in DOMAIN old, old[k] = id PROVE FALSE
    BY DEF Elements
  <2>2. PICK j \in DOMAIN towers[who] : towers[who][j].id = id /\ j <= cursor
    BY <1>0, <1>1, <2>1 DEF UpgradesStand
  <2>3. j = i
    BY <1>0, <1>1, <2>2 DEF Listed
  <2>4. QED
    BY <1>0, <1>1, <1>2, <2>2, <2>3, Typed
<1>6. TypeOK'
  <2>1. cursor' \in 0 .. MapSize * MapSize + NumSoldiers + MaxNumTowers
    <3>1. MapSize * MapSize \in Nat
      BY Constants
    <3>2. QED
      BY <1>1, <1>2, <3>1, Constants
  <2>2. \A p \in Players : Elements(toUpgrade'[p]) \subseteq 0 .. nextId - 1
    <3>1. Elements(toUpgrade[who]) \subseteq 0 .. nextId - 1
      BY <1>0 DEF TypeOK
    <3>2. Elements(toUpgrade'[who]) \subseteq 0 .. nextId - 1
      BY SMTT(30), <1>0, <1>2, <1>3, <1>4, <3>1, Typed
    <3>3. QED
      BY <1>0, <1>3, <3>2 DEF TypeOK
  <2>3. QED
    BY <1>0, <1>1, <1>3, <2>1, <2>2 DEF TypeOK
<1>7. Shapes' /\ InTroop' /\ IdsLast' /\ OneTowerPerElement'
  <2>0. InTroop'
    BY <1>1 DEF InTroop
  <2>1. Shapes'
    BY <1>0, <1>1, <1>3 DEF Shapes
  <2>2. IdsLast'
    BY <1>0, <1>1 DEF IdsLast
  <2>3. OneTowerPerElement'
    BY <1>0, <1>1 DEF OneTowerPerElement
  <2>4. QED
    BY <2>0, <2>1, <2>2, <2>3
<1>8. UpgradesStand(who)'
  <2>1. ASSUME NEW j \in DOMAIN Append(old, id)
        PROVE  \E k \in DOMAIN towers[who] :
                 /\ towers[who][k].id = Append(old, id)[j]
                 /\ towers[who][k].level # Len(BuildCosts)
                 /\ k <= i
    <3>1. CASE j \in DOMAIN old
      <4>1. PICK k \in DOMAIN towers[who] :
                 /\ towers[who][k].id = old[j]
                 /\ towers[who][k].level # Len(BuildCosts)
                 /\ k <= cursor
        BY <1>0, <1>1, <3>1 DEF UpgradesStand
      <4>2. k <= i
        BY <1>0, <1>1, <1>2, <4>1, ListTypes, Typed
      <4>3. QED
        BY <1>4, <3>1, <4>1, <4>2
    <3>2. CASE j = Len(old) + 1
      <4>1. i <= i
        BY <1>2
      <4>2. QED
        BY <1>1, <1>4, <3>2, <4>1
    <3>3. QED
      BY <1>4, <3>1, <3>2
  <2>2. ASSUME NEW j \in DOMAIN Append(old, id), NEW k \in DOMAIN Append(old, id),
               Append(old, id)[j] = Append(old, id)[k]
        PROVE  j = k
    <3>1. \A m \in DOMAIN old : Append(old, id)[m] # id
      BY <1>4, <1>5 DEF Elements
    <3>2. \A l, m \in DOMAIN old : Append(old, id)[l] = Append(old, id)[m] => l = m
      BY <1>0, <1>4 DEF UpgradesStand
    <3>3. /\ j \in DOMAIN old \/ j = Len(old) + 1
          /\ k \in DOMAIN old \/ k = Len(old) + 1
      BY <1>4
    <3>4. QED
      BY <1>4, <2>2, <3>1, <3>2, <3>3
  <2>3. QED
    <3> DEFINE new == Append(old, id)
    <3>1. towers' = towers /\ who' = who /\ cursor' = i /\ toUpgrade'[who] = new
      BY <1>1, <1>3
    <3>2. /\ \A j \in DOMAIN new : \E k \in DOMAIN towers[who] :
                /\ towers[who][k].id = new[j]
                /\ towers[who][k].level # Len(BuildCosts)
                /\ k <= i
          /\ \A j, k \in DOMAIN new : new[j] = new[k] => j = k
      BY <2>1, <2>2
    <3> HIDE DEF new
    <3>3. QED
      BY <3>1, <3>2 DEF UpgradesStand
<1>9. Funded(who)'
  <2> DEFINE C == Coins(towers[who], old)
             D == Coins(towers[who], Append(old, id))
             build == Len(toBuild[who]) * BuildCosts[1]
  <2>1. D = C \cup ({i} \X (1 .. cost))
    <3>1. \A k \in DOMAIN towers[who] : towers[who][k].id = id <=> k = i
      BY <1>0, <1>1 DEF Listed
    <3>2. \A k \in DOMAIN towers[who] :
            towers[who][k].id \in Elements(Append(old, id))
                <=> towers[who][k].id \in Elements(old) \/ k = i
      BY <1>4, <3>1
    <3>3. QED
      BY <3>2, CoinsIn
  <2>2. IsFiniteSet(C) /\ \A x \in C : x[1] # i
    <3>1. IsFiniteSet(C)
      BY <1>0 DEF Funded
    <3>2. \A x \in C : x[1] # i
      BY <1>1, <1>5, CoinsIn
    <3>3. QED
      BY <3>1, <3>2
  <2>3. IsFiniteSet(D) /\ Cardinality(D) = Cardinality(C) + cost /\ Cardinality(C) \in Nat
    <3> HIDE DEF C, D, cost
    <3>1. QED
      BY <1>2, <2>1, <2>2, AddedPairs
  <2>4. budget[who] + (build + Cardinality(C)) = money[who]
    BY <1>0, <1>1 DEF Funded, Costs, Ordering
  <2>5. budget[who] \in Nat /\ money'[who] = money[who]
    BY <1>0, <1>1, Typed
  <2>6. build \in Nat
    <3>1. Len(toBuild[who]) \in Nat /\ BuildCosts[1] \in Nat
      BY <1>0, ListTypes, Constants
    <3>2. QED
      BY <3>1
  <2>7. /\ Costs(who)' = build + Cardinality(D)
        /\ budget'[who] = budget[who] - cost
    BY <1>1, <1>3 DEF Costs
  <2>8. budget'[who] + Costs(who)' = money'[who]
    <3> HIDE DEF C, D, cost, build
    <3>1. QED
      BY <1>2, <2>3, <2>4, <2>5, <2>6, <2>7
  <2>9. QED
    BY <1>1, <1>3, <2>3, <2>8 DEF Funded, Ordering
<1>10. ASSUME NEW p \in Players PROVE PlayerPart(p)'
  <2>1. Listed(p)' /\ SuicidesStand(p)'
    <3>1. Listed(p)'
      BY <1>1, Parts DEF Listed
    <3>2. SuicidesStand(p)'
      BY <1>1, Parts DEF SuicidesStand, Ids
    <3>3. QED
      BY <3>1, <3>2
  <2>2. Emptied(p)' /\ SitesStand(p)'
    <3>1. p > who => toUpgrade'[p] = toUpgrade[p]
      BY <1>0, <1>3 DEF Players
    <3>2. QED
      BY <1>1, <3>1, Parts DEF Emptied, SitesStand, Ordering
  <2>3. Territory(p)' /\ Targeted(p)'
    <3>1. Territory(p)'
      BY <1>1, Parts DEF Territory
    <3>2. \A s \in Troop : ~MayBeBuried(p, s)
      BY <1>1 DEF MayBeBuried
    <3>3. Ids(Enemy(p))' = Ids(Enemy(p))
      BY <1>1 DEF Ids
    <3>4. Targeted(p)'
      BY <1>1, <3>2, <3>3, TargetsStaySound
    <3>5. QED
      BY <3>1, <3>4
  <2>4. UpgradesStand(p)' /\ Funded(p)'
    <3>1. CASE p # who
      <4>1. toUpgrade'[p] = toUpgrade[p] /\ budget'[p] = budget[p]
        BY <1>3, <3>1
      <4>2. QED
        BY <1>1, <3>1, <4>1, Parts DEF UpgradesStand, Funded, Costs, Ordering
    <3>2. QED
      BY <1>1, <1>8, <1>9, <3>1
  <2>5. QED
    BY <2>1, <2>2, <2>3, <2>4 DEF PlayerPart
<1>11. QED
  BY <1>6, <1>7, <1>10 DEF IInv

\* The queue when a suicide is accepted.
LEMMA SuicideTowerStep ==
    ASSUME IInv, NEW i \in DOMAIN towers[who], NEW id, SuicideTower(i, id)
    PROVE  IInv'
<1> DEFINE old == toSuicide[who]
<1>0. /\ TypeOK /\ Shapes /\ IdsLast /\ OneTowerPerElement
      /\ who \in Players
      /\ Listed(who) /\ UpgradesStand(who) /\ SuicidesStand(who)
  BY Parts
<1>1. /\ phase = "towerTasks" /\ phase' = phase /\ who' = who /\ cursor' = i /\ i > cursor
      /\ id = towers[who][i].id
      /\ ~towers[who][i].isBase
      /\ UNCHANGED <<money, towers, toBuild, toUpgrade, toDelete, refs, owners, nextId, budget, target>>
  BY DEF SuicideTower
<1>2. id \in Nat /\ id < nextId /\ i \in Nat /\ i <= MaxNumTowers
  <2>1. id \in Nat /\ id < nextId /\ i \in 1 .. Len(towers[who])
    BY <1>0, <1>1, ListTypes, Typed
  <2>2. Len(towers[who]) \in Nat /\ Len(towers[who]) <= MaxNumTowers /\ MaxNumTowers \in Nat
    BY <1>0, Fits, ListTypes, Constants
  <2>3. QED
    BY <2>1, <2>2
<1>3. /\ \A p \in Players \ {who} : toSuicide'[p] = toSuicide[p]
      /\ toSuicide'[who] = Append(old, id)
      /\ toSuicide' \in [Players -> Seq(Nat)]
  <2>1. toSuicide \in [Players -> Seq(Nat)]
    BY <1>0 DEF Shapes
  <2>2. QED
    BY <1>0, <1>2, <2>1 DEF SuicideTower
<1>4. /\ DOMAIN old = 1 .. Len(old) /\ DOMAIN Append(old, id) = 1 .. Len(old) + 1
      /\ Len(old) \in Nat
      /\ \A k \in DOMAIN old : Append(old, id)[k] = old[k]
      /\ Append(old, id)[Len(old) + 1] = id
      /\ Elements(Append(old, id)) = Elements(old) \cup {id}
  <2>1. old \in Seq(Nat) /\ Len(old) \in Nat /\ DOMAIN old = 1 .. Len(old)
    BY <1>0, ListTypes
  <2> HIDE DEF old
  <2>2. QED
    BY <1>2, <2>1, AppendFacts
<1>5. TypeOK'
  <2>1. cursor' \in 0 .. MapSize * MapSize + NumSoldiers + MaxNumTowers
    <3>1. MapSize * MapSize \in Nat
      BY Constants
    <3>2. QED
      BY <1>1, <1>2, <3>1, Constants
  <2>2. \A p \in Players : Elements(toSuicide'[p]) \subseteq 0 .. nextId - 1
    <3>1. Elements(toSuicide[who]) \subseteq 0 .. nextId - 1
      BY <1>0 DEF TypeOK
    <3>2. Elements(toSuicide'[who]) \subseteq 0 .. nextId - 1
      BY <1>0, <1>2, <1>3, <1>4, <3>1, Typed
    <3>3. QED
      BY <1>0, <1>3, <3>2 DEF TypeOK
  <2>3. QED
    BY <1>0, <1>1, <2>1, <2>2 DEF TypeOK
<1>6. Shapes' /\ InTroop' /\ IdsLast' /\ OneTowerPerElement'
  <2>0. InTroop'
    BY <1>1 DEF InTroop
  <2>1. Shapes'
    BY <1>0, <1>1, <1>3 DEF Shapes
  <2>2. IdsLast'
    BY <1>0, <1>1 DEF IdsLast
  <2>3. OneTowerPerElement'
    BY <1>0, <1>1 DEF OneTowerPerElement
  <2>4. QED
    BY <2>0, <2>1, <2>2, <2>3
<1>7. SuicidesStand(who)'
  <2> DEFINE new == Append(old, id)
  <2>1. id \in Ids(who) \ {who}
    <3>1. id \in Ids(who)
      BY <1>1 DEF Ids
    <3>2. i # 1
      BY <1>0, <1>1 DEF Listed
    <3>3. 1 \in DOMAIN towers[who]
      BY <1>0, ListTypes DEF Listed
    <3>4. id # who
      BY <1>0, <1>1, <3>2, <3>3 DEF Listed
    <3>5. QED
      BY <3>1, <3>4
  <2>2. \A j \in DOMAIN new : new[j] \in Ids(who) \ {who}
    <3>1. \A j \in DOMAIN old : old[j] \in Ids(who) \ {who}
      BY <1>0 DEF SuicidesStand
    <3>2. \A j \in DOMAIN new : j \in DOMAIN old \/ j = Len(old) + 1
      BY <1>4
    <3>3. QED
      BY <1>4, <2>1, <3>1, <3>2
  <2> HIDE DEF new
  <2>3. towers' = towers /\ who' = who /\ toSuicide'[who] = new
    BY <1>1, <1>3 DEF new
  <2>4. QED
    BY <2>2, <2>3 DEF SuicidesStand, Ids
<1>8. UpgradesStand(who)'
  <2>1. \A k \in Nat : k <= cursor => k <= i
    BY <1>0, <1>1, <1>2, Typed
  <2>2. \A k \in DOMAIN towers[who] : k \in Nat
    BY <1>0, ListTypes
  <2>3. QED
    BY <1>0, <1>1, <2>1, <2>2 DEF UpgradesStand
<1>9. ASSUME NEW p \in Players PROVE PlayerPart(p)'
  <2>1. Listed(p)'
    BY <1>1, Parts DEF Listed
  <2>2. Emptied(p)' /\ SitesStand(p)'
    BY <1>1, Parts DEF Emptied, SitesStand, Ordering
  <2>3. Territory(p)' /\ Targeted(p)'
    <3>1. Territory(p)'
      BY <1>1, Parts DEF Territory
    <3>2. \A s \in Troop : ~MayBeBuried(p, s)
      BY <1>1 DEF MayBeBuried
    <3>3. Ids(Enemy(p))' = Ids(Enemy(p))
      BY <1>1 DEF Ids
    <3>4. Targeted(p)'
      BY <1>1, <3>2, <3>3, TargetsStaySound
    <3>5. QED
      BY <3>1, <3>4
  <2>4. Funded(p)'
    BY <1>1, Parts DEF Funded, Costs, Ordering
  <2>5. UpgradesStand(p)' /\ SuicidesStand(p)'
    <3>1. CASE p # who
      <4>1. toSuicide'[p] = toSuicide[p]
        BY <1>3, <3>1
      <4>2. QED
        BY <1>1, <3>1, <4>1, Parts DEF UpgradesStand, SuicidesStand, Ids
    <3>2. QED
      BY <1>1, <1>7, <1>8, <3>1
  <2>6. QED
    BY <2>1, <2>2, <2>3, <2>4, <2>5 DEF PlayerPart
<1>10. QED
  BY <1>5, <1>6, <1>9 DEF IInv

\* What is queued costs some number of units.
LEMMA CostsType ==
    ASSUME Shapes, NEW p \in Players, Funded(p)
    PROVE  /\ Costs(p) \in Nat
           /\ Len(toBuild[p]) \in Nat
           /\ Len(toBuild[p]) * BuildCosts[1] \in Nat
           /\ Cardinality(Coins(towers[p], toUpgrade[p])) \in Nat
<1>1. Cardinality(Coins(towers[p], toUpgrade[p])) \in Nat
  BY FS_CardinalityType DEF Funded
<1>2. Len(toBuild[p]) \in Nat /\ BuildCosts[1] \in Nat
  BY ListTypes, Constants
<1>3. QED
  BY <1>1, <1>2 DEF Costs

\* What steps do not touch that leave lists, counts and flags alone.
LEMMA StateKept ==
    ASSUME IInv, UNCHANGED stateVars
    PROVE  /\ UNCHANGED <<money, towers, toBuild, toUpgrade, toSuicide, toDelete, refs, owners, nextId>>
           /\ IdsLast' /\ OneTowerPerElement'
           /\ \A p \in Players :
                /\ Listed(p)' /\ SuicidesStand(p)' /\ Territory(p)'
                /\ Ids(p)' = Ids(p) /\ Ids(Enemy(p))' = Ids(Enemy(p))
                /\ Costs(p)' = Costs(p)
                /\ IsFiniteSet(Coins(towers[p], toUpgrade[p]))'
<1>1. UNCHANGED <<money, towers, toBuild, toUpgrade, toSuicide, toDelete, refs, owners, nextId>>
  BY DEF stateVars
<1>2. IdsLast' /\ OneTowerPerElement'
  BY <1>1, Parts DEF IdsLast, OneTowerPerElement
<1>3. ASSUME NEW p \in Players
      PROVE  /\ Listed(p)' /\ SuicidesStand(p)' /\ Territory(p)'
             /\ Ids(p)' = Ids(p) /\ Ids(Enemy(p))' = Ids(Enemy(p))
             /\ Costs(p)' = Costs(p)
             /\ IsFiniteSet(Coins(towers[p], toUpgrade[p]))'
  <2>1. Listed(p)'
    BY <1>1, Parts DEF Listed
  <2>2. Territory(p)'
    BY <1>1, Parts DEF Territory
  <2>3. Ids(p)' = Ids(p) /\ Ids(Enemy(p))' = Ids(Enemy(p)) /\ Costs(p)' = Costs(p)
    BY <1>1 DEF Ids, Costs
  <2>4. SuicidesStand(p)'
    BY <1>1, <2>3, Parts DEF SuicidesStand
  <2>5. IsFiniteSet(Coins(towers[p], toUpgrade[p]))'
    BY <1>1, Parts DEF Funded
  <2>6. QED
    BY <2>1, <2>2, <2>3, <2>4, <2>5
<1>4. QED
  BY <1>1, <1>2, <1>3

\* The first loop goes on to the next player or to the second loop.
LEMMA EndTowerTasks ==
    ASSUME IInv, EndLoop("towerTasks", "soldierTasks")
    PROVE  IInv'
<1>1. /\ phase = "towerTasks" /\ cursor' = 0 /\ UNCHANGED stateVars
      /\ budget' = budget /\ target' = target
      /\ \/ who = 0 /\ who' = 1 /\ phase' = "towerTasks"
         \/ who = 1 /\ who' = 0 /\ phase' = "soldierTasks"
  BY Parts DEF EndLoop, NextPlayer, Players
<1>2. TypeOK'
  <2>0. 0 \in 0 .. NumSoldiers
    BY Constants
  <2>1. 0 \in 0 .. MapSize * MapSize + NumSoldiers + MaxNumTowers
    BY <2>0, Room
  <2>2. QED
    BY <1>1, <2>1, StateKept, Parts DEF TypeOK, Players
<1>3. Shapes' /\ InTroop'
  <2>1. Shapes'
    BY <1>1, StateKept, Parts DEF Shapes
  <2>2. InTroop'
    BY <1>1 DEF InTroop
  <2>3. QED
    BY <2>1, <2>2
<1>4. ASSUME NEW p \in Players PROVE PlayerPart(p)'
  <2>1. Emptied(p)' /\ (phase' = "towerTasks" /\ p = who' => toUpgrade[p] = <<>>) /\ toBuild[p] = <<>>
    BY <1>1, StateKept, Parts DEF Emptied, Ordering, Players
  <2>2. UpgradesStand(p)' /\ SitesStand(p)'
    BY <1>1, <2>1, StateKept, Parts DEF UpgradesStand, SitesStand
  <2>3. Funded(p)'
    BY <1>1, StateKept, Parts DEF Funded, Ordering
  <2>4. Targeted(p)'
    <3>1. \A s \in Troop : ~MayBeBuried(p, s)
      BY <1>1 DEF MayBeBuried
    <3>2. QED
      BY <1>1, <3>1, StateKept, TargetsStaySound
  <2>5. QED
    BY <1>1, <2>1, <2>2, <2>3, <2>4, StateKept DEF PlayerPart
<1>5. QED
  BY <1>1, <1>2, <1>3, <1>4, StateKept DEF IInv

\* The second loop goes on to the next player or to the updates.
LEMMA EndSoldierTasks ==
    ASSUME IInv, EndLoop("soldierTasks", "update")
    PROVE  IInv'
<1>1. /\ phase = "soldierTasks" /\ cursor' = 0 /\ UNCHANGED stateVars /\ target' = target
      /\ \/ who = 0 /\ who' = 1 /\ phase' = "soldierTasks" /\ budget' = budget
         \/ who = 1 /\ who' = 0 /\ phase' = "update" /\ budget' = [p \in Players |-> 0]
  BY Parts DEF EndLoop, NextPlayer, Players
<1>2. TypeOK'
  <2>0. 0 \in 0 .. NumSoldiers /\ 0 \in 0 .. MaxMoney
    BY Constants
  <2>1. 0 \in 0 .. MapSize * MapSize + NumSoldiers + MaxNumTowers
    BY <2>0, Room
  <2>2. budget' \in [Players -> 0 .. MaxMoney]
    BY <1>1, <2>0, Parts DEF TypeOK
  <2>3. QED
    BY <1>1, <2>1, <2>2, StateKept, Parts DEF TypeOK, Players
<1>3. Shapes' /\ InTroop'
  <2>1. Shapes'
    BY <1>1, StateKept, Parts DEF Shapes
  <2>2. InTroop'
    BY <1>1 DEF InTroop
  <2>3. QED
    BY <2>1, <2>2
<1>4. ASSUME NEW p \in Players PROVE PlayerPart(p)'
  <2>1. Emptied(p)' /\ (phase' = "soldierTasks" /\ p = who' => toBuild[p] = <<>>)
    BY <1>1, StateKept, Parts DEF Emptied, Ordering, Players
  <2>2. UpgradesStand(p)' /\ SitesStand(p)'
    <3>1. UpgradesStand(p)'
      BY <1>1, StateKept, Parts DEF UpgradesStand
    <3>2. SitesStand(p)'
      BY <1>1, <2>1, StateKept, Parts DEF SitesStand, Ordering
    <3>3. QED
      BY <3>1, <3>2
  <2>3. Funded(p)'
    <3>1. /\ budget[p] + Costs(p) = money[p]
          /\ IsFiniteSet(Coins(towers[p], toUpgrade[p]))
      BY <1>1, Parts DEF Funded, Ordering
    <3>2. Costs(p) \in Nat
      BY Parts, CostsType
    <3>3. Costs(p) <= money[p]
      BY <3>1, <3>2, Parts, Typed
    <3>4. QED
      BY <1>1, <3>1, <3>3, StateKept, Parts DEF Funded, Ordering
  <2>4. Targeted(p)'
    <3>1. \A s \in Troop : ~MayBeBuried(p, s)
      BY <1>1 DEF MayBeBuried
    <3>2. QED
      BY <1>1, <3>1, StateKept, TargetsStaySound
  <2>5. QED
    BY <1>1, <2>1, <2>2, <2>3, <2>4, StateKept DEF PlayerPart
<1>5. QED
  BY <1>1, <1>2, <1>3, <1>4, StateKept DEF IInv

\* A soldier gets a tower as its target, which is not a base, or loses it.
LEMMA TargetStep ==
    ASSUME IInv, NEW s \in Troop, NEW id, AttackTower(s, id) \/ (id = NoTarget /\ GoElsewhere(s))
    PROVE  IInv'
<1>1. /\ phase = "soldierTasks" /\ s > cursor /\ cursor' = s /\ phase' = phase /\ who' = who
      /\ UNCHANGED stateVars /\ budget' = budget
      /\ target' = [target EXCEPT ![who][s] = id]
  BY DEF AttackTower, GoElsewhere
<1>2. id # NoTarget => id \in Ids(Enemy(who)) /\ id # Enemy(who) /\ id \in Nat /\ id < nextId
  <2>1. SUFFICES ASSUME id # NoTarget
                 PROVE  id \in Ids(Enemy(who)) /\ id # Enemy(who) /\ id \in Nat /\ id < nextId
    OBVIOUS
  <2>2. id \in Ids(Enemy(who)) /\ ~towers[Enemy(who)][IndexOf(Enemy(who), id)].isBase
    BY <2>1 DEF AttackTower
  <2>3. id # Enemy(who)
    <3> DEFINE e == Enemy(who)
    <3>1. e \in Players /\ Listed(e) /\ 1 \in DOMAIN towers[e]
      BY Parts, BaseListed
    <3>2. IndexOf(e, towers[e][1].id) = 1
      BY <3>1, IndexOfId
    <3>3. towers[e][1].id = e /\ towers[e][1].isBase
      BY <3>1 DEF Listed
    <3>4. ~towers[e][IndexOf(e, id)].isBase
      BY <2>2
    <3> HIDE DEF e
    <3>5. id # e
      BY <3>2, <3>3, <3>4
    <3>6. QED
      BY <3>5 DEF e
  <2>4. id \in Nat /\ id < nextId
    BY <2>2, Parts, ListTypes, Typed DEF Ids
  <2>5. QED
    BY <2>2, <2>3, <2>4
<1>3. /\ target' \in [Players -> [Troop -> Nat \cup {NoTarget}]]
      /\ \A p \in Players, r \in Troop :
            /\ target'[p][r] = IF p = who /\ r = s THEN id ELSE target[p][r]
            /\ target'[p][r] \in {NoTarget} \cup 0 .. nextId - 1
  <2>1. target \in [Players -> [Troop -> Nat \cup {NoTarget}]] /\ nextId \in Nat
    BY Parts, Typed DEF Shapes
  <2>2. id \in {NoTarget} \cup 0 .. nextId - 1 /\ id \in Nat \cup {NoTarget}
    BY <1>2, <2>1
  <2>3. \A p \in Players, r \in Troop : target[p][r] \in {NoTarget} \cup 0 .. nextId - 1
    BY Parts DEF TypeOK
  <2>4. \A p \in Players, r \in Troop :
            target'[p][r] = IF p = who /\ r = s THEN id ELSE target[p][r]
    BY <1>1, <2>1, Parts
  <2>5. target' \in [Players -> [Troop -> Nat \cup {NoTarget}]]
    BY <1>1, <2>1, <2>2, Parts
  <2>6. QED
    BY <2>2, <2>3, <2>4, <2>5
<1>4. TypeOK'
  <2>0. s \in 0 .. NumSoldiers
    BY Constants DEF Troop
  <2>1. s \in 0 .. MapSize * MapSize + NumSoldiers + MaxNumTowers
    BY <2>0, Room
  <2>2. QED
    BY <1>1, <1>3, <2>1, StateKept, Parts DEF TypeOK
<1>5. Shapes' /\ InTroop'
  <2>1. Shapes'
    BY <1>1, <1>3, StateKept, Parts DEF Shapes
  <2>2. InTroop'
    BY <1>1 DEF InTroop
  <2>3. QED
    BY <2>1, <2>2
<1>6. ASSUME NEW p \in Players PROVE PlayerPart(p)'
  <2>1. Emptied(p)' /\ UpgradesStand(p)'
    BY <1>1, StateKept, Parts DEF Emptied, UpgradesStand, Ordering
  <2>2. SitesStand(p)'
    <3>1. \A n \in Nat : n <= cursor => n <= s
      BY <1>1, Parts, Typed, Constants DEF Troop
    <3>2. \A c \in Offsets : MapIndex(FlipOffset(p, c)) \in Nat
      BY MapFacts
    <3>3. \A k \in DOMAIN toBuild[p] : toBuild[p][k] \in Offsets
      BY Parts, ListTypes
    <3>4. \A k \in DOMAIN toBuild[p] :
            MapIndex(FlipOffset(p, toBuild[p][k])) <= cursor
                => MapIndex(FlipOffset(p, toBuild[p][k])) <= s
      BY <3>1, <3>2, <3>3
    <3>5. QED
      BY <1>1, <3>4, StateKept, Parts DEF SitesStand, Ordering
  <2>3. Funded(p)'
    BY <1>1, StateKept, Parts DEF Funded, Ordering
  <2>4. Targeted(p)'
    <3>1. ASSUME NEW r \in Troop PROVE Sound(p, r)'
      <4>1. CASE p = who /\ r = s
        BY <1>1, <1>2, <1>3, <4>1, StateKept DEF Sound
      <4>2. CASE ~(p = who /\ r = s)
        <5>1. target'[p][r] = target[p][r] /\ Sound(p, r)
          BY <1>3, <4>2, Parts DEF Targeted
        <5>2. ~MayBeBuried(p, r)
          BY <1>1 DEF MayBeBuried
        <5>3. QED
          BY <1>1, <5>1, <5>2, StateKept DEF Sound
      <4>3. QED
        BY <4>1, <4>2
    <3>2. QED
      BY <3>1 DEF Targeted
  <2>5. QED
    BY <1>1, <2>1, <2>2, <2>3, <2>4, StateKept DEF PlayerPart
<1>7. QED
  BY <1>1, <1>4, <1>5, <1>6, StateKept DEF IInv

\* A tower stands on territory of its player.
LEMMA StandsOnOwn ==
    ASSUME IInv, NEW p \in Players, NEW i \in DOMAIN towers[p]
    PROVE  p \in owners[towers[p][i].offset]
<1> DEFINE c == towers[p][i].offset
<1>1. c \in Offsets /\ towers[p][i].level \in Levels /\ towers[p] \in Seq(Tower)
  BY Parts, ListTypes
<1>2. c \in CalculateBounds(towers[p][i])
  <2> DEFINE r == Ranges[towers[p][i].level]
  <2>1. r \in Nat /\ c[1] \in Nat /\ c[2] \in Nat
    <3>1. \A l \in Levels : Ranges[l] \in Nat
      BY Constants
    <3>2. \A o \in Offsets : o[1] \in Nat /\ o[2] \in Nat
      <4>1. MapSize \in Nat
        BY Constants
      <4>2. QED
        BY <4>1 DEF Offsets
    <3>3. r \in Nat
      BY <1>1, <3>1
    <3>4. QED
      BY <1>1, <3>2, <3>3
  <2> HIDE DEF r
  <2>2. c[1] \in c[1] - r .. c[1] + r /\ c[2] \in c[2] - r .. c[2] + r
    BY <2>1
  <2>3. QED
    BY <1>1, <2>2 DEF CalculateBounds, r
<1>3. i \in Claims(towers[p], c)
  BY <1>2 DEF Claims
<1>4. Claims(towers[p], c) \in SUBSET (DOMAIN towers[p])
  BY DEF Claims
<1>5. IsFiniteSet(Claims(towers[p], c)) /\ Cardinality(Claims(towers[p], c)) \in Nat
  BY <1>1, <1>4, IndicesFinite
<1>6. Cardinality(Claims(towers[p], c)) # 0
  BY <1>3, <1>5, FS_EmptySet
<1>7. refs[p][c] = Cardinality(Claims(towers[p], c)) /\ (p \in owners[c] <=> refs[p][c] > 0)
  BY <1>1, Parts DEF Territory
<1> HIDE DEF c
<1>8. p \in owners[c]
  BY <1>5, <1>6, <1>7
<1>9. QED
  BY <1>8 DEF c

\* A sum below its bound has room for one more.
LEMMA OneMore ==
    ASSUME NEW n \in Nat, NEW a \in Nat, NEW b \in Nat, NEW m \in Nat, n + a + b < m,
           NEW c, NEW d, (c = a + 1 /\ d = b) \/ (d = b + 1 /\ c = a)
    PROVE  n + c + d <= m
OBVIOUS

\* The queue and the budget when the order to build a tower is accepted.
LEMMA BuildTowerStep ==
    ASSUME IInv, NEW seen \in Offsets, BuildTower(seen)
    PROVE  IInv'
<1> DEFINE old == toBuild[who]
           site == FlipOffset(who, seen)
<1>0. /\ TypeOK /\ Shapes /\ IdsLast /\ OneTowerPerElement
      /\ who \in Players
      /\ Listed(who) /\ Emptied(who) /\ SitesStand(who) /\ Funded(who)
  BY Parts
<1>1. /\ phase = "soldierTasks" /\ phase' = phase /\ who' = who
      /\ cursor' = MapIndex(seen) /\ MapIndex(seen) > cursor
      /\ PlannedTowers(who) + 1 <= MaxNumTowers
      /\ owners[site] = {who}
      /\ \A i \in DOMAIN towers[who] : towers[who][i].offset # site
      /\ budget[who] >= BuildCosts[1]
      /\ nextId + Len(toBuild[0]) + Len(toBuild[1]) < ActorIdBound
      /\ budget' = [budget EXCEPT ![who] = @ - BuildCosts[1]]
      /\ toBuild' = [toBuild EXCEPT ![who] = Append(@, site)]
      /\ UNCHANGED <<money, towers, toUpgrade, toSuicide, toDelete, refs, owners, nextId, target>>
  BY DEF BuildTower, FitsPlan, ValidTerritory
<1>2. /\ site \in Offsets /\ FlipOffset(who, site) = seen
      /\ MapIndex(seen) \in Nat /\ MapIndex(seen) <= MapSize * MapSize + NumSoldiers
      /\ BuildCosts[1] \in Nat
  BY <1>0, MapFacts, Constants
<1>3. /\ old \in Seq(Offsets) /\ Len(old) \in Nat /\ DOMAIN old = 1 .. Len(old)
      /\ Append(old, site) \in Seq(Offsets)
      /\ Len(Append(old, site)) = Len(old) + 1
      /\ \A k \in DOMAIN old : k \in DOMAIN Append(old, site) /\ Append(old, site)[k] = old[k]
      /\ Append(old, site)[Len(old) + 1] = site
      /\ \A k \in DOMAIN Append(old, site) : k \in DOMAIN old \/ k = Len(old) + 1
      /\ Elements(Append(old, site)) = Elements(old) \cup {site}
  <2>1. old \in Seq(Offsets) /\ Len(old) \in Nat /\ DOMAIN old = 1 .. Len(old)
    BY <1>0, ListTypes
  <2> HIDE DEF old, site
  <2>2. QED
    BY <1>2, <2>1, AppendFacts
<1>4. /\ \A p \in Players : p # who => toBuild'[p] = toBuild[p] /\ budget'[p] = budget[p]
      /\ toBuild'[who] = Append(old, site)
      /\ budget'[who] = budget[who] - BuildCosts[1]
      /\ toBuild' \in [Players -> Seq(Offsets)]
      /\ budget' \in [Players -> 0 .. MaxMoney]
  <2>1. toBuild \in [Players -> Seq(Offsets)] /\ budget \in [Players -> 0 .. MaxMoney]
    BY <1>0 DEF Shapes, TypeOK
  <2>2. budget[who] \in 0 .. MaxMoney /\ budget[who] - BuildCosts[1] \in 0 .. MaxMoney
    BY SMTT(30), <1>0, <1>1, <1>2, <2>1, Constants
  <2> HIDE DEF site
  <2>3. QED
    BY <1>0, <1>1, <1>3, <2>1, <2>2
<1>5. TypeOK'
  <2>1. cursor' \in 0 .. MapSize * MapSize + NumSoldiers + MaxNumTowers
    <3>1. MapSize * MapSize \in Nat /\ NumSoldiers \in Nat /\ MaxNumTowers \in Nat
      BY Constants
    <3>2. QED
      BY <1>1, <1>2, <3>1
  <2>2. \A p \in Players : Elements(toBuild'[p]) \subseteq Offsets
    <3>1. \A p \in Players : Elements(toBuild[p]) \subseteq Offsets
      BY <1>0 DEF TypeOK
    <3> HIDE DEF site
    <3>2. QED
      BY <1>0, <1>2, <1>3, <1>4, <3>1
  <2>3. QED
    BY <1>0, <1>1, <1>4, <2>1, <2>2 DEF TypeOK
<1>6. Shapes' /\ OneTowerPerElement'
  <2>1. Shapes'
    BY <1>0, <1>1, <1>4 DEF Shapes
  <2>2. OneTowerPerElement'
    BY <1>0, <1>1 DEF OneTowerPerElement
  <2>3. QED
    BY <2>1, <2>2
<1>7. IdsLast' /\ InTroop'
  <2>0. InTroop'
    BY <1>1 DEF InTroop
  <2>1. Len(toBuild[0]) \in Nat /\ Len(toBuild[1]) \in Nat /\ nextId \in Nat /\ ActorIdBound \in Nat
    BY <1>0, ListTypes, Typed, Constants DEF Players
  <2>2. \/ Len(toBuild'[0]) = Len(toBuild[0]) + 1 /\ Len(toBuild'[1]) = Len(toBuild[1])
        \/ Len(toBuild'[1]) = Len(toBuild[1]) + 1 /\ Len(toBuild'[0]) = Len(toBuild[0])
    BY <1>0, <1>3, <1>4 DEF Players
  <2>3. nextId + Len(toBuild'[0]) + Len(toBuild'[1]) <= ActorIdBound
    <3>1. nextId + Len(toBuild[0]) + Len(toBuild[1]) < ActorIdBound
      BY <1>1
    <3> HIDE DEF old, site
    <3>2. QED
      BY ONLY <2>1, <2>2, <3>1, OneMore
  <2>4. QED
    BY <1>1, <2>0, <2>3 DEF IdsLast
<1>8. ASSUME NEW q \in Players
      PROVE  /\ \A i \in DOMAIN towers[q] : towers[q][i].offset # site
             /\ \A j \in DOMAIN toBuild[q] : toBuild[q][j] # site
  <2>1. ASSUME NEW i \in DOMAIN towers[q] PROVE towers[q][i].offset # site
    <3>1. q \in owners[towers[q][i].offset]
      BY StandsOnOwn
    <3>2. q # who => towers[q][i].offset # site
      BY <1>1, <3>1
    <3>3. QED
      BY <1>1, <3>2
  <2>2. ASSUME NEW j \in DOMAIN toBuild[q], toBuild[q][j] = site PROVE FALSE
    <3>1. owners[site] = {q}
      <4>1. Ordering /\ SitesStand(q)
        BY <1>1, Parts DEF Ordering
      <4>2. owners[toBuild[q][j]] = {q}
        BY <2>2, <4>1 DEF SitesStand
      <4>3. QED
        BY <2>2, <4>2
    <3>2. q = who
      BY <1>1, <3>1
    <3>3. MapIndex(FlipOffset(who, site)) <= cursor
      BY <1>1, <2>2, <3>2, Parts DEF SitesStand
    <3>4. MapIndex(seen) <= cursor
      BY <1>2, <3>3
    <3>5. QED
      BY <1>0, <1>1, <1>2, <3>4, Typed
  <2>3. QED
    BY <2>1, <2>2
<1>9. ASSUME NEW p \in Players, NEW k \in DOMAIN toBuild'[p]
      PROVE  /\ \A q \in Players : \A i \in DOMAIN towers[q] : towers[q][i].offset # toBuild'[p][k]
             /\ \A q \in Players : \A j \in DOMAIN toBuild'[q] :
                  toBuild'[q][j] = toBuild'[p][k] => p = q /\ j = k
             /\ owners[toBuild'[p][k]] = {p}
             /\ p = who => MapIndex(FlipOffset(p, toBuild'[p][k])) <= MapIndex(seen)
  <2> HIDE DEF site
  <2>1. ASSUME NEW q \in Players, NEW j \in DOMAIN toBuild'[q]
        PROVE  \/ j \in DOMAIN toBuild[q] /\ toBuild'[q][j] = toBuild[q][j]
               \/ q = who /\ j = Len(old) + 1 /\ toBuild'[q][j] = site
    BY <1>3, <1>4
  <2>2. CASE k \in DOMAIN toBuild[p] /\ toBuild'[p][k] = toBuild[p][k]
    <3>1. /\ \A q \in Players : \A i \in DOMAIN towers[q] : towers[q][i].offset # toBuild[p][k]
          /\ \A q \in Players : \A j \in DOMAIN toBuild[q] :
                  toBuild[q][j] = toBuild[p][k] => p = q /\ j = k
          /\ owners[toBuild[p][k]] = {p}
          /\ p = who => MapIndex(FlipOffset(p, toBuild[p][k])) <= cursor
      BY <1>1, <2>2, Parts DEF SitesStand, Ordering
    <3>2. p = who => MapIndex(FlipOffset(p, toBuild[p][k])) <= MapIndex(seen)
      <4>1. toBuild[p][k] \in Offsets
        BY <1>0, <2>2, ListTypes
      <4>2. MapIndex(FlipOffset(p, toBuild[p][k])) \in Nat /\ cursor \in Nat
        BY <1>0, <4>1, MapFacts, Typed
      <4>3. QED
        BY <1>1, <1>2, <3>1, <4>2
    <3>3. ASSUME NEW q \in Players, NEW j \in DOMAIN toBuild'[q], toBuild'[q][j] = toBuild'[p][k]
          PROVE  p = q /\ j = k
      BY <1>8, <2>1, <2>2, <3>1, <3>3
    <3>4. QED
      BY <2>2, <3>1, <3>2, <3>3
  <2>3. CASE p = who /\ k = Len(old) + 1 /\ toBuild'[p][k] = site
    <3>1. ASSUME NEW q \in Players, NEW j \in DOMAIN toBuild'[q], toBuild'[q][j] = site
          PROVE  p = q /\ j = k
      BY <1>8, <2>1, <2>3, <3>1
    <3>2. MapIndex(FlipOffset(who, site)) <= MapIndex(seen)
      BY <1>2
    <3>3. QED
      BY <1>1, <1>8, <2>3, <3>1, <3>2
  <2>4. QED
    BY <2>1, <2>2, <2>3
<1>10. ASSUME NEW p \in Players PROVE PlayerPart(p)'
  <2>1. SitesStand(p)'
    <3> HIDE DEF site
    <3>1. towers' = towers /\ owners' = owners /\ who' = who /\ cursor' = MapIndex(seen)
      BY <1>1
    <3>2. QED
      BY <1>9, <3>1 DEF SitesStand
  <2>2. Listed(p)'
    <3>1. Len(towers[p]) + Len(toBuild'[p]) <= MaxNumTowers
      <4>1. CASE p = who
        <5>1. Len(towers[who]) \in Nat /\ Len(towers[who]) + Len(old) + 1 <= MaxNumTowers
          BY <1>0, <1>1, ListTypes DEF PlannedTowers
        <5>2. \A m, n \in Nat : m + n + 1 <= MaxNumTowers => m + (n + 1) <= MaxNumTowers
          BY Constants
        <5>3. Len(toBuild'[p]) = Len(old) + 1
          BY <1>3, <1>4, <4>1
        <5>4. QED
          BY <1>3, <4>1, <5>1, <5>2, <5>3
      <4>2. CASE p # who
        BY <1>4, <4>2, Parts DEF Listed
      <4>3. QED
        BY <4>1, <4>2
    <3>2. QED
      BY <1>1, <3>1, Parts DEF Listed
  <2>3. Emptied(p)'
    <3>1. p > who => toBuild'[p] = toBuild[p]
      BY <1>0, <1>4 DEF Players
    <3>2. QED
      BY <1>1, <3>1, Parts DEF Emptied, Ordering
  <2>4. UpgradesStand(p)' /\ SuicidesStand(p)'
    BY <1>1, Parts DEF UpgradesStand, SuicidesStand, Ids
  <2>5. Territory(p)' /\ Targeted(p)'
    <3>1. \A s \in Troop : ~MayBeBuried(p, s)
      BY <1>1 DEF MayBeBuried
    <3>2. Ids(Enemy(p))' = Ids(Enemy(p))
      BY <1>1 DEF Ids
    <3>3. Targeted(p)'
      BY <1>1, <3>1, <3>2, TargetsStaySound
    <3>4. Territory(p)'
      BY <1>1, Parts DEF Territory
    <3>5. QED
      BY <3>3, <3>4
  <2>6. Funded(p)'
    <3>0. /\ budget[p] + Costs(p) = money[p]
          /\ IsFiniteSet(Coins(towers[p], toUpgrade[p]))
      BY <1>1, Parts DEF Funded, Ordering
    <3>1. CASE p = who
      <4> DEFINE n == Len(old)
                 b == BuildCosts[1]
                 m == Cardinality(Coins(towers[who], toUpgrade[who]))
      <4>1. n \in Nat /\ b \in Nat /\ m \in Nat /\ budget[who] \in Nat
        BY <1>0, <1>2, <1>3, <3>0, <3>1, FS_CardinalityType, Typed
      <4>2. budget[who] + (n * b + m) = money[who]
        BY <3>0, <3>1 DEF Costs
      <4>3. budget'[who] = budget[who] - b /\ Costs(who)' = (n + 1) * b + m
        BY <1>1, <1>3, <1>4 DEF Costs
      <4> HIDE DEF n, b, m
      <4>4. (n + 1) * b = n * b + b /\ n * b \in Nat
        BY <4>1
      <4>5. budget'[who] + Costs(who)' = money[who]
        BY <4>1, <4>2, <4>3, <4>4
      <4>6. QED
        BY <1>1, <3>0, <3>1, <4>5 DEF Funded, Ordering
    <3>2. CASE p # who
      BY <1>1, <1>4, <3>0, <3>2 DEF Funded, Costs, Ordering
    <3>3. QED
      BY <3>1, <3>2
  <2>7. QED
    BY <2>1, <2>2, <2>3, <2>4, <2>5, <2>6 DEF PlayerPart
<1>11. QED
  BY <1>5, <1>6, <1>7, <1>10 DEF IInv

-----------------------------------------------------------------------------
(* The soldiers.                                                           *)

\* With nothing queued there is little to say.
LEMMA Quiet ==
    ASSUME NEW p \in Players,
           toBuild'[p] = <<>>, toUpgrade'[p] = <<>>, toSuicide'[p] = <<>>,
           money'[p] \in Nat, phase' # "update", Ordering' => budget'[p] = money'[p]
    PROVE  Emptied(p)' /\ UpgradesStand(p)' /\ SuicidesStand(p)' /\ SitesStand(p)' /\ Funded(p)'
<1>1. Emptied(p)' /\ UpgradesStand(p)' /\ SuicidesStand(p)' /\ SitesStand(p)'
  BY DEF Emptied, UpgradesStand, SuicidesStand, SitesStand
<1>2. /\ IsFiniteSet(Coins(towers'[p], <<>>))
      /\ Cardinality(Coins(towers'[p], <<>>)) = 0
  BY NoCoins
<1>3. 0 * BuildCosts[1] + 0 = 0
  BY Constants
<1>4. Costs(p)' = 0
  BY <1>2, <1>3 DEF Costs
<1>5. Funded(p)'
  BY <1>2, <1>4 DEF Funded
<1>6. QED
  BY <1>1, <1>5

\* The loops over the players in the updates.
LEMMA NextPlayerFacts ==
    ASSUME IInv, NEW next, NextPlayer(next)
    PROVE  /\ cursor' = 0 /\ who' \in Players
           /\ \/ who = 0 /\ who' = 1 /\ phase' = phase
              \/ who = 1 /\ who' = 0 /\ phase' = next
BY Parts DEF NextPlayer, Players

\* The loop over the soldiers of both.
LEMMA NextSoldierFacts ==
    ASSUME IInv, phase \in {"soldiers", "late"}, NEW next \in {"late", "towerTasks"},
           NextSoldier(next)
    PROVE  /\ Current \in Troop
           /\ who' \in Players /\ cursor' \in 0 .. NumSoldiers /\ InTroop'
           /\ \/ cursor' = Current /\ phase' = phase /\ who' = who
              \/ cursor' = 0 /\ who = 0 /\ who' = 1 /\ phase' = phase /\ Current = NumSoldiers
              \/ cursor' = 0 /\ who = 1 /\ who' = 0 /\ phase' = next /\ Current = NumSoldiers
<1>1. cursor \in Nat /\ cursor < NumSoldiers /\ NumSoldiers \in Nat /\ NumSoldiers > 0
  BY Parts, Typed, Constants DEF InTroop
<1>2. Current \in Troop /\ Current \in Nat
  BY <1>1 DEF Current, Troop
<1>3. CASE Current < NumSoldiers
  <2>1. cursor' = Current /\ phase' = phase /\ who' = who
    BY <1>3 DEF NextSoldier
  <2>2. cursor' < NumSoldiers /\ cursor' \in 0 .. NumSoldiers
    BY <1>1, <1>2, <1>3, <2>1
  <2>3. QED
    BY <1>2, <2>1, <2>2, Parts DEF InTroop
<1>4. CASE ~(Current < NumSoldiers)
  <2>1. NextPlayer(next) /\ Current = NumSoldiers
    BY <1>1, <1>4 DEF NextSoldier, Current
  <2>2. /\ cursor' = 0 /\ who' \in Players
        /\ \/ who = 0 /\ who' = 1 /\ phase' = phase
           \/ who = 1 /\ who' = 0 /\ phase' = next
    BY <2>1, NextPlayerFacts
  <2>3. InTroop' /\ cursor' \in 0 .. NumSoldiers
    BY <1>1, <2>2 DEF InTroop
  <2>4. QED
    BY <1>2, <2>1, <2>2, <2>3
<1>5. QED
  BY <1>3, <1>4

\* A soldier that is not updated yet when another has been was not before.
LEMMA StillToCome ==
    ASSUME IInv, phase = "soldiers", NextSoldier("late"),
           NEW p \in Players, NEW s \in Troop, MayBeBuried(p, s), ~(p = who /\ s = Current)
    PROVE  MayBeBuried(p, s)'
<1>1. /\ Current \in Troop
      /\ \/ cursor' = Current /\ phase' = phase /\ who' = who
         \/ cursor' = 0 /\ who = 0 /\ who' = 1 /\ phase' = phase /\ Current = NumSoldiers
         \/ cursor' = 0 /\ who = 1 /\ who' = 0 /\ phase' = "late" /\ Current = NumSoldiers
  BY NextSoldierFacts
<1>2. p > who \/ (p = who /\ s > cursor)
  BY DEF MayBeBuried
<1>3. /\ cursor \in Nat /\ NumSoldiers \in Nat /\ s \in 1 .. NumSoldiers /\ Current = cursor + 1
      /\ p \in {0, 1} /\ who \in {0, 1}
  BY Parts, Typed, Constants DEF Troop, Current, Players
<1>4. CASE cursor' = Current /\ phase' = phase /\ who' = who
  <2>1. p = who => s > Current
    BY <1>2, <1>3
  <2>2. QED
    BY <1>2, <1>4, <2>1 DEF MayBeBuried
<1>5. CASE cursor' = 0 /\ who = 0 /\ who' = 1 /\ phase' = phase /\ Current = NumSoldiers
  <2>1. p = 1 /\ s > 0
    BY <1>2, <1>3, <1>5
  <2>2. QED
    BY <1>5, <2>1 DEF MayBeBuried
<1>6. CASE cursor' = 0 /\ who = 1 /\ who' = 0 /\ phase' = "late" /\ Current = NumSoldiers
  BY <1>2, <1>3, <1>6
<1>7. QED
  BY <1>1, <1>4, <1>5, <1>6

\* Money that comes in.
LEMMA Increased ==
    ASSUME TypeOK, Shapes, NEW p \in Players, NEW amount \in Nat, Increase(p, amount)
    PROVE  /\ money' \in [Players -> 0 .. MaxMoney]
           /\ \A q \in Players : money'[q] \in Nat /\ money'[q] >= money[q]
<1>1. money \in [Players -> 0 .. MaxMoney] /\ MaxMoney \in Nat
  BY Constants DEF TypeOK
<1>2. money[p] \in Nat /\ money[p] <= MaxMoney
  BY <1>1
<1> DEFINE new == IF money[p] + amount > MaxMoney THEN MaxMoney ELSE money[p] + amount
<1>3. new \in 0 .. MaxMoney /\ new >= money[p]
  BY <1>1, <1>2
<1>4. money' = [money EXCEPT ![p] = new]
  BY DEF Increase
<1> HIDE DEF new
<1>5. money' \in [Players -> 0 .. MaxMoney]
  BY <1>1, <1>3, <1>4
<1>6. ASSUME NEW q \in Players PROVE money'[q] \in Nat /\ money'[q] >= money[q]
  <2>1. money'[q] \in 0 .. MaxMoney /\ money[q] \in 0 .. MaxMoney
    BY <1>1, <1>5
  <2>2. CASE q = p
    BY <1>1, <1>3, <1>4, <2>1, <2>2
  <2>3. CASE q # p
    BY <1>1, <1>4, <2>1, <2>3
  <2>4. QED
    BY <2>2, <2>3
<1>7. QED
  BY <1>5, <1>6

\* A reward for a soldier.
LEMMA KillSoldierStep ==
    ASSUME IInv, KillSoldier
    PROVE  IInv'
<1>1. /\ phase = "soldiers" /\ target[who][Current] = NoTarget
      /\ UNCHANGED <<towers, toBuild, toUpgrade, toSuicide, toDelete, refs, owners, nextId,
                     budget, target>>
      /\ Increase(who, SoldierReward) /\ NextSoldier("late")
  BY DEF KillSoldier
<1>2. /\ money' \in [Players -> 0 .. MaxMoney]
      /\ \A q \in Players : money'[q] \in Nat
  BY <1>1, Parts, Increased, Constants
<1>3. /\ who' \in Players /\ cursor' \in 0 .. NumSoldiers /\ InTroop'
      /\ phase' \in {"soldiers", "late"}
  BY <1>1, NextSoldierFacts
<1>4. TypeOK'
  <2>1. cursor' \in 0 .. MapSize * MapSize + NumSoldiers + MaxNumTowers
    BY <1>3, Room
  <2>2. QED
    BY <1>1, <1>2, <1>3, <2>1, Parts DEF TypeOK
<1>5. Shapes' /\ IdsLast' /\ OneTowerPerElement'
  <2>1. Shapes'
    BY <1>1, Parts DEF Shapes
  <2>2. IdsLast' /\ OneTowerPerElement'
    BY <1>1, Parts DEF IdsLast, OneTowerPerElement
  <2>3. QED
    BY <2>1, <2>2
<1>6. ASSUME NEW p \in Players PROVE PlayerPart(p)'
  <2>1. Listed(p)' /\ Territory(p)'
    <3>1. Listed(p)'
      BY <1>1, Parts DEF Listed
    <3>2. Territory(p)'
      BY <1>1, Parts DEF Territory
    <3>3. QED
      BY <3>1, <3>2
  <2>2. toBuild'[p] = <<>> /\ toUpgrade'[p] = <<>> /\ toSuicide'[p] = <<>>
    BY <1>1, Parts DEF Emptied, Ordering
  <2>3. Emptied(p)' /\ UpgradesStand(p)' /\ SuicidesStand(p)' /\ SitesStand(p)' /\ Funded(p)'
    BY <1>2, <1>3, <2>2, Quiet DEF Ordering
  <2>4. Targeted(p)'
    <3>1. \A s \in Troop : MayBeBuried(p, s) => MayBeBuried(p, s)' \/ target'[p][s] = NoTarget
      BY <1>1, StillToCome
    <3>2. Ids(Enemy(p))' = Ids(Enemy(p))
      BY <1>1 DEF Ids
    <3>3. QED
      BY <1>1, <3>1, <3>2, TargetsStaySound
  <2>5. QED
    BY <2>1, <2>3, <2>4 DEF PlayerPart
<1>7. QED
  BY <1>3, <1>4, <1>5, <1>6 DEF IInv

\* The current soldier loses its target.
LEMMA Dropped ==
    ASSUME IInv, Current \in Troop, target' = [target EXCEPT ![who][Current] = NoTarget]
    PROVE  /\ target' \in [Players -> [Troop -> Nat \cup {NoTarget}]]
           /\ \A p \in Players, s \in Troop :
                target'[p][s] = IF p = who /\ s = Current THEN NoTarget ELSE target[p][s]
<1>1. target \in [Players -> [Troop -> Nat \cup {NoTarget}]]
  BY Parts DEF Shapes
<1>2. QED
  BY <1>1, Parts

\* A dead target is dropped.
LEMMA DropTargetStep ==
    ASSUME IInv, DropTarget
    PROVE  IInv'
<1>1. /\ phase = "soldiers"
      /\ target' = [target EXCEPT ![who][Current] = NoTarget]
      /\ UNCHANGED <<stateVars, budget, phase, who, cursor>>
  BY DEF DropTarget
<1>2. /\ target' \in [Players -> [Troop -> Nat \cup {NoTarget}]]
      /\ \A p \in Players, s \in Troop : target'[p][s] = NoTarget \/ target'[p][s] = target[p][s]
  <2>1. Current \in Troop
    <3>1. cursor \in Nat /\ cursor < NumSoldiers /\ NumSoldiers \in Nat
      BY <1>1, Parts, Typed, Constants DEF InTroop
    <3>2. QED
      BY <3>1 DEF Current, Troop
  <2>2. QED
    BY <1>1, <2>1, Dropped
<1>3. TypeOK'
  BY <1>1, <1>2, StateKept, Parts DEF TypeOK
<1>4. Shapes' /\ InTroop'
  <2>1. Shapes'
    BY <1>1, <1>2, StateKept, Parts DEF Shapes
  <2>2. InTroop'
    BY <1>1, Parts DEF InTroop
  <2>3. QED
    BY <2>1, <2>2
<1>5. ASSUME NEW p \in Players PROVE PlayerPart(p)'
  <2>1. toBuild'[p] = <<>> /\ toUpgrade'[p] = <<>> /\ toSuicide'[p] = <<>>
    BY <1>1, StateKept, Parts DEF Emptied, Ordering
  <2>2. Emptied(p)' /\ UpgradesStand(p)' /\ SuicidesStand(p)' /\ SitesStand(p)' /\ Funded(p)'
    BY <1>1, <2>1, StateKept, Parts, Typed, Quiet DEF Ordering
  <2>3. Targeted(p)'
    <3>1. \A s \in Troop : MayBeBuried(p, s) => MayBeBuried(p, s)'
      BY <1>1 DEF MayBeBuried
    <3>2. QED
      BY <1>1, <1>2, <3>1, StateKept, TargetsStaySound
  <2>4. QED
    BY <1>1, <2>2, <2>3, StateKept DEF PlayerPart
<1>6. QED
  BY <1>1, <1>3, <1>4, <1>5, StateKept DEF IInv

\* The next soldier comes: the target of the one before, if it keeps one, is on
\* the list.
LEMMA PassOnStep ==
    ASSUME IInv, PassOn
    PROVE  IInv'
<1>1. /\ phase = "soldiers" /\ UNCHANGED <<stateVars, budget, target>>
      /\ target[who][Current] = NoTarget \/ ~TargetIsDead(who, Current)
      /\ NextSoldier("late")
  BY DEF PassOn
<1>2. /\ who' \in Players /\ cursor' \in 0 .. NumSoldiers /\ InTroop'
      /\ phase' \in {"soldiers", "late"}
  BY <1>1, NextSoldierFacts
<1>3. TypeOK'
  <2>1. cursor' \in 0 .. MapSize * MapSize + NumSoldiers + MaxNumTowers
    BY <1>2, Room
  <2>2. QED
    BY <1>1, <1>2, <2>1, StateKept, Parts DEF TypeOK
<1>4. Shapes'
  BY <1>1, StateKept, Parts DEF Shapes
<1>5. ASSUME NEW p \in Players PROVE PlayerPart(p)'
  <2>1. toBuild'[p] = <<>> /\ toUpgrade'[p] = <<>> /\ toSuicide'[p] = <<>>
    BY <1>1, StateKept, Parts DEF Emptied, Ordering
  <2>2. Emptied(p)' /\ UpgradesStand(p)' /\ SuicidesStand(p)' /\ SitesStand(p)' /\ Funded(p)'
    BY <1>1, <1>2, <2>1, StateKept, Parts, Typed, Quiet DEF Ordering
  <2>3. Targeted(p)'
    <3>1. ~TargetIsDead(who, Current) => target[who][Current] \in Ids(Enemy(who))
      BY DEF TargetIsDead, Ids
    <3>2. \A s \in Troop :
            MayBeBuried(p, s) => MayBeBuried(p, s)' \/ target'[p][s] = NoTarget
                                 \/ target[p][s] \in Ids(Enemy(p))
      BY <1>1, <3>1, StillToCome
    <3>3. QED
      BY <1>1, <3>2, StateKept, TargetsStaySound
  <2>4. QED
    BY <1>1, <2>2, <2>3, StateKept DEF PlayerPart
<1>6. QED
  BY <1>1, <1>2, <1>3, <1>4, <1>5, StateKept DEF IInv

\* The late update, after which the budget is what money there is.
LEMMA LateUpdateStep ==
    ASSUME IInv, LateUpdate
    PROVE  IInv'
<1>1. /\ phase = "late" /\ UNCHANGED stateVars
      /\ target' \in {target, [target EXCEPT ![who][Current] = NoTarget]}
      /\ NextSoldier("towerTasks")
      /\ budget' = IF phase' = "towerTasks" THEN money ELSE budget
  BY DEF LateUpdate
<1>2. /\ Current \in Troop
      /\ who' \in Players /\ cursor' \in 0 .. NumSoldiers /\ InTroop'
      /\ phase' \in {"late", "towerTasks"}
  BY <1>1, NextSoldierFacts
<1>3. /\ target' \in [Players -> [Troop -> Nat \cup {NoTarget}]]
      /\ \A p \in Players, s \in Troop : target'[p][s] = NoTarget \/ target'[p][s] = target[p][s]
  <2>1. CASE target' = target
    BY <2>1, Parts DEF Shapes
  <2>2. CASE target' = [target EXCEPT ![who][Current] = NoTarget]
    BY <1>2, <2>2, Dropped
  <2>3. QED
    BY <1>1, <2>1, <2>2
<1>4. TypeOK'
  <2>1. cursor' \in 0 .. MapSize * MapSize + NumSoldiers + MaxNumTowers
    BY <1>2, Room
  <2>2. budget' \in [Players -> 0 .. MaxMoney]
    BY <1>1, Parts DEF TypeOK
  <2>3. \A p \in Players, s \in Troop : target'[p][s] \in {NoTarget} \cup 0 .. nextId - 1
    BY <1>3, Parts DEF TypeOK
  <2>4. QED
    BY <1>1, <1>2, <2>1, <2>2, <2>3, StateKept, Parts DEF TypeOK
<1>5. Shapes'
  BY <1>1, <1>3, StateKept, Parts DEF Shapes
<1>6. ASSUME NEW p \in Players PROVE PlayerPart(p)'
  <2>1. toBuild'[p] = <<>> /\ toUpgrade'[p] = <<>> /\ toSuicide'[p] = <<>>
    BY <1>1, StateKept, Parts DEF Emptied, Ordering
  <2>2. Emptied(p)' /\ UpgradesStand(p)' /\ SuicidesStand(p)' /\ SitesStand(p)' /\ Funded(p)'
    BY <1>1, <1>2, <2>1, StateKept, Parts, Typed, Quiet DEF Ordering
  <2>3. Targeted(p)'
    <3>1. \A s \in Troop : ~MayBeBuried(p, s)
      BY <1>1 DEF MayBeBuried
    <3>2. QED
      BY <1>1, <1>3, <3>1, StateKept, TargetsStaySound
  <2>4. QED
    BY <1>1, <2>2, <2>3, StateKept DEF PlayerPart
<1>7. QED
  BY <1>1, <1>2, <1>4, <1>5, <1>6, StateKept DEF IInv

-----------------------------------------------------------------------------
(* Steps that change one tower.                                            *)

\* One tower on a list changes, but not its id, place or kind.
LEMMA TowerChanges ==
    ASSUME IInv, NEW q \in Players, NEW i \in DOMAIN towers[q], NEW t \in Tower,
           t.id = towers[q][i].id, t.offset = towers[q][i].offset, t.isBase = towers[q][i].isBase,
           t.hp <= MaxHps[t.level],
           i = 1 => t.hp = MaxHps[t.level],
           towers' = [towers EXCEPT ![q] = [@ EXCEPT ![i] = t]],
           nextId' = nextId, toBuild' = toBuild
    PROVE  /\ towers' \in [Players -> Seq(Tower)]
           /\ \A p \in Players :
                /\ DOMAIN towers'[p] = DOMAIN towers[p] /\ Len(towers'[p]) = Len(towers[p])
                /\ \A j \in DOMAIN towers[p] :
                    /\ towers'[p][j] = IF p = q /\ j = i THEN t ELSE towers[p][j]
                    /\ towers'[p][j].id = towers[p][j].id
                    /\ towers'[p][j].offset = towers[p][j].offset
                    /\ towers'[p][j].isBase = towers[p][j].isBase
                /\ Ids(p)' = Ids(p)
                /\ Listed(p)'
                /\ \A u \in Elements(towers'[p]) :
                    /\ u.id \in 0 .. nextId - 1
                    /\ u.offset \in Offsets
                    /\ u.level \in Levels
                    /\ u.hp \in 0 .. MaxHps[u.level]
                    /\ u.isBase \in BOOLEAN
           /\ IdsLast' /\ OneTowerPerElement'
<1>1. towers \in [Players -> Seq(Tower)]
  BY Parts DEF Shapes
<1>2. towers' \in [Players -> Seq(Tower)]
  BY <1>1
<1>3. ASSUME NEW p \in Players
      PROVE  /\ DOMAIN towers'[p] = DOMAIN towers[p] /\ Len(towers'[p]) = Len(towers[p])
             /\ \A j \in DOMAIN towers[p] : towers'[p][j] = IF p = q /\ j = i THEN t ELSE towers[p][j]
  <2>1. towers[p] \in Seq(Tower)
    BY <1>1
  <2>2. CASE p = q
    BY <1>1, <2>1, <2>2
  <2>3. CASE p # q
    BY <1>1, <2>1, <2>3
  <2>4. QED
    BY <2>2, <2>3
<1>4. ASSUME NEW p \in Players, NEW j \in DOMAIN towers[p]
      PROVE  /\ towers'[p][j].id = towers[p][j].id
             /\ towers'[p][j].offset = towers[p][j].offset
             /\ towers'[p][j].isBase = towers[p][j].isBase
  BY <1>3
<1>5. ASSUME NEW p \in Players PROVE Ids(p)' = Ids(p)
  BY <1>3, <1>4 DEF Ids
<1>6. ASSUME NEW p \in Players PROVE Listed(p)'
  <2>1. Listed(p) /\ 1 \in DOMAIN towers[p]
    BY Parts, BaseListed
  <2>2. towers'[p][1].hp = MaxHps[towers'[p][1].level]
    BY <1>3, <2>1 DEF Listed
  <2>3. towers'[p] # <<>>
    BY <1>3, <2>1
  <2>4. \A j, k \in DOMAIN towers'[p] : towers'[p][j].id = towers'[p][k].id => j = k
    BY <1>3, <1>4, <2>1 DEF Listed
  <2>5. Len(towers'[p]) + Len(toBuild'[p]) <= MaxNumTowers
    BY <1>3, <2>1 DEF Listed
  <2>6. /\ towers'[p][1].id = p
        /\ towers'[p][1].isBase
        /\ towers'[p][1].offset = Base[p]
    BY <1>4, <2>1 DEF Listed
  <2>7. QED
    BY <2>2, <2>3, <2>4, <2>5, <2>6 DEF Listed
<1>7. ASSUME NEW p \in Players, NEW u \in Elements(towers'[p])
      PROVE  /\ u.id \in 0 .. nextId - 1
             /\ u.offset \in Offsets
             /\ u.level \in Levels
             /\ u.hp \in 0 .. MaxHps[u.level]
             /\ u.isBase \in BOOLEAN
  <2>1. PICK j \in DOMAIN towers[p] : u = towers'[p][j]
    BY <1>3 DEF Elements
  <2>2. u \in Tower /\ u.hp <= MaxHps[u.level] /\ u.id = towers[p][j].id
    BY <1>3, <1>4, <2>1, Parts, ListTypes, Typed
  <2>3. towers[p][j].id \in Nat /\ towers[p][j].id < nextId /\ nextId \in Nat
    BY Parts, ListTypes, Typed
  <2>4. u.hp \in 0 .. MaxHps[u.level]
    BY <2>2, Constants DEF Tower
  <2>5. u.id \in 0 .. nextId - 1
    BY <2>2, <2>3
  <2>6. QED
    BY <2>2, <2>4, <2>5 DEF Tower
<1>8. IdsLast'
  BY Parts DEF IdsLast
<1>9. OneTowerPerElement'
  BY <1>3, <1>4, Parts DEF OneTowerPerElement
<1>10. QED
  BY <1>2, <1>3, <1>4, <1>5, <1>6, <1>7, <1>8, <1>9

\* The territory of a list of towers of the same places and levels.
LEMMA SameClaims ==
    ASSUME NEW ts, NEW us, DOMAIN ts = DOMAIN us,
           \A i \in DOMAIN ts : ts[i].offset = us[i].offset /\ ts[i].level = us[i].level
    PROVE  \A c \in Offsets : Claims(ts, c) = Claims(us, c)
BY DEF Claims, CalculateBounds

\* A blow, and perhaps the reward.
LEMMA StrikeStep ==
    ASSUME IInv, Strike
    PROVE  IInv'
<1> DEFINE e == Enemy(who)
           i == IndexOf(e, target[who][Current])
           hp == Max({0, towers[e][i].hp - AttackDamage})
           t == [towers[e][i] EXCEPT !.hp = hp]
<1>0. /\ phase = "soldiers" /\ NextSoldier("late")
      /\ Current \in Troop /\ who' \in Players /\ cursor' \in 0 .. NumSoldiers /\ InTroop'
      /\ phase' \in {"soldiers", "late"}
  <2>1. phase = "soldiers" /\ NextSoldier("late")
    BY DEF Strike
  <2>2. QED
    BY <2>1, NextSoldierFacts
<1>1. /\ phase = "soldiers"
      /\ target[who][Current] \in Ids(e)
      /\ towers' = [towers EXCEPT ![e][i].hp = hp]
      /\ UNCHANGED <<toBuild, toUpgrade, toSuicide, toDelete, refs, owners, nextId,
                     budget, target>>
      /\ IF hp = 0 THEN Increase(who, KillRewards[towers[e][i].level]) ELSE UNCHANGED money
  BY DEF Strike
<1>2. /\ e \in Players /\ e # who /\ Enemy(e) = who /\ who \in Players
      /\ i \in DOMAIN towers[e] /\ towers[e][i].id = target[who][Current]
      /\ towers[e][i] \in Tower
  BY <1>1, Parts, Enemies, IdHasIndex, ListTypes
<1>3. towers[e][i].hp \in Nat /\ hp \in Nat /\ hp <= towers[e][i].hp
  <2>1. towers[e][i].hp \in Nat
    BY <1>2 DEF Tower
  <2>2. AttackDamage \in Nat
    BY Constants
  <2>3. \A m, n \in Nat : Max({0, m - n}) \in Nat /\ Max({0, m - n}) <= m
    <3>1. SUFFICES ASSUME NEW m \in Nat, NEW n \in Nat
                   PROVE  Max({0, m - n}) \in Nat /\ Max({0, m - n}) <= m
      OBVIOUS
    <3>2. CASE m - n >= 0
      <4>1. Max({0, m - n}) = m - n
        BY <3>2 DEF Max
      <4>2. QED
        BY <3>2, <4>1
    <3>3. CASE m - n < 0
      <4>1. Max({0, m - n}) = 0
        BY <3>3 DEF Max
      <4>2. QED
        BY <4>1
    <3>4. QED
      BY <3>2, <3>3
  <2>4. QED
    BY <2>1, <2>2, <2>3
<1>4. /\ t \in Tower /\ t.hp = hp /\ t.level = towers[e][i].level
      /\ t.id = towers[e][i].id /\ t.offset = towers[e][i].offset /\ t.isBase = towers[e][i].isBase
  <2> HIDE DEF hp, e, i
  <2>1. QED
    BY <1>2, <1>3 DEF Tower
<1>5. t.hp <= MaxHps[t.level] /\ i # 1
  <2>1. towers[e][i].hp <= MaxHps[towers[e][i].level] /\ towers[e][i].level \in Levels
    BY <1>2, Parts, ListTypes, Typed
  <2>2. MaxHps[towers[e][i].level] \in Nat
    BY <2>1, Constants
  <2>3. i # 1
    <3>1. target[who][Current] # e
      <4>1. target[who][Current] # NoTarget
        BY <1>2, Parts, ListTypes DEF NoTarget
      <4>2. QED
        BY <1>0, <1>2, <4>1, Parts DEF Targeted, Sound
    <3>2. towers[e][1].id = e
      BY <1>2, Parts DEF Listed
    <3>3. QED
      BY <1>2, <3>1, <3>2
  <2> HIDE DEF t, hp, e, i
  <2>4. QED
    BY <1>3, <1>4, <2>1, <2>2, <2>3
<1>6. towers' = [towers EXCEPT ![e] = [@ EXCEPT ![i] = t]]
  <2> HIDE DEF hp, e, i
  <2>1. QED
    BY <1>1, <1>2, Parts DEF Shapes
<1> HIDE DEF hp, t
<1>7. /\ towers' \in [Players -> Seq(Tower)]
      /\ \A p \in Players :
            /\ DOMAIN towers'[p] = DOMAIN towers[p]
            /\ \A j \in DOMAIN towers[p] :
                /\ towers'[p][j].offset = towers[p][j].offset
                /\ towers'[p][j].level = towers[p][j].level
            /\ Ids(p)' = Ids(p) /\ Ids(Enemy(p))' = Ids(Enemy(p))
            /\ Listed(p)'
            /\ \A u \in Elements(towers'[p]) :
                /\ u.id \in 0 .. nextId - 1
                /\ u.offset \in Offsets
                /\ u.level \in Levels
                /\ u.hp \in 0 .. MaxHps[u.level]
                /\ u.isBase \in BOOLEAN
      /\ IdsLast' /\ OneTowerPerElement'
  <2> HIDE DEF e, i
  <2>1. toBuild' = toBuild /\ nextId' = nextId
    BY <1>1
  <2>2. /\ towers' \in [Players -> Seq(Tower)]
        /\ \A p \in Players :
                /\ DOMAIN towers'[p] = DOMAIN towers[p]
                /\ \A j \in DOMAIN towers[p] :
                    /\ towers'[p][j] = IF p = e /\ j = i THEN t ELSE towers[p][j]
                    /\ towers'[p][j].offset = towers[p][j].offset
                /\ Ids(p)' = Ids(p)
                /\ Listed(p)'
                /\ \A u \in Elements(towers'[p]) :
                    /\ u.id \in 0 .. nextId - 1
                    /\ u.offset \in Offsets
                    /\ u.level \in Levels
                    /\ u.hp \in 0 .. MaxHps[u.level]
                    /\ u.isBase \in BOOLEAN
        /\ IdsLast' /\ OneTowerPerElement'
    BY ZenonT(40), <1>2, <1>4, <1>5, <1>6, <2>1, TowerChanges
  <2>3. \A p \in Players : Ids(Enemy(p))' = Ids(Enemy(p))
    BY <2>2, Enemies DEF Ids
  <2>4. \A p \in Players : \A j \in DOMAIN towers[p] : towers'[p][j].level = towers[p][j].level
    BY <1>4, <2>2
  <2>5. QED
    BY <2>2, <2>3, <2>4
<1>8. money' \in [Players -> 0 .. MaxMoney] /\ \A q \in Players : money'[q] \in Nat
  <2>1. KillRewards[towers[e][i].level] \in Nat
    BY <1>2, Constants DEF Tower
  <2>2. CASE hp = 0
    BY <1>1, <1>2, <2>1, <2>2, Increased, Parts
  <2>3. CASE hp # 0
    <3>1. money' = money
      BY <1>1, <2>3 DEF hp
    <3>2. QED
      BY <3>1, Parts, Typed DEF TypeOK
  <2>4. QED
    BY <2>2, <2>3
<1>9. TypeOK'
  <2>1. cursor' \in 0 .. MapSize * MapSize + NumSoldiers + MaxNumTowers
    BY <1>0, Room
  <2>2. QED
    BY <1>0, <1>1, <1>7, <1>8, <2>1, Parts DEF TypeOK
<1>10. Shapes'
  BY <1>1, <1>7, Parts DEF Shapes
<1>11. ASSUME NEW p \in Players PROVE PlayerPart(p)'
  <2>1. toBuild'[p] = <<>> /\ toUpgrade'[p] = <<>> /\ toSuicide'[p] = <<>>
    BY <1>1, Parts DEF Emptied, Ordering
  <2>2. Emptied(p)' /\ UpgradesStand(p)' /\ SuicidesStand(p)' /\ SitesStand(p)' /\ Funded(p)'
    BY <1>0, <1>8, <2>1, Quiet DEF Ordering
  <2>3. Territory(p)'
    <3>1. \A c \in Offsets : Claims(towers'[p], c) = Claims(towers[p], c)
      BY <1>7, SameClaims
    <3>2. QED
      BY <1>1, <3>1, Parts DEF Territory
  <2>4. Targeted(p)'
    <3>1. \A s \in Troop :
            MayBeBuried(p, s) => MayBeBuried(p, s)' \/ target[p][s] \in Ids(Enemy(p))
      BY <1>0, <1>1, StillToCome
    <3>2. QED
      BY <1>1, <1>7, <3>1, TargetsStaySound
  <2>5. QED
    BY <1>7, <2>2, <2>3, <2>4 DEF PlayerPart
<1>12. QED
  BY <1>0, <1>7, <1>9, <1>10, <1>11 DEF IInv

\* A queue whose first entry is taken off.
LEMMA TailFacts ==
    ASSUME NEW S, NEW s \in Seq(S), s # <<>>
    PROVE  /\ Tail(s) \in Seq(S)
           /\ Len(s) \in Nat /\ Len(s) > 0 /\ Len(Tail(s)) = Len(s) - 1
           /\ DOMAIN Tail(s) = 1 .. Len(s) - 1
           /\ 1 \in DOMAIN s /\ Head(s) = s[1]
           /\ \A k \in DOMAIN Tail(s) : k + 1 \in DOMAIN s /\ k + 1 # 1 /\ Tail(s)[k] = s[k + 1]
           /\ \A k \in DOMAIN s : k # 1 => k - 1 \in DOMAIN Tail(s) /\ Tail(s)[k - 1] = s[k]
           /\ \A x : x \in Elements(s) <=> x = Head(s) \/ x \in Elements(Tail(s))
<1>1. /\ Tail(s) \in Seq(S)
      /\ Len(s) \in Nat /\ Len(s) > 0 /\ Len(Tail(s)) = Len(s) - 1
      /\ DOMAIN Tail(s) = 1 .. Len(s) - 1 /\ DOMAIN s = 1 .. Len(s)
      /\ 1 \in DOMAIN s /\ Head(s) = s[1]
  OBVIOUS
<1>2. \A k \in DOMAIN Tail(s) : k + 1 \in DOMAIN s /\ k + 1 # 1 /\ Tail(s)[k] = s[k + 1]
  BY <1>1
<1>3. \A k \in DOMAIN s : k # 1 => k - 1 \in DOMAIN Tail(s) /\ Tail(s)[k - 1] = s[k]
  BY <1>1
<1>4. ASSUME NEW x PROVE x \in Elements(s) <=> x = Head(s) \/ x \in Elements(Tail(s))
  <2>1. ASSUME x \in Elements(s) PROVE x = Head(s) \/ x \in Elements(Tail(s))
    <3>1. PICK k \in DOMAIN s : x = s[k]
      BY <2>1 DEF Elements
    <3>2. k = 1 \/ (k - 1 \in DOMAIN Tail(s) /\ Tail(s)[k - 1] = x)
      BY <1>3, <3>1
    <3>3. QED
      BY <1>1, <3>1, <3>2 DEF Elements
  <2>2. ASSUME x \in Elements(Tail(s)) PROVE x \in Elements(s)
    <3>1. PICK k \in DOMAIN Tail(s) : x = Tail(s)[k]
      BY <2>2 DEF Elements
    <3>2. QED
      BY <1>2, <3>1 DEF Elements
  <2>3. Head(s) \in Elements(s)
    BY <1>1 DEF Elements
  <2>4. QED
    BY <2>1, <2>2, <2>3
<1>5. QED
  BY <1>1, <1>2, <1>3, <1>4

\* The coins for a list of towers of the same ids and levels.
LEMMA SameCoins ==
    ASSUME NEW ts, NEW us, NEW ids, DOMAIN ts = DOMAIN us,
           \A i \in DOMAIN ts : ts[i].id = us[i].id /\ ts[i].level = us[i].level
    PROVE  Coins(ts, ids) = Coins(us, ids)
<1>1. \A x : x \in Coins(ts, ids) <=> x \in Coins(us, ids)
  BY CoinsIn
<1>2. QED
  BY <1>1

\* A tower commits suicide.
LEMMA SuicideStep ==
    ASSUME IInv, HandleTowerSuicideUpdates
    PROVE  IInv'
<1> DEFINE id == Head(toSuicide[who])
           i == IndexOf(who, id)
           t == [towers[who][i] EXCEPT !.hp = 0]
<1>0. /\ TypeOK /\ Shapes /\ IdsLast /\ OneTowerPerElement
      /\ who \in Players
      /\ Listed(who) /\ SuicidesStand(who)
  BY Parts
<1>1. /\ phase = "update" /\ toSuicide[who] # <<>>
      /\ id \in Ids(who)
      /\ towers' = [towers EXCEPT ![who][i].hp = 0]
      /\ Increase(who, SuicideRewards[towers[who][i].level])
      /\ toSuicide' = [toSuicide EXCEPT ![who] = Tail(@)]
      /\ UNCHANGED <<toBuild, toUpgrade, toDelete, refs, owners, nextId,
                     budget, phase, who, cursor, target>>
  BY DEF HandleTowerSuicideUpdates, Suiciding
<1>2. /\ i \in DOMAIN towers[who] /\ towers[who][i].id = id
      /\ towers[who][i] \in Tower /\ towers[who][i].level \in Levels
  BY <1>0, <1>1, IdHasIndex, ListTypes
<1>3. /\ toSuicide[who] \in Seq(Nat) /\ Tail(toSuicide[who]) \in Seq(Nat)
      /\ 1 \in DOMAIN toSuicide[who] /\ id = toSuicide[who][1]
      /\ \A k \in DOMAIN Tail(toSuicide[who]) :
            k + 1 \in DOMAIN toSuicide[who] /\ Tail(toSuicide[who])[k] = toSuicide[who][k + 1]
      /\ Elements(Tail(toSuicide[who])) \subseteq Elements(toSuicide[who])
  <2>1. toSuicide[who] \in Seq(Nat)
    BY <1>0, ListTypes
  <2>2. QED
    BY <1>1, <2>1, TailFacts
<1>4. i # 1
  <2>1. id # who
    BY <1>0, <1>3 DEF SuicidesStand
  <2>2. towers[who][1].id = who
    BY <1>0 DEF Listed
  <2> HIDE DEF i, id
  <2>3. QED
    BY <1>2, <2>1, <2>2
<1>5. /\ t \in Tower /\ t.hp = 0 /\ t.level = towers[who][i].level
      /\ t.id = towers[who][i].id /\ t.offset = towers[who][i].offset
      /\ t.isBase = towers[who][i].isBase
      /\ t.hp <= MaxHps[t.level]
  <2> HIDE DEF i
  <2>1. MaxHps[towers[who][i].level] \in Nat
    BY <1>2, Constants
  <2>2. QED
    BY <1>2, <2>1 DEF Tower
<1>6. towers' = [towers EXCEPT ![who] = [@ EXCEPT ![i] = t]]
  <2> HIDE DEF i
  <2>1. QED
    BY <1>0, <1>1, <1>2 DEF Shapes
<1> HIDE DEF t, i, id
<1>7. /\ towers' \in [Players -> Seq(Tower)]
      /\ \A p \in Players :
            /\ DOMAIN towers'[p] = DOMAIN towers[p]
            /\ \A j \in DOMAIN towers[p] :
                /\ towers'[p][j] = IF p = who /\ j = i THEN t ELSE towers[p][j]
                /\ towers'[p][j].id = towers[p][j].id
                /\ towers'[p][j].offset = towers[p][j].offset
            /\ Ids(p)' = Ids(p)
            /\ Listed(p)'
            /\ \A u \in Elements(towers'[p]) :
                /\ u.id \in 0 .. nextId - 1
                /\ u.offset \in Offsets
                /\ u.level \in Levels
                /\ u.hp \in 0 .. MaxHps[u.level]
                /\ u.isBase \in BOOLEAN
      /\ IdsLast' /\ OneTowerPerElement'
  <2>1. toBuild' = toBuild /\ nextId' = nextId
    BY <1>1
  <2>2. QED
    BY ZenonT(40), <1>0, <1>2, <1>4, <1>5, <1>6, <2>1, TowerChanges
<1>8. \A p \in Players : \A j \in DOMAIN towers[p] : towers'[p][j].level = towers[p][j].level
  BY <1>5, <1>7
<1>9. money' \in [Players -> 0 .. MaxMoney] /\ \A q \in Players : money'[q] \in Nat /\ money'[q] >= money[q]
  <2>1. SuicideRewards[towers[who][i].level] \in Nat
    BY <1>2, Constants
  <2>2. QED
    BY <1>0, <1>1, <2>1, Increased
<1>10. /\ toSuicide' \in [Players -> Seq(Nat)]
       /\ toSuicide'[who] = Tail(toSuicide[who])
       /\ \A p \in Players : p # who => toSuicide'[p] = toSuicide[p]
  BY <1>0, <1>1, <1>3 DEF Shapes
<1>11. TypeOK'
  <2>1. \A p \in Players : Elements(toSuicide'[p]) \subseteq 0 .. nextId - 1
    BY <1>0, <1>3, <1>10 DEF TypeOK
  <2>2. QED
    BY <1>0, <1>1, <1>7, <1>9, <2>1 DEF TypeOK
<1>12. Shapes'
  BY <1>0, <1>1, <1>7, <1>10 DEF Shapes
<1>13. ASSUME NEW p \in Players PROVE PlayerPart(p)'
  <2>1. Emptied(p)'
    <3>1. toSuicide[p] = <<>> => p # who
      BY <1>1
    <3>2. QED
      BY <1>1, <1>10, <3>1, Parts DEF Emptied, Ordering
  <2>2. UpgradesStand(p)'
    <3>1. /\ \A j \in DOMAIN toUpgrade[p] : \E k \in DOMAIN towers[p] :
                towers[p][k].id = toUpgrade[p][j] /\ towers[p][k].level # Len(BuildCosts)
          /\ \A j, k \in DOMAIN toUpgrade[p] : toUpgrade[p][j] = toUpgrade[p][k] => j = k
      BY Parts DEF UpgradesStand
    <3>2. \A j \in DOMAIN toUpgrade[p] : \E k \in DOMAIN towers'[p] :
                towers'[p][k].id = toUpgrade[p][j] /\ towers'[p][k].level # Len(BuildCosts)
      BY <1>7, <1>8, <3>1
    <3>3. QED
      BY <1>1, <3>1, <3>2 DEF UpgradesStand
  <2>3. SuicidesStand(p)'
    <3>1. CASE p = who
      <4>1. \A j \in DOMAIN Tail(toSuicide[who]) : Tail(toSuicide[who])[j] \in Ids(who) \ {who}
        BY <1>0, <1>3 DEF SuicidesStand
      <4>2. Ids(who)' = Ids(who) /\ who' = who
        BY <1>0, <1>1, <1>7
      <4>3. Ids(p)' = Ids(p)
        BY <1>7
      <4>4. QED
        BY <1>10, <3>1, <4>1, <4>3 DEF SuicidesStand
    <3>2. CASE p # who
      BY <1>7, <1>10, <3>2, Parts DEF SuicidesStand
    <3>3. QED
      BY <3>1, <3>2
  <2>4. SitesStand(p)'
    BY <1>1, <1>7, Parts DEF SitesStand, Ordering
  <2>5. Funded(p)'
    <3>1. Coins(towers'[p], toUpgrade[p]) = Coins(towers[p], toUpgrade[p])
      BY <1>7, <1>8, SameCoins
    <3>2. Costs(p)' = Costs(p)
      BY <1>1, <3>1 DEF Costs
    <3>3. Funded(p)
      BY Parts
    <3>4. Costs(p) \in Nat
      BY <3>3, CostsType, Parts
    <3>5. p >= who => Costs(p) <= money'[p]
      <4>1. money[p] \in Nat
        BY <1>0, Typed
      <4>2. p >= who => Costs(p) <= money[p]
        BY <1>1, <3>3 DEF Funded
      <4>3. QED
        BY <1>9, <3>4, <4>1, <4>2
    <3>6. QED
      BY <1>1, <3>1, <3>2, <3>3, <3>5 DEF Funded, Ordering
  <2>6. Territory(p)'
    <3>1. \A c \in Offsets : Claims(towers'[p], c) = Claims(towers[p], c)
      BY ZenonT(40), <1>7, <1>8, SameClaims
    <3>2. QED
      BY <1>1, <3>1, Parts DEF Territory
  <2>7. Targeted(p)'
    <3>1. Ids(Enemy(p))' = Ids(Enemy(p))
      BY <1>7, Enemies DEF Ids
    <3>2. \A s \in Troop : MayBeBuried(p, s) => MayBeBuried(p, s)'
      BY <1>1 DEF MayBeBuried
    <3>3. QED
      BY <1>1, <3>1, <3>2, TargetsStaySound
  <2>8. QED
    BY <1>7, <2>1, <2>2, <2>3, <2>4, <2>5, <2>6, <2>7 DEF PlayerPart
<1>14. QED
  BY <1>1, <1>7, <1>11, <1>12, <1>13 DEF IInv, InTroop

\* A higher level reaches at least as far.
LEMMA RangesGrow ==
    ASSUME NEW t \in Tower, NEW u \in Tower, u.offset = t.offset, t.level <= u.level
    PROVE  CalculateBounds(t) \subseteq CalculateBounds(u)
<1> DEFINE r == Ranges[t.level]
           s == Ranges[u.level]
           x == t.offset[1]
           y == t.offset[2]
<1>1. r \in Nat /\ s \in Nat /\ r <= s /\ x \in Nat /\ y \in Nat
  BY Constants DEF Tower, Offsets
<1>2. /\ CalculateBounds(t) = {c \in Offsets : c[1] \in x - r .. x + r /\ c[2] \in y - r .. y + r}
      /\ CalculateBounds(u) = {c \in Offsets : c[1] \in x - s .. x + s /\ c[2] \in y - s .. y + s}
  BY DEF CalculateBounds
<1> HIDE DEF r, s, x, y
<1>3. x - r .. x + r \subseteq x - s .. x + s /\ y - r .. y + r \subseteq y - s .. y + s
  BY <1>1
<1>4. QED
  BY <1>2, <1>3

\* A tower claims the elements of an area: the counts and the flags of the others
\* stay, one more tower counts for those of the area.
LEMMA Claimed ==
    ASSUME IInv, NEW area, NEW i,
           Claim(who, area),
           towers' \in [Players -> Seq(Tower)],
           \A p \in Players : p # who => towers'[p] = towers[p],
           \A c \in Offsets :
                /\ c \in area => i \notin Claims(towers[who], c)
                /\ Claims(towers'[who], c) =
                     IF c \in area THEN Claims(towers[who], c) \cup {i} ELSE Claims(towers[who], c)
    PROVE  /\ refs' \in [Players -> [Offsets -> Nat]]
           /\ owners' \in [Offsets -> SUBSET Players]
           /\ \A p \in Players : Territory(p)'
<1>1. refs \in [Players -> [Offsets -> Nat]] /\ owners \in [Offsets -> SUBSET Players] /\ who \in Players
  BY Parts DEF TypeOK
<1>2. /\ refs' = [refs EXCEPT ![who] = [c \in Offsets |-> @[c] + IF c \in area THEN 1 ELSE 0]]
      /\ owners' = [c \in Offsets |-> owners[c] \cup IF c \in area THEN {who} ELSE {}]
  BY DEF Claim
<1>3. ASSUME NEW p \in Players, NEW c \in Offsets
      PROVE  /\ refs[p][c] \in Nat
             /\ refs'[p][c] = IF p = who /\ c \in area THEN refs[p][c] + 1 ELSE refs[p][c]
             /\ p \in owners'[c] <=> p \in owners[c] \/ (p = who /\ c \in area)
  <2>1. refs[p] \in [Offsets -> Nat] /\ refs[p][c] \in Nat
    BY <1>1
  <2>2. CASE p = who
    BY <1>1, <1>2, <2>1, <2>2
  <2>3. CASE p # who
    BY <1>1, <1>2, <2>1, <2>3
  <2>4. QED
    BY <2>1, <2>2, <2>3
<1>4. refs' \in [Players -> [Offsets -> Nat]] /\ owners' \in [Offsets -> SUBSET Players]
  <2>1. [c \in Offsets |-> refs[who][c] + IF c \in area THEN 1 ELSE 0] \in [Offsets -> Nat]
    BY <1>1
  <2>2. refs' \in [Players -> [Offsets -> Nat]]
    BY <1>1, <1>2, <2>1
  <2>3. owners' \in [Offsets -> SUBSET Players]
    BY <1>1, <1>2
  <2>4. QED
    BY <2>2, <2>3
<1>5. ASSUME NEW p \in Players, NEW c \in Offsets
      PROVE  refs'[p][c] = Cardinality(Claims(towers'[p], c))
  <2>1. refs[p][c] = Cardinality(Claims(towers[p], c))
    BY Parts DEF Territory
  <2>2. CASE p = who /\ c \in area
    <3>1. IsFiniteSet(Claims(towers[who], c))
      <4>1. Claims(towers[who], c) \in SUBSET (DOMAIN towers[who]) /\ towers[who] \in Seq(Tower)
        BY <1>1, Parts, ListTypes DEF Claims
      <4>2. QED
        BY <4>1, IndicesFinite
    <3>2. Cardinality(Claims(towers[who], c) \cup {i}) = Cardinality(Claims(towers[who], c)) + 1
      BY <2>2, <3>1, FS_AddElement
    <3>3. QED
      BY <1>3, <2>1, <2>2, <3>2
  <2>3. CASE ~(p = who /\ c \in area)
    BY <1>3, <2>1, <2>3
  <2>4. QED
    BY <2>2, <2>3
<1>6. ASSUME NEW p \in Players, NEW c \in Offsets
      PROVE  p \in owners'[c] <=> refs'[p][c] > 0
  <2>1. p \in owners[c] <=> refs[p][c] > 0
    BY Parts DEF Territory
  <2>2. QED
    BY <1>3, <2>1
<1>7. QED
  BY <1>4, <1>5, <1>6 DEF Territory

\* A tower is upgraded: the money is there, its territory grows.
LEMMA UpgradeStep ==
    ASSUME IInv, HandleTowerUpgradeUpdates
    PROVE  IInv'
<1> DEFINE queue == toUpgrade[who]
           id == Head(queue)
           i == IndexOf(who, id)
           old == towers[who][i]
           t == Upgraded(old)
           cost == BuildCosts[old.level + 1]
           area == CalculateBounds(t) \ CalculateBounds(old)
<1>0. /\ TypeOK /\ Shapes /\ IdsLast /\ OneTowerPerElement
      /\ who \in Players
      /\ Listed(who) /\ UpgradesStand(who) /\ Funded(who)
  BY Parts
<1>1. /\ phase = "update" /\ toBuild[who] = <<>> /\ queue # <<>>
      /\ id \in Ids(who) /\ old.level # Len(BuildCosts) /\ cost <= money[who]
      /\ money' = [money EXCEPT ![who] = @ - cost]
      /\ towers' = [towers EXCEPT ![who][i] = t]
      /\ Claim(who, area)
      /\ toUpgrade' = [toUpgrade EXCEPT ![who] = Tail(@)]
      /\ UNCHANGED <<toBuild, toSuicide, toDelete, nextId, budget, phase, who, cursor, target>>
  BY DEF HandleTowerUpgradeUpdates, Upgrading, Upgradable, CanDecrease, Decrease
<1>2. /\ i \in DOMAIN towers[who] /\ old.id = id /\ old \in Tower /\ old.level \in Levels
  BY <1>0, <1>1, IdHasIndex, ListTypes
<1>3. /\ queue \in Seq(Nat) /\ Tail(queue) \in Seq(Nat)
      /\ 1 \in DOMAIN queue /\ id = queue[1]
      /\ \A k \in DOMAIN Tail(queue) :
            k + 1 \in DOMAIN queue /\ k + 1 # 1 /\ Tail(queue)[k] = queue[k + 1]
      /\ \A k \in DOMAIN Tail(queue) : k \in Nat
      /\ \A x : x \in Elements(queue) <=> x = id \/ x \in Elements(Tail(queue))
  <2>1. queue \in Seq(Nat)
    BY <1>0, ListTypes
  <2> HIDE DEF queue
  <2>2. DOMAIN Tail(queue) = 1 .. Len(queue) - 1 /\ Len(queue) \in Nat
    BY <1>1, <2>1, TailFacts
  <2>3. QED
    BY <1>1, <2>1, <2>2, TailFacts
<1>4. /\ old.level + 1 \in Levels /\ cost \in Nat /\ MaxHps[old.level + 1] \in Nat
      /\ t.level = old.level + 1 /\ t.hp = MaxHps[t.level]
      /\ t.id = old.id /\ t.offset = old.offset /\ t.isBase = old.isBase
      /\ t \in Tower
  <2> HIDE DEF old
  <2>1. old.level + 1 \in Levels
    <3>1. /\ old.level \in 1 .. Len(BuildCosts) /\ old.level # Len(BuildCosts)
          /\ Len(BuildCosts) \in Nat /\ Levels = 1 .. Len(BuildCosts)
      BY <1>1, <1>2, Constants
    <3>2. QED
      BY <3>1
  <2>2. QED
    BY <1>2, <2>1, Constants DEF Upgraded, Tower
<1>5. towers' = [towers EXCEPT ![who] = [@ EXCEPT ![i] = t]]
  <2> HIDE DEF i, t
  <2>1. QED
    BY <1>0, <1>1, <1>2 DEF Shapes
<1>6. CalculateBounds(old) \subseteq CalculateBounds(t)
  <2>1. old.level <= t.level
    BY <1>2, <1>4, Constants
  <2> HIDE DEF old, t
  <2>2. QED
    BY <1>2, <1>4, <2>1, RangesGrow
<1> HIDE DEF t, i, id, area, cost, old, queue
<1>7. /\ towers' \in [Players -> Seq(Tower)]
      /\ \A p \in Players :
            /\ DOMAIN towers'[p] = DOMAIN towers[p]
            /\ \A j \in DOMAIN towers[p] :
                /\ towers'[p][j] = IF p = who /\ j = i THEN t ELSE towers[p][j]
                /\ towers'[p][j].id = towers[p][j].id
                /\ towers'[p][j].offset = towers[p][j].offset
            /\ Ids(p)' = Ids(p)
            /\ Listed(p)'
            /\ \A u \in Elements(towers'[p]) :
                /\ u.id \in 0 .. nextId - 1
                /\ u.offset \in Offsets
                /\ u.level \in Levels
                /\ u.hp \in 0 .. MaxHps[u.level]
                /\ u.isBase \in BOOLEAN
      /\ IdsLast' /\ OneTowerPerElement'
  <2>1. toBuild' = toBuild /\ nextId' = nextId
    BY <1>1
  <2>2. t.hp <= MaxHps[t.level]
    BY <1>4
  <2>3. QED
    BY ZenonT(40), <1>0, <1>2, <1>4, <1>5, <2>1, <2>2, TowerChanges DEF old
<1>8. /\ towers'[who][i] = t /\ towers[who][i] = old
      /\ \A j \in DOMAIN towers[who] : j # i => towers'[who][j] = towers[who][j]
      /\ \A p \in Players : p # who => towers'[p] = towers[p]
  <2>1. \A p \in Players : p # who => towers'[p] = towers[p]
    BY <1>0, <1>5 DEF Shapes
  <2>2. QED
    BY <1>0, <1>2, <1>7, <2>1 DEF old
<1>9. /\ money' \in [Players -> 0 .. MaxMoney]
      /\ money'[who] = money[who] - cost
      /\ \A p \in Players : p # who => money'[p] = money[p]
  <2>1. money \in [Players -> 0 .. MaxMoney] /\ MaxMoney \in Nat
    BY <1>0, Constants DEF TypeOK
  <2>2. money[who] - cost \in 0 .. MaxMoney
    BY <1>0, <1>1, <1>4, <2>1
  <2>3. QED
    BY <1>0, <1>1, <2>1, <2>2
<1>10. /\ toUpgrade' \in [Players -> Seq(Nat)]
       /\ toUpgrade'[who] = Tail(queue)
       /\ \A p \in Players : p # who => toUpgrade'[p] = toUpgrade[p]
  BY <1>0, <1>1, <1>3 DEF Shapes, queue
<1>11. /\ refs' \in [Players -> [Offsets -> Nat]]
       /\ owners' \in [Offsets -> SUBSET Players]
       /\ \A p \in Players : Territory(p)'
  <2>1. ASSUME NEW c \in Offsets
        PROVE  /\ c \in area => i \notin Claims(towers[who], c)
               /\ Claims(towers'[who], c) =
                    IF c \in area THEN Claims(towers[who], c) \cup {i} ELSE Claims(towers[who], c)
    <3>1. \A j \in DOMAIN towers[who] : j # i =>
            (j \in Claims(towers'[who], c) <=> j \in Claims(towers[who], c))
      BY <1>0, <1>7, <1>8 DEF Claims
    <3>2. /\ i \in Claims(towers'[who], c) <=> c \in CalculateBounds(t)
          /\ i \in Claims(towers[who], c) <=> c \in CalculateBounds(old)
      BY <1>0, <1>2, <1>7, <1>8 DEF Claims
    <3>3. /\ Claims(towers'[who], c) \subseteq DOMAIN towers[who]
          /\ Claims(towers[who], c) \subseteq DOMAIN towers[who]
      BY <1>0, <1>7 DEF Claims
    <3>4. c \in area <=> c \in CalculateBounds(t) /\ c \notin CalculateBounds(old)
      BY DEF area
    <3>5. QED
      BY <1>2, <1>6, <3>1, <3>2, <3>3, <3>4
  <2>2. \A c \in Offsets :
          /\ c \in area => i \notin Claims(towers[who], c)
          /\ Claims(towers'[who], c) =
               IF c \in area THEN Claims(towers[who], c) \cup {i} ELSE Claims(towers[who], c)
    BY <2>1
  <2>3. /\ Claim(who, area)
        /\ towers' \in [Players -> Seq(Tower)]
        /\ \A p \in Players : p # who => towers'[p] = towers[p]
    BY <1>1, <1>7, <1>8
  <2>4. QED
    BY <2>2, <2>3, Claimed
<1>12. TypeOK'
  <2>1. \A p \in Players : Elements(toUpgrade'[p]) \subseteq 0 .. nextId - 1
    <3>1. \A p \in Players : Elements(toUpgrade[p]) \subseteq 0 .. nextId - 1
      BY <1>0 DEF TypeOK
    <3>2. Elements(Tail(queue)) \subseteq Elements(toUpgrade[who])
      BY <1>3 DEF queue
    <3>3. QED
      BY <1>0, <1>10, <3>1, <3>2
  <2>2. QED
    BY <1>0, <1>1, <1>7, <1>9, <1>11, <2>1 DEF TypeOK
<1>13. Shapes'
  BY <1>0, <1>1, <1>7, <1>10 DEF Shapes
<1>14. UpgradesStand(who)'
  <2>1. ASSUME NEW j \in DOMAIN Tail(queue)
        PROVE  \E k \in DOMAIN towers'[who] :
                  towers'[who][k].id = Tail(queue)[j] /\ towers'[who][k].level # Len(BuildCosts)
    <3>1. PICK k \in DOMAIN towers[who] :
            towers[who][k].id = queue[j + 1] /\ towers[who][k].level # Len(BuildCosts)
      BY <1>0, <1>3 DEF UpgradesStand, queue
    <3>2. queue[j + 1] # queue[1]
      BY <1>0, <1>3 DEF UpgradesStand, queue
    <3>3. k # i
      BY <1>2, <1>3, <1>8, <3>1, <3>2
    <3>4. QED
      BY <1>0, <1>3, <1>7, <1>8, <3>1, <3>3
  <2>2. ASSUME NEW j \in DOMAIN Tail(queue), NEW k \in DOMAIN Tail(queue),
               Tail(queue)[j] = Tail(queue)[k]
        PROVE  j = k
    <3>1. j + 1 = k + 1
      BY <1>0, <1>3, <2>2 DEF UpgradesStand, queue
    <3>2. QED
      BY <1>3, <3>1
  <2>3. who' = who /\ phase' = "update"
    BY <1>1
  <2> DEFINE rest == Tail(queue)
  <2> HIDE DEF rest
  <2>4. (toUpgrade[who])' = rest /\ (towers[who])' = towers'[who]
    BY <1>10, <2>3 DEF rest
  <2>5. /\ \A j \in DOMAIN rest : \E k \in DOMAIN towers'[who] :
             towers'[who][k].id = rest[j] /\ towers'[who][k].level # Len(BuildCosts)
        /\ \A j, k \in DOMAIN rest : rest[j] = rest[k] => j = k
    BY <2>1, <2>2 DEF rest
  <2>6. QED
    BY <2>3, <2>4, <2>5 DEF UpgradesStand
<1>15. Funded(who)'
  <2> DEFINE C == Coins(towers[who], queue)
             D == Coins(towers'[who], Tail(queue))
             build == Len(toBuild[who]) * BuildCosts[1]
  <2>1. id \notin Elements(Tail(queue))
    <3>1. SUFFICES ASSUME NEW k \in DOMAIN Tail(queue), Tail(queue)[k] = id PROVE FALSE
      BY DEF Elements
    <3>2. queue[k + 1] = queue[1] /\ k + 1 # 1
      BY <1>3, <3>1
    <3>3. QED
      BY <1>0, <1>3, <3>2 DEF UpgradesStand, queue
  <2>2. \A j \in DOMAIN towers[who] : towers[who][j].id = id <=> j = i
    BY <1>0, <1>2, <1>8 DEF Listed
  <2>3. \A x : x \in C <=> x \in {i} \X (1 .. cost) \/ x \in D
    <3>1. ASSUME NEW x, x \in C PROVE x \in {i} \X (1 .. cost) \/ x \in D
      <4>1. PICK j \in DOMAIN towers[who] :
                /\ towers[who][j].id \in Elements(queue)
                /\ x \in {j} \X (1 .. BuildCosts[towers[who][j].level + 1])
        BY <3>1, CoinsIn
      <4>2. CASE j = i
        BY <1>8, <4>1, <4>2 DEF cost
      <4>3. CASE j # i
        <5>1. towers[who][j].id \in Elements(Tail(queue)) /\ towers'[who][j] = towers[who][j]
          BY <1>3, <1>8, <2>2, <4>1, <4>3
        <5>2. j \in DOMAIN towers'[who]
          BY <1>0, <1>7
        <5>3. QED
          BY <4>1, <5>1, <5>2, CoinsIn
      <4>4. QED
        BY <4>2, <4>3
    <3>2. ASSUME NEW x, x \in {i} \X (1 .. cost) PROVE x \in C
      <4>1. towers[who][i].id \in Elements(queue)
        BY <1>2, <1>3, <1>8
      <4>2. x \in {i} \X (1 .. BuildCosts[towers[who][i].level + 1])
        BY <1>8, <3>2 DEF cost
      <4>3. QED
        BY <1>2, <4>1, <4>2, CoinsIn
    <3>3. ASSUME NEW x, x \in D PROVE x \in C
      <4>1. PICK j \in DOMAIN towers'[who] :
                /\ towers'[who][j].id \in Elements(Tail(queue))
                /\ x \in {j} \X (1 .. BuildCosts[towers'[who][j].level + 1])
        BY <3>3, CoinsIn
      <4>2. j \in DOMAIN towers[who] /\ towers'[who][j].id = towers[who][j].id
        BY <1>0, <1>7, <4>1
      <4>3. j # i
        BY <2>1, <2>2, <4>1, <4>2
      <4>4. towers'[who][j] = towers[who][j] /\ towers[who][j].id \in Elements(queue)
        BY <1>3, <1>8, <4>1, <4>2, <4>3
      <4>5. QED
        BY <4>1, <4>2, <4>4, CoinsIn
    <3>4. QED
      BY <3>1, <3>2, <3>3
  <2>4. \A x \in D : x[1] # i
    <3>1. SUFFICES ASSUME NEW x \in D PROVE x[1] # i
      OBVIOUS
    <3>2. PICK j \in DOMAIN towers'[who] :
                /\ towers'[who][j].id \in Elements(Tail(queue))
                /\ x \in {j} \X (1 .. BuildCosts[towers'[who][j].level + 1])
      BY CoinsIn
    <3>3. j # i
      BY <1>0, <1>7, <2>1, <2>2, <3>2
    <3>4. QED
      BY <3>2, <3>3
  <2>5. IsFiniteSet(C)
    BY <1>0 DEF Funded, queue
  <2>6. IsFiniteSet(D)
    <3>1. D \subseteq C
      BY <2>3
    <3> HIDE DEF C, D
    <3>2. QED
      BY <2>5, <3>1, FS_Subset
  <2>7. Cardinality(C) = Cardinality(D) + cost /\ Cardinality(D) \in Nat
    <3> HIDE DEF C, D
    <3>1. C = D \cup ({i} \X (1 .. cost))
      BY <2>3
    <3>2. QED
      BY <1>4, <2>4, <2>6, <3>1, AddedPairs
  <2>8. build + Cardinality(C) <= money[who]
    <3>1. who >= who
      BY <1>0 DEF Players
    <3>2. QED
      BY <1>0, <1>1, <3>1 DEF Funded, Costs, queue
  <2>9. build \in Nat /\ money[who] \in Nat
    BY <1>0, CostsType, Typed
  <2>10. Costs(who)' = build + Cardinality(D)
    BY <1>1, <1>10 DEF Costs
  <2>11. Costs(who)' <= money'[who]
    <3> HIDE DEF C, D, build
    <3>1. QED
      BY <1>4, <1>9, <2>7, <2>8, <2>9, <2>10
  <2>12. QED
    BY <1>1, <1>10, <2>6, <2>11 DEF Funded, Ordering
<1>16. ASSUME NEW p \in Players PROVE PlayerPart(p)'
  <2>1. Emptied(p)'
    <3>1. toUpgrade[p] = <<>> => p # who
      BY <1>1 DEF queue
    <3>2. QED
      BY <1>1, <1>10, <3>1, Parts DEF Emptied, Ordering
  <2>2. UpgradesStand(p)' /\ Funded(p)'
    <3>1. CASE p = who
      BY <1>1, <1>14, <1>15, <3>1
    <3>2. CASE p # who
      <4>1. towers'[p] = towers[p] /\ toUpgrade'[p] = toUpgrade[p] /\ money'[p] = money[p]
        BY <1>8, <1>9, <1>10, <3>2
      <4>2. UpgradesStand(p)'
        <5>1. /\ \A j \in DOMAIN toUpgrade[p] : \E k \in DOMAIN towers[p] :
                    towers[p][k].id = toUpgrade[p][j] /\ towers[p][k].level # Len(BuildCosts)
              /\ \A j, k \in DOMAIN toUpgrade[p] : toUpgrade[p][j] = toUpgrade[p][k] => j = k
          BY Parts DEF UpgradesStand
        <5>2. phase' = "update"
          BY <1>1
        <5>3. QED
          BY <4>1, <5>1, <5>2 DEF UpgradesStand
      <4>3. Funded(p)'
        BY <1>1, <4>1, Parts DEF Funded, Costs, Ordering
      <4>4. QED
        BY <4>2, <4>3
    <3>3. QED
      BY <3>1, <3>2
  <2>3. SuicidesStand(p)'
    BY <1>1, <1>7, Parts DEF SuicidesStand
  <2>4. SitesStand(p)'
    BY <1>1, <1>7, Parts DEF SitesStand, Ordering
  <2>5. Targeted(p)'
    <3>1. Ids(Enemy(p))' = Ids(Enemy(p))
      BY <1>7, Enemies DEF Ids
    <3>2. \A s \in Troop : MayBeBuried(p, s) => MayBeBuried(p, s)'
      BY <1>1 DEF MayBeBuried
    <3>3. QED
      BY <1>1, <3>1, <3>2, TargetsStaySound
  <2>6. QED
    BY <1>7, <1>11, <2>1, <2>2, <2>3, <2>4, <2>5 DEF PlayerPart
<1>17. QED
  BY <1>1, <1>7, <1>12, <1>13, <1>16 DEF IInv, InTroop

\* A tower is built: the money and the place are still there.
LEMMA BuildStep ==
    ASSUME IInv, HandleTowerBuildUpdates
    PROVE  IInv'
<1> DEFINE queue == toBuild[who]
           site == Head(queue)
           t == NewTower(nextId, site, FALSE)
           old == towers[who]
           n == Len(old) + 1
           new == Append(old, t)
           cost == BuildCosts[1]
           area == CalculateBounds(t)
<1>0. /\ TypeOK /\ Shapes /\ IdsLast /\ OneTowerPerElement
      /\ who \in Players
      /\ Listed(who) /\ SitesStand(who) /\ Funded(who)
  BY Parts
<1>1. /\ phase = "update" /\ queue # <<>> /\ cost <= money[who]
      /\ money' = [money EXCEPT ![who] = @ - cost]
      /\ towers' = [towers EXCEPT ![who] = new]
      /\ Claim(who, area)
      /\ nextId' = nextId + 1
      /\ toBuild' = [toBuild EXCEPT ![who] = Tail(@)]
      /\ UNCHANGED <<toUpgrade, toSuicide, toDelete, budget, phase, who, cursor, target>>
  BY DEF HandleTowerBuildUpdates, Building, CanDecrease, Decrease
<1>2. /\ queue \in Seq(Offsets) /\ Tail(queue) \in Seq(Offsets)
      /\ 1 \in DOMAIN queue /\ site = queue[1] /\ site \in Offsets
      /\ Len(queue) \in Nat /\ Len(queue) > 0 /\ Len(Tail(queue)) = Len(queue) - 1
      /\ \A k \in DOMAIN Tail(queue) :
            k \in Nat /\ k + 1 \in DOMAIN queue /\ k + 1 # 1 /\ Tail(queue)[k] = queue[k + 1]
  <2>1. queue \in Seq(Offsets) /\ \A k \in DOMAIN queue : queue[k] \in Offsets
    BY <1>0, ListTypes
  <2> HIDE DEF queue
  <2>2. /\ 1 \in DOMAIN queue /\ site = queue[1] /\ Tail(queue) \in Seq(Offsets)
        /\ DOMAIN Tail(queue) = 1 .. Len(queue) - 1 /\ Len(queue) \in Nat
        /\ Len(queue) > 0 /\ Len(Tail(queue)) = Len(queue) - 1
        /\ \A k \in DOMAIN Tail(queue) :
            k + 1 \in DOMAIN queue /\ k + 1 # 1 /\ Tail(queue)[k] = queue[k + 1]
    BY <1>1, <2>1, TailFacts
  <2>3. QED
    BY <2>1, <2>2
<1>3. /\ t \in Tower /\ t.id = nextId /\ t.offset = site /\ t.level \in Levels
      /\ t.hp \in 0 .. MaxHps[t.level] /\ t.isBase \in BOOLEAN
      /\ nextId \in Nat /\ cost \in Nat
  <2>1. 1 \in Levels /\ MaxHps[1] \in Nat /\ nextId \in Nat /\ cost \in Nat
    BY <1>0, Constants, Typed
  <2>2. QED
    BY <1>2, <2>1 DEF NewTower, Tower
<1>4. /\ old \in Seq(Tower) /\ new \in Seq(Tower) /\ Len(new) = n
      /\ Len(old) \in Nat /\ DOMAIN old = 1 .. Len(old)
      /\ \A k \in DOMAIN old : k \in DOMAIN new /\ new[k] = old[k]
      /\ n \in DOMAIN new /\ new[n] = t /\ n \notin DOMAIN old
      /\ \A k \in DOMAIN new : k \in DOMAIN old \/ k = n
      /\ Elements(new) = Elements(old) \cup {t}
  <2>1. old \in Seq(Tower) /\ Len(old) \in Nat /\ DOMAIN old = 1 .. Len(old)
    BY <1>0, ListTypes
  <2> HIDE DEF old, t
  <2>2. /\ new \in Seq(Tower) /\ Len(new) = n /\ DOMAIN new = 1 .. n
        /\ \A k \in DOMAIN old : k \in DOMAIN new /\ new[k] = old[k]
        /\ new[n] = t /\ n \notin DOMAIN old
        /\ \A k \in DOMAIN new : k \in DOMAIN old \/ k = n
        /\ Elements(new) = Elements(old) \cup {t}
    BY <1>3, <2>1, AppendFacts
  <2>3. n \in DOMAIN new
    BY <2>1, <2>2
  <2>4. QED
    BY <2>1, <2>2, <2>3
<1>5. 1 \in DOMAIN old
  BY <1>0, BaseListed
<1> HIDE DEF t, site, queue, new, n, cost, area
<1>6. /\ towers' \in [Players -> Seq(Tower)]
      /\ towers'[who] = new
      /\ \A p \in Players : p # who => towers'[p] = towers[p]
  BY <1>0, <1>1, <1>4 DEF Shapes
<1> HIDE DEF old
<1>7. /\ toBuild' \in [Players -> Seq(Offsets)]
      /\ toBuild'[who] = Tail(queue)
      /\ \A p \in Players : p # who => toBuild'[p] = toBuild[p]
  BY <1>0, <1>1, <1>2 DEF Shapes, queue
<1>8. /\ money' \in [Players -> 0 .. MaxMoney]
      /\ money'[who] = money[who] - cost
      /\ \A p \in Players : p # who => money'[p] = money[p]
  <2>1. money \in [Players -> 0 .. MaxMoney] /\ MaxMoney \in Nat
    BY <1>0, Constants DEF TypeOK
  <2>2. money[who] - cost \in 0 .. MaxMoney
    BY <1>0, <1>1, <1>3, <2>1
  <2>3. QED
    BY <1>0, <1>1, <2>1, <2>2
<1>9. /\ refs' \in [Players -> [Offsets -> Nat]]
      /\ owners' \in [Offsets -> SUBSET Players]
      /\ \A p \in Players : Territory(p)'
  <2>1. ASSUME NEW c \in Offsets
        PROVE  /\ c \in area => n \notin Claims(old, c)
               /\ Claims(new, c) =
                    IF c \in area THEN Claims(old, c) \cup {n} ELSE Claims(old, c)
    <3>1. \A j \in DOMAIN old : j \in Claims(new, c) <=> j \in Claims(old, c)
      BY <1>4 DEF Claims
    <3>2. n \in Claims(new, c) <=> c \in area
      BY <1>4 DEF Claims, area
    <3>3. /\ \A j \in Claims(new, c) : j \in DOMAIN old \/ j = n
          /\ \A j \in Claims(old, c) : j \in DOMAIN old
      BY <1>4 DEF Claims
    <3>4. n \notin Claims(old, c)
      BY <1>4, <3>3
    <3>5. \A j : j \in Claims(new, c) <=> j \in Claims(old, c) \/ (j = n /\ c \in area)
      BY <3>1, <3>2, <3>3, <3>4
    <3>6. QED
      BY <3>4, <3>5
  <2>2. \A c \in Offsets :
          /\ c \in area => n \notin Claims(towers[who], c)
          /\ Claims(towers'[who], c) =
               IF c \in area THEN Claims(towers[who], c) \cup {n} ELSE Claims(towers[who], c)
    BY <1>6, <2>1 DEF old
  <2>3. Claim(who, area)
    BY <1>1
  <2>4. QED
    BY <1>6, <2>2, <2>3, Claimed
<1>10. /\ nextId + 1 \in 2 .. ActorIdBound
       /\ IdsLast'
  <2> DEFINE a == Len(toBuild[0])
             b == Len(toBuild[1])
  <2>1. /\ a \in Nat /\ b \in Nat /\ ActorIdBound \in Nat /\ nextId >= 2
        /\ nextId + a + b <= ActorIdBound
    BY <1>0, ListTypes, Constants, Typed DEF IdsLast, Players
  <2>2. \/ who = 0 /\ Len(toBuild'[0]) = a - 1 /\ Len(toBuild'[1]) = b /\ a > 0
        \/ who = 1 /\ Len(toBuild'[0]) = a /\ Len(toBuild'[1]) = b - 1 /\ b > 0
    <3>1. \A p \in Players : p = who => Len(toBuild'[p]) = Len(toBuild[p]) - 1 /\ Len(toBuild[p]) > 0
      BY <1>2, <1>7 DEF queue
    <3>2. \A p \in Players : p # who => Len(toBuild'[p]) = Len(toBuild[p])
      BY <1>7
    <3>3. QED
      BY <1>0, <3>1, <3>2 DEF Players
  <2> HIDE DEF a, b
  <2>4. nextId' + Len(toBuild'[0]) + Len(toBuild'[1]) <= ActorIdBound
    <3>1. nextId' = nextId + 1
      BY <1>1
    <3>2. nextId \in Nat
      BY <1>3
    <3>3. \A m, k, x, y \in Nat : m + x + y <= k =>
            /\ x > 0 => m + 1 + (x - 1) + y <= k
            /\ y > 0 => m + 1 + x + (y - 1) <= k
      OBVIOUS
    <3>4. /\ a > 0 => nextId + 1 + (a - 1) + b <= ActorIdBound
          /\ b > 0 => nextId + 1 + a + (b - 1) <= ActorIdBound
      BY <2>1, <3>2, <3>3
    <3>5. QED
      BY <2>2, <3>1, <3>4
  <2>5. nextId + 1 \in 2 .. ActorIdBound
    BY <1>3, <2>1, <2>2
  <2>6. QED
    BY <2>4, <2>5 DEF IdsLast
<1>11. ASSUME NEW p \in Players, NEW i \in DOMAIN towers'[p]
       PROVE  \/ i \in DOMAIN towers[p] /\ towers'[p][i] = towers[p][i]
              \/ p = who /\ i = n /\ towers'[p][i] = t
  <2>1. CASE p = who
    BY <1>4, <1>6, <2>1 DEF old
  <2>2. CASE p # who
    BY <1>6, <2>2
  <2>3. QED
    BY <2>1, <2>2
<1>12. ASSUME NEW p \in Players, NEW i \in DOMAIN towers[p]
       PROVE  i \in DOMAIN towers'[p] /\ towers'[p][i] = towers[p][i]
  <2>1. CASE p = who
    BY <1>4, <1>6, <2>1 DEF old
  <2>2. CASE p # who
    BY <1>6, <2>2
  <2>3. QED
    BY <2>1, <2>2
<1>13. ASSUME NEW p \in Players, NEW k \in DOMAIN toBuild'[p]
       PROVE  \E j \in DOMAIN toBuild[p] :
                /\ toBuild'[p][k] = toBuild[p][j]
                /\ j = IF p = who THEN k + 1 ELSE k
                /\ p = who => j # 1
  <2>1. CASE p = who
    BY <1>2, <1>7, <2>1 DEF queue
  <2>2. CASE p # who
    BY <1>7, <2>2
  <2>3. QED
    BY <2>1, <2>2
<1>14. \A q \in Players : \A i \in DOMAIN towers[q] : towers[q][i].offset # site
  BY <1>0, <1>2 DEF SitesStand, queue
<1>15. OneTowerPerElement'
  <2>1. SUFFICES ASSUME NEW p \in Players, NEW q \in Players,
                        NEW i \in DOMAIN towers'[p], NEW j \in DOMAIN towers'[q],
                        towers'[p][i].offset = towers'[q][j].offset
                 PROVE  p = q /\ i = j
    BY DEF OneTowerPerElement
  <2>2. QED
    BY <1>0, <1>3, <1>11, <1>14, <2>1 DEF OneTowerPerElement
<1>16. Shapes'
  BY <1>0, <1>1, <1>6, <1>7 DEF Shapes
<1>17. TypeOK'
  <2>0. 0 .. nextId - 1 \subseteq 0 .. nextId' - 1 /\ nextId \in 0 .. nextId' - 1
    BY <1>1, <1>3
  <2>1. ASSUME NEW p \in Players, NEW u \in Elements(towers'[p])
        PROVE  /\ u.id \in 0 .. nextId' - 1
               /\ u.offset \in Offsets
               /\ u.level \in Levels
               /\ u.hp \in 0 .. MaxHps[u.level]
               /\ u.isBase \in BOOLEAN
    <3>1. PICK i \in DOMAIN towers'[p] : u = towers'[p][i]
      BY DEF Elements
    <3>2. CASE p = who /\ i = n /\ u = t
      BY <1>2, <1>3, <2>0, <3>2
    <3>3. CASE i \in DOMAIN towers[p] /\ u = towers[p][i]
      <4>1. u \in Elements(towers[p])
        BY <3>3 DEF Elements
      <4>2. QED
        BY <1>0, <2>0, <4>1 DEF TypeOK
    <3>4. QED
      BY <1>11, <3>1, <3>2, <3>3
  <2>2. ASSUME NEW p \in Players
        PROVE  /\ Elements(toBuild'[p]) \subseteq Offsets
               /\ Elements(toUpgrade'[p]) \cup Elements(toSuicide'[p]) \subseteq 0 .. nextId' - 1
               /\ \A k \in 1 .. 2 : toDelete'[p][k] \subseteq 0 .. nextId' - 1
               /\ \A s \in Troop : target'[p][s] \in {NoTarget} \cup 0 .. nextId' - 1
    <3>1. Elements(toBuild'[p]) \subseteq Offsets
      <4>1. Elements(toBuild'[p]) \subseteq Elements(toBuild[p])
        BY <1>13 DEF Elements
      <4>2. QED
        BY <1>0, <4>1 DEF TypeOK
    <3>2. /\ Elements(toUpgrade[p]) \cup Elements(toSuicide[p]) \subseteq 0 .. nextId - 1
          /\ \A k \in 1 .. 2 : toDelete[p][k] \subseteq 0 .. nextId - 1
          /\ \A s \in Troop : target[p][s] \in {NoTarget} \cup 0 .. nextId - 1
      BY <1>0 DEF TypeOK
    <3>3. QED
      BY <1>1, <2>0, <3>1, <3>2
  <2>3. /\ budget' \in [Players -> 0 .. MaxMoney]
        /\ phase' \in {"towerTasks", "soldierTasks", "update", "soldiers", "late"}
        /\ who' \in Players
        /\ cursor' \in 0 .. MapSize * MapSize + NumSoldiers + MaxNumTowers
    BY <1>0, <1>1 DEF TypeOK
  <2>4. nextId' \in 2 .. ActorIdBound
    BY <1>1, <1>10
  <2>5. QED
    BY <1>8, <1>9, <2>1, <2>2, <2>3, <2>4 DEF TypeOK
<1>18. ASSUME NEW p \in Players PROVE Listed(p)'
  <2>1. CASE p = who
    <3>1. \A i \in DOMAIN old : old[i].id # nextId
      BY <1>0, <1>3, Typed, ListTypes DEF old
    <3>2. \A i, j \in DOMAIN new : new[i].id = new[j].id => i = j
      BY <1>0, <1>3, <1>4, <3>1 DEF Listed, old
    <3>3. /\ new[1].id = who /\ new[1].isBase /\ new[1].offset = Base[who]
          /\ new[1].hp = MaxHps[new[1].level] /\ 1 \in DOMAIN new
      BY <1>0, <1>4, <1>5 DEF Listed, old
    <3>4. Len(new) + Len(Tail(queue)) <= MaxNumTowers
      <4>1. Len(old) + Len(queue) <= MaxNumTowers /\ MaxNumTowers \in Nat
        BY <1>0, Constants DEF Listed, old, queue
      <4>2. QED
        BY <1>2, <1>4, <4>1 DEF n
    <3>5. new # <<>>
      BY <3>3
    <3>6. towers'[p] = new /\ toBuild'[p] = Tail(queue)
      BY <1>6, <1>7, <2>1
    <3>7. QED
      BY <2>1, <3>2, <3>3, <3>4, <3>5, <3>6 DEF Listed
  <2>2. CASE p # who
    <3>1. towers'[p] = towers[p] /\ toBuild'[p] = toBuild[p]
      BY <1>6, <1>7, <2>2
    <3> DEFINE ts == towers[p]
    <3>2. /\ \A i, j \in DOMAIN ts : ts[i].id = ts[j].id => i = j
          /\ Len(ts) + Len(toBuild[p]) <= MaxNumTowers
          /\ ts # <<>> /\ ts[1].id = p /\ ts[1].isBase /\ ts[1].offset = Base[p]
          /\ ts[1].hp = MaxHps[ts[1].level]
      BY Parts DEF Listed
    <3>3. towers'[p] = ts
      BY <3>1
    <3> HIDE DEF ts
    <3>4. QED
      BY <3>1, <3>2, <3>3 DEF Listed
  <2>3. QED
    BY <2>1, <2>2
<1>19. ASSUME NEW p \in Players PROVE UpgradesStand(p)'
  <2>1. /\ \A j \in DOMAIN toUpgrade[p] : \E k \in DOMAIN towers[p] :
              towers[p][k].id = toUpgrade[p][j] /\ towers[p][k].level # Len(BuildCosts)
        /\ \A j, k \in DOMAIN toUpgrade[p] : toUpgrade[p][j] = toUpgrade[p][k] => j = k
    BY Parts DEF UpgradesStand
  <2>2. \A j \in DOMAIN toUpgrade[p] : \E k \in DOMAIN towers'[p] :
              towers'[p][k].id = toUpgrade[p][j] /\ towers'[p][k].level # Len(BuildCosts)
    BY <1>12, <2>1
  <2>3. phase' = "update" /\ toUpgrade' = toUpgrade
    BY <1>1
  <2>4. QED
    BY <2>1, <2>2, <2>3 DEF UpgradesStand
<1>20. ASSUME NEW p \in Players PROVE Ids(p) \subseteq Ids(p)'
  BY <1>12 DEF Ids
<1>21. ASSUME NEW p \in Players PROVE SitesStand(p)'
  <2>1. SUFFICES ASSUME NEW k \in DOMAIN toBuild'[p]
                 PROVE  /\ \A q \in Players : \A i \in DOMAIN towers'[q] :
                              towers'[q][i].offset # toBuild'[p][k]
                        /\ \A q \in Players : \A j \in DOMAIN toBuild'[q] :
                              toBuild'[q][j] = toBuild'[p][k] => p = q /\ j = k
    BY <1>1 DEF SitesStand, Ordering
  <2>2. PICK m \in DOMAIN toBuild[p] :
            /\ toBuild'[p][k] = toBuild[p][m]
            /\ m = IF p = who THEN k + 1 ELSE k
            /\ p = who => m # 1
    BY <1>13
  <2>3. /\ \A q \in Players : \A i \in DOMAIN towers[q] : towers[q][i].offset # toBuild[p][m]
        /\ \A q \in Players : \A j \in DOMAIN toBuild[q] :
              toBuild[q][j] = toBuild[p][m] => p = q /\ j = m
    BY Parts DEF SitesStand
  <2>4. site # toBuild[p][m]
    BY <1>0, <1>2, <2>2, <2>3 DEF queue
  <2>5. \A q \in Players : \A i \in DOMAIN towers'[q] : towers'[q][i].offset # toBuild'[p][k]
    BY <1>3, <1>11, <2>2, <2>3, <2>4
  <2>6. ASSUME NEW q \in Players, NEW j \in DOMAIN toBuild'[q], toBuild'[q][j] = toBuild'[p][k]
        PROVE  p = q /\ j = k
    <3>1. PICK l \in DOMAIN toBuild[q] :
            toBuild'[q][j] = toBuild[q][l] /\ l = IF q = who THEN j + 1 ELSE j
      BY <1>13
    <3>2. p = q /\ l = m
      BY <2>2, <2>3, <2>6, <3>1
    <3>3. j \in Nat /\ k \in Nat
      <4>1. DOMAIN toBuild'[p] = 1 .. Len(toBuild'[p])
        BY <1>7
      <4>2. QED
        BY <3>2, <4>1
    <3>4. QED
      BY <2>2, <3>1, <3>2, <3>3
  <2>7. QED
    BY <2>5, <2>6
<1>22. Funded(who)'
  <2> DEFINE ids == toUpgrade[who]
             C == Coins(old, ids)
             m == Len(queue)
  <2>1. nextId \notin Elements(ids)
    <3>1. Elements(ids) \subseteq 0 .. nextId - 1
      BY <1>0 DEF TypeOK
    <3>2. QED
      BY <1>3, <3>1
  <2>2. Coins(new, ids) = C
    <3>1. \A x : x \in Coins(new, ids) <=> x \in C
      <4> SUFFICES ASSUME NEW x PROVE x \in Coins(new, ids) <=> x \in C
        OBVIOUS
      <4>1. ASSUME x \in Coins(new, ids) PROVE x \in C
        <5>1. PICK j \in DOMAIN new :
                /\ new[j].id \in Elements(ids)
                /\ x \in {j} \X (1 .. BuildCosts[new[j].level + 1])
          BY <4>1, CoinsIn
        <5>2. j \in DOMAIN old /\ new[j] = old[j]
          BY <1>3, <1>4, <2>1, <5>1
        <5>3. QED
          BY <5>1, <5>2, CoinsIn
      <4>2. ASSUME x \in C PROVE x \in Coins(new, ids)
        <5>1. PICK j \in DOMAIN old :
                /\ old[j].id \in Elements(ids)
                /\ x \in {j} \X (1 .. BuildCosts[old[j].level + 1])
          BY <4>2, CoinsIn
        <5>2. j \in DOMAIN new /\ new[j] = old[j]
          BY <1>4
        <5>3. QED
          BY <5>1, <5>2, CoinsIn
      <4>3. QED
        BY <4>1, <4>2
    <3>2. QED
      BY <3>1
  <2>3. IsFiniteSet(C)
    BY <1>0 DEF Funded, old
  <2>4. Cardinality(C) \in Nat
    BY <2>3, FS_CardinalityType
  <2>5. m * cost + Cardinality(C) <= money[who] /\ money[who] \in Nat
    <3>1. who >= who
      BY <1>0 DEF Players
    <3>2. QED
      BY <1>0, <1>1, <3>1, Typed DEF Funded, Costs, queue, old, cost
  <2>6. Costs(who)' = (m - 1) * cost + Cardinality(C)
    BY <1>1, <1>2, <1>6, <1>7, <2>2 DEF Costs, cost
  <2>7. m * cost = (m - 1) * cost + cost /\ (m - 1) * cost \in Nat
    <3>1. m \in Nat /\ m - 1 \in Nat
      BY <1>2
    <3> HIDE DEF m
    <3>2. \A x, y \in Nat : x * y \in Nat /\ (x - 1) * y = x * y - y
      OBVIOUS
    <3>3. m * cost \in Nat /\ (m - 1) * cost = m * cost - cost /\ (m - 1) * cost \in Nat
      BY <1>3, <3>1, <3>2
    <3>4. QED
      BY <1>3, <3>3
  <2>8. Costs(who)' <= money'[who]
    <3> DEFINE r == (m - 1) * cost
               s == m * cost
    <3>1. s = r + cost /\ r \in Nat /\ s + Cardinality(C) <= money[who] /\ Costs(who)' = r + Cardinality(C)
      BY <2>5, <2>6, <2>7
    <3> HIDE DEF r, s, C, m
    <3>2. QED
      BY <1>3, <1>8, <2>4, <2>5, <3>1
  <2>9. IsFiniteSet(Coins(towers'[who], toUpgrade'[who]))
    BY <1>1, <1>6, <2>2, <2>3
  <2>10. QED
    BY <1>1, <2>8, <2>9 DEF Funded, Ordering
<1>23. ASSUME NEW p \in Players PROVE PlayerPart(p)'
  <2>1. Emptied(p)'
    <3>1. toBuild[p] = <<>> => p # who
      BY <1>1 DEF queue
    <3>2. QED
      BY <1>1, <1>7, <3>1, Parts DEF Emptied, Ordering
  <2>2. Funded(p)'
    <3>1. CASE p = who
      BY <1>1, <1>22, <3>1
    <3>2. CASE p # who
      <4>1. towers'[p] = towers[p] /\ toBuild'[p] = toBuild[p] /\ money'[p] = money[p]
        BY <1>6, <1>7, <1>8, <3>2
      <4>2. QED
        BY <1>1, <4>1, Parts DEF Funded, Costs, Ordering
    <3>3. QED
      BY <3>1, <3>2
  <2>3. SuicidesStand(p)'
    BY <1>1, <1>20, Parts DEF SuicidesStand
  <2>4. Targeted(p)'
    <3>1. Ids(Enemy(p)) \subseteq Ids(Enemy(p))'
      BY <1>20, Enemies
    <3>2. \A s \in Troop : MayBeBuried(p, s) => MayBeBuried(p, s)'
      BY <1>1 DEF MayBeBuried
    <3>3. QED
      BY <1>1, <3>1, <3>2, TargetsStaySound
  <2>5. QED
    BY <1>9, <1>18, <1>19, <1>21, <2>1, <2>2, <2>3, <2>4 DEF PlayerPart
<1>24. QED
  BY <1>1, <1>10, <1>15, <1>16, <1>17, <1>23 DEF IInv, InTroop

\* What claims an element among the towers of a list: the survivors and the
\* dead, which are counted as towers.
LEMMA DeathClaims ==
    ASSUME NEW s \in Seq(Tower), NEW c,
           \A i, j \in DOMAIN s : s[i].id = s[j].id => i = j
    PROVE  LET dead == {t \in {u \in Elements(s) : ~IsAlive(u)} : c \in CalculateBounds(t)} IN
           /\ Cardinality(Claims(s, c)) = Cardinality(Claims(Survivors(s), c)) + Cardinality(dead)
           /\ Cardinality(Claims(Survivors(s), c)) \in Nat
           /\ Cardinality(dead) \in Nat
<1> DEFINE dead == {t \in {u \in Elements(s) : ~IsAlive(u)} : c \in CalculateBounds(t)}
           A == {i \in DOMAIN s : IsAlive(s[i]) /\ c \in CalculateBounds(s[i])}
           D == {i \in DOMAIN s : ~IsAlive(s[i]) /\ c \in CalculateBounds(s[i])}
           new == Survivors(s)
           g == [i \in D |-> s[i]]
<1>1. IsFiniteSet(A) /\ IsFiniteSet(D) /\ Cardinality(A) \in Nat /\ Cardinality(D) \in Nat
  BY IndicesFinite
<1>2. Cardinality(dead) = Cardinality(D)
  <2>1. g \in [D -> dead]
    BY DEF Elements
  <2>2. \A i, j \in D : g[i] = g[j] => i = j
    OBVIOUS
  <2>3. \A t \in dead : \E i \in D : g[i] = t
    BY DEF Elements
  <2> HIDE DEF g, D, dead
  <2>4. QED
    BY ZenonT(40), <1>1, <2>1, <2>2, <2>3, SameCount
<1>3. PICK f \in [DOMAIN new -> {i \in DOMAIN s : IsAlive(s[i])}] :
        /\ \A k \in DOMAIN new : new[k] = s[f[k]]
        /\ \A j, k \in DOMAIN new : f[j] = f[k] => j = k
        /\ \A i \in DOMAIN s : IsAlive(s[i]) => \E k \in DOMAIN new : f[k] = i
  BY SurvivorsAreTheLiving
<1>4. Cardinality(A) = Cardinality(Claims(new, c))
  <2> DEFINE C == Claims(new, c)
             h == [k \in C |-> f[k]]
  <2>0. \A k : k \in C <=> k \in DOMAIN new /\ c \in CalculateBounds(new[k])
    BY DEF Claims
  <2>1. \A k \in DOMAIN new : f[k] \in DOMAIN s /\ IsAlive(s[f[k]])
    BY <1>3
  <2>2. IsFiniteSet(C)
    <3>1. C \in SUBSET (DOMAIN new) /\ new \in Seq(Tower)
      BY <2>0, SurvivorsAreTheLiving
    <3> HIDE DEF new, C
    <3>2. QED
      BY <3>1, IndicesFinite
  <2> HIDE DEF new, C
  <2>3. h \in [C -> A]
    BY <1>3, <2>0, <2>1
  <2>4. \A j, k \in C : h[j] = h[k] => j = k
    BY <1>3, <2>0
  <2>5. \A i \in A : \E k \in C : h[k] = i
    <3>1. SUFFICES ASSUME NEW i \in A PROVE \E k \in C : h[k] = i
      OBVIOUS
    <3>2. PICK k \in DOMAIN new : f[k] = i
      BY <1>3
    <3>3. k \in C
      BY <1>3, <2>0, <3>2
    <3>4. QED
      BY <3>2, <3>3
  <2> HIDE DEF h, A
  <2>6. QED
    BY <2>2, <2>3, <2>4, <2>5, SameCount DEF C
<1>5. Claims(s, c) = A \cup D /\ A \cap D = {}
  BY DEF Claims
<1>6. Cardinality(Claims(s, c)) = Cardinality(A) + Cardinality(D)
  <2> HIDE DEF A, D
  <2>1. Cardinality(A \cup D) = Cardinality(A) + Cardinality(D) - Cardinality(A \cap D)
    BY <1>1, FS_Union
  <2>2. Cardinality(A \cap D) = 0
    BY <1>5, FS_EmptySet
  <2>3. QED
    BY <1>1, <1>5, <2>1, <2>2
<1>7. QED
  BY <1>1, <1>2, <1>4, <1>6

\* The dead towers of a player leave the list, the counts and the flags.
LEMMA DeathStep ==
    ASSUME IInv, HandleTowerDeathUpdates
    PROVE  IInv'
<1> DEFINE s == towers[who]
           new == Survivors(s)
           buried == {t.id : t \in Dead(who)}
<1>0. /\ TypeOK /\ Shapes /\ IdsLast /\ OneTowerPerElement
      /\ who \in Players /\ Listed(who)
  BY Parts
<1>1. /\ phase = "update" /\ toBuild[who] = <<>> /\ toUpgrade[who] = <<>> /\ toSuicide[who] = <<>>
      /\ toDelete' = [toDelete EXCEPT ![who] = <<@[2], buried>>]
      /\ towers' = [towers EXCEPT ![who] = new]
      /\ refs' = [refs EXCEPT ![who] = [c \in Offsets |-> @[c] - DeadClaims(who, c)]]
      /\ owners' = [c \in Offsets |->
                       IF DeadClaims(who, c) > 0 /\ refs'[who][c] = 0
                       THEN owners[c] \ {who} ELSE owners[c]]
      /\ \/ who = 0 /\ who' = 1 /\ phase' = "update"
         \/ who = 1 /\ who' = 0 /\ phase' = "soldiers"
      /\ UNCHANGED <<money, toBuild, toUpgrade, toSuicide, nextId, budget, cursor, target>>
  BY <1>0 DEF HandleTowerDeathUpdates, Burying, Players
<1>2. s \in Seq(Tower) /\ \A i, j \in DOMAIN s : s[i].id = s[j].id => i = j
  BY <1>0, ListTypes DEF Listed
<1>3. new \in Seq(Tower) /\ Len(new) <= Len(s) /\ Len(new) \in Nat /\ Len(s) \in Nat
  <2>1. new \in Seq(Tower) /\ Len(new) <= Len(s)
    BY <1>2, SurvivorsAreTheLiving
  <2> HIDE DEF new, s
  <2>2. QED
    BY <1>2, <2>1
<1>4. PICK f \in [DOMAIN new -> {i \in DOMAIN s : IsAlive(s[i])}] :
        /\ \A k \in DOMAIN new : new[k] = s[f[k]]
        /\ \A j, k \in DOMAIN new : f[j] = f[k] => j = k
        /\ \A i \in DOMAIN s : IsAlive(s[i]) => \E k \in DOMAIN new : f[k] = i
        /\ (1 \in DOMAIN s /\ IsAlive(s[1])) => 1 \in DOMAIN new /\ f[1] = 1
  BY <1>2, SurvivorsAreTheLiving
<1>5. \A k \in DOMAIN new : f[k] \in DOMAIN s /\ IsAlive(s[f[k]]) /\ new[k] = s[f[k]]
  BY <1>4
<1> HIDE DEF new, s
<1>6. 1 \in DOMAIN new /\ new[1] = s[1] /\ 1 \in DOMAIN s
  <2>1. 1 \in DOMAIN s
    BY <1>0, BaseListed DEF s
  <2>2. s[1].hp = MaxHps[s[1].level] /\ s[1].level \in Levels
    BY <1>0, <2>1, ListTypes DEF Listed, s
  <2>3. MaxHps[s[1].level] > 0
    BY <2>2, Constants
  <2>4. IsAlive(s[1])
    BY <2>2, <2>3 DEF IsAlive
  <2>5. QED
    BY <1>4, <1>5, <2>1, <2>4
<1>7. /\ towers' \in [Players -> Seq(Tower)]
      /\ towers'[who] = new
      /\ \A p \in Players : p # who => towers'[p] = towers[p]
  BY <1>0, <1>1, <1>3 DEF Shapes
<1>8. /\ toDelete' \in [Players -> (SUBSET Nat) \X (SUBSET Nat)]
      /\ toDelete'[who] = <<toDelete[who][2], buried>>
      /\ \A p \in Players : p # who => toDelete'[p] = toDelete[p]
      /\ buried \subseteq 0 .. nextId - 1
  <2>1. buried \subseteq 0 .. nextId - 1
    BY <1>0 DEF TypeOK, Dead
  <2>2. buried \in SUBSET Nat
    BY <1>0, <2>1, Typed
  <2>3. toDelete \in [Players -> (SUBSET Nat) \X (SUBSET Nat)]
    BY <1>0 DEF Shapes
  <2>4. toDelete[who][2] \in SUBSET Nat
    BY <1>0, <2>3
  <2> HIDE DEF buried
  <2>5. QED
    BY <1>0, <1>1, <2>1, <2>2, <2>3, <2>4
<1>9. ASSUME NEW p \in Players, NEW j \in DOMAIN towers'[p]
      PROVE  \E i \in DOMAIN towers[p] :
                towers'[p][j] = towers[p][i] /\ i = IF p = who THEN f[j] ELSE j
  <2>1. CASE p = who
    BY <1>5, <1>7, <2>1 DEF s
  <2>2. CASE p # who
    BY <1>7, <2>2
  <2>3. QED
    BY <2>1, <2>2
<1>10. OneTowerPerElement'
  <2>1. SUFFICES ASSUME NEW p \in Players, NEW q \in Players,
                        NEW i \in DOMAIN towers'[p], NEW j \in DOMAIN towers'[q],
                        towers'[p][i].offset = towers'[q][j].offset
                 PROVE  p = q /\ i = j
    BY DEF OneTowerPerElement
  <2>2. PICK k \in DOMAIN towers[p] :
            towers'[p][i] = towers[p][k] /\ k = IF p = who THEN f[i] ELSE i
    BY <1>9
  <2>3. PICK l \in DOMAIN towers[q] :
            towers'[q][j] = towers[q][l] /\ l = IF q = who THEN f[j] ELSE j
    BY <1>9
  <2>4. p = q /\ k = l
    BY <1>0, <2>1, <2>2, <2>3 DEF OneTowerPerElement
  <2>5. CASE p = who
    <3>1. i \in DOMAIN new /\ j \in DOMAIN new /\ f[i] = f[j]
      BY <1>7, <2>2, <2>3, <2>4, <2>5
    <3>2. QED
      BY <1>4, <2>4, <3>1
  <2>6. CASE p # who
    BY <2>2, <2>3, <2>4, <2>6
  <2>7. QED
    BY <2>4, <2>5, <2>6
<1>11. Shapes' /\ IdsLast' /\ InTroop'
  <2>1. Shapes'
    BY <1>0, <1>1, <1>7, <1>8 DEF Shapes
  <2>2. IdsLast'
    BY <1>0, <1>1 DEF IdsLast
  <2>3. cursor' = 0
    BY <1>1, Parts DEF Emptied
  <2>4. InTroop'
    BY <2>3, Constants DEF InTroop
  <2>5. QED
    BY <2>1, <2>2, <2>4
<1>12. ASSUME NEW c \in Offsets
       PROVE  /\ refs'[who][c] = Cardinality(Claims(new, c))
              /\ refs'[who][c] \in Nat
              /\ who \in owners'[c] <=> refs'[who][c] > 0
              /\ \A p \in Players : p # who =>
                    refs'[p][c] = refs[p][c] /\ (p \in owners'[c] <=> p \in owners[c])
  <2> DEFINE claims == Cardinality(Claims(new, c))
             dead == DeadClaims(who, c)
  <2>1. refs[who][c] = claims + dead /\ claims \in Nat /\ dead \in Nat
    <3>1. /\ Cardinality(Claims(s, c)) = claims
               + Cardinality({t \in {u \in Elements(s) : ~IsAlive(u)} : c \in CalculateBounds(t)})
          /\ claims \in Nat
          /\ Cardinality({t \in {u \in Elements(s) : ~IsAlive(u)} : c \in CalculateBounds(t)}) \in Nat
      BY <1>2, DeathClaims DEF new
    <3>2. dead = Cardinality({t \in {u \in Elements(s) : ~IsAlive(u)} : c \in CalculateBounds(t)})
      BY DEF DeadClaims, Dead, s
    <3>3. refs[who][c] = Cardinality(Claims(s, c))
      BY <1>0, Parts DEF Territory, s
    <3>4. QED
      BY <3>1, <3>2, <3>3
  <2>2. who \in owners[c] <=> refs[who][c] > 0
    BY <1>0, Parts DEF Territory
  <2> HIDE DEF claims, dead
  <2>3. refs \in [Players -> [Offsets -> Nat]] /\ owners \in [Offsets -> SUBSET Players]
    BY <1>0 DEF TypeOK
  <2>4. refs'[who][c] = refs[who][c] - DeadClaims(who, c)
    BY <1>0, <1>1, <2>3
  <2>5. refs'[who][c] = claims
    BY <2>1, <2>4 DEF dead
  <2>6. who \in owners'[c] <=> who \in owners[c] /\ ~(dead > 0 /\ refs'[who][c] = 0)
    BY <1>1 DEF dead
  <2>7. who \in owners'[c] <=> refs'[who][c] > 0
    BY ONLY <2>1, <2>2, <2>5, <2>6
  <2>8. \A p \in Players : p # who =>
            refs'[p][c] = refs[p][c] /\ (p \in owners'[c] <=> p \in owners[c])
    BY <1>0, <1>1, <2>3
  <2>9. QED
    BY <2>1, <2>5, <2>7, <2>8 DEF claims
<1>13. /\ refs' \in [Players -> [Offsets -> Nat]]
       /\ owners' \in [Offsets -> SUBSET Players]
       /\ \A p \in Players : Territory(p)'
  <2>1. refs \in [Players -> [Offsets -> Nat]] /\ owners \in [Offsets -> SUBSET Players]
    BY <1>0 DEF TypeOK
  <2>2. owners' \in [Offsets -> SUBSET Players]
    BY <1>1, <2>1
  <2>3. refs' \in [Players -> [Offsets -> Nat]]
    <3> DEFINE left == [c \in Offsets |-> refs[who][c] - DeadClaims(who, c)]
    <3>1. refs'[who] = left
      BY <1>0, <1>1, <2>1
    <3>2. left \in [Offsets -> Nat]
      BY <1>12, <3>1
    <3>3. refs' = [refs EXCEPT ![who] = left]
      BY <1>1
    <3> HIDE DEF left
    <3>4. QED
      BY <2>1, <3>2, <3>3
  <2>4. ASSUME NEW p \in Players, NEW c \in Offsets
        PROVE  /\ refs'[p][c] = Cardinality(Claims(towers'[p], c))
               /\ p \in owners'[c] <=> refs'[p][c] > 0
    <3>1. CASE p = who
      BY <1>7, <1>12, <3>1
    <3>2. CASE p # who
      BY <1>7, <1>12, <3>2, Parts DEF Territory
    <3>3. QED
      BY <3>1, <3>2
  <2>5. QED
    BY <2>2, <2>3, <2>4 DEF Territory
<1>14. TypeOK'
  <2>1. ASSUME NEW p \in Players, NEW u \in Elements(towers'[p])
        PROVE  /\ u.id \in 0 .. nextId - 1
               /\ u.offset \in Offsets
               /\ u.level \in Levels
               /\ u.hp \in 0 .. MaxHps[u.level]
               /\ u.isBase \in BOOLEAN
    <3>1. u \in Elements(towers[p])
      BY <1>9 DEF Elements
    <3>2. QED
      BY <1>0, <3>1 DEF TypeOK
  <2>2. \A p \in Players : \A k \in 1 .. 2 : toDelete'[p][k] \subseteq 0 .. nextId - 1
    <3>1. \A p \in Players : \A k \in 1 .. 2 : toDelete[p][k] \subseteq 0 .. nextId - 1
      BY <1>0 DEF TypeOK
    <3>2. toDelete'[who][1] = toDelete[who][2] /\ toDelete'[who][2] = buried
      BY <1>8
    <3> HIDE DEF buried
    <3>3. QED
      BY <1>0, <1>8, <3>1, <3>2
  <2>3. /\ money' \in [Players -> 0 .. MaxMoney] /\ budget' \in [Players -> 0 .. MaxMoney]
        /\ phase' \in {"towerTasks", "soldierTasks", "update", "soldiers", "late"}
        /\ who' \in Players
        /\ cursor' \in 0 .. MapSize * MapSize + NumSoldiers + MaxNumTowers
        /\ nextId' \in 2 .. ActorIdBound
    BY <1>0, <1>1 DEF TypeOK, Players
  <2>4. \A p \in Players :
            /\ Elements(toBuild'[p]) \subseteq Offsets
            /\ Elements(toUpgrade'[p]) \cup Elements(toSuicide'[p]) \subseteq 0 .. nextId - 1
            /\ \A r \in Troop : target'[p][r] \in {NoTarget} \cup 0 .. nextId - 1
    BY <1>0, <1>1 DEF TypeOK
  <2>5. nextId' = nextId
    BY <1>1
  <2>6. QED
    BY <1>13, <2>1, <2>2, <2>3, <2>4, <2>5 DEF TypeOK
<1>15. ASSUME NEW p \in Players PROVE Listed(p)'
  <2>1. CASE p = who
    <3>1. \A i, j \in DOMAIN new : new[i].id = new[j].id => i = j
      BY <1>2, <1>4, <1>5
    <3>2. Len(new) + Len(toBuild[who]) <= MaxNumTowers
      <4>1. Len(s) + Len(toBuild[who]) <= MaxNumTowers /\ MaxNumTowers \in Nat
        BY <1>0, Constants DEF Listed, s
      <4>2. Len(toBuild[who]) = 0
        BY <1>1
      <4>3. QED
        BY <1>3, <4>1, <4>2
    <3>3. /\ new[1].id = who /\ new[1].isBase /\ new[1].offset = Base[who]
          /\ new[1].hp = MaxHps[new[1].level] /\ new # <<>>
      BY <1>0, <1>6 DEF Listed, s
    <3>4. towers'[p] = new /\ toBuild'[p] = toBuild[who]
      BY <1>1, <1>7, <2>1
    <3>5. QED
      BY <2>1, <3>1, <3>2, <3>3, <3>4 DEF Listed
  <2>2. CASE p # who
    <3> DEFINE ts == towers[p]
    <3>1. /\ \A i, j \in DOMAIN ts : ts[i].id = ts[j].id => i = j
          /\ Len(ts) + Len(toBuild[p]) <= MaxNumTowers
          /\ ts # <<>> /\ ts[1].id = p /\ ts[1].isBase /\ ts[1].offset = Base[p]
          /\ ts[1].hp = MaxHps[ts[1].level]
      BY Parts DEF Listed
    <3>2. towers'[p] = ts /\ toBuild' = toBuild
      BY <1>1, <1>7, <2>2
    <3> HIDE DEF ts
    <3>3. QED
      BY <3>1, <3>2 DEF Listed
  <2>3. QED
    BY <2>1, <2>2
<1>16. ASSUME NEW p \in Players PROVE Emptied(p)'
  <2>1. CASE who = 0
    <3>1. who' = 1 /\ phase' = "update" /\ p \in {0, 1}
      BY <1>1, <2>1 DEF Players
    <3>2. cursor' = 0
      BY <1>1, Parts DEF Emptied
    <3>3. QED
      BY <1>1, <2>1, <3>1, <3>2 DEF Emptied, Ordering
  <2>2. CASE who = 1
    <3>1. who' = 0 /\ phase' = "soldiers" /\ p \in {0, 1}
      BY <1>1, <2>2 DEF Players
    <3>2. p = 0 => toBuild[p] = <<>> /\ toUpgrade[p] = <<>> /\ toSuicide[p] = <<>>
      BY <1>1, <2>2, Parts DEF Emptied, Ordering
    <3>3. QED
      BY <1>1, <2>2, <3>1, <3>2 DEF Emptied, Ordering
  <2>3. QED
    BY <1>0, <2>1, <2>2 DEF Players
<1>17. ASSUME NEW p \in Players
       PROVE  UpgradesStand(p)' /\ SuicidesStand(p)' /\ SitesStand(p)' /\ Funded(p)'
  <2>1. CASE p = who
    <3>1. toBuild'[p] = <<>> /\ toUpgrade'[p] = <<>> /\ toSuicide'[p] = <<>>
      BY <1>1, <2>1
    <3>2. IsFiniteSet(Coins(towers'[p], <<>>))
      BY NoCoins
    <3>3. ~Ordering' /\ ~(phase' = "update" /\ p >= who')
      BY <1>1, <2>1 DEF Ordering
    <3>4. QED
      BY <3>1, <3>2, <3>3 DEF UpgradesStand, SuicidesStand, SitesStand, Funded
  <2>2. CASE p # who
    <3>1. towers'[p] = towers[p] /\ UNCHANGED <<money, toBuild, toUpgrade, toSuicide, budget>>
      BY <1>1, <1>7, <2>2
    <3>2. ~Ordering' /\ phase' # "towerTasks" /\ phase' # "soldierTasks"
      BY <1>1 DEF Ordering
    <3>3. UpgradesStand(p)'
      <4>1. /\ \A j \in DOMAIN toUpgrade[p] : \E k \in DOMAIN towers[p] :
                  towers[p][k].id = toUpgrade[p][j] /\ towers[p][k].level # Len(BuildCosts)
            /\ \A j, k \in DOMAIN toUpgrade[p] : toUpgrade[p][j] = toUpgrade[p][k] => j = k
        BY Parts DEF UpgradesStand
      <4>2. QED
        BY <3>1, <3>2, <4>1 DEF UpgradesStand
    <3>4. SuicidesStand(p)'
      BY <3>1, Parts DEF SuicidesStand, Ids
    <3>5. SitesStand(p)'
      <4>1. SUFFICES ASSUME NEW k \in DOMAIN toBuild[p]
                     PROVE  /\ \A q \in Players : \A i \in DOMAIN towers'[q] :
                                  towers'[q][i].offset # toBuild[p][k]
                            /\ \A q \in Players : \A j \in DOMAIN toBuild[q] :
                                  toBuild[q][j] = toBuild[p][k] => p = q /\ j = k
        BY <3>1, <3>2 DEF SitesStand
      <4>2. /\ \A q \in Players : \A i \in DOMAIN towers[q] : towers[q][i].offset # toBuild[p][k]
            /\ \A q \in Players : \A j \in DOMAIN toBuild[q] :
                  toBuild[q][j] = toBuild[p][k] => p = q /\ j = k
        BY Parts DEF SitesStand
      <4>3. QED
        BY <1>9, <4>2
    <3>6. Funded(p)'
      <4>1. phase' = "update" /\ p >= who' => p >= who
        BY <1>1, <2>2 DEF Players
      <4>2. Funded(p) /\ Costs(p)' = Costs(p)
        BY <3>1, Parts DEF Costs
      <4>3. QED
        BY <1>1, <3>1, <3>2, <4>1, <4>2 DEF Funded
    <3>7. QED
      BY <3>3, <3>4, <3>5, <3>6
  <2>3. QED
    BY <2>1, <2>2
<1>18. ASSUME NEW p \in Players, NEW r \in Troop PROVE Sound(p, r)'
  <2>1. SUFFICES ASSUME target[p][r] # NoTarget
                 PROVE  /\ target[p][r] # Enemy(p)
                        /\ \/ target[p][r] \in Ids(Enemy(p))'
                           \/ MayBeBuried(p, r)' /\ target[p][r] \in toDelete'[Enemy(p)][2]
    BY <1>1 DEF Sound
  <2>2. /\ target[p][r] # Enemy(p)
        /\ \/ target[p][r] \in Ids(Enemy(p))
           \/ MayBeBuried(p, r) /\ target[p][r] \in toDelete[Enemy(p)][2]
    BY <2>1, Parts DEF Targeted, Sound
  <2>3. CASE Enemy(p) = who
    <3>1. MayBeBuried(p, r)'
      <4>1. cursor' = 0
        BY <1>1, Parts DEF Emptied
      <4>2. QED
        BY <1>1, <2>3, <4>1, Constants DEF MayBeBuried, Enemy, Players, Troop
    <3>2. target[p][r] \in Ids(who)
      <4>1. ~MayBeBuried(p, r)
        BY <1>0, <1>1, <2>3 DEF MayBeBuried, Players
      <4>2. QED
        BY <2>2, <2>3, <4>1
    <3>3. PICK i \in DOMAIN s : s[i].id = target[p][r]
      BY <3>2 DEF Ids, s
    <3>4. CASE IsAlive(s[i])
      <4>1. PICK k \in DOMAIN new : new[k] = s[i]
        BY <1>4, <1>5, <3>4
      <4>2. target[p][r] \in Ids(Enemy(p))'
        <5>1. towers'[Enemy(p)] = new
          BY <1>7, <2>3
        <5>2. target[p][r] = new[k].id
          BY <3>3, <4>1
        <5>3. QED
          BY <5>1, <5>2 DEF Ids
      <4>3. QED
        BY <2>2, <2>3, <4>2
    <3>5. CASE ~IsAlive(s[i])
      <4>1. target[p][r] \in buried
        BY <3>3, <3>5 DEF Dead, Elements, s
      <4>2. target[p][r] \in toDelete'[who][2]
        BY <1>8, <4>1
      <4>3. QED
        BY <2>2, <2>3, <3>1, <4>2
    <3>6. QED
      BY <3>4, <3>5
  <2>4. CASE Enemy(p) # who
    <3>1. towers'[Enemy(p)] = towers[Enemy(p)] /\ toDelete'[Enemy(p)] = toDelete[Enemy(p)]
      BY <1>7, <1>8, <2>4, Enemies
    <3>2. Ids(Enemy(p))' = Ids(Enemy(p))
      BY <3>1 DEF Ids
    <3>3. MayBeBuried(p, r) => MayBeBuried(p, r)'
      <4>1. p = who
        BY <1>0, <2>4 DEF Enemy, Players
      <4>2. QED
        BY <1>1, <4>1 DEF MayBeBuried, Enemy
    <3>4. QED
      BY <2>2, <3>1, <3>2, <3>3
  <2>5. QED
    BY <2>3, <2>4
<1>19. ASSUME NEW p \in Players PROVE PlayerPart(p)'
  BY <1>13, <1>15, <1>16, <1>17, <1>18 DEF PlayerPart, Targeted
<1>20. QED
  BY <1>10, <1>11, <1>14, <1>19 DEF IInv

-----------------------------------------------------------------------------
(* The theorems.                                                           *)

LEMMA NextIInv ==
    ASSUME IInv, [Next]_vars
    PROVE  IInv'
<1>1. CASE TowerTasks
  BY <1>1, UpgradeTowerStep, SuicideTowerStep, EndTowerTasks DEF TowerTasks
<1>2. CASE SoldierTasks
  <2>1. ASSUME NEW s \in Troop, NEW id, AttackTower(s, id) PROVE IInv'
    BY <2>1, TargetStep
  <2>2. ASSUME NEW s \in Troop, GoElsewhere(s) PROVE IInv'
    BY <2>2, TargetStep
  <2>3. QED
    BY <1>2, <2>1, <2>2, BuildTowerStep, EndSoldierTasks DEF SoldierTasks
<1>3. CASE ManagerUpdate
  BY <1>3, BuildStep, UpgradeStep, SuicideStep, DeathStep DEF ManagerUpdate
<1>4. CASE SoldiersUpdate
  BY <1>4, StrikeStep, KillSoldierStep, DropTargetStep, PassOnStep, LateUpdateStep
  DEF SoldiersUpdate
<1>5. CASE UNCHANGED vars
  <2>1. UNCHANGED stateVars /\ UNCHANGED <<budget, phase, who, cursor, target>>
    BY <1>5 DEF vars
  <2>2. UNCHANGED <<money, towers, toBuild, toUpgrade, toSuicide, toDelete, refs, owners, nextId>>
    BY <2>1, StateKept
  <2>3. TypeOK' /\ Shapes' /\ InTroop'
    BY <2>1, <2>2, Parts DEF TypeOK, Shapes, InTroop
  <2>4. ASSUME NEW p \in Players PROVE PlayerPart(p)'
    <3>1. Emptied(p)' /\ UpgradesStand(p)'
      BY <2>1, <2>2, Parts DEF Emptied, Ordering, UpgradesStand
    <3>2. SitesStand(p)'
      BY <2>1, <2>2, Parts DEF SitesStand, Ordering
    <3>3. Funded(p)'
      BY <2>1, <2>2, Parts, StateKept DEF Funded, Ordering
    <3>4. Targeted(p)'
      <4>1. \A s \in Troop : MayBeBuried(p, s) => MayBeBuried(p, s)'
        BY <2>1 DEF MayBeBuried
      <4>2. QED
        BY <2>1, <2>2, <4>1, StateKept, TargetsStaySound
    <3>5. QED
      BY <2>1, <3>1, <3>2, <3>3, <3>4, StateKept DEF PlayerPart
  <2>5. QED
    BY <2>1, <2>3, <2>4, StateKept DEF IInv
<1>6. QED
  BY <1>1, <1>2, <1>3, <1>4, <1>5 DEF Next

\* What holds of the lists, the queues, the money, the counts and the targets
\* in every state, also of behaviours that stop.
THEOREM Safety == Init /\ [][Next]_vars => []IInv
<1>1. Init => IInv
  BY InitIInv
<1>2. IInv /\ [Next]_vars => IInv'
  BY NextIInv
<1>3. QED
  BY <1>1, <1>2, PTL

\* So it does under the fairness of a main driver that goes on.
THEOREM Invariance == Spec => []IInv
BY Safety, PTL DEF Spec

\* Balances stay within their cap, healths within those of the levels, and
\* every other variable is what the code declares it to be.
THEOREM TypeCorrect == Spec => []TypeOK
<1>1. IInv => TypeOK
  BY DEF IInv
<1>2. QED
  BY <1>1, Invariance, PTL

\* The entry at the head of a queue can be handled.
LEMMA CarriedOut == ASSUME IInv PROVE NeverThrows
<1>1. SUFFICES ASSUME Throws PROVE FALSE
  BY DEF NeverThrows
<1>2. /\ TypeOK /\ Shapes /\ who \in Players
      /\ Listed(who) /\ UpgradesStand(who) /\ SuicidesStand(who) /\ Funded(who)
  BY Parts
<1>3. phase = "update"
  BY <1>1 DEF Throws, Building, Upgrading, Suiciding
<1> DEFINE C == Coins(towers[who], toUpgrade[who])
           builds == Len(toBuild[who])
<1>4. /\ builds * BuildCosts[1] + Cardinality(C) <= money[who]
      /\ builds \in Nat /\ BuildCosts[1] \in Nat /\ Cardinality(C) \in Nat
      /\ money[who] \in Nat
  <2>1. who >= who
    BY <1>2 DEF Players
  <2>2. BuildCosts[1] \in Nat
    BY Constants
  <2>3. QED
    BY <1>2, <1>3, <2>1, <2>2, CostsType, Typed DEF Funded, Costs
<1>5. CASE Building /\ ~CanDecrease(who, BuildCosts[1])
  <2>1. builds > 0
    BY <1>2, <1>4, <1>5, ListTypes DEF Building
  <2> HIDE DEF builds, C
  <2>2. \A m, n, k, l \in Nat : m > 0 /\ m * n + k <= l => n <= l
    <3>1. SUFFICES ASSUME NEW m \in Nat, NEW n \in Nat, NEW k \in Nat, NEW l \in Nat,
                          m > 0, m * n + k <= l
                   PROVE  n <= l
      OBVIOUS
    <3>2. (m - 1) * n \in Nat /\ m * n = (m - 1) * n + n
      <4>1. m - 1 \in Nat
        BY <3>1
      <4>2. QED
        BY <4>1
    <3>3. QED
      BY <3>1, <3>2
  <2>3. BuildCosts[1] <= money[who]
    BY <1>4, <2>1, <2>2
  <2>4. QED
    BY <1>5, <2>3 DEF CanDecrease
<1>6. CASE Upgrading /\ ~Upgradable(who, Head(toUpgrade[who]))
  <2> DEFINE id == Head(toUpgrade[who])
             i == IndexOf(who, id)
             cost == BuildCosts[towers[who][i].level + 1]
  <2>1. toUpgrade[who] # <<>> /\ toUpgrade[who] \in Seq(Nat)
    BY <1>2, <1>6, ListTypes DEF Upgrading
  <2>2. 1 \in DOMAIN toUpgrade[who] /\ id = toUpgrade[who][1] /\ id \in Elements(toUpgrade[who])
    BY <2>1, TailFacts DEF Elements
  <2>3. PICK k \in DOMAIN towers[who] :
          towers[who][k].id = id /\ towers[who][k].level # Len(BuildCosts)
    BY <1>2, <2>2 DEF UpgradesStand
  <2>4. id \in Ids(who) /\ i = k
    BY <1>2, <2>3, IndexOfId
  <2>5. towers[who][i].level \in Levels /\ towers[who][i].level + 1 \in Levels /\ cost \in Nat
    <3>1. towers[who][k].level \in Levels
      BY <1>2, <2>3, ListTypes
    <3>2. towers[who][k].level + 1 \in Levels
      BY <2>3, <3>1, Constants
    <3>3. QED
      BY <2>4, <3>1, <3>2, Constants
  <2>6. {i} \X (1 .. cost) \subseteq C
    <3>1. towers[who][i].id \in Elements(toUpgrade[who]) /\ i \in DOMAIN towers[who]
      BY <2>2, <2>3, <2>4
    <3>2. QED
      BY <3>1, CoinsIn
  <2>7. cost <= Cardinality(C)
    <3> DEFINE E == {i} \X (1 .. cost)
    <3>1. Cardinality(E) = cost
      <4>1. IsFiniteSet({}) /\ Cardinality({}) = 0
        BY FS_EmptySet
      <4>2. \A n \in Nat : Cardinality({} \cup ({i} \X (1 .. n))) = Cardinality({}) + n
        BY ONLY <4>1, AddedPairs
      <4> HIDE DEF cost, i
      <4>3. {} \cup E = E
        OBVIOUS
      <4>4. QED
        BY <2>5, <4>1, <4>2, <4>3
    <3>2. IsFiniteSet(C)
      BY <1>2 DEF Funded
    <3> HIDE DEF C, E
    <3>3. Cardinality(E) <= Cardinality(C)
      BY <2>6, <3>2, FS_Subset DEF E
    <3>4. QED
      BY <3>1, <3>3
  <2>8. builds = 0
    BY <1>6 DEF Upgrading
  <2>9. cost <= money[who]
    <3> HIDE DEF C, cost, builds
    <3>1. 0 * BuildCosts[1] = 0
      BY <1>4
    <3>2. QED
      BY <1>4, <2>5, <2>7, <2>8, <3>1
  <2>10. QED
    BY <1>6, <2>3, <2>4, <2>9 DEF Upgradable, CanDecrease
<1>7. CASE Suiciding /\ Head(toSuicide[who]) \notin Ids(who)
  <2>1. toSuicide[who] # <<>> /\ toSuicide[who] \in Seq(Nat)
    BY <1>2, <1>7, ListTypes DEF Suiciding
  <2>2. 1 \in DOMAIN toSuicide[who] /\ Head(toSuicide[who]) = toSuicide[who][1]
    BY <2>1, TailFacts
  <2>3. QED
    BY <1>2, <1>7, <2>2 DEF SuicidesStand
<1>8. QED
  BY <1>1, <1>5, <1>6, <1>7 DEF Throws

\* No order that StateSyncer accepts makes a TowerManager throw: the money for
\* it is still there when its turn comes, and so is the tower.
THEOREM OrdersCanBeCarriedOut == Spec => []NeverThrows
<1>1. IInv => NeverThrows
  BY CarriedOut
<1>2. QED
  BY <1>1, Invariance, PTL

LEMMA Fitting == ASSUME IInv PROVE TowersFit
BY Fits DEF TowersFit

\* The towers of a player fit into the array of its shared state: commands count
\* what is already queued.
THEOREM TowersFitTheArray == Spec => []TowersFit
<1>1. IInv => TowersFit
  BY Fitting
<1>2. QED
  BY <1>1, Invariance, PTL

\* Two towers never stand on one map element, although the commands of both
\* players are checked before the first of them is carried out.
THEOREM OneTowerEach == Spec => []OneTowerPerElement
<1>1. IInv => OneTowerPerElement
  BY DEF IInv
<1>2. QED
  BY <1>1, Invariance, PTL

\* Towers of different ids are counted as often as their places on the list.
LEMMA TrueTerritory == ASSUME IInv PROVE TerritoryMatchesTowers
<1>1. ASSUME NEW p \in Players, NEW c \in Offsets
      PROVE  Cardinality({t \in Elements(towers[p]) : c \in CalculateBounds(t)})
               = Cardinality(Claims(towers[p], c))
  <2> DEFINE s == towers[p]
             I == Claims(s, c)
             T == {t \in Elements(s) : c \in CalculateBounds(t)}
             g == [i \in I |-> s[i]]
  <2>1. s \in Seq(Tower) /\ \A i, j \in DOMAIN s : s[i].id = s[j].id => i = j
    BY Parts, ListTypes DEF Listed
  <2> HIDE DEF s
  <2>2. I \in SUBSET (DOMAIN s)
    BY DEF Claims
  <2>3. IsFiniteSet(I)
    <3> HIDE DEF I
    <3>1. QED
      BY <2>1, <2>2, IndicesFinite
  <2>4. g \in [I -> T]
    BY DEF Claims, Elements
  <2>5. \A i, j \in I : g[i] = g[j] => i = j
    BY <2>1, <2>2
  <2>6. \A t \in T : \E i \in I : g[i] = t
    BY DEF Claims, Elements
  <2>7. Cardinality(T) = Cardinality(I)
    <3> HIDE DEF g, I, T
    <3>1. QED
      BY <2>3, <2>4, <2>5, <2>6, SameCount
  <2>8. QED
    BY <2>7 DEF s
<1>2. \A p \in Players : Territory(p)
  BY Parts
<1>3. \A p \in Players, c \in Offsets :
        Cardinality({t \in Elements(towers[p]) : c \in CalculateBounds(t)})
             = Cardinality(Claims(towers[p], c))
  BY <1>1
<1>4. QED
  BY <1>2, <1>3 DEF Territory, TerritoryMatchesTowers

\* The counts and the flags of the map elements are those of the standing
\* towers' ranges, whatever is built, upgraded, killed and buried.
THEOREM TerritoryIsTrue == Spec => []TerritoryMatchesTowers
<1>1. IInv => TerritoryMatchesTowers
  BY TrueTerritory
<1>2. QED
  BY <1>1, Invariance, PTL

\* A target is on the list, or was buried in this turn.
LEMMA Remembered == ASSUME IInv PROVE TargetsAreKept
<1>1. SUFFICES ASSUME NEW p \in Players, NEW s \in Troop, target[p][s] # NoTarget
               PROVE  target[p][s] \in Ids(Enemy(p)) \cup UNION Elements(toDelete[Enemy(p)])
  BY DEF TargetsAreKept
<1>2. target[p][s] \in Ids(Enemy(p)) \/ target[p][s] \in toDelete[Enemy(p)][2]
  BY <1>1, Parts DEF Targeted, Sound
<1>3. toDelete[Enemy(p)][2] \in Elements(toDelete[Enemy(p)])
  <2>1. toDelete[Enemy(p)] \in (SUBSET Nat) \X (SUBSET Nat)
    BY Parts, Enemies DEF Shapes
  <2>2. 2 \in DOMAIN toDelete[Enemy(p)]
    BY <2>1
  <2>3. QED
    BY <2>2 DEF Elements
<1>4. QED
  BY <1>2, <1>3

\* The tower that soldiers have as their target is on the enemy's list or among
\* the dead that are still in memory.
THEOREM TargetsStayInMemory == Spec => []TargetsAreKept
<1>1. IInv => TargetsAreKept
  BY Remembered
<1>2. QED
  BY <1>1, Invariance, PTL

\* The map elements are finitely many.
LEMMA OffsetsFinite == IsFiniteSet(Offsets)
<1>1. MapSize \in Nat
  BY Constants
<1>2. IsFiniteSet(0 .. MapSize - 1)
  BY <1>1, FS_Interval
<1>3. QED
  BY <1>2, FS_Product DEF Offsets

LEMMA StandingBases == ASSUME IInv PROVE BasesStand
<1>1. ASSUME NEW p \in Players
      PROVE  /\ towers[p][1].isBase
             /\ towers[p][1].hp = MaxHps[towers[p][1].level]
             /\ Score(p) >= Cardinality(CalculateBounds(NewTower(0, Base[p], TRUE)))
  <2> DEFINE base == towers[p][1]
             first == NewTower(0, Base[p], TRUE)
             area == CalculateBounds(first)
             owned == {c \in Offsets : p \in owners[c]}
  <2>1. /\ base.isBase /\ base.hp = MaxHps[base.level] /\ base.offset = Base[p]
        /\ 1 \in DOMAIN towers[p] /\ base \in Tower /\ base.level \in Levels
    BY Parts, BaseListed, ListTypes DEF Listed
  <2>2. first \in Tower /\ first.offset = Base[p] /\ first.level = 1
    <3>1. 1 \in Levels /\ MaxHps[1] \in Nat /\ Base[p] \in Offsets
      BY Constants
    <3>2. QED
      BY <3>1 DEF NewTower, Tower
  <2>3. first.level <= base.level
    <3>1. Levels = 1 .. Len(BuildCosts) /\ Len(BuildCosts) \in Nat
      BY Constants
    <3> HIDE DEF base, first
    <3>2. QED
      BY <2>1, <2>2, <3>1
  <2>4. area \subseteq CalculateBounds(base)
    <3> HIDE DEF base, first
    <3>1. QED
      BY <2>1, <2>2, <2>3, RangesGrow
  <2>5. ASSUME NEW c \in CalculateBounds(base) PROVE c \in owned
    <3>1. c \in Offsets
      BY DEF CalculateBounds
    <3>2. 1 \in Claims(towers[p], c)
      BY <2>1 DEF Claims
    <3>3. /\ IsFiniteSet(Claims(towers[p], c)) /\ Cardinality(Claims(towers[p], c)) \in Nat
      <4>1. towers[p] \in Seq(Tower) /\ Claims(towers[p], c) \in SUBSET (DOMAIN towers[p])
        BY Parts, ListTypes DEF Claims
      <4>2. QED
        BY <4>1, IndicesFinite
    <3>4. Cardinality(Claims(towers[p], c)) # 0
      BY <3>2, <3>3, FS_EmptySet
    <3>5. refs[p][c] = Cardinality(Claims(towers[p], c)) /\ (p \in owners[c] <=> refs[p][c] > 0)
      BY <3>1, Parts DEF Territory
    <3>6. p \in owners[c]
      BY <3>3, <3>4, <3>5
    <3>7. QED
      BY <3>1, <3>6
  <2>6. IsFiniteSet(owned) /\ area \subseteq owned
    <3>1. area \subseteq owned
      BY <2>4, <2>5
    <3>2. owned \subseteq Offsets
      OBVIOUS
    <3> HIDE DEF owned
    <3>3. IsFiniteSet(owned)
      BY <3>2, OffsetsFinite, FS_Subset
    <3>4. QED
      BY <3>1, <3>3
  <2>7. Cardinality(area) <= Cardinality(owned) /\ Cardinality(owned) \in Nat /\ Cardinality(area) \in Nat
    <3> HIDE DEF area, owned
    <3>1. QED
      BY <2>6, FS_Subset, FS_CardinalityType
  <2>8. Score(p) = Cardinality(owned)
    BY DEF Score
  <2>9. Score(p) >= Cardinality(area)
    <3> HIDE DEF area, owned
    <3>1. QED
      BY <2>7, <2>8
  <2>10. QED
    BY <2>1, <2>9
<1>2. QED
  BY <1>1 DEF BasesStand

\* A player never loses its base: it scores at least the territory the base
\* had when the game began.
THEOREM BasesAlwaysStand == Spec => []BasesStand
<1>1. IInv => BasesStand
  BY StandingBases
<1>2. QED
  BY <1>1, Invariance, PTL

-----------------------------------------------------------------------------
(* What the players are shown.  FlipMap is a fold over a set, so what it    *)
(* returns is a matter of induction on the size of the set: the least      *)
(* counterexample is taken, which is not empty, and one element less is no *)
(* counterexample.                                                         *)

\* A set of naturals that is not empty has a least member, for the intervals
\* from zero are well-founded under inclusion.
LEMMA LeastNatural ==
    ASSUME NEW T, T \subseteq Nat, T # {}
    PROVE  \E n \in T : \A m \in T : n <= m
<1> DEFINE U == {0 .. n : n \in T}
<1>1. IsWellFoundedOn(StrictSubsetOrdering(Nat), FiniteSubsetsOf(Nat))
  BY FS_StrictSubsetOrderingWellFounded
<1>2. U \subseteq FiniteSubsetsOf(Nat)
  <2>1. \A n \in T : IsFiniteSet(0 .. n)
    BY FS_Interval
  <2> QED
    BY <2>1 DEF FiniteSubsetsOf
<1>3. U # {}
  OBVIOUS
<1>4. \E x \in U : \A y \in U : <<y, x>> \notin StrictSubsetOrdering(Nat)
  <2> HIDE DEF U
  <2> QED
    BY <1>1, <1>2, <1>3, WFMin
<1>5. PICK n \in T : \A m \in T : <<0 .. m, 0 .. n>> \notin StrictSubsetOrdering(Nat)
  BY <1>4
<1>6. \A m \in T : m < n => <<0 .. m, 0 .. n>> \in StrictSubsetOrdering(Nat)
  <2> SUFFICES ASSUME NEW m \in T, m < n
               PROVE  <<0 .. m, 0 .. n>> \in StrictSubsetOrdering(Nat)
    OBVIOUS
  <2>1. 0 .. m \subseteq Nat /\ 0 .. n \subseteq Nat /\ 0 .. m \subseteq 0 .. n
    OBVIOUS
  <2>2. n \in 0 .. n /\ n \notin 0 .. m
    OBVIOUS
  <2> QED
    BY <2>1, <2>2 DEF StrictSubsetOrdering
<1>7. \A m \in T : ~ (m < n) => n <= m
  OBVIOUS
<1> QED
  BY <1>5, <1>6, <1>7

\* One of a set, as FoldSet takes it.
Chosen(s) == CHOOSE x \in s : TRUE

LEMMA ChosenIsIn == \A s : s # {} => Chosen(s) \in s
  BY DEF Chosen

\* The result of turning the elements of s, if that of the others is f.
TurnNext(f, map, s) == IF s = {} THEN map ELSE SwapElements(Chosen(s), f[s \ {Chosen(s)}])

\* f gives the results for the subsets of S that have at most n members.
FoldsUpTo(f, map, S, n) ==
    f = [s \in {t \in SUBSET S : Cardinality(t) <= n} |-> TurnNext(f, map, s)]

\* Such a function, element by element.
LEMMA FoldsByElement ==
    ASSUME NEW f, NEW map, NEW S, NEW n \in Nat, FoldsUpTo(f, map, S, n),
           NEW s \in SUBSET S, Cardinality(s) <= n
    PROVE  f[s] = TurnNext(f, map, s)
<1> DEFINE R(t) == TurnNext(f, map, t)
           D == {t \in SUBSET S : Cardinality(t) <= n}
<1>1. f = [t \in D |-> R(t)]
  BY DEF FoldsUpTo
<1>2. s \in D
  OBVIOUS
<1> HIDE DEF R, D
<1>3. f[s] = R(s)
  BY <1>1, <1>2
<1> QED
  BY <1>3 DEF R

LEMMA FoldsExist ==
    ASSUME NEW map, NEW S, IsFiniteSet(S)
    PROVE  \A n \in Nat : \E f : FoldsUpTo(f, map, S, n)
<1> DEFINE D(n) == {t \in SUBSET S : Cardinality(t) <= n}
           Bad == {n \in Nat : ~ \E f : FoldsUpTo(f, map, S, n)}
<1>0. SUFFICES ASSUME Bad # {} PROVE FALSE
  OBVIOUS
<1>1. \A s \in SUBSET S : IsFiniteSet(s) /\ Cardinality(s) \in Nat
  BY FS_Subset, FS_CardinalityType
<1>2. \A s \in SUBSET S : s # {} =>
          s \ {Chosen(s)} \in SUBSET S /\ Cardinality(s \ {Chosen(s)}) = Cardinality(s) - 1
  BY <1>1, ChosenIsIn, FS_RemoveElement
<1>3. PICK n \in Bad : \A m \in Bad : n <= m
  <2>1. Bad \subseteq Nat
    OBVIOUS
  <2> HIDE DEF Bad
  <2> QED
    BY <1>0, <2>1, LeastNatural
<1>4. CASE n = 0
  <2> DEFINE f == [s \in D(0) |-> map]
  <2>1. \A s \in D(0) : s = {}
    BY <1>1, FS_EmptySet
  <2>2. \A s \in D(0) : TurnNext(f, map, s) = map
    BY <2>1 DEF TurnNext
  <2>3. f = [s \in D(0) |-> TurnNext(f, map, s)]
    <3> HIDE DEF f
    <3>1. f = [s \in D(0) |-> map]
      BY DEF f
    <3> QED
      BY <2>2, <3>1
  <2>4. FoldsUpTo(f, map, S, 0)
    <3> HIDE DEF f
    <3> QED
      BY <2>3 DEF FoldsUpTo
  <2> QED
    BY <1>4, <2>4
<1>5. CASE n # 0
  <2>1. n \in Nat /\ n - 1 \in Nat /\ n - 1 \notin Bad
    <3>1. n \in Nat
      OBVIOUS
    <3> HIDE DEF Bad
    <3> QED
      BY <1>3, <1>5, <3>1
  <2>2. PICK g : FoldsUpTo(g, map, S, n - 1)
    BY <2>1
  <2> DEFINE f == [s \in D(n) |-> TurnNext(g, map, s)]
  <2>3. \A s \in D(n - 1) : s \in D(n) /\ f[s] = TurnNext(g, map, s) /\ g[s] = TurnNext(g, map, s)
    <3>1. \A s \in D(n - 1) : g[s] = TurnNext(g, map, s)
      BY <2>1, <2>2, FoldsByElement
    <3>2. \A s \in D(n - 1) : s \in D(n)
      BY <1>1, <2>1
    <3> QED
      BY <3>1, <3>2
  <2>4. \A s \in D(n) : s # {} => s \ {Chosen(s)} \in D(n - 1)
    BY <1>1, <1>2, <2>1
  <2>5. \A s \in D(n) : TurnNext(g, map, s) = TurnNext(f, map, s)
    <3> SUFFICES ASSUME NEW s \in D(n), s # {}
                 PROVE  TurnNext(g, map, s) = TurnNext(f, map, s)
      BY DEF TurnNext
    <3>1. f[s \ {Chosen(s)}] = g[s \ {Chosen(s)}]
      BY <2>3, <2>4
    <3> HIDE DEF f
    <3> QED
      BY <3>1 DEF TurnNext
  <2>6. f = [s \in D(n) |-> TurnNext(f, map, s)]
    <3>1. f = [s \in D(n) |-> TurnNext(g, map, s)]
      OBVIOUS
    <3> HIDE DEF f
    <3> QED
      BY <2>5, <3>1
  <2>7. FoldsUpTo(f, map, S, n)
    <3> HIDE DEF f
    <3> QED
      BY <2>6 DEF FoldsUpTo
  <2> QED
    BY <2>1, <2>7
<1> QED
  BY <1>4, <1>5

\* FoldSet, a recursive function that is chosen, is one of those: there is one
\* to choose.
LEMMA FoldSetIsFold ==
    ASSUME NEW map, NEW S, IsFiniteSet(S)
    PROVE  \E f : /\ FoldsUpTo(f, map, S, Cardinality(S))
                  /\ FoldSet(SwapElements, map, S) = f[S]
<1> DEFINE iter == CHOOSE f : f = [s \in SUBSET S |->
                      IF s = {} THEN map
                      ELSE SwapElements(CHOOSE x \in s : TRUE, f[s \ {CHOOSE x \in s : TRUE}])]
<1>1. FoldSet(SwapElements, map, S) = iter[S]
  BY Zenon DEF FoldSet, MapThenFoldSet
<1>2. SUBSET S = {t \in SUBSET S : Cardinality(t) <= Cardinality(S)}
  BY FS_Subset
<1>3. Cardinality(S) \in Nat
  BY FS_CardinalityType
<1>4. \A f : FoldsUpTo(f, map, S, Cardinality(S)) <=>
                 f = [s \in SUBSET S |-> TurnNext(f, map, s)]
  BY <1>2, Zenon DEF FoldsUpTo
<1>5. \E f : f = [s \in SUBSET S |-> TurnNext(f, map, s)]
  BY <1>3, <1>4, FoldsExist
<1>6. iter = [s \in SUBSET S |-> TurnNext(iter, map, s)]
  BY <1>5, Zenon DEF TurnNext, Chosen
<1> HIDE DEF iter
<1>7. FoldsUpTo(iter, map, S, Cardinality(S))
  BY <1>4, <1>6
<1> QED
  BY <1>1, <1>7

\* An element as the other player sees it.
Exchanged(e) == [territory |-> e.enemyTerritory, enemyTerritory |-> e.territory]

\* The elements of s and those opposite them are turned.
TurnedOn(map, s) ==
    [c \in Offsets |->
        IF c \in s \/ Opposite(c) \in s THEN Exchanged(map[Opposite(c)]) ELSE map[c]]

\* The element opposite the opposite one is the element itself.
LEMMA Opposites ==
    \A c \in Offsets : Opposite(c) \in Offsets /\ Opposite(Opposite(c)) = c
  BY MapFacts DEF Opposite, Players

\* No element is turned twice.
Apart(S) == \A c \in S : Opposite(c) \notin S

LEMMA TurnedOnAt ==
    ASSUME NEW map, NEW s, NEW c \in Offsets
    PROVE  /\ c \in s \/ Opposite(c) \in s => TurnedOn(map, s)[c] = Exchanged(map[Opposite(c)])
           /\ ~ (c \in s \/ Opposite(c) \in s) => TurnedOn(map, s)[c] = map[c]
BY DEF TurnedOn

\* A step of FlipMap turns one more element and the one opposite.
LEMMA TurnOne ==
    ASSUME NEW map, NEW S, S \subseteq Offsets, Apart(S),
           NEW s \in SUBSET S, NEW x \in s
    PROVE  SwapElements(x, TurnedOn(map, s \ {x})) = TurnedOn(map, s)
<1> DEFINE g == TurnedOn(map, s \ {x})
           y == Opposite(x)
           h == [g EXCEPT ![x] = Exchanged(g[y]), ![y] = Exchanged(g[x])]
<1>1. x \in Offsets /\ y \in Offsets /\ Opposite(y) = x /\ y \notin s /\ x # y
  BY Opposites DEF Apart
<1>2. SwapElements(x, g) = h
  BY Zenon DEF SwapElements, Exchanged
<1>3. g[x] = map[x] /\ g[y] = map[y]
  <2>1. \A c \in Offsets : ~ (c \in s \ {x} \/ Opposite(c) \in s \ {x}) => g[c] = map[c]
    <3> SUFFICES ASSUME NEW c \in Offsets, ~ (c \in s \ {x} \/ Opposite(c) \in s \ {x})
                 PROVE  g[c] = map[c]
      OBVIOUS
    <3> QED
      BY TurnedOnAt
  <2>2. x \notin s \ {x} /\ y \notin s \ {x} /\ Opposite(y) \notin s \ {x}
    BY <1>1
  <2> HIDE DEF g
  <2>3. g[x] = map[x]
    BY <1>1, <2>1, <2>2
  <2>4. g[y] = map[y]
    <3> HIDE DEF y
    <3> QED
      BY <1>1, <2>1, <2>2
  <2> QED
    BY <2>3, <2>4
<1>4. DOMAIN g = Offsets /\ DOMAIN h = Offsets /\ h = [c \in Offsets |-> h[c]]
  <2>1. DOMAIN g = Offsets
    BY DEF TurnedOn
  <2> HIDE DEF g
  <2>2. DOMAIN h = Offsets
    BY <2>1
  <2>3. h = [c \in DOMAIN h |-> h[c]]
    OBVIOUS
  <2> HIDE DEF h
  <2> QED
    BY <2>1, <2>2, <2>3
<1>5. h[x] = Exchanged(map[y]) /\ h[y] = Exchanged(map[x])
  <2> HIDE DEF g
  <2> QED
    BY <1>1, <1>3, <1>4
<1>6. \A c \in Offsets : c # x /\ c # y => h[c] = g[c]
  <2> HIDE DEF g
  <2> QED
    BY <1>4
<1>7. ASSUME NEW c \in Offsets PROVE h[c] = TurnedOn(map, s)[c]
  <2>1. TurnedOn(map, s)[c] = IF c \in s \/ Opposite(c) \in s
                              THEN Exchanged(map[Opposite(c)]) ELSE map[c]
    BY DEF TurnedOn
  <2>2. CASE c = x
    BY <1>5, <2>1, <2>2
  <2>3. CASE c = y
    BY <1>1, <1>5, <2>1, <2>3
  <2>4. CASE c # x /\ c # y
    <3>1. Opposite(c) # x
      BY <1>1, <2>4, Opposites
    <3>2. g[c] = IF c \in s \ {x} \/ Opposite(c) \in s \ {x}
                 THEN Exchanged(map[Opposite(c)]) ELSE map[c]
      BY DEF TurnedOn
    <3>3. c \in s \ {x} \/ Opposite(c) \in s \ {x} <=> c \in s \/ Opposite(c) \in s
      BY <2>4, <3>1
    <3> HIDE DEF g, h
    <3> QED
      BY <1>6, <2>1, <2>4, <3>2, <3>3
  <2> QED
    BY <2>2, <2>3, <2>4
<1>8. TurnedOn(map, s) = [c \in Offsets |-> TurnedOn(map, s)[c]]
  BY DEF TurnedOn
<1> HIDE DEF h
<1> QED
  BY <1>2, <1>4, <1>7, <1>8

\* FoldSet turns the elements of the set, in whatever order it takes them.
LEMMA FoldTurns ==
    ASSUME NEW map, map = [c \in Offsets |-> map[c]],
           NEW S, S \subseteq Offsets, Apart(S), IsFiniteSet(S)
    PROVE  FoldSet(SwapElements, map, S) = TurnedOn(map, S)
<1>1. PICK f : FoldsUpTo(f, map, S, Cardinality(S)) /\ FoldSet(SwapElements, map, S) = f[S]
  BY FoldSetIsFold
<1>2. \A s \in SUBSET S : IsFiniteSet(s) /\ Cardinality(s) \in Nat /\ Cardinality(s) <= Cardinality(S)
  BY FS_Subset, FS_CardinalityType
<1>3. \A s \in SUBSET S : f[s] = TurnNext(f, map, s)
  BY <1>1, <1>2, FoldsByElement
<1> DEFINE Right(s) == f[s] = TurnedOn(map, s)
           Bad == {n \in Nat : \E s \in SUBSET S : Cardinality(s) = n /\ ~ Right(s)}
<1>4. SUFFICES ASSUME ~ Right(S) PROVE FALSE
  BY <1>1
<1>5. Cardinality(S) \in Bad /\ Bad \subseteq Nat
  BY <1>2, <1>4
<1>6. PICK n \in Bad : \A m \in Bad : n <= m
  <2> HIDE DEF Bad
  <2> QED
    BY <1>5, LeastNatural
<1>7. PICK s \in SUBSET S : Cardinality(s) = n /\ ~ Right(s)
  OBVIOUS
<1>8. CASE s = {}
  <2>1. f[s] = map
    BY <1>3, <1>8 DEF TurnNext
  <2>2. TurnedOn(map, s) = map
    <3>1. TurnedOn(map, s) = [c \in Offsets |-> map[c]]
      BY <1>8, Zenon DEF TurnedOn
    <3> QED
      BY <3>1
  <2> QED
    BY <1>7, <2>1, <2>2
<1>9. CASE s # {}
  <2> DEFINE x == Chosen(s)
             r == s \ {x}
  <2>1. x \in s /\ r \in SUBSET S
    BY <1>9, ChosenIsIn
  <2>2. Cardinality(r) = n - 1 /\ Cardinality(r) \in Nat
    BY <1>2, <1>7, <2>1, FS_RemoveElement
  <2>3. Right(r)
    <3> SUFFICES ASSUME ~ Right(r) PROVE FALSE
      OBVIOUS
    <3>1. n - 1 \in Bad
      BY <2>1, <2>2
    <3>2. n \in Nat
      BY <1>5
    <3> HIDE DEF Bad
    <3> QED
      BY <1>6, <3>1, <3>2
  <2>4. f[s] = SwapElements(x, f[r])
    BY <1>3, <1>9 DEF TurnNext
  <2>5. SwapElements(x, TurnedOn(map, r)) = TurnedOn(map, s)
    <3> HIDE DEF x
    <3> QED
      BY <2>1, TurnOne
  <2> HIDE DEF x, r
  <2> QED
    BY <1>7, <2>3, <2>4, <2>5
<1> QED
  BY <1>8, <1>9

LEMMA Halves ==
    ASSUME NEW m \in Nat
    PROVE  /\ m \div 2 \in Nat
           /\ m = 2 * (m \div 2) \/ (m = 2 * (m \div 2) + 1 /\ m % 2 = 1)
OBVIOUS

\* What is in neither half of a row, of size m, is in its middle.
LEMMA InTheMiddle ==
    ASSUME NEW m \in Nat, NEW h \in Nat, NEW x \in Int,
           ~ (x < h), ~ (m - 1 - x < h), m = 2 * h \/ m = 2 * h + 1
    PROVE  m = 2 * h + 1 /\ x = h /\ m - 1 - x = h
OBVIOUS

\* The fields of an element of the map.
LEMMA Fields ==
    ASSUME NEW a, NEW b
    PROVE  /\ [territory |-> a, enemyTerritory |-> b].territory = a
           /\ [territory |-> a, enemyTerritory |-> b].enemyTerritory = b
OBVIOUS

LEMMA BooleanFields ==
    ASSUME NEW a, NEW b, NEW X, NEW Y, NEW e,
           e = [territory |-> a \in X, enemyTerritory |-> b \in Y]
    PROVE  (e.territory <=> a \in X) /\ (e.enemyTerritory <=> b \in Y)
BY Zenon, Fields

\* The loops of FlipMap reach every element but the one in the middle, and
\* none twice.
LEMMA FlipMapTurns ==
    ASSUME NEW map, map = [c \in Offsets |-> map[c]]
    PROVE  \A c \in Offsets : Turned(c) => FlipMap(map)[c] = Exchanged(map[Opposite(c)])
<1> DEFINE half == MapSize \div 2
           middle == {c \in Offsets : MapSize % 2 = 1 /\ c[1] = half /\ c[2] < half}
           S == middle \cup {c \in Offsets : c[1] < half}
<1>1. \A c \in Offsets : /\ c = <<c[1], c[2]>>
                         /\ c[1] \in 0 .. MapSize - 1 /\ c[2] \in 0 .. MapSize - 1
                         /\ Opposite(c) = <<MapSize - 1 - c[1], MapSize - 1 - c[2]>>
  BY DEF Offsets, Opposite, FlipOffset
<1>2. MapSize \in Nat /\ half \in Nat /\ (MapSize = 2 * half \/ (MapSize = 2 * half + 1 /\ MapSize % 2 = 1))
  <2>1. MapSize \in Nat
    BY Constants
  <2> QED
    BY <2>1, Halves
<1>3. Apart(S)
  <2> SUFFICES ASSUME NEW c \in S, Opposite(c) \in S PROVE FALSE
    BY DEF Apart
  <2>1. c \in Offsets /\ Opposite(c)[1] = MapSize - 1 - c[1] /\ Opposite(c)[2] = MapSize - 1 - c[2]
    BY <1>1
  <2>2. /\ c[1] < half \/ (c[1] = half /\ c[2] < half)
        /\ Opposite(c)[1] < half \/ (Opposite(c)[1] = half /\ Opposite(c)[2] < half)
    OBVIOUS
  <2> HIDE DEF half
  <2> QED
    BY <1>1, <1>2, <2>1, <2>2
<1>4. \A c \in Offsets : Turned(c) => c \in S \/ Opposite(c) \in S
  <2> SUFFICES ASSUME NEW c \in Offsets, Turned(c), c \notin S, Opposite(c) \notin S PROVE FALSE
    OBVIOUS
  <2>1. /\ Opposite(c) \in Offsets /\ Opposite(c)[1] = MapSize - 1 - c[1]
        /\ Opposite(c)[2] = MapSize - 1 - c[2]
    BY <1>1, Opposites
  <2>2. ~ (c[1] < half) /\ ~ (Opposite(c)[1] < half)
    BY <2>1
  <2>3. MapSize = 2 * half + 1 /\ MapSize % 2 = 1 /\ c[1] = half /\ Opposite(c)[1] = half
    <3>1. c[1] \in Int /\ ~ (c[1] < half) /\ ~ (MapSize - 1 - c[1] < half)
      BY <1>1, <2>1, <2>2
    <3> HIDE DEF half, S
    <3>2. MapSize = 2 * half + 1 /\ c[1] = half /\ MapSize - 1 - c[1] = half
      BY <1>2, <3>1, InTheMiddle
    <3>3. MapSize % 2 = 1
      BY <1>2, <3>2
    <3> QED
      BY <2>1, <3>2, <3>3
  <2>4. ~ (c[2] < half) /\ ~ (Opposite(c)[2] < half)
    BY <2>1, <2>3
  <2>5. c[2] = half /\ Opposite(c)[2] = half
    <3>1. c[2] \in Int /\ ~ (c[2] < half) /\ ~ (MapSize - 1 - c[2] < half)
      BY <1>1, <2>1, <2>4
    <3> HIDE DEF half, S
    <3>2. c[2] = half /\ MapSize - 1 - c[2] = half
      BY <1>2, <3>1, InTheMiddle
    <3> QED
      BY <2>1, <3>2
  <2> QED
    BY <1>1, <2>1, <2>3, <2>5 DEF Turned
<1>5. S \subseteq Offsets /\ IsFiniteSet(S)
  <2>1. S \subseteq Offsets
    OBVIOUS
  <2> HIDE DEF S
  <2> QED
    BY <2>1, OffsetsFinite, FS_Subset
<1>6. FlipMap(map) = FoldSet(SwapElements, map, S)
  BY Zenon DEF FlipMap
<1> HIDE DEF S
<1>7. FlipMap(map) = TurnedOn(map, S)
  BY <1>3, <1>5, <1>6, FoldTurns
<1> QED
  BY <1>4, <1>7 DEF TurnedOn

\* A player's map shows who owns an element, as that player sees it.
LEMMA MapSeenIsTrue ==
    ASSUME NEW p \in Players, NEW c \in Offsets, Turned(c)
    PROVE  MapSeen(p)[c] = [territory |-> p \in owners[FlipOffset(p, c)],
                            enemyTerritory |-> Enemy(p) \in owners[FlipOffset(p, c)]]
<1>1. PlayerMap = [b \in Offsets |-> PlayerMap[b]]
  BY DEF PlayerMap
<1>2. \A b \in Offsets : PlayerMap[b] =
          [territory |-> 0 \in owners[b], enemyTerritory |-> 1 \in owners[b]]
  BY DEF PlayerMap
<1>3. CASE p = 0
  <2>1. MapSeen(p) = PlayerMap /\ FlipOffset(p, c) = c /\ Enemy(p) = 1
    BY <1>3 DEF MapSeen, FlipOffset, Enemy
  <2> QED
    BY <1>2, <1>3, <2>1
<1>4. CASE p = 1
  <2>1. MapSeen(p) = FlipMap(PlayerMap) /\ FlipOffset(p, c) = Opposite(c) /\ Enemy(p) = 0
    BY <1>4 DEF MapSeen, FlipOffset, Enemy, Opposite
  <2>2. MapSeen(p)[c] = Exchanged(PlayerMap[Opposite(c)])
    <3>1. FlipMap(PlayerMap)[c] = Exchanged(PlayerMap[Opposite(c)])
      BY <1>1, FlipMapTurns
    <3> QED
      BY <2>1, <3>1
  <2>3. PlayerMap[Opposite(c)] = [territory |-> 0 \in owners[Opposite(c)],
                                  enemyTerritory |-> 1 \in owners[Opposite(c)]]
    BY <1>2, Opposites
  <2> QED
    BY <1>4, <2>1, <2>2, <2>3 DEF Exchanged
<1> QED
  BY <1>3, <1>4 DEF Players

\* Each tower is shown at its offset as the player sees it.
LEMMA TowersSeenAt ==
    ASSUME IInv, NEW p \in Players, NEW q \in Players, NEW i \in DOMAIN towers[q]
    PROVE  /\ TowersSeen(p, q)[i].offset = FlipOffset(p, towers[q][i].offset)
           /\ towers[q][i].offset \in Offsets
<1>1. towers[q][i] \in Tower
  BY Parts, ListTypes
<1> QED
  BY <1>1 DEF TowersSeen, Tower

LEMMA TrueView == IInv => ViewIsTrue
<1> SUFFICES ASSUME IInv, NEW p \in Players
             PROVE  /\ \A c \in {c \in Offsets : Turned(c)} :
                        MapSeen(p)[c] = [territory |-> p \in owners[FlipOffset(p, c)],
                                         enemyTerritory |-> Enemy(p) \in owners[FlipOffset(p, c)]]
                    /\ \A q \in Players : \A i \in DOMAIN towers[q] :
                        Turned(TowersSeen(p, q)[i].offset) =>
                            IF p = q THEN MapSeen(p)[TowersSeen(p, q)[i].offset].territory
                            ELSE MapSeen(p)[TowersSeen(p, q)[i].offset].enemyTerritory
  BY DEF ViewIsTrue
<1>1. \A c \in {c \in Offsets : Turned(c)} :
          MapSeen(p)[c] = [territory |-> p \in owners[FlipOffset(p, c)],
                           enemyTerritory |-> Enemy(p) \in owners[FlipOffset(p, c)]]
  BY MapSeenIsTrue
<1>2. ASSUME NEW q \in Players, NEW i \in DOMAIN towers[q], Turned(TowersSeen(p, q)[i].offset)
      PROVE  IF p = q THEN MapSeen(p)[TowersSeen(p, q)[i].offset].territory
             ELSE MapSeen(p)[TowersSeen(p, q)[i].offset].enemyTerritory
  <2> DEFINE c == TowersSeen(p, q)[i].offset
  <2>1. c = FlipOffset(p, towers[q][i].offset) /\ towers[q][i].offset \in Offsets
    BY TowersSeenAt
  <2>2. c \in Offsets /\ FlipOffset(p, c) = towers[q][i].offset
    BY <2>1, MapFacts
  <2>3. q \in owners[FlipOffset(p, c)]
    BY <2>2, StandsOnOwn
  <2> HIDE DEF c
  <2>4. MapSeen(p)[c] = [territory |-> p \in owners[FlipOffset(p, c)],
                         enemyTerritory |-> Enemy(p) \in owners[FlipOffset(p, c)]]
    BY <1>1, <1>2, <2>2 DEF c
  <2>5. p # q => q = Enemy(p)
    BY DEF Players, Enemy
  <2>6. CASE p = q
    <3>1. MapSeen(p)[c].territory
      <4>1. MapSeen(p)[c].territory <=> p \in owners[FlipOffset(p, c)]
        BY <2>4, BooleanFields
      <4> QED
        BY <2>3, <2>6, <4>1
    <3> QED
      BY <3>1, <2>6 DEF c
  <2>7. CASE p # q
    <3>1. MapSeen(p)[c].enemyTerritory
      <4>1. MapSeen(p)[c].enemyTerritory <=> Enemy(p) \in owners[FlipOffset(p, c)]
        BY <2>4, BooleanFields
      <4> QED
        BY <2>3, <2>5, <2>7, <4>1
    <3> QED
      BY <3>1, <2>7 DEF c
  <2> QED
    BY <2>6, <2>7
<1> QED
  BY <1>1, <1>2

\* Both players are shown the same map, from opposite corners
\* (UpdatePlayerStates, FlipMap, AssignTowerAttributes), on maps of any size, but
\* for the element in the middle if the size is odd.
THEOREM ViewIsAlwaysTrue == Spec => []ViewIsTrue
<1>1. IInv => ViewIsTrue
  BY TrueView
<1>2. QED
  BY <1>1, Invariance, PTL

LEMMA BuildableView == IInv => ValidMeansBuildable
<1> SUFFICES ASSUME IInv, NEW p \in Players, NEW c \in Offsets, Turned(c)
             PROVE  c \in ValidSeen(p) <=> ValidTerritory(p, FlipOffset(p, c))
  BY DEF ValidMeansBuildable
<1> DEFINE b == FlipOffset(p, c)
<1>1. b \in Offsets /\ FlipOffset(p, b) = c
  BY MapFacts
<1>2. MapSeen(p)[c] = [territory |-> p \in owners[b], enemyTerritory |-> Enemy(p) \in owners[b]]
  BY MapSeenIsTrue
<1>3. owners[b] \subseteq Players /\ Players = {p, Enemy(p)} /\ p # Enemy(p)
  <2>1. owners \in [Offsets -> SUBSET Players]
    BY Parts DEF TypeOK
  <2> QED
    BY <1>1, <2>1 DEF Players, Enemy
<1> HIDE DEF b
<1>4. c \in OpenTerritory(p) <=> owners[b] = {p}
  <2>1. c \in OpenTerritory(p) <=> p \in owners[b] /\ Enemy(p) \notin owners[b]
    <3>1. /\ MapSeen(p)[c].territory <=> p \in owners[b]
          /\ MapSeen(p)[c].enemyTerritory <=> Enemy(p) \in owners[b]
      BY <1>2, BooleanFields
    <3> QED
      BY <3>1 DEF OpenTerritory
  <2> QED
    BY <1>3, <2>1
<1>5. \A i \in DOMAIN towers[p] : TowersSeen(p, p)[i].offset = c <=> towers[p][i].offset = b
  <2> SUFFICES ASSUME NEW i \in DOMAIN towers[p]
               PROVE  TowersSeen(p, p)[i].offset = c <=> towers[p][i].offset = b
    OBVIOUS
  <2>1. TowersSeen(p, p)[i].offset = FlipOffset(p, towers[p][i].offset)
        /\ towers[p][i].offset \in Offsets
    BY TowersSeenAt
  <2>2. FlipOffset(p, FlipOffset(p, towers[p][i].offset)) = towers[p][i].offset
    BY <2>1, MapFacts
  <2> QED
    BY <1>1, <2>1, <2>2 DEF b
<1>6. c \in ValidSeen(p) <=>
          c \in OpenTerritory(p) /\ \A i \in DOMAIN towers[p] : TowersSeen(p, p)[i].offset # c
  BY DEF ValidSeen
<1> QED
  BY <1>4, <1>5, <1>6 DEF ValidTerritory, b

\* The elements shown as valid territory are exactly those for which an order to
\* build is accepted at the turn's beginning (UpdatePlayerStates, BuildTower).
THEOREM ValidAlwaysMeansBuildable == Spec => []ValidMeansBuildable
<1>1. IInv => ValidMeansBuildable
  BY BuildableView
<1>2. QED
  BY <1>1, Invariance, PTL
=============================================================================
