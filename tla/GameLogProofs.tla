--------------------------- MODULE GameLogProofs ----------------------------
(***************************************************************************)
(* Proofs about GameLog, for any number of rounds, any towers that rise    *)
(* and fall in them, any instruction counts and any messages.              *)
(***************************************************************************)
EXTENDS GameLogInv, FiniteSetTheorems, SequenceTheorems, TLAPS

\* Facts on the constants.
LEMMA Constants ==
    /\ NumRounds \in Nat /\ MaxErrors \in Nat /\ Counts \subseteq Nat
    /\ MaxHp \in Nat /\ MaxLevel \in Nat /\ MaxHp > 0 /\ MaxLevel > 0
    /\ ActorIdBound \in Nat
    /\ Players = {0, 1}
BY GameLogAssumption DEF GameLogAssumption, Players

\* What comes of a list and a new member at its end.
LEMMA Appended ==
    ASSUME NEW S, NEW s \in Seq(S), NEW x \in S
    PROVE  /\ Append(s, x) \in Seq(S)
           /\ Len(Append(s, x)) = Len(s) + 1
           /\ DOMAIN Append(s, x) = 1 .. Len(s) + 1
           /\ \A k \in 1 .. Len(s) : Append(s, x)[k] = s[k]
           /\ Append(s, x)[Len(s) + 1] = x
OBVIOUS

\* What comes of a list when x is put in place a.
LEMMA Replaced ==
    ASSUME NEW S, NEW s \in Seq(S), NEW a \in DOMAIN s, NEW x \in S
    PROVE  /\ [s EXCEPT ![a] = x] \in Seq(S)
           /\ Len([s EXCEPT ![a] = x]) = Len(s)
           /\ \A k \in DOMAIN s : [s EXCEPT ![a] = x][k] = IF k = a THEN x ELSE s[k]
<1>1. s \in [1 .. Len(s) -> S] /\ Len(s) \in Nat
    OBVIOUS
<1>2. [s EXCEPT ![a] = x] \in [1 .. Len(s) -> S]
    BY <1>1
<1> QED
    BY <1>1, <1>2

\* What comes of a list when the member in place a is taken off.
LEMMA Removed ==
    ASSUME NEW S, NEW s \in Seq(S), NEW a \in DOMAIN s
    PROVE  /\ RemoveAt(s, a) \in Seq(S)
           /\ Len(RemoveAt(s, a)) = Len(s) - 1
           /\ \A k \in 1 .. Len(s) - 1 : RemoveAt(s, a)[k] = IF k < a THEN s[k] ELSE s[k + 1]
<1>1. a \in 1 .. Len(s) /\ Len(s) \in Nat
    OBVIOUS
<1> DEFINE front == SubSeq(s, 1, a - 1)
           back == SubSeq(s, a + 1, Len(s))
<1>2. /\ front \in Seq(S) /\ Len(front) = a - 1
      /\ \A k \in 1 .. a - 1 : front[k] = s[k]
    BY <1>1
<1>3. /\ back \in Seq(S) /\ Len(back) = Len(s) - a
      /\ \A k \in 1 .. Len(s) - a : back[k] = s[k + a]
    BY <1>1
<1>4. RemoveAt(s, a) = front \o back
    BY DEF RemoveAt
<1> HIDE DEF front, back
<1>5. /\ front \o back \in Seq(S) /\ Len(front \o back) = Len(s) - 1
      /\ \A k \in 1 .. Len(s) - 1 :
           (front \o back)[k] = IF k <= a - 1 THEN front[k] ELSE back[k - (a - 1)]
  <2>1. front \in Seq(S) /\ back \in Seq(S)
      BY <1>2, <1>3
  <2>2. Len(front) + Len(back) = Len(s) - 1
      BY <1>1, <1>2, <1>3
  <2>3. /\ front \o back \in Seq(S) /\ Len(front \o back) = Len(front) + Len(back)
        /\ \A k \in 1 .. Len(front) + Len(back) :
             (front \o back)[k] = IF k <= Len(front) THEN front[k] ELSE back[k - Len(front)]
      BY <2>1, ConcatProperties
  <2> QED
      BY <1>2, <2>2, <2>3
<1>6. ASSUME NEW k \in 1 .. Len(s) - 1
      PROVE  (front \o back)[k] = IF k < a THEN s[k] ELSE s[k + 1]
  <2>1. CASE k < a
      BY <1>1, <1>2, <1>5, <2>1
  <2>2. CASE ~(k < a)
    <3>1. k - (a - 1) \in 1 .. Len(s) - a /\ ~(k <= a - 1) /\ k - (a - 1) + a = k + 1
        BY <1>1, <2>2
    <3> QED
        BY <1>3, <1>5, <2>2, <3>1
  <2> QED
      BY <2>1, <2>2
<1> QED
    BY <1>4, <1>5, <1>6

-----------------------------------------------------------------------------
(* What State::Update may leave of the towers.                             *)

\* A tower that stays has its id, and is a base or not, as before.
LEMMA FateOf ==
    ASSUME NEW t \in Tower, NEW u \in Fates(t)
    PROVE  u \in Tower /\ u.id = t.id /\ u.isBase = t.isBase
<1> DEFINE upgraded ==
               IF t.level < MaxLevel THEN {[t EXCEPT !.level = @ + 1, !.hp = MaxHp]} ELSE {}
           standing == upgraded \cup IF t.hp > 0 THEN {t} ELSE {}
<1>1. ASSUME NEW v \in standing PROVE v \in Tower /\ v.id = t.id /\ v.isBase = t.isBase
  <2>1. v = t \/ v = [t EXCEPT !.level = @ + 1, !.hp = MaxHp]
      OBVIOUS
  <2>2. MaxHp \in Nat
      BY Constants
  <2>3. t.level + 1 \in Nat
      BY DEF Tower
  <2> QED
      BY <2>1, <2>2, <2>3 DEF Tower
<1>2. PICK v \in standing :
          \E h \in IF v.isBase THEN {v.hp} ELSE 0 .. v.hp : u = [v EXCEPT !.hp = h]
    BY DEF Fates
<1> HIDE DEF standing, upgraded
<1>3. v \in Tower /\ v.id = t.id /\ v.isBase = t.isBase
    BY <1>1
<1>4. PICK h \in IF v.isBase THEN {v.hp} ELSE 0 .. v.hp : u = [v EXCEPT !.hp = h]
    BY <1>2
<1>5. h \in Nat
    BY <1>3 DEF Tower
<1> QED
    BY <1>3, <1>4, <1>5 DEF Tower

\* The ids rise along the list s, and are less than b.
Rising(s) == \A i, j \in DOMAIN s : i < j => s[i].id < s[j].id
Below(s, b) == \A i \in DOMAIN s : s[i].id < b

\* Of a list whose ids rise such a list is left, with some of the ids.
LEMMA RemainsOf ==
    ASSUME NEW s \in Seq(Tower), NEW u \in Remains(s), Rising(s)
    PROVE  /\ u \in Seq(Tower)
           /\ Rising(u)
           /\ \A i \in DOMAIN u :
                \E k \in DOMAIN s : u[i].id = s[k].id /\ u[i].isBase = s[k].isBase
<1>1. PICK at \in Places(s) :
          /\ u \in [DOMAIN at -> UNION {Fates(s[k]) : k \in DOMAIN s}]
          /\ \A i \in DOMAIN at : u[i] \in Fates(s[at[i]])
    BY DEF Remains
<1>2. PICK n \in 0 .. Len(s) : at \in [1 .. n -> DOMAIN s]
    BY DEF Places
<1>3. \A i, j \in 1 .. n : i < j => at[i] < at[j]
    BY <1>2 DEF Places
<1>4. n \in Nat /\ DOMAIN u = 1 .. n /\ DOMAIN at = 1 .. n
    BY <1>1, <1>2
<1>5. \A i \in 1 .. n : s[at[i]] \in Tower /\ at[i] \in DOMAIN s
    BY <1>2
<1>6. \A i \in 1 .. n : u[i] \in Tower /\ u[i].id = s[at[i]].id /\ u[i].isBase = s[at[i]].isBase
    BY <1>1, <1>4, <1>5, FateOf
<1>7. u = [i \in 1 .. n |-> u[i]]
    BY <1>1, <1>4
<1>8. u \in Seq(Tower)
    BY <1>4, <1>6, <1>7
<1>9. \A i, j \in 1 .. n : i < j => u[i].id < u[j].id
    BY <1>3, <1>5, <1>6 DEF Rising
<1> QED
    BY <1>4, <1>5, <1>6, <1>8, <1>9 DEF Rising

\* The list s is that of n new towers, with ids from "first" on.
NewFrom(s, first, n) ==
    /\ Len(s) = n
    /\ \A i \in 1 .. n : s[i].id = first + i - 1 /\ s[i].isBase = FALSE

\* In the list r are the members of s, and n such towers.
OldAndNew(r, s, first, n) ==
    \A i \in DOMAIN r :
        \/ i \in DOMAIN s /\ r[i] = s[i]
        \/ r[i].id \in first .. first + n - 1 /\ r[i].isBase = FALSE

\* New towers come to the end, with ids from "first" on.
LEMMA WithNewTowers ==
    ASSUME NEW s \in Seq(Tower), NEW first \in Nat, NEW n \in Nat, NEW new \in Seq(Tower),
           Rising(s), Below(s, first), NewFrom(new, first, n)
    PROVE  /\ s \o new \in Seq(Tower)
           /\ Rising(s \o new)
           /\ OldAndNew(s \o new, s, first, n)
<1> DEFINE r == s \o new
           m == Len(s)
<1>1. /\ m \in Nat /\ DOMAIN s = 1 .. m
      /\ \A i \in 1 .. m : s[i].id \in Nat
  <2>1. m \in Nat /\ DOMAIN s = 1 .. m /\ \A i \in 1 .. m : s[i] \in Tower
      OBVIOUS
  <2> QED
      BY <2>1 DEF Tower
<1>3. new \in Seq(Tower) /\ Len(new) = n
    BY DEF NewFrom
<1>4. \A i \in 1 .. n : new[i].id = first + i - 1 /\ new[i].isBase = FALSE
    BY DEF NewFrom
<1>5. /\ r \in Seq(Tower) /\ Len(r) = m + n
      /\ \A i \in 1 .. m + n : r[i] = IF i <= m THEN s[i] ELSE new[i - m]
    BY <1>3, ConcatProperties
<1>6. DOMAIN r = 1 .. m + n
    BY <1>5
<1> HIDE DEF r, m
<1>7. ASSUME NEW i \in 1 .. m + n, i <= m PROVE i \in DOMAIN s /\ r[i] = s[i]
    BY <1>1, <1>5, <1>7
<1>8. ASSUME NEW i \in 1 .. m + n, ~(i <= m)
      PROVE  r[i].id = first + (i - m) - 1 /\ r[i].isBase = FALSE
  <2>1. i - m \in 1 .. n
      BY <1>1, <1>8
  <2> QED
      BY <1>4, <1>5, <1>8, <2>1
<1>9. ASSUME NEW i \in 1 .. m + n, NEW j \in 1 .. m + n, i < j
      PROVE  r[i].id < r[j].id
  <2>1. CASE j <= m
    <3>1. i <= m
        BY <1>1, <1>9, <2>1
    <3> QED
        BY <1>7, <1>9, <2>1, <3>1 DEF Rising
  <2>2. CASE ~(j <= m) /\ i <= m
    <3>1. r[i].id < first /\ r[i].id \in Nat
        BY <1>1, <1>7, <2>2 DEF Below
    <3>2. r[j].id = first + (j - m) - 1 /\ j - m >= 1
      <4>1. r[j].id = first + (j - m) - 1
          BY <1>8, <2>2
      <4>2. \A a, b \in Nat : ~(a <= b) => a - b >= 1
          OBVIOUS
      <4> QED
          BY <1>1, <2>2, <4>1, <4>2
    <3> QED
      <4>1. \A a, b, c \in Nat : a < first /\ c >= 1 => a < first + c - 1
          OBVIOUS
      <4>2. j - m \in Nat
          BY <1>1, <3>2
      <4> QED
          BY <3>1, <3>2, <4>1, <4>2
  <2>3. CASE ~(i <= m)
    <3>1. ~(j <= m)
        BY <1>1, <1>9, <2>3
    <3>2. r[i].id = first + (i - m) - 1 /\ r[j].id = first + (j - m) - 1
        BY <1>8, <2>3, <3>1
    <3>3. \A a, b \in Nat : a < b => first + (a - m) - 1 < first + (b - m) - 1
        BY <1>1
    <3> QED
        BY <1>1, <1>9, <3>2, <3>3
  <2> QED
      BY <2>1, <2>2, <2>3
<1>10. ASSUME NEW i \in 1 .. m + n, ~(i <= m) PROVE r[i].id \in first .. first + n - 1
  <2>1. r[i].id = first + (i - m) - 1
      BY <1>8, <1>10
  <2>2. \A a \in 1 .. m + n : ~(a <= m) => first + (a - m) - 1 \in first .. first + n - 1
      BY <1>1
  <2> QED
      BY <1>10, <2>1, <2>2
<1>11. Rising(r)
    BY <1>6, <1>9 DEF Rising
<1>12. OldAndNew(r, s, first, n)
    BY <1>6, <1>7, <1>8, <1>10 DEF OldAndNew
<1> QED
    BY <1>5, <1>11, <1>12 DEF r

-----------------------------------------------------------------------------
(* Facts that the proofs about actions keep needing.                       *)

\* The parts of the invariant about player p, index by index.
LEMMA Typed ==
    ASSUME TypeOK, NEW p \in Players
    PROVE  /\ towers[p] \in Seq(Tower) /\ towerLogs[p] \in Seq(Entry)
           /\ Len(towers[p]) \in Nat /\ Len(towerLogs[p]) \in Nat
           /\ DOMAIN towers[p] = 1 .. Len(towers[p])
           /\ DOMAIN towerLogs[p] = 1 .. Len(towerLogs[p])
           /\ \A i \in DOMAIN towers[p] : towers[p][i] \in Tower /\ towers[p][i].id \in Nat
           /\ \A j \in DOMAIN towerLogs[p] :
                towerLogs[p][j] \in Entry /\ towerLogs[p][j].id \in Nat
<1>1. towers[p] \in Seq(Tower) /\ towerLogs[p] \in Seq(Entry)
    BY DEF TypeOK
<1>2. /\ DOMAIN towers[p] = 1 .. Len(towers[p]) /\ DOMAIN towerLogs[p] = 1 .. Len(towerLogs[p])
      /\ Len(towers[p]) \in Nat /\ Len(towerLogs[p]) \in Nat
      /\ \A i \in DOMAIN towers[p] : towers[p][i] \in Tower
      /\ \A j \in DOMAIN towerLogs[p] : towerLogs[p][j] \in Entry
    BY <1>1
<1>3. \A t \in Tower : t.id \in Nat
    BY DEF Tower
<1>4. \A e \in Entry : e.id \in Nat
    BY DEF Entry
<1> QED
    BY <1>1, <1>2, <1>3, <1>4

\* An entry has the id of its tower.
LEMMA EntryOf == \A t \in Tower : LogEntry(t) \in Entry /\ LogEntry(t).id = t.id
BY DEF Tower, Entry, LogEntry

\* What IdsAreTaken says of single towers and entries.
LEMMA Taken ==
    ASSUME IdsAreTaken
    PROVE  /\ \A p \in Players : \A i \in DOMAIN towers[p] : towers[p][i].id < nextId
           /\ \A p \in Players : \A j \in DOMAIN towerLogs[p] : towerLogs[p][j].id < nextId
           /\ \A i \in DOMAIN towers[0], j \in DOMAIN towers[1] : towers[0][i].id # towers[1][j].id
           /\ \A i \in DOMAIN towers[0], j \in DOMAIN towerLogs[1] :
                towers[0][i].id # towerLogs[1][j].id
           /\ \A i \in DOMAIN towerLogs[0], j \in DOMAIN towers[1] :
                towerLogs[0][i].id # towers[1][j].id
           /\ \A i \in DOMAIN towerLogs[0], j \in DOMAIN towerLogs[1] :
                towerLogs[0][i].id # towerLogs[1][j].id
<1>1. \A p \in Players : \A i \in DOMAIN towers[p] : towers[p][i].id \in TowerIds(p)
    BY DEF TowerIds
<1>2. \A p \in Players : \A j \in DOMAIN towerLogs[p] : towerLogs[p][j].id \in LoggedIds(p)
    BY DEF LoggedIds
<1>3. \A p \in Players : \A id \in TowerIds(p) \cup LoggedIds(p) : id < nextId
    BY DEF IdsAreTaken
<1>4. \A x \in TowerIds(0) \cup LoggedIds(0), y \in TowerIds(1) \cup LoggedIds(1) : x # y
    BY DEF IdsAreTaken
<1>5. 0 \in Players /\ 1 \in Players
    BY Constants
<1> QED
    BY <1>1, <1>2, <1>3, <1>4, <1>5

\* The invariant of what a reader has, entry by entry.
LEMMA Read ==
    ASSUME ReaderHasTheLog, NEW x
    PROVE  x \in replay <=>
             \E p \in Players : \E j \in DOMAIN towerLogs[p] : x = AsRead(p, towerLogs[p][j])
BY DEF ReaderHasTheLog

\* A reader knows a tower of that id iff one is logged, and only that one.
LEMMA KnownById ==
    ASSUME LogInv, NEW p \in Players, NEW j \in DOMAIN towerLogs[p]
    PROVE  {t \in replay : t.id = towerLogs[p][j].id} = {AsRead(p, towerLogs[p][j])}
<1> DEFINE e == towerLogs[p][j]
<1>0. TypeOK /\ IdsRise(p) /\ IdsAreTaken /\ ReaderHasTheLog
    BY DEF LogInv
<1>1. AsRead(p, e) \in replay /\ AsRead(p, e).id = e.id
  <2>1. AsRead(p, e) \in replay
      BY <1>0, Read
  <2> QED
      BY <2>1 DEF AsRead
<1>2. ASSUME NEW t \in replay, t.id = e.id PROVE t = AsRead(p, e)
  <2>1. PICK q \in Players : \E k \in DOMAIN towerLogs[q] : t = AsRead(q, towerLogs[q][k])
      BY <1>0, Read
  <2>2. PICK k \in DOMAIN towerLogs[q] : t = AsRead(q, towerLogs[q][k])
      BY <2>1
  <2>3. towerLogs[q][k].id = e.id
      BY <1>2, <2>2 DEF AsRead
  <2>4. q = p
    <3>1. \/ q = p
          \/ q = 0 /\ p = 1
          \/ q = 1 /\ p = 0
        BY Constants
    <3>2. \A a \in DOMAIN towerLogs[0], b \in DOMAIN towerLogs[1] :
             towerLogs[0][a].id # towerLogs[1][b].id
        BY <1>0, Taken
    <3> QED
        BY <2>2, <2>3, <3>1, <3>2
  <2>5. k = j
    <3>1. k \in Nat /\ j \in Nat /\ k \in DOMAIN towerLogs[p] /\ e.id \in Nat
        BY <1>0, <2>2, <2>4, Typed
    <3>2. /\ k < j => towerLogs[p][k].id < e.id
          /\ j < k => e.id < towerLogs[p][k].id
        BY <1>0, <3>1 DEF IdsRise
    <3>3. towerLogs[p][k].id = e.id
        BY <2>3, <2>4
    <3> QED
        BY <3>1, <3>2, <3>3
  <2> QED
      BY <2>2, <2>4, <2>5
<1> HIDE DEF e
<1> QED
    BY <1>1, <1>2 DEF e

\* Messages about a tower, as a reader takes them.
LEMMA TowerMessages ==
    ASSUME NEW p \in Players, NEW t \in Tower
    PROVE  /\ Shown(Message(p, t)) =
                [id |-> t.id, player |-> p, hp |-> t.hp, level |-> t.level, isBase |-> t.isBase]
           /\ Message(p, t).id = t.id /\ ~Message(p, t).isDead
           /\ Change(p, t).id = t.id /\ ~Change(p, t).isDead
           /\ Change(p, t).hp = t.hp /\ Change(p, t).level = t.level
           /\ (t.isBase <=> t.id = p) => Shown(Message(p, t)) = AsRead(p, LogEntry(t))
BY DEF Tower, Shown, Message, Change, AsRead, LogEntry

-----------------------------------------------------------------------------
(* State::Update.                                                          *)

\* The towers of a turn are some of those before, and new ones.
LEMMA Renewed ==
    ASSUME LogInv, Update
    PROVE  /\ towers' \in [Players -> Seq(Tower)]
           /\ nextId' \in Nat /\ nextId' >= nextId
           /\ \A p \in Players : \A i, j \in DOMAIN towers'[p] :
                i < j => towers'[p][i].id < towers'[p][j].id
           /\ \A p \in Players : \A i \in DOMAIN towers'[p] :
                \/ \E k \in DOMAIN towers[p] :
                     /\ towers'[p][i].id = towers[p][k].id
                     /\ towers'[p][i].isBase = towers[p][k].isBase
                \/ /\ towers'[p][i].id \in nextId .. nextId' - 1
                   /\ towers'[p][i].isBase = FALSE
           /\ \A i \in DOMAIN towers'[0], j \in DOMAIN towers'[1] :
                towers'[0][i].id # towers'[1][j].id
<1>0. TypeOK /\ IdsAreTaken /\ \A p \in Players : IdsRise(p)
    BY DEF LogInv
<1>1. PICK old0 \in Remains(towers[0]), old1 \in Remains(towers[1]),
           new0 \in 0 .. ActorIdBound - nextId, new1 \in 0 .. ActorIdBound - nextId :
        /\ nextId' = nextId + new0 + new1
        /\ towers' = [p \in Players |->
             IF p = 0 THEN old0 \o [i \in 1 .. new0 |-> NewTower(nextId + i - 1)]
             ELSE old1 \o [i \in 1 .. new1 |-> NewTower(nextId + new0 + i - 1)]]
    BY ZenonT(40) DEF Update
<1>2. nextId \in Nat /\ new0 \in Nat /\ new1 \in Nat /\ nextId + new0 \in Nat
    BY <1>0 DEF TypeOK
<1>3. 0 \in Players /\ 1 \in Players /\ \A p \in Players : p = 0 \/ p = 1
    BY Constants
<1> DEFINE built0 == [i \in 1 .. new0 |-> NewTower(nextId + i - 1)]
           built1 == [i \in 1 .. new1 |-> NewTower(nextId + new0 + i - 1)]
           list0 == old0 \o built0
           list1 == old1 \o built1
<1>4. towers'[0] = list0 /\ towers'[1] = list1
    BY <1>1, <1>3
<1>5. /\ old0 \in Seq(Tower) /\ old1 \in Seq(Tower)
      /\ Rising(old0) /\ Rising(old1)
      /\ \A i \in DOMAIN old0 : \E k \in DOMAIN towers[0] :
           old0[i].id = towers[0][k].id /\ old0[i].isBase = towers[0][k].isBase
      /\ \A i \in DOMAIN old1 : \E k \in DOMAIN towers[1] :
           old1[i].id = towers[1][k].id /\ old1[i].isBase = towers[1][k].isBase
  <2>1. towers[0] \in Seq(Tower) /\ towers[1] \in Seq(Tower)
      BY <1>0, <1>3, Typed
  <2>2. Rising(towers[0]) /\ Rising(towers[1])
      BY <1>0, <1>3 DEF IdsRise, Rising
  <2> QED
      BY <2>1, <2>2, RemainsOf
<1>6. Below(old0, nextId) /\ Below(old1, nextId)
    BY <1>0, <1>3, <1>5, Taken DEF Below
<1>7. Below(old1, nextId + new0)
  <2>1. \A i \in DOMAIN old1 : old1[i].id \in Nat
    <3>1. \A i \in DOMAIN old1 : old1[i] \in Tower
        BY <1>5
    <3> QED
        BY <3>1 DEF Tower
  <2>2. \A a \in Nat : a < nextId => a < nextId + new0
      BY <1>2
  <2> QED
      BY <1>6, <2>1, <2>2 DEF Below
<1>a. built0 \in Seq(Tower) /\ NewFrom(built0, nextId, new0)
  <2>1. \A i \in 1 .. new0 : NewTower(nextId + i - 1) \in Tower
      BY <1>2, Constants DEF NewTower, Tower
  <2>2. built0 \in Seq(Tower) /\ Len(built0) = new0
      BY <1>2, <2>1
  <2> QED
      BY <2>2 DEF NewTower, NewFrom
<1>b. built1 \in Seq(Tower) /\ NewFrom(built1, nextId + new0, new1)
  <2>1. \A i \in 1 .. new1 : NewTower(nextId + new0 + i - 1) \in Tower
      BY <1>2, Constants DEF NewTower, Tower
  <2>2. built1 \in Seq(Tower) /\ Len(built1) = new1
      BY <1>2, <2>1
  <2> QED
      BY <2>2 DEF NewTower, NewFrom
<1> HIDE DEF built0, built1
<1>8. list0 \in Seq(Tower) /\ Rising(list0) /\ OldAndNew(list0, old0, nextId, new0)
    BY <1>2, <1>5, <1>6, <1>a, WithNewTowers
<1>9. list1 \in Seq(Tower) /\ Rising(list1) /\ OldAndNew(list1, old1, nextId + new0, new1)
    BY <1>2, <1>5, <1>7, <1>b, WithNewTowers
<1> HIDE DEF list0, list1
<1>10. \A a \in nextId .. nextId + new0 - 1 : a \in nextId .. nextId' - 1
    BY <1>1, <1>2
<1>11. \A a \in nextId + new0 .. nextId + new0 + new1 - 1 : a \in nextId .. nextId' - 1
    BY <1>1, <1>2
<1>12. \A i \in DOMAIN list0 :
           \/ \E k \in DOMAIN towers[0] :
                list0[i].id = towers[0][k].id /\ list0[i].isBase = towers[0][k].isBase
           \/ list0[i].id \in nextId .. nextId' - 1 /\ list0[i].isBase = FALSE
    BY <1>5, <1>8, <1>10 DEF OldAndNew
<1>13. \A i \in DOMAIN list1 :
           \/ \E k \in DOMAIN towers[1] :
                list1[i].id = towers[1][k].id /\ list1[i].isBase = towers[1][k].isBase
           \/ list1[i].id \in nextId .. nextId' - 1 /\ list1[i].isBase = FALSE
    BY <1>5, <1>9, <1>11 DEF OldAndNew
<1>14. ASSUME NEW i \in DOMAIN list0, NEW j \in DOMAIN list1 PROVE list0[i].id # list1[j].id
  <2>1. CASE /\ list0[i].id \in nextId .. nextId + new0 - 1
             /\ list1[j].id \in nextId + new0 .. nextId + new0 + new1 - 1
      BY <1>2, <2>1
  <2>2. CASE i \in DOMAIN old0 /\ list0[i] = old0[i] /\ j \in DOMAIN old1 /\ list1[j] = old1[j]
      BY <1>0, <1>5, <2>2, Taken
  <2>3. CASE /\ i \in DOMAIN old0 /\ list0[i] = old0[i]
             /\ list1[j].id \in nextId + new0 .. nextId + new0 + new1 - 1
    <3>1. old0[i].id < nextId /\ old0[i].id \in Nat
      <4>1. old0[i] \in Tower
          BY <1>5, <2>3
      <4> QED
          BY <1>6, <2>3, <4>1 DEF Tower, Below
    <3>2. \A a \in Nat : a < nextId => a \notin nextId + new0 .. nextId + new0 + new1 - 1
        BY <1>2
    <3> QED
        BY <2>3, <3>1, <3>2
  <2>4. CASE /\ list0[i].id \in nextId .. nextId + new0 - 1
             /\ j \in DOMAIN old1 /\ list1[j] = old1[j]
    <3>1. old1[j].id < nextId /\ old1[j].id \in Nat
      <4>1. old1[j] \in Tower
          BY <1>5, <2>4
      <4> QED
          BY <1>6, <2>4, <4>1 DEF Tower, Below
    <3>2. \A a \in Nat : a < nextId => a \notin nextId .. nextId + new0 - 1
        BY <1>2
    <3> QED
        BY <2>4, <3>1, <3>2
  <2> QED
      BY <1>8, <1>9, <2>1, <2>2, <2>3, <2>4 DEF OldAndNew
<1>15. towers' \in [Players -> Seq(Tower)]
  <2>1. towers' = [p \in Players |-> IF p = 0 THEN list0 ELSE list1]
      BY <1>1 DEF list0, list1, built0, built1
  <2> QED
      BY <1>8, <1>9, <2>1
<1>16. nextId' \in Nat /\ nextId' >= nextId
    BY <1>1, <1>2
<1>17. \A p \in Players : \A i, j \in DOMAIN towers'[p] :
          i < j => towers'[p][i].id < towers'[p][j].id
    BY <1>3, <1>4, <1>8, <1>9 DEF Rising
<1>18. \A p \in Players : \A i \in DOMAIN towers'[p] :
          \/ \E k \in DOMAIN towers[p] :
               /\ towers'[p][i].id = towers[p][k].id
               /\ towers'[p][i].isBase = towers[p][k].isBase
          \/ towers'[p][i].id \in nextId .. nextId' - 1 /\ towers'[p][i].isBase = FALSE
    BY <1>3, <1>4, <1>12, <1>13
<1>19. \A i \in DOMAIN towers'[0], j \in DOMAIN towers'[1] : towers'[0][i].id # towers'[1][j].id
    BY <1>4, <1>14
<1> QED
    BY <1>15, <1>16, <1>17, <1>18, <1>19

-----------------------------------------------------------------------------
(* The initial state, and types.                                           *)

\* The initial state satisfies the invariant.
LEMMA InitLogInv == Init => LogInv
<1> SUFFICES ASSUME Init PROVE LogInv
    OBVIOUS
<1>0. 0 \in Players /\ 1 \in Players /\ \A p \in Players : p \in Nat /\ p < 2
    BY Constants
<1>1. ASSUME NEW p \in Players
      PROVE  /\ towers[p] = <<Base(p)>> /\ towerLogs[p] = <<>>
             /\ DOMAIN towers[p] = {1} /\ towers[p][1] = Base(p)
             /\ DOMAIN towerLogs[p] = {} /\ Base(p) \in Tower
             /\ refused[p] = <<>> /\ errors[p] = <<>> /\ DOMAIN refused[p] = {}
  <2>1. towers[p] = <<Base(p)>> /\ towerLogs[p] = <<>> /\ refused[p] = <<>> /\ errors[p] = <<>>
      BY DEF Init, NoErrors
  <2>2. Base(p) \in Tower
      BY <1>0, Constants DEF Base, Tower
  <2>3. \A x : DOMAIN <<x>> = {1} /\ <<x>>[1] = x
      OBVIOUS
  <2>4. DOMAIN <<>> = {}
      OBVIOUS
  <2> QED
      BY <2>1, <2>2, <2>3, <2>4
<1>2. TypeOK
  <2>1. /\ towers \in [Players -> Seq(Tower)] /\ towerLogs \in [Players -> Seq(Entry)]
        /\ refused \in [Players -> Seq(Messages)] /\ errors \in [Players -> Seq(Nat)]
      BY <1>1 DEF Init, NoErrors
  <2> QED
      BY <1>0, <2>1 DEF Init, TypeOK, NobodysCounts
<1>3. TurnsAgree
    BY DEF Init, TurnsAgree
<1>4. CodesDiffer
  <2>1. DOMAIN errorMap = {} /\ IsFiniteSet({})
      BY FS_EmptySet DEF Init
  <2> QED
      BY <2>1 DEF Init, CodesDiffer
<1>5. OfThisRound
    BY <1>1 DEF Init, OfThisRound
<1>6. CodesKeepMeaning
    BY DEF Init, CodesKeepMeaning
<1>7. ASSUME NEW p \in Players PROVE TowerIds(p) = {p} /\ LoggedIds(p) = {}
  <2>1. Base(p).id = p
      BY DEF Base
  <2> QED
      BY <1>1, <2>1 DEF TowerIds, LoggedIds
<1>8. ASSUME NEW p \in Players PROVE IdsRise(p) /\ OldOrNew(p)
    BY <1>1, <1>7 DEF IdsRise, OldOrNew
<1>9. IdsAreTaken
  <2>1. nextId = 2
      BY DEF Init
  <2>2. \A p \in Players : \A id \in TowerIds(p) \cup LoggedIds(p) : id < nextId
      BY <1>0, <1>7, <2>1
  <2>3. (TowerIds(0) \cup LoggedIds(0)) \cap (TowerIds(1) \cup LoggedIds(1)) = {}
      BY <1>0, <1>7
  <2>4. \A p \in Players : \A i \in DOMAIN towers[p] : towers[p][i].isBase <=> towers[p][i].id = p
    <3>1. \A p \in Players : Base(p).isBase = TRUE /\ Base(p).id = p
        BY DEF Base
    <3> QED
        BY <1>1, <3>1
  <2> QED
      BY <2>1, <2>2, <2>3, <2>4 DEF IdsAreTaken
<1>10. WalkIsInStep
    BY DEF Init, WalkIsInStep
<1>11. ReaderHasTheLog
    BY <1>1 DEF Init, ReaderHasTheLog
<1> QED
    BY <1>2, <1>3, <1>4, <1>5, <1>6, <1>8, <1>9, <1>10, <1>11 DEF LogInv

\* The next code is a natural number.
LEMMA CodeType ==
    ASSUME CodesDiffer, NEW m
    PROVE  ErrorCode(m) \in Nat /\ Cardinality(DOMAIN errorMap) \in Nat
<1>1. Cardinality(DOMAIN errorMap) \in Nat
    BY FS_CardinalityType DEF CodesDiffer
<1> QED
    BY <1>1 DEF CodesDiffer, ErrorCode

\* Every step preserves the types.
LEMMA TypeStep ==
    ASSUME LogInv, [Next]_vars
    PROVE  TypeOK'
<1>0. TypeOK /\ CodesDiffer
    BY DEF LogInv
<1> USE <1>0
<1>a. \A p \in Players : towers[p] \in Seq(Tower) /\ towerLogs[p] \in Seq(Entry)
    BY Typed
<1>b. 1 - who \in Players /\ 0 \in Players
    BY Constants DEF TypeOK
<1>1. ASSUME NEW n \in Counts, LogInstructionCount(n) PROVE TypeOK'
  <2>1. n \in Nat
      BY Constants
  <2> QED
      BY <1>1, <1>b, <2>1 DEF TypeOK, LogInstructionCount, stateVars, fileVars, pointers
<1>2. CASE Proceed
    BY <1>2 DEF TypeOK, Proceed, stateVars, fileVars, pointers, history
<1>3. ASSUME NEW p \in Players, NEW m \in Messages, LogError(p, m) PROVE TypeOK'
  <2>1. refused' \in [Players -> Seq(Messages)]
      BY <1>3 DEF TypeOK, LogError
  <2>2. errors' \in [Players -> Seq(Nat)]
      BY <1>3, CodeType DEF TypeOK, LogError
  <2> QED
      BY <1>3, <2>1, <2>2 DEF TypeOK, LogError, stateVars, driverVars, fileVars, pointers
<1>4. CASE Update
  <2>1. towers' \in [Players -> Seq(Tower)] /\ nextId' \in Nat
      BY <1>4, Renewed
  <2> QED
    <3>1. /\ place' = "log" /\ rounds' = rounds + 1
          /\ UNCHANGED <<who, turnCount, towerLogs, logPtr, towerPtr, instCounts, errors, refused>>
        BY <1>4 DEF Update, pointers, history
    <3> QED
        BY <2>1, <3>1 DEF TypeOK
<1>5. CASE LogFirstTowers
  <2>1. towerLogs' \in [Players -> Seq(Entry)]
    <3>1. ASSUME NEW p \in Players
          PROVE  [i \in DOMAIN towers[p] |-> LogEntry(towers[p][i])] \in Seq(Entry)
      <4>1. /\ DOMAIN towers[p] = 1 .. Len(towers[p]) /\ Len(towers[p]) \in Nat
            /\ \A i \in DOMAIN towers[p] : LogEntry(towers[p][i]) \in Entry
          BY Typed, EntryOf
      <4> QED
          BY <4>1
    <3> QED
        BY <1>5, <3>1 DEF LogFirstTowers
  <2> QED
      BY <1>5, <2>1 DEF TypeOK, LogFirstTowers, stateVars, pointers, history
<1>6. CASE BeginWalk
    BY <1>6 DEF TypeOK, BeginWalk, stateVars, fileVars, history
<1>7. CASE MatchTower
  <2>1. towerLogs' \in [Players -> Seq(Entry)]
    <3>1. CASE UNCHANGED towerLogs
        BY <3>1 DEF TypeOK
    <3>2. CASE towerLogs' = [towerLogs EXCEPT ![who][logPtr] = LogEntry(towers[who][towerPtr])]
      <4>1. /\ who \in Players /\ towerPtr \in DOMAIN towers[who]
            /\ logPtr \in DOMAIN towerLogs[who]
          BY <1>7, Typed DEF MatchTower, TowersLeft, LogsLeft, TypeOK
      <4>2. LogEntry(towers[who][towerPtr]) \in Entry
          BY <4>1, Typed, EntryOf
      <4>3. towerLogs' = [towerLogs EXCEPT ![who] =
                            [@ EXCEPT ![logPtr] = LogEntry(towers[who][towerPtr])]]
          BY <3>2
      <4>4. [towerLogs[who] EXCEPT ![logPtr] = LogEntry(towers[who][towerPtr])] \in Seq(Entry)
          BY <1>a, <4>1, <4>2, Replaced
      <4> QED
          BY <4>1, <4>3, <4>4 DEF TypeOK
    <3> QED
        BY <1>7, <3>1, <3>2 DEF MatchTower
  <2> QED
      BY <1>7, <2>1 DEF TypeOK, MatchTower, stateVars, driverVars, history
<1>8. CASE LoseTower
  <2>1. who \in Players /\ logPtr \in DOMAIN towerLogs[who]
      BY <1>8, Typed DEF LoseTower, LogsLeft, TypeOK
  <2>2. RemoveAt(towerLogs[who], logPtr) \in Seq(Entry)
      BY <1>a, <2>1, Removed
  <2>3. towerLogs' \in [Players -> Seq(Entry)]
      BY <1>8, <2>2 DEF LoseTower, TypeOK
  <2> QED
      BY <1>8, <2>3 DEF TypeOK, LoseTower, stateVars, driverVars, history, pointers
<1>9. CASE MeetTower
  <2>1. who \in Players /\ towerPtr \in DOMAIN towers[who]
      BY <1>9, Typed DEF MeetTower, TowersLeft, TypeOK
  <2>2. LogEntry(towers[who][towerPtr]) \in Entry
      BY <2>1, Typed, EntryOf
  <2>3. towerLogs' \in [Players -> Seq(Entry)]
      BY <1>9, <1>a, <2>2 DEF MeetTower, TypeOK
  <2> QED
      BY <1>9, <2>3 DEF TypeOK, MeetTower, stateVars, driverVars, history
<1>10. CASE EndWalk
    BY SMTT(30), <1>10, <1>b DEF TypeOK, EndWalk, stateVars, fileVars, history
<1>11. CASE LogRest
  <2>1. errors' \in [Players -> Seq(Nat)] /\ refused' \in [Players -> Seq(Messages)]
      BY <1>11 DEF LogRest, NoErrors
  <2> QED
      BY <1>11, <2>1 DEF TypeOK, LogRest, stateVars, pointers, fileVars, NobodysCounts
<1>12. CASE WriteGame
    BY <1>12 DEF TypeOK, WriteGame, stateVars, pointers, history
<1>13. CASE UNCHANGED vars
    BY <1>13 DEF TypeOK, vars, stateVars, driverVars, pointers, fileVars, history
<1> QED
    BY <1>1, <1>2, <1>3, <1>4, <1>5, <1>6, <1>7, <1>8, <1>9, <1>10, <1>11, <1>12, <1>13
       DEF Next, Round, LogState

-----------------------------------------------------------------------------
(* Turns, counts and errors.                                               *)

CodesPart == TurnsAgree /\ CodesDiffer /\ OfThisRound /\ CodesKeepMeaning

\* A message is given a code: its own, or the next one.
LEMMA LogErrorCodes ==
    ASSUME TypeOK, CodesPart, NEW p \in Players, NEW m \in Messages, LogError(p, m)
    PROVE  CodesPart'
<1>0. TurnsAgree /\ CodesDiffer /\ OfThisRound /\ CodesKeepMeaning
    BY DEF CodesPart
<1> DEFINE known == DOMAIN errorMap
           code == ErrorCode(m)
<1>1. /\ place = "execute"
      /\ errorMap' = [x \in known \cup {m} |-> IF x = m THEN code ELSE errorMap[x]]
      /\ errors' = [errors EXCEPT ![p] = Append(@, code)]
      /\ refused' = [refused EXCEPT ![p] = Append(@, m)]
      /\ UNCHANGED <<place, who, rounds, turnCount, instCounts, legend, measured, meant>>
    BY DEF LogError, stateVars, driverVars, fileVars
<1>2. /\ IsFiniteSet(known) /\ Cardinality(known) \in Nat /\ code \in Nat
      /\ \A x \in known : errorMap[x] \in 0 .. Cardinality(known) - 1
      /\ \A x, y \in known : errorMap[x] = errorMap[y] => x = y
    BY <1>0, CodeType DEF CodesDiffer
<1>3. code = IF m \in known THEN errorMap[m] ELSE Cardinality(known)
    BY DEF ErrorCode
<1>4. /\ IsFiniteSet(known \cup {m})
      /\ Cardinality(known \cup {m}) = IF m \in known THEN Cardinality(known) ELSE Cardinality(known) + 1
    BY <1>2, FS_AddElement
<1>5. DOMAIN errorMap' = known \cup {m}
    BY <1>1
<1>6. \A x \in known : errorMap'[x] = errorMap[x]
    BY <1>1, <1>3
<1>7. errorMap'[m] = code
    BY <1>1
<1> HIDE DEF known, code
<1>8. CodesDiffer'
  <2>1. ASSUME NEW x \in known \cup {m}
        PROVE  errorMap'[x] \in 0 .. Cardinality(known \cup {m}) - 1
    <3>1. CASE x \in known
        BY <1>2, <1>4, <1>6, <3>1
    <3>2. CASE x = m /\ m \notin known
        BY <1>2, <1>3, <1>4, <1>7, <3>2
    <3> QED
        BY <3>1, <3>2
  <2>2. ASSUME NEW x \in known \cup {m}, NEW y \in known \cup {m}, errorMap'[x] = errorMap'[y]
        PROVE  x = y
    <3>1. CASE x \in known /\ y \in known
        BY <1>2, <1>6, <2>2, <3>1
    <3>2. ASSUME NEW z \in known, m \notin known PROVE errorMap'[z] # errorMap'[m]
      <4>1. errorMap'[z] \in 0 .. Cardinality(known) - 1 /\ errorMap'[m] = Cardinality(known)
          BY <1>2, <1>3, <1>6, <1>7, <3>2
      <4> QED
          BY <1>2, <4>1
    <3> QED
        BY <2>2, <3>1, <3>2
  <2>3. errorMap' \in [known \cup {m} -> 0 .. Cardinality(known \cup {m}) - 1]
      BY <1>1, <2>1
  <2> QED
      BY <1>4, <1>5, <2>2, <2>3 DEF CodesDiffer
<1>9. OfThisRound'
  <2>1. ASSUME NEW q \in Players
        PROVE  /\ Len(errors'[q]) = Len(refused'[q])
               /\ \A k \in DOMAIN refused'[q] :
                    /\ refused'[q][k] \in known \cup {m}
                    /\ errors'[q][k] = errorMap'[refused'[q][k]]
    <3>0. /\ errors[q] \in Seq(Nat) /\ refused[q] \in Seq(Messages)
          /\ DOMAIN refused[q] = 1 .. Len(refused[q]) /\ Len(refused[q]) \in Nat
        BY DEF TypeOK
    <3>1. /\ Len(errors[q]) = Len(refused[q])
          /\ \A k \in DOMAIN refused[q] :
               refused[q][k] \in known /\ errors[q][k] = errorMap[refused[q][k]]
        BY <1>0 DEF OfThisRound, known
    <3>2. CASE q # p
      <4>1. errors'[q] = errors[q] /\ refused'[q] = refused[q]
          BY <1>1, <3>2 DEF TypeOK
      <4> QED
          BY <1>6, <3>1, <4>1
    <3>3. CASE q = p
      <4>1. errors'[q] = Append(errors[q], code) /\ refused'[q] = Append(refused[q], m)
          BY <1>1, <3>3 DEF TypeOK
      <4>2. /\ Len(errors'[q]) = Len(errors[q]) + 1 /\ errors'[q][Len(errors[q]) + 1] = code
            /\ \A k \in 1 .. Len(errors[q]) : errors'[q][k] = errors[q][k]
          BY <1>2, <3>0, <4>1, Appended
      <4>3. /\ Len(refused'[q]) = Len(refused[q]) + 1 /\ refused'[q][Len(refused[q]) + 1] = m
            /\ \A k \in 1 .. Len(refused[q]) : refused'[q][k] = refused[q][k]
            /\ DOMAIN refused'[q] = 1 .. Len(refused[q]) + 1
          BY <3>0, <4>1, Appended
      <4>4. ASSUME NEW k \in 1 .. Len(refused[q]) + 1
            PROVE  refused'[q][k] \in known \cup {m} /\ errors'[q][k] = errorMap'[refused'[q][k]]
        <5>1. CASE k = Len(refused[q]) + 1
            BY <1>7, <3>1, <4>2, <4>3, <5>1
        <5>2. CASE k \in 1 .. Len(refused[q])
          <6>1. refused'[q][k] = refused[q][k] /\ errors'[q][k] = errors[q][k]
              BY <3>1, <4>2, <4>3, <5>2
          <6>2. refused[q][k] \in known /\ errors[q][k] = errorMap[refused[q][k]]
              BY <3>0, <3>1, <5>2
          <6>3. errorMap'[refused[q][k]] = errorMap[refused[q][k]]
              BY <1>6, <6>2
          <6> QED
              BY <6>1, <6>2, <6>3
        <5> QED
            BY <3>0, <5>1, <5>2
      <4> QED
          BY <3>1, <4>2, <4>3, <4>4
    <3> QED
        BY <3>2, <3>3
  <2> QED
      BY ZenonT(40), <1>0, <1>1, <1>5, <2>1 DEF OfThisRound
<1>10. TurnsAgree'
    BY <1>0, <1>1 DEF TurnsAgree
<1>11. CodesKeepMeaning'
    BY <1>0, <1>1, <1>5, <1>6 DEF CodesKeepMeaning, known
<1> QED
    BY <1>8, <1>9, <1>10, <1>11 DEF CodesPart

\* Every step preserves this part of the invariant.
LEMMA CodesStep ==
    ASSUME TypeOK, CodesPart, [Next]_vars
    PROVE  CodesPart'
<1>0. TurnsAgree /\ CodesDiffer /\ OfThisRound /\ CodesKeepMeaning
    BY DEF CodesPart
<1>1. ASSUME UNCHANGED <<instCounts, measured, errors, refused, errorMap, meant>>,
             place' # "closed"
      PROVE  CodesDiffer' /\ OfThisRound' /\ CodesKeepMeaning'
  <2>1. CodesDiffer'
      BY <1>0, <1>1 DEF CodesDiffer
  <2>2. OfThisRound'
      BY <1>0, <1>1 DEF OfThisRound
  <2>3. CodesKeepMeaning'
      BY <1>0, <1>1 DEF CodesKeepMeaning
  <2> QED
      BY <2>1, <2>2, <2>3
<1>2. ASSUME NEW n \in Counts, LogInstructionCount(n) PROVE CodesPart'
  <2>0. /\ place = "counts" /\ place' = IF who = 1 THEN "decide" ELSE "counts"
        /\ who' = 1 - who /\ who \in {0, 1}
        /\ instCounts' = [instCounts EXCEPT ![who] = n]
        /\ measured' = [measured EXCEPT ![who] = n]
        /\ UNCHANGED <<rounds, turnCount, errors, refused, errorMap, meant>>
      BY <1>2, Constants DEF LogInstructionCount, TypeOK
  <2>1. TurnsAgree'
      BY <1>0, <2>0 DEF TurnsAgree
  <2>2. CodesDiffer'
      BY <1>0, <2>0 DEF CodesDiffer
  <2>3. OfThisRound'
      BY <1>0, <2>0 DEF OfThisRound
  <2>4. CodesKeepMeaning'
      BY <1>0, <2>0 DEF CodesKeepMeaning
  <2> QED
      BY <2>1, <2>2, <2>3, <2>4 DEF CodesPart
<1>3. CASE Proceed
  <2>1. TurnsAgree'
      BY <1>0, <1>3 DEF TurnsAgree, Proceed
  <2> QED
      BY <1>1, <1>3, <2>1 DEF Proceed, history, CodesPart
<1>4. ASSUME NEW p \in Players, NEW m \in Messages, LogError(p, m) PROVE CodesPart'
    BY <1>4, LogErrorCodes
<1>5. CASE Update
  <2>1. /\ place = "execute" /\ place' = "log" /\ rounds' = rounds + 1
        /\ UNCHANGED <<who, turnCount, instCounts, measured, errors, refused, errorMap, meant>>
      BY <1>5 DEF Update, history
  <2>2. TurnsAgree'
      BY <1>0, <2>1 DEF TurnsAgree
  <2> QED
      BY <1>1, <2>1, <2>2 DEF CodesPart
<1>6. CASE LogFirstTowers
  <2>1. TurnsAgree'
      BY <1>0, <1>6 DEF TurnsAgree, LogFirstTowers, TypeOK
  <2> QED
      BY <1>1, <1>6, <2>1 DEF LogFirstTowers, history, CodesPart
<1>7. CASE BeginWalk
  <2>1. TurnsAgree'
      BY <1>0, <1>7 DEF TurnsAgree, BeginWalk, TypeOK
  <2> QED
      BY <1>1, <1>7, <2>1 DEF BeginWalk, history, CodesPart
<1>8. CASE MatchTower \/ LoseTower \/ MeetTower
  <2>0. /\ place = "walk"
        /\ UNCHANGED <<place, who, rounds, turnCount, instCounts, measured, errors, refused,
                       errorMap, meant>>
      BY <1>8 DEF MatchTower, LoseTower, MeetTower, driverVars, history
  <2>1. TurnsAgree'
      BY <1>0, <2>0 DEF TurnsAgree
  <2> QED
      BY <1>1, <2>0, <2>1 DEF CodesPart
<1>9. CASE EndWalk
  <2>0. who \in {0, 1}
      BY Constants DEF TypeOK
  <2>1. TurnsAgree'
      BY <1>0, <1>9, <2>0 DEF TurnsAgree, EndWalk
  <2>2. place' # "closed"
      BY <1>9 DEF EndWalk
  <2> QED
      BY <1>1, <1>9, <2>1, <2>2 DEF EndWalk, history, CodesPart
<1>10. CASE LogRest
  <2>0. /\ place = "rest" /\ place' = "counts"
        /\ instCounts' = NobodysCounts /\ measured' = NobodysCounts
        /\ errors' = NoErrors /\ refused' = NoErrors
        /\ meant' = meant \cup Meanings
        /\ UNCHANGED <<who, rounds, turnCount, errorMap>>
      BY <1>10 DEF LogRest
  <2>1. TurnsAgree'
      BY <1>0, <2>0 DEF TurnsAgree
  <2>2. CodesDiffer'
      BY <1>0, <2>0 DEF CodesDiffer
  <2>3. OfThisRound'
      BY <2>0 DEF OfThisRound, NoErrors
  <2>4. \A e \in Meanings : e[2] \in DOMAIN errorMap /\ errorMap[e[2]] = e[1]
    <3>1. ASSUME NEW e \in Meanings
          PROVE  e[2] \in DOMAIN errorMap /\ errorMap[e[2]] = e[1]
      <4>1. PICK p \in Players : \E k \in DOMAIN refused[p] : e = <<errors[p][k], refused[p][k]>>
          BY DEF Meanings
      <4>2. PICK k \in DOMAIN refused[p] : e = <<errors[p][k], refused[p][k]>>
          BY <4>1
      <4> QED
          BY <1>0, <4>2 DEF OfThisRound
    <3> QED
        BY <3>1
  <2>5. CodesKeepMeaning'
      BY <1>0, <2>0, <2>4 DEF CodesKeepMeaning
  <2> QED
      BY <2>1, <2>2, <2>3, <2>5 DEF CodesPart
<1>11. CASE WriteGame
  <2>0. /\ place \in {"counts", "decide"} /\ place' = "closed"
        /\ legend' = [c \in {errorMap[m] : m \in DOMAIN errorMap} |->
                        CHOOSE m \in DOMAIN errorMap : errorMap[m] = c]
        /\ UNCHANGED <<who, rounds, turnCount, instCounts, measured, errors, refused, errorMap,
                       meant>>
      BY <1>11 DEF WriteGame, history
  <2>1. TurnsAgree'
      BY <1>0, <2>0 DEF TurnsAgree
  <2>2. CodesDiffer'
      BY <1>0, <2>0 DEF CodesDiffer
  <2>3. OfThisRound'
      BY <1>0, <2>0 DEF OfThisRound
  <2>4. CodesKeepMeaning'
      BY <1>0, <2>0 DEF CodesKeepMeaning
  <2> QED
      BY <2>1, <2>2, <2>3, <2>4 DEF CodesPart
<1>12. CASE UNCHANGED vars
  <2>0. UNCHANGED <<place, who, rounds, turnCount, instCounts, measured, errors, refused,
                    errorMap, meant, legend>>
      BY <1>12 DEF vars, driverVars, fileVars, history
  <2>1. TurnsAgree' /\ CodesDiffer'
      BY <1>0, <2>0 DEF TurnsAgree, CodesDiffer
  <2>2. OfThisRound' /\ CodesKeepMeaning'
      BY <1>0, <2>0 DEF OfThisRound, CodesKeepMeaning
  <2> QED
      BY <2>1, <2>2 DEF CodesPart
<1> QED
    BY <1>2, <1>3, <1>4, <1>5, <1>6, <1>7, <1>8, <1>9, <1>10, <1>11, <1>12
       DEF Next, Round, LogState

-----------------------------------------------------------------------------
(* Towers and what is logged of them.                                      *)

ListsPart == (\A p \in Players : IdsRise(p) /\ OldOrNew(p)) /\ IdsAreTaken
TowersPart == ListsPart /\ WalkIsInStep /\ ReaderHasTheLog

\* Steps that leave the lists alone.
LEMMA ListsKept ==
    ASSUME ListsPart, UNCHANGED <<towers, nextId, towerLogs>>
    PROVE  ListsPart'
<1>1. \A p \in Players : TowerIds(p)' = TowerIds(p) /\ LoggedIds(p)' = LoggedIds(p)
    BY DEF TowerIds, LoggedIds
<1>2. 0 \in Players /\ 1 \in Players
    BY Constants
<1>3. ASSUME NEW p \in Players PROVE IdsRise(p)' /\ OldOrNew(p)'
  <2>1. IdsRise(p) /\ OldOrNew(p)
      BY DEF ListsPart
  <2>2. IdsRise(p)'
      BY <2>1 DEF IdsRise
  <2>3. OldOrNew(p)'
      BY <1>1, <2>1 DEF OldOrNew
  <2> QED
      BY <2>2, <2>3
<1>4. IdsAreTaken'
    BY <1>1, <1>2 DEF ListsPart, IdsAreTaken
<1> QED
    BY <1>3, <1>4 DEF ListsPart

\* The same for what a reader has.
LEMMA ReaderKept ==
    ASSUME ReaderHasTheLog, UNCHANGED <<replay, towerLogs>>
    PROVE  ReaderHasTheLog'
BY DEF ReaderHasTheLog

\* What the towers of a turn are does not matter to what is logged; new ones
\* are newer than all that is.
LEMMA UpdateStep ==
    ASSUME LogInv, Update
    PROVE  TowersPart'
<1>0. /\ TypeOK /\ IdsAreTaken /\ WalkIsInStep /\ ReaderHasTheLog
      /\ \A p \in Players : IdsRise(p)
    BY DEF LogInv
<1>1. /\ place = "execute" /\ place' = "log"
      /\ UNCHANGED <<replay, towerLogs>>
    BY DEF Update, fileVars
<1>2. \A p \in Players : Logged(p)
    BY <1>0, <1>1 DEF WalkIsInStep
<1>3. /\ towers' \in [Players -> Seq(Tower)]
      /\ nextId' \in Nat /\ nextId' >= nextId /\ nextId \in Nat
    BY <1>0, Renewed DEF TypeOK
<1>4. \A p \in Players : \A k \in DOMAIN towers[p] :
         /\ k \in DOMAIN towerLogs[p]
         /\ towerLogs[p][k].id = towers[p][k].id
         /\ towers[p][k].id < nextId
         /\ towers[p][k].id \in Nat
  <2>1. ASSUME NEW p \in Players, NEW k \in DOMAIN towers[p]
        PROVE  /\ k \in DOMAIN towerLogs[p]
               /\ towerLogs[p][k].id = towers[p][k].id
    <3>1. DOMAIN towerLogs[p] = DOMAIN towers[p] /\ towers[p][k] \in Tower
        BY <1>0, <1>2, Typed DEF Logged
    <3> QED
        BY <1>2, <3>1, EntryOf DEF Logged
  <2> QED
      BY <1>0, <2>1, Taken, Typed
<1>5. ASSUME NEW p \in Players PROVE IdsRise(p)'
    BY <1>0, <1>1, Renewed DEF IdsRise
<1>6. \A p \in Players : \A i \in DOMAIN towers'[p] :
         \/ \E k \in DOMAIN towers[p] :
              /\ towers'[p][i].id = towers[p][k].id
              /\ towers'[p][i].isBase = towers[p][k].isBase
         \/ /\ towers'[p][i].id \in nextId .. nextId' - 1
            /\ towers'[p][i].isBase = FALSE
    BY Renewed
<1>7. \A p \in Players : \A id \in LoggedIds(p) : id \in Nat /\ id < nextId
    BY <1>0, Typed, Taken DEF LoggedIds
<1>8. \A p \in Players : LoggedIds(p)' = LoggedIds(p)
    BY <1>1 DEF LoggedIds
<1>9. ASSUME NEW p \in Players PROVE OldOrNew(p)'
  <2>1. ASSUME NEW i \in DOMAIN towers'[p]
        PROVE  \/ towers'[p][i].id \in LoggedIds(p)
               \/ \A id \in LoggedIds(p) : id < towers'[p][i].id
    <3>1. ASSUME NEW k \in DOMAIN towers[p] PROVE towers[p][k].id \in LoggedIds(p)
        BY <1>4 DEF LoggedIds
    <3>2. \A a \in nextId .. nextId' - 1 : \A id \in Nat : id < nextId => id < a
        BY <1>3
    <3> QED
        BY <1>6, <1>7, <3>1, <3>2
  <2> QED
      BY <1>8, <2>1 DEF OldOrNew
<1>10. IdsAreTaken'
  <2>1. nextId' >= 2
      BY <1>0, <1>3 DEF IdsAreTaken
  <2>2. ASSUME NEW p \in Players, NEW i \in DOMAIN towers'[p] PROVE towers'[p][i].id < nextId'
    <3>0. nextId \in Nat /\ nextId' \in Nat /\ nextId <= nextId'
        BY <1>3
    <3>1. \A b, c \in Nat : \A a \in b .. c - 1 : a < c
        OBVIOUS
    <3>2. \A a, b, c \in Nat : a < b /\ b <= c => a < c
        OBVIOUS
    <3> QED
        BY <1>4, <1>6, <3>0, <3>1, <3>2
  <2>3. \A p \in Players : \A id \in LoggedIds(p) : id < nextId'
    <3>1. \A a \in Nat : a < nextId => a < nextId'
        BY <1>3
    <3> QED
        BY <1>7, <3>1
  <2>4. ASSUME NEW p \in Players, NEW i \in DOMAIN towers'[p]
        PROVE  towers'[p][i].isBase <=> towers'[p][i].id = p
    <3>1. CASE \E k \in DOMAIN towers[p] :
                 /\ towers'[p][i].id = towers[p][k].id
                 /\ towers'[p][i].isBase = towers[p][k].isBase
        BY <1>0, <3>1 DEF IdsAreTaken
    <3>2. CASE /\ towers'[p][i].id \in nextId .. nextId' - 1
               /\ towers'[p][i].isBase = FALSE
      <4>1. p \in Nat /\ p < 2 /\ nextId >= 2
          BY <1>0, Constants DEF IdsAreTaken
      <4>2. towers'[p][i].id # p
          BY <1>3, <3>2, <4>1
      <4> QED
          BY <3>2, <4>2
    <3> QED
        BY <1>6, <3>1, <3>2
  <2>5. ASSUME NEW p \in Players, NEW q \in Players, p # q,
               NEW i \in DOMAIN towers'[p], NEW id \in LoggedIds(q)
        PROVE  towers'[p][i].id # id
    <3>1. PICK j \in DOMAIN towerLogs[q] : id = towerLogs[q][j].id
        BY DEF LoggedIds
    <3>2. CASE towers'[p][i].id \in nextId .. nextId' - 1
        BY <1>3, <1>7, <3>2
    <3>3. CASE \E k \in DOMAIN towers[p] : towers'[p][i].id = towers[p][k].id
      <4>1. PICK k \in DOMAIN towers[p] : towers'[p][i].id = towers[p][k].id
          BY <3>3
      <4>2. (p = 0 /\ q = 1) \/ (p = 1 /\ q = 0)
          BY <2>5, Constants
      <4> QED
          BY <1>0, <3>1, <4>1, <4>2, Taken
    <3> QED
        BY <1>6, <3>2, <3>3
  <2>6. \A i \in DOMAIN towers'[0], j \in DOMAIN towers'[1] : towers'[0][i].id # towers'[1][j].id
      BY Renewed
  <2>7. LoggedIds(0) \cap LoggedIds(1) = {}
      BY <1>0 DEF IdsAreTaken
  <2>8. /\ LoggedIds(0)' = LoggedIds(0) /\ LoggedIds(1)' = LoggedIds(1)
        /\ 0 \in Players /\ 1 \in Players
      BY <1>8, Constants
  <2>9. /\ TowerIds(0)' = {towers'[0][i].id : i \in DOMAIN towers'[0]}
        /\ TowerIds(1)' = {towers'[1][i].id : i \in DOMAIN towers'[1]}
        /\ \A p \in Players : TowerIds(p)' = {towers'[p][i].id : i \in DOMAIN towers'[p]}
      BY DEF TowerIds
  <2>10. ((TowerIds(0) \cup LoggedIds(0)) \cap (TowerIds(1) \cup LoggedIds(1)))' = {}
      BY <2>5, <2>6, <2>7, <2>8, <2>9
  <2>11. \A p \in Players : \A id \in (TowerIds(p) \cup LoggedIds(p))' : id < nextId'
      BY <1>8, <2>2, <2>3, <2>9
  <2> QED
      BY <2>1, <2>4, <2>10, <2>11 DEF IdsAreTaken
<1>11. WalkIsInStep' /\ ReaderHasTheLog'
    BY <1>0, <1>1, ReaderKept DEF WalkIsInStep
<1> QED
    BY <1>5, <1>9, <1>10, <1>11 DEF TowersPart, ListsPart

\* Steps outside LogState, and the rest of a frame.
LEMMA QuietStep ==
    ASSUME TowersPart, UNCHANGED <<towers, nextId, towerLogs, replay>>,
           place \notin {"log", "walk"}, place' \notin {"log", "walk"}
    PROVE  TowersPart'
<1>1. \A p \in Players : Logged(p)
    BY DEF TowersPart, WalkIsInStep
<1>2. WalkIsInStep'
    BY <1>1 DEF WalkIsInStep, Logged
<1> QED
    BY <1>2, ListsKept, ReaderKept DEF TowersPart

\* The walk begins.
LEMMA BeginWalkStep ==
    ASSUME TurnsAgree, TowersPart, BeginWalk
    PROVE  TowersPart'
<1>1. /\ place = "log" /\ place' = "walk" /\ logPtr' = 1 /\ towerPtr' = 1
      /\ UNCHANGED <<towers, nextId, towerLogs, replay, who>>
    BY DEF BeginWalk, stateVars, fileVars
<1>2. who' = 0
    BY <1>1 DEF TurnsAgree
<1>3. WalkIsInStep'
    BY <1>1, <1>2 DEF WalkIsInStep
<1> QED
    BY <1>1, <1>3, ListsKept, ReaderKept DEF TowersPart

\* When both lists are at their ends they agree.
LEMMA EndWalkStep ==
    ASSUME TypeOK, TowersPart, EndWalk
    PROVE  TowersPart'
<1>1. /\ place = "walk" /\ ~LogsLeft /\ ~TowersLeft
      /\ logPtr' = 1 /\ towerPtr' = 1 /\ who' = 1 - who
      /\ place' = IF who = 1 THEN "rest" ELSE "walk"
      /\ UNCHANGED <<towers, nextId, towerLogs, replay>>
    BY DEF EndWalk, stateVars, fileVars
<1>2. who \in {0, 1} /\ Players = {0, 1}
    BY Constants DEF TypeOK
<1>3. Logged(who)
  <2>1. /\ logPtr = towerPtr /\ logPtr \in Nat \ {0}
        /\ \A i \in 1 .. logPtr - 1 :
             /\ i \in DOMAIN towers[who] /\ i \in DOMAIN towerLogs[who]
             /\ towerLogs[who][i] = LogEntry(towers[who][i])
      BY <1>1 DEF TowersPart, WalkIsInStep, TypeOK
  <2>2. /\ DOMAIN towers[who] = 1 .. Len(towers[who]) /\ Len(towers[who]) \in Nat
        /\ DOMAIN towerLogs[who] = 1 .. Len(towerLogs[who]) /\ Len(towerLogs[who]) \in Nat
      BY <1>2, Typed
  <2>3. ~(logPtr <= Len(towerLogs[who])) /\ ~(towerPtr <= Len(towers[who]))
      BY <1>1 DEF LogsLeft, TowersLeft
  <2>4. \A n \in Nat : (\A i \in 1 .. logPtr - 1 : i \in 1 .. n) /\ ~(logPtr <= n)
                           => n = logPtr - 1
    <3>1. SUFFICES ASSUME NEW n \in Nat, \A i \in 1 .. logPtr - 1 : i \in 1 .. n, ~(logPtr <= n)
                   PROVE  n = logPtr - 1
        OBVIOUS
    <3>2. CASE logPtr = 1
        BY <2>1, <3>1, <3>2
    <3>3. CASE logPtr # 1
      <4>1. logPtr - 1 \in 1 .. logPtr - 1
          BY <2>1, <3>3
      <4>2. logPtr - 1 \in 1 .. n
          BY <3>1, <4>1
      <4> QED
          BY <2>1, <3>1, <4>2
    <3> QED
        BY <3>2, <3>3
  <2>5. Len(towers[who]) = logPtr - 1 /\ Len(towerLogs[who]) = logPtr - 1
      BY <2>1, <2>2, <2>3, <2>4
  <2> QED
      BY <2>1, <2>2, <2>5 DEF Logged
<1>4. WalkIsInStep'
  <2>1. CASE who = 0
    <3>1. place' = "walk" /\ who' = 1 /\ logPtr' = towerPtr' /\ 1 .. logPtr' - 1 = {}
        BY <1>1, <2>1
    <3>2. Logged(0)'
        BY <1>1, <1>3, <2>1 DEF Logged
    <3> QED
        BY <3>1, <3>2 DEF WalkIsInStep
  <2>2. CASE who = 1
    <3>1. place' = "rest"
        BY <1>1, <2>2
    <3>2. Logged(0) /\ Logged(1)
        BY <1>1, <1>3, <2>2 DEF TowersPart, WalkIsInStep
    <3>3. \A p \in Players : Logged(p)'
        BY <1>1, <1>2, <3>2 DEF Logged
    <3> QED
        BY <3>1, <3>3 DEF WalkIsInStep
  <2> QED
      BY <1>2, <2>1, <2>2
<1> QED
    BY <1>1, <1>4, ListsKept, ReaderKept DEF TowersPart

\* The first frame has all towers.
LEMMA LogFirstTowersStep ==
    ASSUME TypeOK, TowersPart, LogFirstTowers
    PROVE  TowersPart'
<1>0. IdsAreTaken /\ \A p \in Players : IdsRise(p)
    BY DEF TowersPart, ListsPart
<1>1. /\ place' = "rest"
      /\ towerLogs' = [p \in Players |-> [i \in DOMAIN towers[p] |-> LogEntry(towers[p][i])]]
      /\ replay' = TowersNow
      /\ UNCHANGED <<towers, nextId>>
    BY DEF LogFirstTowers, stateVars
<1>2. ASSUME NEW p \in Players
      PROVE  /\ DOMAIN towerLogs'[p] = DOMAIN towers[p] /\ Len(towerLogs'[p]) = Len(towers[p])
             /\ \A i \in DOMAIN towers[p] :
                  /\ towerLogs'[p][i] = LogEntry(towers[p][i])
                  /\ towerLogs'[p][i].id = towers[p][i].id
  <2>1. /\ DOMAIN towers[p] = 1 .. Len(towers[p]) /\ Len(towers[p]) \in Nat
        /\ \A i \in DOMAIN towers[p] : towers[p][i] \in Tower
      BY Typed
  <2>2. towerLogs'[p] = [i \in 1 .. Len(towers[p]) |-> LogEntry(towers[p][i])]
      BY <1>1, <2>1
  <2> QED
      BY <2>1, <2>2, EntryOf
<1>3. ASSUME NEW p \in Players PROVE Logged(p)' /\ IdsRise(p)'
  <2>1. Logged(p)'
      BY <1>1, <1>2 DEF Logged
  <2>2. IdsRise(p)'
    <3>1. \A i, j \in DOMAIN towers[p] : i < j => towers[p][i].id < towers[p][j].id
        BY <1>0 DEF IdsRise
    <3>2. \A i, j \in DOMAIN towerLogs'[p] :
             i < j => towerLogs'[p][i].id < towerLogs'[p][j].id
        BY <1>2, <3>1
    <3> QED
        BY <1>1, <3>1, <3>2 DEF IdsRise
  <2> QED
      BY <2>1, <2>2
<1>4. ASSUME NEW p \in Players PROVE LoggedIds(p)' = TowerIds(p) /\ TowerIds(p)' = TowerIds(p)
  <2>1. TowerIds(p)' = TowerIds(p)
      BY <1>1 DEF TowerIds
  <2>2. \A id : id \in LoggedIds(p)' <=> \E i \in DOMAIN towers[p] : id = towers[p][i].id
      BY <1>2 DEF LoggedIds
  <2> QED
      BY <2>1, <2>2 DEF TowerIds
<1>5. ASSUME NEW p \in Players PROVE OldOrNew(p)'
  <2>1. \A i \in DOMAIN towers'[p] : towers'[p][i].id \in TowerIds(p)'
      BY DEF TowerIds
  <2> QED
      BY <1>4, <2>1 DEF OldOrNew
<1>6. IdsAreTaken'
  <2>1. 0 \in Players /\ 1 \in Players
      BY Constants
  <2> QED
      BY <1>0, <1>1, <1>4, <2>1 DEF IdsAreTaken
<1>7. ReaderHasTheLog'
  <2>1. ASSUME NEW p \in Players, NEW i \in DOMAIN towers[p]
        PROVE  Shown(Message(p, towers[p][i])) = AsRead(p, towerLogs'[p][i])
    <3>1. towers[p][i] \in Tower /\ (towers[p][i].isBase <=> towers[p][i].id = p)
        BY <1>0, Typed DEF IdsAreTaken
    <3> QED
        BY <1>2, <3>1, TowerMessages
  <2>2. ASSUME NEW p \in Players
        PROVE  {Shown(Message(p, towers[p][i])) : i \in DOMAIN towers[p]} =
                   {AsRead(p, towerLogs'[p][j]) : j \in DOMAIN towerLogs'[p]}
      BY <1>2, <2>1
  <2>3. TowersNow = UNION {{AsRead(p, towerLogs'[p][j]) : j \in DOMAIN towerLogs'[p]} : p \in Players}
      BY <2>2 DEF TowersNow
  <2> QED
      BY <1>1, <2>3 DEF ReaderHasTheLog, AsRead
<1>8. WalkIsInStep'
    BY <1>1, <1>3 DEF WalkIsInStep
<1> QED
    BY <1>3, <1>5, <1>6, <1>7, <1>8 DEF TowersPart, ListsPart

-----------------------------------------------------------------------------
(* The walk.                                                               *)

\* Where the walk is: ts and ls are the lists of the player whose turn it is,
\* and they agree up to the pointers.
LEMMA Walking ==
    ASSUME LogInv, place = "walk", NEW ts, ts = towers[who], NEW ls, ls = towerLogs[who]
    PROVE  /\ who \in Players /\ who \in {0, 1} /\ logPtr \in Nat \ {0} /\ towerPtr = logPtr
           /\ ts \in Seq(Tower) /\ ls \in Seq(Entry)
           /\ DOMAIN ts = 1 .. Len(ts) /\ DOMAIN ls = 1 .. Len(ls)
           /\ Len(ts) \in Nat /\ Len(ls) \in Nat
           /\ \A i \in DOMAIN ts : ts[i] \in Tower /\ ts[i].id \in Nat
           /\ \A j \in DOMAIN ls : ls[j] \in Entry /\ ls[j].id \in Nat
           /\ \A i \in 1 .. logPtr - 1 :
                i \in DOMAIN ts /\ i \in DOMAIN ls /\ ls[i] = LogEntry(ts[i]) /\ ls[i].id = ts[i].id
           /\ \A i, j \in DOMAIN ts : i < j => ts[i].id < ts[j].id
           /\ \A i, j \in DOMAIN ls : i < j => ls[i].id < ls[j].id
           /\ \A i \in DOMAIN ts :
                \/ \E j \in DOMAIN ls : ls[j].id = ts[i].id
                \/ \A j \in DOMAIN ls : ls[j].id < ts[i].id
<1>0. TypeOK /\ IdsRise(who) /\ OldOrNew(who) /\ WalkIsInStep
    BY DEF LogInv, TypeOK
<1>1. /\ who \in Players /\ who \in {0, 1} /\ logPtr \in Nat \ {0} /\ towerPtr = logPtr
    BY <1>0, Constants DEF TypeOK, WalkIsInStep
<1>2. /\ ts \in Seq(Tower) /\ ls \in Seq(Entry)
      /\ DOMAIN ts = 1 .. Len(ts) /\ DOMAIN ls = 1 .. Len(ls)
      /\ Len(ts) \in Nat /\ Len(ls) \in Nat
      /\ \A i \in DOMAIN ts : ts[i] \in Tower /\ ts[i].id \in Nat
      /\ \A j \in DOMAIN ls : ls[j] \in Entry /\ ls[j].id \in Nat
    BY <1>0, <1>1, Typed
<1>3. \A i \in 1 .. logPtr - 1 :
         i \in DOMAIN ts /\ i \in DOMAIN ls /\ ls[i] = LogEntry(ts[i]) /\ ls[i].id = ts[i].id
  <2>1. \A i \in 1 .. logPtr - 1 : i \in DOMAIN ts /\ i \in DOMAIN ls /\ ls[i] = LogEntry(ts[i])
      BY <1>0 DEF WalkIsInStep
  <2> QED
      BY <1>2, <2>1, EntryOf
<1>4. /\ \A i, j \in DOMAIN ts : i < j => ts[i].id < ts[j].id
      /\ \A i, j \in DOMAIN ls : i < j => ls[i].id < ls[j].id
    BY <1>0 DEF IdsRise
<1>5. \A i \in DOMAIN ts :
         \/ \E j \in DOMAIN ls : ls[j].id = ts[i].id
         \/ \A j \in DOMAIN ls : ls[j].id < ts[i].id
  <2>1. LoggedIds(who) = {ls[j].id : j \in DOMAIN ls}
      BY DEF LoggedIds
  <2>2. \A i \in DOMAIN ts :
           \/ ts[i].id \in LoggedIds(who)
           \/ \A id \in LoggedIds(who) : id < ts[i].id
      BY <1>0 DEF OldOrNew
  <2> QED
      BY <2>1, <2>2
<1> QED
    BY <1>1, <1>2, <1>3, <1>4, <1>5

\* The code need not provide for a tower that is older than the entry it has
\* come to: there is none.
LEMMA NoOlderTower ==
    ASSUME LogInv, place = "walk", LogsLeft, TowersLeft
    PROVE  ~(towerLogs[who][logPtr].id > towers[who][towerPtr].id)
<1> DEFINE ts == towers[who]
           ls == towerLogs[who]
           a == logPtr
<1>0. ts = towers[who] /\ ls = towerLogs[who]
    OBVIOUS
<1>1. a <= Len(ls) /\ towerPtr <= Len(ts)
    BY DEF LogsLeft, TowersLeft
<1> HIDE DEF ts, ls
<1>2. /\ a \in Nat \ {0} /\ towerPtr = a
      /\ DOMAIN ts = 1 .. Len(ts) /\ DOMAIN ls = 1 .. Len(ls)
      /\ Len(ts) \in Nat /\ Len(ls) \in Nat
      /\ \A i \in DOMAIN ts : ts[i].id \in Nat
      /\ \A j \in DOMAIN ls : ls[j].id \in Nat
    BY <1>0, Walking
<1>3. a \in DOMAIN ts /\ a \in DOMAIN ls
    BY <1>1, <1>2
<1>4. ASSUME ts[a].id < ls[a].id PROVE FALSE
  <2>1. PICK j \in DOMAIN ls : ls[j].id = ts[a].id
    <3>1. \/ \E j \in DOMAIN ls : ls[j].id = ts[a].id
          \/ \A j \in DOMAIN ls : ls[j].id < ts[a].id
        BY <1>0, <1>3, Walking
    <3> QED
        BY <1>2, <1>3, <1>4, <3>1
  <2>2. ~(a < j) /\ j # a
    <3>1. a < j => ls[a].id < ls[j].id
        BY <1>0, <1>3, Walking
    <3> QED
        BY <1>2, <1>3, <1>4, <2>1, <3>1
  <2>3. j \in 1 .. a - 1
      BY <1>2, <2>2
  <2>4. ls[j].id = ts[j].id /\ j \in DOMAIN ts
      BY <1>0, <2>3, Walking
  <2>5. ts[j].id < ts[a].id
    <3>1. j < a
        BY <1>2, <2>3
    <3> QED
        BY <1>0, <1>3, <2>4, <3>1, Walking
  <2> QED
      BY <1>2, <1>3, <2>1, <2>4, <2>5
<1> QED
    BY <1>0, <1>2, <1>3, <1>4

\* The messages that are not that of the entry a of player p.
LEMMA OtherEntries ==
    ASSUME LogInv, NEW p \in Players, NEW a \in DOMAIN towerLogs[p], NEW x
    PROVE  x \in replay \ {AsRead(p, towerLogs[p][a])} <=>
             \E q \in Players : \E j \in DOMAIN towerLogs[q] :
                ~(q = p /\ j = a) /\ x = AsRead(q, towerLogs[q][j])
<1>0. TypeOK /\ IdsRise(p) /\ ReaderHasTheLog
    BY DEF LogInv
<1>1. ASSUME x \in replay \ {AsRead(p, towerLogs[p][a])}
      PROVE  \E q \in Players : \E j \in DOMAIN towerLogs[q] :
                ~(q = p /\ j = a) /\ x = AsRead(q, towerLogs[q][j])
    BY <1>0, <1>1, Read
<1>2. ASSUME NEW q \in Players, NEW j \in DOMAIN towerLogs[q], ~(q = p /\ j = a),
             x = AsRead(q, towerLogs[q][j])
      PROVE  x \in replay \ {AsRead(p, towerLogs[p][a])}
  <2>1. x \in replay
      BY <1>0, <1>2, Read
  <2>2. x # AsRead(p, towerLogs[p][a])
    <3>1. CASE q # p
        BY <1>2, <3>1 DEF AsRead
    <3>2. CASE q = p
      <4>1. /\ j \in Nat /\ a \in Nat /\ j # a
            /\ j \in DOMAIN towerLogs[p]
            /\ towerLogs[p][a].id \in Nat /\ towerLogs[p][j].id \in Nat
          BY <1>0, <1>2, <3>2, Typed
      <4>2. /\ j < a => towerLogs[p][j].id < towerLogs[p][a].id
            /\ a < j => towerLogs[p][a].id < towerLogs[p][j].id
          BY <1>0, <4>1 DEF IdsRise
      <4>3. towerLogs[p][j].id # towerLogs[p][a].id
          BY <4>1, <4>2
      <4> QED
          BY <1>2, <3>2, <4>3 DEF AsRead
    <3> QED
        BY <3>1, <3>2
  <2> QED
      BY <2>1, <2>2
<1> QED
    BY <1>1, <1>2

\* The log entries have the ids they had.
LEMMA SameIds ==
    ASSUME ListsPart, UNCHANGED <<towers, nextId>>,
           \A p \in Players : DOMAIN towerLogs'[p] = DOMAIN towerLogs[p],
           \A p \in Players : \A j \in DOMAIN towerLogs[p] :
              towerLogs'[p][j].id = towerLogs[p][j].id
    PROVE  ListsPart'
<1>1. \A p \in Players : TowerIds(p)' = TowerIds(p) /\ LoggedIds(p)' = LoggedIds(p)
    BY DEF TowerIds, LoggedIds
<1>2. 0 \in Players /\ 1 \in Players
    BY Constants
<1>3. ASSUME NEW p \in Players PROVE IdsRise(p)' /\ OldOrNew(p)'
  <2>1. IdsRise(p) /\ OldOrNew(p)
      BY DEF ListsPart
  <2>2. IdsRise(p)'
    <3>1. \A i, j \in DOMAIN towers[p] : i < j => towers[p][i].id < towers[p][j].id
        BY <2>1 DEF IdsRise
    <3>2. \A i, j \in DOMAIN towerLogs'[p] :
             i < j => towerLogs'[p][i].id < towerLogs'[p][j].id
        BY <2>1 DEF IdsRise
    <3> QED
        BY <3>1, <3>2 DEF IdsRise
  <2>3. OldOrNew(p)'
      BY <1>1, <2>1 DEF OldOrNew
  <2> QED
      BY <2>2, <2>3
<1>4. IdsAreTaken'
    BY <1>1, <1>2 DEF ListsPart, IdsAreTaken
<1> QED
    BY <1>3, <1>4 DEF ListsPart

\* A reader changes the tower that is at the pointers.
LEMMA SendChange ==
    ASSUME LogInv, NEW p \in Players, NEW a \in DOMAIN towerLogs[p], NEW t \in Tower,
           t.id = towerLogs[p][a].id, Send(Change(p, t))
    PROVE  replay' = (replay \ {AsRead(p, towerLogs[p][a])}) \cup {AsRead(p, LogEntry(t))}
<1> DEFINE e == towerLogs[p][a]
           m == Change(p, t)
<1>1. m.id = e.id /\ ~m.isDead /\ m.hp = t.hp /\ m.level = t.level
    BY TowerMessages
<1>2. {x \in replay : x.id = m.id} = {AsRead(p, e)}
    BY <1>1, KnownById
<1>3. [AsRead(p, e) EXCEPT !.hp = m.hp, !.level = m.level] = AsRead(p, LogEntry(t))
  <2> DEFINE R == [id : Nat, player : Players, hp : Nat, level : Nat, isBase : BOOLEAN]
  <2>1. \A r \in R : \A h, l \in Nat :
           [r EXCEPT !.hp = h, !.level = l] =
               [id |-> r.id, player |-> r.player, hp |-> h, level |-> l, isBase |-> r.isBase]
    <3>1. ASSUME NEW r \in R, NEW h \in Nat, NEW l \in Nat, NEW c,
                 c = [r EXCEPT !.hp = h, !.level = l]
          PROVE  c = [id |-> r.id, player |-> r.player, hp |-> h, level |-> l,
                      isBase |-> r.isBase]
      <4>1. c \in R
          BY <3>1
      <4>2. c.id = r.id /\ c.player = r.player /\ c.hp = h /\ c.level = l /\ c.isBase = r.isBase
          BY <3>1
      <4> QED
          BY <4>1, <4>2
    <3> QED
        BY <3>1
  <2>2. e \in Entry /\ m.hp \in Nat /\ m.level \in Nat
    <3>1. TypeOK
        BY DEF LogInv
    <3> QED
        BY <1>1, <3>1, Typed DEF Tower
  <2>3. /\ LogEntry(t).id = e.id /\ LogEntry(t).hp = m.hp /\ LogEntry(t).level = m.level
      BY <1>1 DEF LogEntry
  <2> HIDE DEF e, m
  <2>4. AsRead(p, e) \in R
      BY <2>2 DEF AsRead, Entry
  <2>5. /\ AsRead(p, e).id = e.id /\ AsRead(p, e).player = p
        /\ AsRead(p, e).isBase = (e.id = p)
      BY DEF AsRead
  <2>6. AsRead(p, LogEntry(t)) =
           [id |-> e.id, player |-> p, hp |-> m.hp, level |-> m.level, isBase |-> e.id = p]
      BY <2>3 DEF AsRead
  <2>7. [AsRead(p, e) EXCEPT !.hp = m.hp, !.level = m.level] =
           [id |-> AsRead(p, e).id, player |-> AsRead(p, e).player, hp |-> m.hp,
            level |-> m.level, isBase |-> AsRead(p, e).isBase]
      BY <2>1, <2>2, <2>4
  <2> QED
      BY <2>5, <2>6, <2>7
<1>4. replay' = (replay \ {AsRead(p, e)})
                    \cup {[x EXCEPT !.hp = m.hp, !.level = m.level] : x \in {AsRead(p, e)}}
  <2>1. {x \in replay : x.id = m.id} # {}
      BY <1>2
  <2> HIDE DEF m, e
  <2>2. Send(m)
      BY DEF m
  <2> QED
      BY <1>1, <1>2, <2>1, <2>2 DEF Send
<1> HIDE DEF m, e
<1>5. {[x EXCEPT !.hp = m.hp, !.level = m.level] : x \in {AsRead(p, e)}} = {AsRead(p, LogEntry(t))}
    BY <1>3
<1> QED
    BY <1>4, <1>5 DEF e

\* Tower and entry have the same id, and the entry becomes that of the tower.
LEMMA MatchTowerStep ==
    ASSUME LogInv, MatchTower
    PROVE  TowersPart'
<1> DEFINE ts == towers[who]
           ls == towerLogs[who]
           a == logPtr
<1>0. /\ TypeOK /\ WalkIsInStep /\ ReaderHasTheLog /\ ListsPart
      /\ ts = towers[who] /\ ls = towerLogs[who]
    BY DEF LogInv, ListsPart
<1>1. /\ place = "walk" /\ LogsLeft /\ TowersLeft
      /\ towerLogs[who][logPtr].id >= towers[who][towerPtr].id
      /\ logPtr' = a + 1 /\ towerPtr' = towerPtr + 1
      /\ UNCHANGED <<towers, nextId, place, who>>
    BY DEF MatchTower, stateVars, driverVars
<1>2. a <= Len(ls) /\ towerPtr <= Len(ts)
    BY <1>1 DEF LogsLeft, TowersLeft
<1>3. ~(ls[a].id > ts[towerPtr].id)
    BY <1>1, NoOlderTower
<1>4. IF ls[a].id = ts[towerPtr].id /\ ls[a] # LogEntry(ts[towerPtr])
      THEN /\ Send(Change(who, ts[towerPtr]))
           /\ towerLogs' = [towerLogs EXCEPT ![who][a] = LogEntry(ts[towerPtr])]
      ELSE UNCHANGED <<replay, towerLogs>>
    BY DEF MatchTower
<1> HIDE DEF ts, ls
<1>5. /\ who \in Players /\ who \in {0, 1} /\ a \in Nat \ {0} /\ towerPtr = a
      /\ DOMAIN ts = 1 .. Len(ts) /\ DOMAIN ls = 1 .. Len(ls)
      /\ Len(ts) \in Nat /\ Len(ls) \in Nat /\ ls \in Seq(Entry)
      /\ \A i \in DOMAIN ts : ts[i] \in Tower /\ ts[i].id \in Nat
      /\ \A j \in DOMAIN ls : ls[j].id \in Nat
      /\ \A i \in 1 .. a - 1 : i \in DOMAIN ts /\ i \in DOMAIN ls /\ ls[i] = LogEntry(ts[i])
    BY <1>0, <1>1, Walking
<1>6. a \in DOMAIN ts /\ a \in DOMAIN ls
    BY <1>2, <1>5
<1>7. ls[a].id = ts[a].id
    BY SMTT(30), <1>0, <1>1, <1>3, <1>5, <1>6
<1>8. /\ \A p \in Players : towerLogs'[p] =
           IF p = who THEN [ls EXCEPT ![a] = LogEntry(ts[a])] ELSE towerLogs[p]
      /\ replay' = (replay \ {AsRead(who, ls[a])}) \cup {AsRead(who, LogEntry(ts[a]))}
  <2>1. CASE ls[a] = LogEntry(ts[a])
    <3>1. UNCHANGED <<replay, towerLogs>>
        BY <1>4, <1>5, <2>1
    <3>2. AsRead(who, ls[a]) \in replay
        BY <1>0, <1>5, <1>6, Read
    <3>3. [ls EXCEPT ![a] = LogEntry(ts[a])] = ls
        BY <1>5, <1>6, <2>1
    <3> QED
        BY <1>0, <2>1, <3>1, <3>2, <3>3
  <2>2. CASE ls[a] # LogEntry(ts[a])
    <3>1. /\ Send(Change(who, ts[a]))
          /\ towerLogs' = [towerLogs EXCEPT ![who][a] = LogEntry(ts[a])]
        BY <1>4, <1>5, <1>7, <2>2
    <3>2. \A p \in Players : towerLogs'[p] =
             IF p = who THEN [ls EXCEPT ![a] = LogEntry(ts[a])] ELSE towerLogs[p]
        BY <1>0, <3>1 DEF TypeOK
    <3>3. replay' = (replay \ {AsRead(who, ls[a])}) \cup {AsRead(who, LogEntry(ts[a]))}
        BY <1>0, <1>5, <1>6, <1>7, <3>1, SendChange
    <3> QED
        BY <3>2, <3>3
  <2> QED
      BY <2>1, <2>2
<1>9. LogEntry(ts[a]) \in Entry /\ LogEntry(ts[a]).id = ls[a].id
    BY <1>5, <1>6, <1>7, EntryOf
<1>10. /\ DOMAIN towerLogs'[who] = DOMAIN ls
       /\ \A k \in DOMAIN ls : towerLogs'[who][k] = IF k = a THEN LogEntry(ts[a]) ELSE ls[k]
    BY <1>5, <1>6, <1>8, <1>9
<1>11. ListsPart'
  <2>1. \A p \in Players : DOMAIN towerLogs'[p] = DOMAIN towerLogs[p]
      BY <1>0, <1>8, <1>10
  <2>2. \A p \in Players : \A j \in DOMAIN towerLogs[p] :
           towerLogs'[p][j].id = towerLogs[p][j].id
      BY <1>0, <1>8, <1>9, <1>10
  <2> QED
      BY <1>0, <1>1, <2>1, <2>2, SameIds
<1>12. WalkIsInStep'
  <2>1. who = 1 => Logged(0)'
    <3>1. who = 1 => Logged(0) /\ towerLogs'[0] = towerLogs[0]
        BY <1>0, <1>1, <1>8, Constants DEF WalkIsInStep
    <3> QED
        BY <1>1, <3>1 DEF Logged
  <2>2. ASSUME NEW i \in 1 .. a
        PROVE  i \in DOMAIN ts /\ i \in DOMAIN ls /\ towerLogs'[who][i] = LogEntry(ts[i])
    <3>1. CASE i = a
        BY <1>6, <1>10, <3>1
    <3>2. CASE i # a
      <4>1. i \in 1 .. a - 1
          BY <1>5, <3>2
      <4> QED
          BY <1>5, <1>10, <3>2, <4>1
    <3> QED
        BY <3>1, <3>2
  <2>3. logPtr' - 1 = a /\ logPtr' = towerPtr'
      BY <1>1, <1>5
  <2>4. \A i \in 1 .. logPtr' - 1 :
           /\ i \in DOMAIN towers'[who'] /\ i \in DOMAIN towerLogs'[who']
           /\ towerLogs'[who'][i] = LogEntry(towers'[who'][i])
      BY <1>0, <1>1, <1>10, <2>2, <2>3
  <2> QED
      BY <1>1, <2>1, <2>3, <2>4 DEF WalkIsInStep
<1>13. ReaderHasTheLog'
  <2>1. ASSUME NEW x
        PROVE  x \in replay' <=>
                 \E p \in Players : \E j \in DOMAIN towerLogs'[p] : x = AsRead(p, towerLogs'[p][j])
    <3>1. x \in replay \ {AsRead(who, ls[a])} <=>
             \E p \in Players : \E j \in DOMAIN towerLogs[p] :
                ~(p = who /\ j = a) /\ x = AsRead(p, towerLogs[p][j])
      <4>1. a \in DOMAIN towerLogs[who] /\ ls[a] = towerLogs[who][a]
          BY <1>0, <1>6
      <4>2. \A q \in Players : \A k \in DOMAIN towerLogs[q] :
               x \in replay \ {AsRead(q, towerLogs[q][k])} <=>
                 \E p \in Players : \E j \in DOMAIN towerLogs[p] :
                    ~(p = q /\ j = k) /\ x = AsRead(p, towerLogs[p][j])
          BY OtherEntries
      <4> QED
          BY <1>5, <4>1, <4>2
    <3>2. \A p \in Players : DOMAIN towerLogs'[p] = DOMAIN towerLogs[p]
        BY <1>0, <1>8, <1>10
    <3>3. \A p \in Players : \A j \in DOMAIN towerLogs[p] :
             ~(p = who /\ j = a) => towerLogs'[p][j] = towerLogs[p][j]
        BY <1>0, <1>8, <1>10
    <3>4. towerLogs'[who][a] = LogEntry(ts[a])
        BY <1>6, <1>10
    <3> QED
        BY <1>0, <1>5, <1>6, <1>8, <3>1, <3>2, <3>3, <3>4
  <2>2. replay' = UNION {{AsRead(p, towerLogs'[p][j]) : j \in DOMAIN towerLogs'[p]} : p \in Players}
      BY <2>1
  <2> QED
      BY <2>2 DEF ReaderHasTheLog, AsRead
<1> QED
    BY <1>11, <1>12, <1>13 DEF TowersPart

\* A reader is told that the tower at the log pointer is dead.
LEMMA SendDeath ==
    ASSUME LogInv, NEW p \in Players, NEW a \in DOMAIN towerLogs[p],
           Send(Death(towerLogs[p][a]))
    PROVE  replay' = replay \ {AsRead(p, towerLogs[p][a])}
<1> DEFINE m == Death(towerLogs[p][a])
<1>1. m.id = towerLogs[p][a].id /\ m.isDead
    BY DEF Death
<1>2. {x \in replay : x.id = m.id} = {AsRead(p, towerLogs[p][a])}
    BY <1>1, KnownById
<1>3. Send(m)
    OBVIOUS
<1> HIDE DEF m
<1> QED
    BY <1>1, <1>2, <1>3 DEF Send

\* What is left, r, of a list s without the member in place a.
IsRest(r, s, a) ==
    /\ DOMAIN s = 1 .. Len(s) /\ Len(s) \in Nat /\ a \in Nat
    /\ DOMAIN r = 1 .. Len(s) - 1
    /\ \A k \in DOMAIN r : r[k] = IF k < a THEN s[k] ELSE s[k + 1]

LEMMA RestOf ==
    ASSUME NEW s \in Seq(Entry), NEW a \in DOMAIN s
    PROVE  IsRest(RemoveAt(s, a), s, a)
<1> DEFINE r == RemoveAt(s, a)
<1>1. /\ r \in Seq(Entry) /\ Len(r) = Len(s) - 1
      /\ \A k \in 1 .. Len(s) - 1 : r[k] = IF k < a THEN s[k] ELSE s[k + 1]
    BY Removed
<1> HIDE DEF r
<1>2. DOMAIN r = 1 .. Len(r) /\ DOMAIN s = 1 .. Len(s) /\ Len(s) \in Nat /\ a \in Nat
    BY <1>1
<1>3. \A k \in DOMAIN r : r[k] = IF k < a THEN s[k] ELSE s[k + 1]
    BY <1>1, <1>2
<1>4. IsRest(r, s, a)
    BY <1>1, <1>2, <1>3 DEF IsRest
<1> QED
    BY <1>4 DEF r

\* Its members are the others of s.
LEMMA RestMembers ==
    ASSUME NEW s, NEW a \in DOMAIN s, NEW r, IsRest(r, s, a)
    PROVE  /\ \A k \in DOMAIN r : \E j \in DOMAIN s : j # a /\ r[k] = s[j]
           /\ \A j \in DOMAIN s : j # a => \E k \in DOMAIN r : r[k] = s[j]
<1>1. ASSUME NEW k \in DOMAIN r PROVE \E j \in DOMAIN s : j # a /\ r[k] = s[j]
  <2>1. CASE k < a
    <3>1. k \in DOMAIN s /\ k # a /\ r[k] = s[k]
        BY <2>1 DEF IsRest
    <3> QED
        BY <3>1
  <2>2. CASE ~(k < a)
    <3>1. k + 1 \in DOMAIN s /\ k + 1 # a /\ r[k] = s[k + 1]
        BY <2>2 DEF IsRest
    <3> QED
        BY <3>1
  <2> QED
      BY <2>1, <2>2
<1>2. ASSUME NEW j \in DOMAIN s, j # a PROVE \E k \in DOMAIN r : r[k] = s[j]
  <2>1. CASE j < a
    <3>1. j \in DOMAIN r /\ r[j] = s[j]
        BY <2>1 DEF IsRest
    <3> QED
        BY <3>1
  <2>2. CASE ~(j < a)
    <3>1. j - 1 \in DOMAIN r /\ ~(j - 1 < a) /\ (j - 1) + 1 = j
        BY <1>2, <2>2 DEF IsRest
    <3>2. r[j - 1] = s[j]
        BY <3>1 DEF IsRest
    <3> QED
        BY <3>1, <3>2
  <2> QED
      BY <2>1, <2>2
<1> QED
    BY <1>1, <1>2

\* They are in the same order.
LEMMA RestRises ==
    ASSUME NEW s, NEW a \in DOMAIN s, NEW r, IsRest(r, s, a), Rising(s)
    PROVE  Rising(r)
<1>1. ASSUME NEW i \in DOMAIN r, NEW j \in DOMAIN r, i < j PROVE r[i].id < r[j].id
  <2> DEFINE at(k) == IF k < a THEN k ELSE k + 1
  <2>1. at(i) \in DOMAIN s /\ at(j) \in DOMAIN s /\ at(i) < at(j)
      BY <1>1 DEF IsRest
  <2>2. r[i] = s[at(i)] /\ r[j] = s[at(j)]
      BY DEF IsRest
  <2> HIDE DEF at
  <2> QED
      BY <2>1, <2>2 DEF Rising
<1> QED
    BY <1>1 DEF Rising

\* No tower has the id of the entry that LoseTower takes out.
LEMMA TowerIsGone ==
    ASSUME LogInv, LoseTower
    PROVE  \A i \in DOMAIN towers[who] : towers[who][i].id # towerLogs[who][logPtr].id
<1> DEFINE ts == towers[who]
           ls == towerLogs[who]
           a == logPtr
<1>0. ts = towers[who] /\ ls = towerLogs[who]
    OBVIOUS
<1>1. place = "walk" /\ a <= Len(ls)
    BY DEF LoseTower, LogsLeft
<1>2. towerPtr <= Len(ts) => ls[a].id < ts[towerPtr].id
    BY DEF LoseTower, TowersLeft
<1> HIDE DEF ts, ls
<1>3. /\ a \in Nat \ {0} /\ towerPtr = a
      /\ DOMAIN ts = 1 .. Len(ts) /\ DOMAIN ls = 1 .. Len(ls)
      /\ Len(ts) \in Nat /\ Len(ls) \in Nat
      /\ \A i \in DOMAIN ts : ts[i].id \in Nat
      /\ \A j \in DOMAIN ls : ls[j].id \in Nat
    BY <1>0, <1>1, Walking
<1>4. a \in DOMAIN ls
    BY <1>1, <1>3
<1>5. ASSUME NEW i \in DOMAIN ts PROVE ts[i].id # ls[a].id
  <2>1. CASE i < a
    <3>1. i \in 1 .. a - 1
        BY <1>3, <2>1
    <3>2. i \in DOMAIN ls /\ ls[i].id = ts[i].id
        BY <1>0, <1>1, <3>1, Walking
    <3>3. ls[i].id < ls[a].id
        BY <1>0, <1>1, <1>4, <2>1, <3>2, Walking
    <3> QED
        BY <1>3, <1>4, <3>2, <3>3
  <2>2. CASE ~(i < a)
    <3>1. a \in DOMAIN ts /\ (a = i \/ a < i) /\ a <= Len(ts)
        BY <1>3, <2>2
    <3>2. a < i => ts[a].id < ts[i].id
        BY <1>0, <1>1, <3>1, Walking
    <3> QED
        BY <1>2, <1>3, <1>4, <3>1, <3>2
  <2> QED
      BY <2>1, <2>2
<1> QED
    BY <1>0, <1>5

\* The lists when an entry without a tower is taken out.
LEMMA LostLists ==
    ASSUME LogInv, NEW p \in Players, NEW a \in DOMAIN towerLogs[p],
           \A i \in DOMAIN towers[p] : towers[p][i].id # towerLogs[p][a].id,
           UNCHANGED <<towers, nextId>>,
           towerLogs' = [towerLogs EXCEPT ![p] = RemoveAt(@, a)]
    PROVE  ListsPart'
<1>0. TypeOK /\ IdsAreTaken /\ \A q \in Players : IdsRise(q) /\ OldOrNew(q)
    BY DEF LogInv
<1>1. \A q \in Players : towerLogs'[q] =
         IF q = p THEN RemoveAt(towerLogs[p], a) ELSE towerLogs[q]
    BY <1>0 DEF TypeOK
<1>2. towerLogs[p] \in Seq(Entry)
    BY <1>0, Typed
<1> DEFINE r == RemoveAt(towerLogs[p], a)
<1>2a. IsRest(r, towerLogs[p], a)
    BY <1>2, RestOf
<1> HIDE DEF r
<1>3. /\ \A k \in DOMAIN r : \E j \in DOMAIN towerLogs[p] : j # a /\ r[k] = towerLogs[p][j]
      /\ \A j \in DOMAIN towerLogs[p] : j # a => \E k \in DOMAIN r : r[k] = towerLogs[p][j]
    BY <1>2a, RestMembers
<1>4. Rising(r)
  <2>1. Rising(towerLogs[p])
      BY <1>0 DEF IdsRise, Rising
  <2> QED
      BY <1>2a, <2>1, RestRises
<1>5. \A q \in Players : towerLogs'[q] = IF q = p THEN r ELSE towerLogs[q]
    BY <1>1 DEF r
<1>6. \A q \in Players : TowerIds(q)' = TowerIds(q)
    BY DEF TowerIds
<1>7. \A q \in Players : LoggedIds(q)' \subseteq LoggedIds(q)
  <2>1. ASSUME NEW q \in Players, q # p PROVE LoggedIds(q)' = LoggedIds(q)
      BY <1>5, <2>1 DEF LoggedIds
  <2>2. \A id \in LoggedIds(p)' : \E k \in DOMAIN r : id = r[k].id
      BY <1>5 DEF LoggedIds
  <2>3. \A k \in DOMAIN r : r[k].id \in LoggedIds(p)
      BY <1>3 DEF LoggedIds
  <2>4. LoggedIds(p)' \subseteq LoggedIds(p)
      BY <2>2, <2>3
  <2> QED
      BY <2>1, <2>4
<1>8. \A q \in Players : \A id \in TowerIds(q) : id \in LoggedIds(q) => id \in LoggedIds(q)'
  <2>1. ASSUME NEW q \in Players, q # p PROVE LoggedIds(q)' = LoggedIds(q)
      BY <1>5, <2>1 DEF LoggedIds
  <2>2. ASSUME NEW id \in TowerIds(p), id \in LoggedIds(p) PROVE id \in LoggedIds(p)'
    <3>1. PICK j \in DOMAIN towerLogs[p] : id = towerLogs[p][j].id
        BY <2>2 DEF LoggedIds
    <3>2. PICK i \in DOMAIN towers[p] : id = towers[p][i].id
        BY <2>2 DEF TowerIds
    <3>3. j # a
        BY <3>1, <3>2
    <3>4. PICK k \in DOMAIN r : r[k] = towerLogs[p][j]
        BY <1>3, <3>3
    <3> QED
        BY <1>5, <3>1, <3>4 DEF LoggedIds
  <2> QED
      BY <2>1, <2>2
<1>9. ASSUME NEW q \in Players PROVE IdsRise(q)' /\ OldOrNew(q)'
  <2>1. IdsRise(q)'
    <3>1. \A i, j \in DOMAIN towers[q] : i < j => towers[q][i].id < towers[q][j].id
        BY <1>0 DEF IdsRise
    <3>2. \A i, j \in DOMAIN towerLogs'[q] : i < j => towerLogs'[q][i].id < towerLogs'[q][j].id
      <4>1. CASE q = p
          BY <1>4, <1>5, <4>1 DEF Rising
      <4>2. CASE q # p
          BY <1>0, <1>5, <4>2 DEF IdsRise
      <4> QED
          BY <4>1, <4>2
    <3> QED
        BY <3>1, <3>2 DEF IdsRise
  <2>2. OldOrNew(q)'
    <3>1. ASSUME NEW i \in DOMAIN towers[q]
          PROVE  \/ towers[q][i].id \in LoggedIds(q)'
                 \/ \A id \in LoggedIds(q)' : id < towers[q][i].id
      <4>1. \/ towers[q][i].id \in LoggedIds(q)
            \/ \A id \in LoggedIds(q) : id < towers[q][i].id
          BY <1>0 DEF OldOrNew
      <4>2. towers[q][i].id \in TowerIds(q)
          BY DEF TowerIds
      <4> QED
          BY <1>7, <1>8, <4>1, <4>2
    <3> QED
        BY <3>1 DEF OldOrNew
  <2> QED
      BY <2>1, <2>2
<1>10. IdsAreTaken'
  <2>1. 0 \in Players /\ 1 \in Players
      BY Constants
  <2>2. \A q \in Players : \A id \in TowerIds(q)' \cup LoggedIds(q)' : id < nextId'
      BY <1>0, <1>6, <1>7 DEF IdsAreTaken
  <2>3. (TowerIds(0)' \cup LoggedIds(0)') \cap (TowerIds(1)' \cup LoggedIds(1)') = {}
      BY <1>0, <1>6, <1>7, <2>1 DEF IdsAreTaken
  <2> QED
      BY <1>0, <2>2, <2>3 DEF IdsAreTaken
<1> QED
    BY <1>9, <1>10 DEF ListsPart

\* The entry of a tower that is gone is taken out, and the reader removes it.
LEMMA LoseTowerStep ==
    ASSUME LogInv, LoseTower
    PROVE  TowersPart'
<1> DEFINE ls == towerLogs[who]
           a == logPtr
           r == RemoveAt(ls, a)
<1>0. /\ TypeOK /\ WalkIsInStep /\ ReaderHasTheLog
      /\ ls = towerLogs[who]
    BY DEF LogInv
<1>1. /\ place = "walk" /\ LogsLeft
      /\ Send(Death(towerLogs[who][logPtr]))
      /\ towerLogs' = [towerLogs EXCEPT ![who] = RemoveAt(@, logPtr)]
      /\ UNCHANGED <<towers, nextId, place, who, logPtr, towerPtr>>
    BY DEF LoseTower, stateVars, driverVars, pointers
<1>2. a <= Len(towerLogs[who])
    BY <1>1 DEF LogsLeft
<1>3. /\ who \in Players /\ who \in {0, 1} /\ a \in Nat \ {0} /\ towerPtr = a
      /\ DOMAIN towerLogs[who] = 1 .. Len(towerLogs[who]) /\ Len(towerLogs[who]) \in Nat
      /\ towerLogs[who] \in Seq(Entry)
    BY <1>0, <1>1, Walking
<1>4. a \in DOMAIN towerLogs[who]
    BY <1>2, <1>3
<1>5. \A p \in Players : towerLogs'[p] = IF p = who THEN r ELSE towerLogs[p]
    BY <1>0, <1>1, <1>3 DEF TypeOK
<1>6. IsRest(r, ls, a)
    BY <1>3, <1>4, RestOf
<1>7. replay' = replay \ {AsRead(who, towerLogs[who][a])}
    BY <1>1, <1>3, <1>4, SendDeath
<1>8. ListsPart'
  <2>1. \A i \in DOMAIN towers[who] : towers[who][i].id # towerLogs[who][a].id
      BY TowerIsGone
  <2> QED
      BY <1>1, <1>3, <1>4, <2>1, LostLists
<1> HIDE DEF ls, r
<1>9. WalkIsInStep'
  <2>1. who = 1 => Logged(0)'
    <3>1. who = 1 => Logged(0) /\ towerLogs'[0] = towerLogs[0]
        BY <1>0, <1>1, <1>5, Constants DEF WalkIsInStep
    <3> QED
        BY <1>1, <3>1 DEF Logged
  <2>2. ASSUME NEW i \in 1 .. a - 1
        PROVE  i \in DOMAIN towers[who] /\ i \in DOMAIN r /\ r[i] = LogEntry(towers[who][i])
    <3>1. i \in DOMAIN towers[who] /\ ls[i] = LogEntry(towers[who][i])
        BY <1>0, <1>1 DEF WalkIsInStep
    <3>2. i \in DOMAIN r /\ r[i] = ls[i]
        BY <1>0, <1>2, <1>3, <1>6 DEF IsRest
    <3> QED
        BY <3>1, <3>2
  <2>3. logPtr' = a /\ logPtr' = towerPtr'
      BY <1>1, <1>3
  <2>4. \A i \in 1 .. logPtr' - 1 :
           /\ i \in DOMAIN towers'[who'] /\ i \in DOMAIN towerLogs'[who']
           /\ towerLogs'[who'][i] = LogEntry(towers'[who'][i])
      BY <1>1, <1>3, <1>5, <2>2, <2>3
  <2> QED
      BY <1>1, <2>1, <2>3, <2>4 DEF WalkIsInStep
<1>10. ReaderHasTheLog'
  <2>1. ASSUME NEW x
        PROVE  x \in replay' <=>
                 \E p \in Players : \E j \in DOMAIN towerLogs'[p] : x = AsRead(p, towerLogs'[p][j])
    <3>1. x \in replay \ {AsRead(who, ls[a])} <=>
             \E p \in Players : \E j \in DOMAIN towerLogs[p] :
                ~(p = who /\ j = a) /\ x = AsRead(p, towerLogs[p][j])
      <4>1. \A q \in Players : \A k \in DOMAIN towerLogs[q] :
               x \in replay \ {AsRead(q, towerLogs[q][k])} <=>
                 \E p \in Players : \E j \in DOMAIN towerLogs[p] :
                    ~(p = q /\ j = k) /\ x = AsRead(p, towerLogs[p][j])
          BY OtherEntries
      <4> QED
          BY <1>0, <1>3, <1>4, <4>1
    <3>2. /\ \A k \in DOMAIN r : \E j \in DOMAIN ls : j # a /\ r[k] = ls[j]
          /\ \A j \in DOMAIN ls : j # a => \E k \in DOMAIN r : r[k] = ls[j]
        BY <1>0, <1>4, <1>6, RestMembers
    <3>3. ASSUME NEW p \in Players, NEW j \in DOMAIN towerLogs[p],
                 ~(p = who /\ j = a), x = AsRead(p, towerLogs[p][j])
          PROVE  \E q \in Players : \E k \in DOMAIN towerLogs'[q] : x = AsRead(q, towerLogs'[q][k])
      <4>1. CASE p = who
        <5>1. PICK k \in DOMAIN r : r[k] = ls[j]
            BY <1>0, <3>2, <3>3, <4>1
        <5>2. k \in DOMAIN towerLogs'[p] /\ towerLogs'[p][k] = towerLogs[p][j]
            BY <1>0, <1>5, <4>1, <5>1
        <5> QED
            BY <3>3, <5>2
      <4>2. CASE p # who
          BY <1>5, <3>3, <4>2
      <4> QED
          BY <4>1, <4>2
    <3>4. ASSUME NEW p \in Players, NEW j \in DOMAIN towerLogs'[p], x = AsRead(p, towerLogs'[p][j])
          PROVE  \E q \in Players : \E k \in DOMAIN towerLogs[q] :
                    ~(q = who /\ k = a) /\ x = AsRead(q, towerLogs[q][k])
      <4>1. CASE p = who
        <5>1. j \in DOMAIN r /\ towerLogs'[p][j] = r[j]
            BY <1>5, <4>1
        <5>2. PICK k \in DOMAIN ls : k # a /\ r[j] = ls[k]
            BY <3>2, <5>1
        <5>3. k \in DOMAIN towerLogs[p] /\ x = AsRead(p, towerLogs[p][k])
            BY <1>0, <3>4, <4>1, <5>1, <5>2
        <5> QED
            BY <5>2, <5>3
      <4>2. CASE p # who
          BY <1>5, <3>4, <4>2
      <4> QED
          BY <4>1, <4>2
    <3>5. x \in replay' <=> x \in replay \ {AsRead(who, ls[a])}
        BY <1>0, <1>7
    <3> QED
        BY <3>1, <3>3, <3>4, <3>5
  <2>2. replay' = UNION {{AsRead(p, towerLogs'[p][j]) : j \in DOMAIN towerLogs'[p]} : p \in Players}
      BY <2>1
  <2> QED
      BY <2>2 DEF ReaderHasTheLog, AsRead
<1> QED
    BY <1>8, <1>9, <1>10 DEF TowersPart

\* The tower MeetTower comes to is newer than all that are logged, and no
\* reader has one of its id.
LEMMA TowerIsNew ==
    ASSUME LogInv, MeetTower
    PROVE  /\ Len(towerLogs[who]) = logPtr - 1
           /\ \A j \in DOMAIN towerLogs[who] : towerLogs[who][j].id < towers[who][towerPtr].id
           /\ \A x \in replay : x.id # towers[who][towerPtr].id
<1> DEFINE ts == towers[who]
           ls == towerLogs[who]
           a == logPtr
<1>0. /\ ts = towers[who] /\ ls = towerLogs[who]
      /\ TypeOK /\ IdsAreTaken /\ ReaderHasTheLog
    BY DEF LogInv
<1>1. place = "walk" /\ ~(a <= Len(ls)) /\ towerPtr <= Len(ts)
    BY DEF MeetTower, LogsLeft, TowersLeft
<1> HIDE DEF ts, ls
<1>2. /\ a \in Nat \ {0} /\ towerPtr = a /\ who \in {0, 1}
      /\ DOMAIN ts = 1 .. Len(ts) /\ DOMAIN ls = 1 .. Len(ls)
      /\ Len(ts) \in Nat /\ Len(ls) \in Nat
      /\ \A i \in DOMAIN ts : ts[i].id \in Nat
      /\ \A j \in DOMAIN ls : ls[j].id \in Nat
    BY <1>0, <1>1, Walking
<1>3. a \in DOMAIN ts
    BY <1>1, <1>2
<1>4. Len(ls) = a - 1
  <2>1. CASE a = 1
      BY <1>1, <1>2, <2>1
  <2>2. CASE a # 1
    <3>1. a - 1 \in 1 .. a - 1
        BY <1>2, <2>2
    <3>2. a - 1 \in DOMAIN ls
        BY <1>0, <1>1, <3>1, Walking
    <3> QED
        BY <1>1, <1>2, <3>2
  <2> QED
      BY <2>1, <2>2
<1>5. ASSUME NEW j \in DOMAIN ls PROVE ls[j].id < ts[a].id
  <2>1. j \in 1 .. a - 1 /\ j < a
      BY <1>2, <1>4
  <2>2. j \in DOMAIN ts /\ ls[j].id = ts[j].id
      BY <1>0, <1>1, <2>1, Walking
  <2>3. ts[j].id < ts[a].id
      BY <1>0, <1>1, <1>3, <2>1, <2>2, Walking
  <2> QED
      BY <2>2, <2>3
<1>6. ASSUME NEW x \in replay PROVE x.id # ts[a].id
  <2>0. PICK p \in Players : \E j \in DOMAIN towerLogs[p] : x = AsRead(p, towerLogs[p][j])
      BY <1>0, Read
  <2>1. PICK j \in DOMAIN towerLogs[p] : x = AsRead(p, towerLogs[p][j])
      BY <2>0
  <2>2. x.id = towerLogs[p][j].id
      BY <2>1 DEF AsRead
  <2>3. CASE p = who
    <3>1. j \in DOMAIN ls /\ x.id = ls[j].id
        BY <1>0, <2>2, <2>3
    <3>2. ls[j].id < ts[a].id /\ ls[j].id \in Nat /\ ts[a].id \in Nat
        BY <1>2, <1>3, <1>5, <3>1
    <3> QED
        BY <3>1, <3>2
  <2>4. CASE p # who
    <3>1. (p = 0 /\ who = 1) \/ (p = 1 /\ who = 0)
        BY <1>2, <2>4, Constants
    <3>2. a \in DOMAIN towers[who] /\ ts[a] = towers[who][a]
        BY <1>0, <1>3
    <3>3. towerLogs[p][j].id # towers[who][a].id
      <4>1. CASE p = 0 /\ who = 1
          BY <1>0, <3>2, <4>1, Taken
      <4>2. CASE p = 1 /\ who = 0
        <5>1. \A i \in DOMAIN towers[0], k \in DOMAIN towerLogs[1] :
                 towers[0][i].id # towerLogs[1][k].id
            BY <1>0, Taken
        <5> QED
            BY <3>2, <4>2, <5>1
      <4> QED
          BY <3>1, <4>1, <4>2
    <3> QED
        BY <2>2, <3>2, <3>3
  <2> QED
      BY <2>3, <2>4
<1> QED
    BY <1>0, <1>2, <1>4, <1>5, <1>6

\* A reader is told of a tower it does not know.
LEMMA SendNew ==
    ASSUME NEW p \in Players, NEW t \in Tower, t.isBase <=> t.id = p,
           \A x \in replay : x.id # t.id, Send(Message(p, t))
    PROVE  replay' = replay \cup {AsRead(p, LogEntry(t))}
<1> DEFINE m == Message(p, t)
<1>1. m.id = t.id /\ ~m.isDead /\ Shown(m) = AsRead(p, LogEntry(t))
    BY TowerMessages
<1>2. {x \in replay : x.id = m.id} = {}
    BY <1>1
<1>3. Send(m)
    OBVIOUS
<1> HIDE DEF m
<1> QED
    BY <1>1, <1>2, <1>3 DEF Send

\* The lists when an entry of a tower is added that is newer than the others.
LEMMA GrownLists ==
    ASSUME LogInv, NEW p \in Players, NEW a \in DOMAIN towers[p], NEW e \in Entry,
           e.id = towers[p][a].id, Len(towerLogs[p]) = a - 1,
           \A j \in DOMAIN towerLogs[p] :
              towerLogs[p][j].id < e.id /\ towerLogs[p][j].id = towers[p][j].id,
           UNCHANGED <<towers, nextId>>,
           towerLogs' = [towerLogs EXCEPT ![p] = Append(@, e)]
    PROVE  ListsPart'
<1>0. TypeOK /\ IdsAreTaken /\ \A q \in Players : IdsRise(q) /\ OldOrNew(q)
    BY DEF LogInv
<1>1. \A q \in Players : towerLogs'[q] =
         IF q = p THEN Append(towerLogs[p], e) ELSE towerLogs[q]
    BY <1>0 DEF TypeOK
<1>2. /\ towerLogs[p] \in Seq(Entry) /\ Len(towerLogs[p]) \in Nat
      /\ DOMAIN towerLogs[p] = 1 .. Len(towerLogs[p])
      /\ a \in Nat /\ DOMAIN towers[p] = 1 .. Len(towers[p]) /\ Len(towers[p]) \in Nat
      /\ \A i \in DOMAIN towers[p] : towers[p][i].id \in Nat
    BY <1>0, Typed
<1> DEFINE r == Append(towerLogs[p], e)
<1>3. /\ DOMAIN r = 1 .. Len(towerLogs[p]) + 1
      /\ \A k \in 1 .. Len(towerLogs[p]) : r[k] = towerLogs[p][k]
      /\ r[Len(towerLogs[p]) + 1] = e
    BY <1>2, Appended
<1> HIDE DEF r
<1>4. /\ DOMAIN r = 1 .. a /\ r[a] = e
      /\ \A k \in DOMAIN r : k # a => k \in DOMAIN towerLogs[p] /\ r[k] = towerLogs[p][k] /\ k < a
    BY <1>2, <1>3
<1>5. \A q \in Players : towerLogs'[q] = IF q = p THEN r ELSE towerLogs[q]
    BY <1>1 DEF r
<1>6. /\ \A q \in Players : TowerIds(q)' = TowerIds(q)
      /\ e.id \in TowerIds(p)
    BY DEF TowerIds
<1>7. \A q \in Players : LoggedIds(q)' = IF q = p THEN LoggedIds(q) \cup {e.id} ELSE LoggedIds(q)
  <2>1. ASSUME NEW q \in Players, q # p PROVE LoggedIds(q)' = LoggedIds(q)
      BY <1>5, <2>1 DEF LoggedIds
  <2>2. ASSUME NEW id PROVE id \in LoggedIds(p)' <=> id \in LoggedIds(p) \/ id = e.id
    <3>1. id \in LoggedIds(p)' <=> \E k \in DOMAIN r : id = r[k].id
      <4>1. towerLogs'[p] = r
          BY <1>5
      <4>2. LoggedIds(p)' = {r[k].id : k \in DOMAIN r}
          BY <4>1 DEF LoggedIds
      <4> QED
          BY <4>2
    <3>2. id \in LoggedIds(p) <=> \E k \in DOMAIN towerLogs[p] : id = towerLogs[p][k].id
        BY DEF LoggedIds
    <3>3. a \in DOMAIN r
        BY <1>2, <1>4
    <3>4. \A k \in DOMAIN towerLogs[p] : k \in DOMAIN r /\ r[k] = towerLogs[p][k]
        BY <1>2, <1>3
    <3> QED
        BY <1>4, <3>1, <3>2, <3>3, <3>4
  <2> QED
      BY <2>1, <2>2
<1>8. IdsRise(p)' /\ \A q \in Players : IdsRise(q)'
  <2>1. ASSUME NEW q \in Players PROVE IdsRise(q)'
    <3>1. \A i, j \in DOMAIN towers[q] : i < j => towers[q][i].id < towers[q][j].id
        BY <1>0 DEF IdsRise
    <3>2. \A i, j \in DOMAIN towerLogs'[q] : i < j => towerLogs'[q][i].id < towerLogs'[q][j].id
      <4>1. CASE q # p
          BY <1>0, <1>5, <4>1 DEF IdsRise
      <4>2. ASSUME NEW i \in DOMAIN r, NEW j \in DOMAIN r, i < j PROVE r[i].id < r[j].id
        <5>1. i # a
            BY <1>2, <1>4, <4>2
        <5>2. i \in DOMAIN towerLogs[p] /\ r[i] = towerLogs[p][i]
            BY <1>4, <5>1
        <5>3. CASE j = a
            BY <1>4, <5>2, <5>3
        <5>4. CASE j # a
          <6>1. j \in DOMAIN towerLogs[p] /\ r[j] = towerLogs[p][j]
              BY <1>4, <5>4
          <6>2. \A k, l \in DOMAIN towerLogs[p] : k < l => towerLogs[p][k].id < towerLogs[p][l].id
              BY <1>0 DEF IdsRise
          <6> QED
              BY <4>2, <5>2, <6>1, <6>2
        <5> QED
            BY <5>3, <5>4
      <4> QED
          BY <1>5, <4>1, <4>2
    <3> QED
        BY <3>1, <3>2 DEF IdsRise
  <2> QED
      BY <2>1
<1>9. ASSUME NEW q \in Players PROVE OldOrNew(q)'
  <2>1. ASSUME NEW i \in DOMAIN towers[q]
        PROVE  \/ towers[q][i].id \in LoggedIds(q)'
               \/ \A id \in LoggedIds(q)' : id < towers[q][i].id
    <3>1. \/ towers[q][i].id \in LoggedIds(q)
          \/ \A id \in LoggedIds(q) : id < towers[q][i].id
        BY <1>0 DEF OldOrNew
    <3>2. CASE q # p
        BY <1>7, <3>1, <3>2
    <3>3. CASE q = p /\ towers[q][i].id \in LoggedIds(q)
        BY <1>7, <3>3
    <3>4. CASE q = p /\ \A id \in LoggedIds(q) : id < towers[q][i].id
      <4>1. CASE i = a
          BY <1>7, <3>4, <4>1
      <4>2. CASE a < i
        <5>1. towers[p][a].id < towers[p][i].id
            BY <1>0, <3>4, <4>2 DEF IdsRise
        <5> QED
            BY <1>7, <3>4, <5>1
      <4>3. CASE i < a
        <5>1. towers[p][i].id \in LoggedIds(p)
          <6>1. i \in DOMAIN towers[p] /\ i \in 1 .. a - 1 /\ i \in DOMAIN towerLogs[p]
              BY <1>2, <3>4, <4>3
          <6>2. towerLogs[p][i].id \in LoggedIds(p)
              BY <6>1 DEF LoggedIds
          <6> QED
              BY <6>1, <6>2
        <5> QED
            BY <1>7, <3>4, <5>1
      <4> QED
          BY <1>2, <3>4, <4>1, <4>2, <4>3
    <3> QED
        BY <3>1, <3>2, <3>3, <3>4
  <2> QED
      BY <2>1 DEF OldOrNew
<1>10. IdsAreTaken'
  <2>1. 0 \in Players /\ 1 \in Players
      BY Constants
  <2>2. \A q \in Players : TowerIds(q)' \cup LoggedIds(q)' = TowerIds(q) \cup LoggedIds(q)
      BY <1>6, <1>7
  <2>3. \A q \in Players : \A id \in TowerIds(q)' \cup LoggedIds(q)' : id < nextId'
      BY <1>0, <2>2 DEF IdsAreTaken
  <2>4. (TowerIds(0)' \cup LoggedIds(0)') \cap (TowerIds(1)' \cup LoggedIds(1)') = {}
      BY <1>0, <2>1, <2>2 DEF IdsAreTaken
  <2> QED
      BY <1>0, <2>3, <2>4 DEF IdsAreTaken
<1> QED
    BY <1>8, <1>9, <1>10 DEF ListsPart

\* A new tower gets an entry, and the reader gets the tower.
LEMMA MeetTowerStep ==
    ASSUME LogInv, MeetTower
    PROVE  TowersPart'
<1> DEFINE ts == towers[who]
           ls == towerLogs[who]
           a == logPtr
           r == Append(ls, LogEntry(ts[a]))
<1>0. /\ TypeOK /\ WalkIsInStep /\ ReaderHasTheLog /\ IdsAreTaken
      /\ ts = towers[who] /\ ls = towerLogs[who]
    BY DEF LogInv
<1>1. /\ place = "walk" /\ TowersLeft
      /\ Send(Message(who, towers[who][towerPtr]))
      /\ towerLogs' = [towerLogs EXCEPT ![who] = Append(@, LogEntry(towers[who][towerPtr]))]
      /\ logPtr' = logPtr + 1 /\ towerPtr' = towerPtr + 1
      /\ UNCHANGED <<towers, nextId, place, who>>
    BY DEF MeetTower, stateVars, driverVars
<1>2. towerPtr <= Len(towers[who])
    BY <1>1 DEF TowersLeft
<1>3. /\ who \in Players /\ who \in {0, 1} /\ a \in Nat \ {0} /\ towerPtr = a
      /\ DOMAIN ts = 1 .. Len(ts) /\ Len(ts) \in Nat
      /\ DOMAIN ls = 1 .. Len(ls) /\ Len(ls) \in Nat /\ ls \in Seq(Entry)
      /\ \A i \in DOMAIN ts : ts[i] \in Tower
    BY <1>0, <1>1, Walking
<1>4. a \in DOMAIN ts
    BY <1>2, <1>3
<1>5. /\ Len(ls) = a - 1
      /\ \A j \in DOMAIN ls : ls[j].id < ts[a].id
      /\ \A x \in replay : x.id # ts[a].id
    BY <1>3, TowerIsNew
<1>6. LogEntry(ts[a]) \in Entry /\ LogEntry(ts[a]).id = ts[a].id
    BY <1>3, <1>4, EntryOf
<1>7. \A p \in Players : towerLogs'[p] = IF p = who THEN r ELSE towerLogs[p]
    BY <1>0, <1>1, <1>3 DEF TypeOK
<1>8. replay' = replay \cup {AsRead(who, LogEntry(ts[a]))}
  <2>1. ts[a] \in Tower /\ (ts[a].isBase <=> ts[a].id = who)
      BY <1>0, <1>3, <1>4 DEF IdsAreTaken
  <2>2. Send(Message(who, ts[a]))
      BY <1>1, <1>3
  <2> HIDE DEF ts, a
  <2> QED
      BY <1>3, <1>5, <2>1, <2>2, SendNew
<1>9. \A j \in DOMAIN ls : ls[j].id = ts[j].id
  <2>1. ASSUME NEW j \in DOMAIN ls PROVE ls[j].id = ts[j].id
    <3>1. j \in 1 .. logPtr - 1
        BY <1>3, <1>5
    <3> QED
        BY <1>0, <1>1, <3>1, Walking
  <2> QED
      BY <2>1
<1>10. ListsPart'
  <2>1. a \in DOMAIN towers[who] /\ LogEntry(towers[who][a]) \in Entry
      BY <1>4, <1>6
  <2>2. LogEntry(towers[who][a]).id = towers[who][a].id /\ Len(towerLogs[who]) = a - 1
      BY <1>5, <1>6
  <2>3. \A j \in DOMAIN towerLogs[who] :
           /\ towerLogs[who][j].id < LogEntry(towers[who][a]).id
           /\ towerLogs[who][j].id = towers[who][j].id
      BY <1>5, <1>6, <1>9
  <2>4. towerLogs' = [towerLogs EXCEPT ![who] = Append(@, LogEntry(towers[who][a]))]
      BY <1>1, <1>3
  <2>5. UNCHANGED <<towers, nextId>>
      BY <1>1
  <2>6. \A e \in Entry :
           /\ e.id = towers[who][a].id
           /\ \A j \in DOMAIN towerLogs[who] :
                towerLogs[who][j].id < e.id /\ towerLogs[who][j].id = towers[who][j].id
           /\ towerLogs' = [towerLogs EXCEPT ![who] = Append(@, e)]
           => ListsPart'
      BY <1>3, <2>1, <2>2, <2>5, GrownLists
  <2> QED
      BY <2>1, <2>2, <2>3, <2>4, <2>6
<1>11. /\ DOMAIN r = 1 .. a /\ r[a] = LogEntry(ts[a])
       /\ \A k \in DOMAIN ls : k \in DOMAIN r /\ r[k] = ls[k]
       /\ \A k \in DOMAIN r : k = a \/ k \in DOMAIN ls
  <2>1. /\ DOMAIN r = 1 .. Len(ls) + 1
        /\ \A k \in 1 .. Len(ls) : r[k] = ls[k]
        /\ r[Len(ls) + 1] = LogEntry(ts[a])
      BY <1>3, <1>6, Appended
  <2> HIDE DEF r, ls, ts
  <2> QED
      BY <1>3, <1>5, <2>1
<1> HIDE DEF ts, ls, r
<1>12. WalkIsInStep'
  <2>1. who = 1 => Logged(0)'
    <3>1. who = 1 => Logged(0) /\ towerLogs'[0] = towerLogs[0]
        BY <1>0, <1>1, <1>7, Constants DEF WalkIsInStep
    <3> QED
        BY <1>1, <3>1 DEF Logged
  <2>2. ASSUME NEW i \in 1 .. a
        PROVE  i \in DOMAIN ts /\ i \in DOMAIN r /\ r[i] = LogEntry(ts[i])
    <3>1. CASE i = a
        BY <1>3, <1>4, <1>11, <3>1
    <3>2. CASE i # a
      <4>1. i \in 1 .. logPtr - 1
          BY <1>3, <3>2
      <4>2. i \in DOMAIN ts /\ i \in DOMAIN ls /\ ls[i] = LogEntry(ts[i])
          BY <1>0, <1>1, <4>1, Walking
      <4> QED
          BY <1>11, <4>2
    <3> QED
        BY <3>1, <3>2
  <2>3. logPtr' - 1 = a /\ logPtr' = towerPtr'
      BY <1>1, <1>3
  <2>4. \A i \in 1 .. logPtr' - 1 :
           /\ i \in DOMAIN towers'[who'] /\ i \in DOMAIN towerLogs'[who']
           /\ towerLogs'[who'][i] = LogEntry(towers'[who'][i])
      BY <1>0, <1>1, <1>3, <1>7, <2>2, <2>3
  <2> QED
      BY <1>1, <2>1, <2>3, <2>4 DEF WalkIsInStep
<1>13. ReaderHasTheLog'
  <2>1. ASSUME NEW x
        PROVE  x \in replay' <=>
                 \E p \in Players : \E j \in DOMAIN towerLogs'[p] : x = AsRead(p, towerLogs'[p][j])
    <3>1. x \in replay <=>
             \E p \in Players : \E j \in DOMAIN towerLogs[p] : x = AsRead(p, towerLogs[p][j])
        BY <1>0, Read
    <3>2. x \in replay' <=> x \in replay \/ x = AsRead(who, r[a])
        BY <1>8, <1>11
    <3>3. \A j \in DOMAIN towerLogs[who] : j \in DOMAIN r /\ r[j] = towerLogs[who][j]
        BY <1>0, <1>11
    <3>4. \A j \in DOMAIN r : j = a \/ j \in DOMAIN towerLogs[who]
        BY <1>0, <1>11
    <3>5. a \in DOMAIN r
        BY <1>3, <1>11
    <3> QED
        BY <1>3, <1>7, <3>1, <3>2, <3>3, <3>4, <3>5
  <2>2. replay' = UNION {{AsRead(p, towerLogs'[p][j]) : j \in DOMAIN towerLogs'[p]} : p \in Players}
      BY <2>1
  <2> QED
      BY <2>2 DEF ReaderHasTheLog, AsRead
<1> QED
    BY <1>10, <1>12, <1>13 DEF TowersPart

-----------------------------------------------------------------------------
(* The theorems.                                                           *)

LEMMA Parts == LogInv <=> TypeOK /\ CodesPart /\ TowersPart
BY DEF LogInv, CodesPart, TowersPart, ListsPart

\* Every step preserves what is said of the towers.
LEMMA TowersStep ==
    ASSUME LogInv, [Next]_vars
    PROVE  TowersPart'
<1>0. TypeOK /\ CodesPart /\ TowersPart /\ TurnsAgree
    BY Parts DEF CodesPart
<1>1. CASE \E n \in Counts : LogInstructionCount(n)
    BY <1>0, <1>1, QuietStep DEF LogInstructionCount, stateVars, fileVars
<1>2. CASE Proceed
    BY <1>0, <1>2, QuietStep DEF Proceed, stateVars, fileVars
<1>3. CASE \E p \in Players, m \in Messages : LogError(p, m)
    BY <1>0, <1>3, QuietStep DEF LogError, stateVars, driverVars, fileVars
<1>4. CASE Update
    BY <1>4, UpdateStep
<1>5. CASE LogFirstTowers
    BY <1>0, <1>5, LogFirstTowersStep
<1>6. CASE BeginWalk
    BY <1>0, <1>6, BeginWalkStep
<1>7. CASE MatchTower
    BY <1>7, MatchTowerStep
<1>8. CASE LoseTower
    BY <1>8, LoseTowerStep
<1>9. CASE MeetTower
    BY <1>9, MeetTowerStep
<1>10. CASE EndWalk
    BY <1>0, <1>10, EndWalkStep
<1>11. CASE LogRest
    BY <1>0, <1>11, QuietStep DEF LogRest, stateVars, fileVars
<1>12. CASE WriteGame
    BY <1>0, <1>12, QuietStep DEF WriteGame, stateVars
<1>13. CASE UNCHANGED vars
  <2>1. ListsPart'
      BY <1>0, <1>13, ListsKept DEF vars, stateVars, TowersPart
  <2>2. ReaderHasTheLog'
      BY <1>0, <1>13, ReaderKept DEF vars, fileVars, TowersPart
  <2>3. WalkIsInStep'
      BY <1>0, <1>13
         DEF vars, stateVars, driverVars, pointers, TowersPart, WalkIsInStep, Logged
  <2> QED
      BY <2>1, <2>2, <2>3 DEF TowersPart
<1> QED
    BY <1>1, <1>2, <1>3, <1>4, <1>5, <1>6, <1>7, <1>8, <1>9, <1>10, <1>11, <1>12, <1>13
       DEF Next, Round, LogState

\* The inductive invariant of the log: for every number of rounds, bound on
\* the towers and set of messages.
THEOREM LogInvariance == Spec => []LogInv
<1>1. LogInv /\ [Next]_vars => LogInv'
  <2> SUFFICES ASSUME LogInv, [Next]_vars PROVE LogInv'
      OBVIOUS
  <2>1. TypeOK'
      BY TypeStep
  <2>2. CodesPart'
      BY Parts, CodesStep
  <2>3. TowersPart'
      BY TowersStep
  <2> QED
      BY <2>1, <2>2, <2>3 DEF LogInv, CodesPart, TowersPart, ListsPart
<1> QED
    BY <1>1, InitLogInv, PTL DEF Spec

\* Whatever towers fall, rise and are upgraded in a turn, a reader of the
\* frames has the towers of both players as they are (LogTowers in logger.cpp).
THEOREM ReadersSeeTheTowers == Spec => []ReplayGivesTowers
<1>1. LogInv => ReplayGivesTowers
  <2> SUFFICES ASSUME LogInv, ~InLogState PROVE replay = TowersNow
      BY DEF ReplayGivesTowers
  <2>0. TypeOK /\ WalkIsInStep /\ ReaderHasTheLog /\ IdsAreTaken
      BY DEF LogInv
  <2>1. \A p \in Players : Logged(p)
      BY <2>0 DEF InLogState, WalkIsInStep
  <2>2. ASSUME NEW p \in Players
        PROVE  {Shown(Message(p, towers[p][i])) : i \in DOMAIN towers[p]} =
                   {AsRead(p, towerLogs[p][j]) : j \in DOMAIN towerLogs[p]}
    <3>1. DOMAIN towers[p] = DOMAIN towerLogs[p]
        BY <2>0, <2>1, Typed DEF Logged
    <3>2. ASSUME NEW i \in DOMAIN towers[p]
          PROVE  Shown(Message(p, towers[p][i])) = AsRead(p, towerLogs[p][i])
      <4>1. towers[p][i] \in Tower /\ (towers[p][i].isBase <=> towers[p][i].id = p)
          BY <2>0, Typed DEF IdsAreTaken
      <4>2. towerLogs[p][i] = LogEntry(towers[p][i])
          BY <2>1 DEF Logged
      <4> QED
          BY <4>1, <4>2, TowerMessages
    <3> QED
        BY <3>1, <3>2
  <2> DEFINE Now(p) == {Shown(Message(p, towers[p][i])) : i \in DOMAIN towers[p]}
             Known(p) == {AsRead(p, towerLogs[p][j]) : j \in DOMAIN towerLogs[p]}
  <2>3. TowersNow = UNION {Now(p) : p \in Players}
      BY DEF TowersNow
  <2>4. replay = UNION {Known(p) : p \in Players}
      BY <2>0 DEF ReaderHasTheLog
  <2>5. \A p \in Players : Now(p) = Known(p)
      BY <2>2
  <2> HIDE DEF Now, Known
  <2> QED
      BY <2>3, <2>4, <2>5
<1> QED
    BY <1>1, LogInvariance, PTL

\* A frame that is written has the counts and errors of its own turn: what
\* LogInstructionCount and LogError were told is in no later frame than that.
THEOREM FramesAreTheirTurns == Spec => []FramesAreOfTheirTurn
<1>1. LogInv => FramesAreOfTheirTurn
  <2> SUFFICES ASSUME LogInv PROVE FramesAreOfTheirTurn
      OBVIOUS
  <2>1. instCounts = measured
      BY DEF LogInv, OfThisRound
  <2>2. ASSUME NEW p \in Players
        PROVE  errors[p] = [k \in DOMAIN refused[p] |-> errorMap[refused[p][k]]]
    <3>1. /\ errors[p] \in Seq(Nat) /\ refused[p] \in Seq(Messages)
          /\ Len(errors[p]) = Len(refused[p])
          /\ \A k \in DOMAIN refused[p] : errors[p][k] = errorMap[refused[p][k]]
        BY DEF LogInv, TypeOK, OfThisRound
    <3> QED
        BY <3>1
  <2>3. errors = [p \in Players |-> [k \in DOMAIN refused[p] |-> errorMap[refused[p][k]]]]
      BY <2>2 DEF LogInv, TypeOK
  <2> QED
      BY <2>1, <2>3 DEF FramesAreOfTheirTurn
<1> QED
    BY <1>1, LogInvariance, PTL

\* The legend at the end of the file explains every code in the frames:
\* current_error_code gives no code twice, and no code is given up.
THEOREM LegendIsComplete == Spec => []LegendExplainsErrors
<1>1. LogInv => LegendExplainsErrors
  <2> SUFFICES ASSUME LogInv, place = "closed", NEW e \in meant
               PROVE  e[1] \in DOMAIN legend /\ legend[e[1]] = e[2]
      BY DEF LegendExplainsErrors
  <2>1. e[2] \in DOMAIN errorMap /\ errorMap[e[2]] = e[1]
      BY DEF LogInv, CodesKeepMeaning
  <2>2. legend = [c \in {errorMap[m] : m \in DOMAIN errorMap} |->
                    CHOOSE m \in DOMAIN errorMap : errorMap[m] = c]
      BY DEF LogInv, CodesKeepMeaning
  <2>3. e[1] \in {errorMap[m] : m \in DOMAIN errorMap}
      BY <2>1
  <2>4. legend[e[1]] = CHOOSE m \in DOMAIN errorMap : errorMap[m] = e[1]
      BY <2>2, <2>3
  <2> DEFINE n == CHOOSE m \in DOMAIN errorMap : errorMap[m] = e[1]
  <2>5. n \in DOMAIN errorMap /\ errorMap[n] = e[1]
      BY <2>1
  <2>6. n = e[2]
      BY <2>1, <2>5 DEF LogInv, CodesDiffer
  <2> QED
      BY <2>2, <2>3, <2>4, <2>6
<1> QED
    BY <1>1, LogInvariance, PTL
=============================================================================
