---------------------------- MODULE SoldiersProofs ----------------------------
(***************************************************************************)
(* Proofs about Soldiers, for any number of soldiers of either player, any *)
(* line, speed, range and damage, and any times of death and immunity.     *)
(***************************************************************************)
EXTENDS SoldiersInv, FiniteSetTheorems, TLAPS

\* Facts on the constants.
LEMMA Constants ==
    /\ NumSoldiers \in Nat /\ NumSoldiers > 0
    /\ Width \in Nat /\ MaxHp \in Nat /\ MaxHp > 0
    /\ AttackDamage \in Nat /\ AttackDamage > 0
    /\ Speed \in Nat /\ AttackRange \in Nat /\ ShieldTurns \in Nat
    /\ RespawnTurns \in Nat /\ RespawnTurns > 1
    /\ \A s \in Soldiers : s \in Nat /\ s < NumSoldiers /\ Spawn[Owner[s]] \in Positions
    /\ None \notin Soldiers /\ None \notin Positions
    /\ 0 \in Soldiers
<1>1. /\ {NumSoldiers, Width, AttackDamage, MaxHp} \subseteq Nat \ {0}
      /\ {Speed, AttackRange, ShieldTurns} \subseteq Nat
      /\ RespawnTurns \in Nat \ {0, 1}
    BY SoldiersAssumption DEF SoldiersAssumption
<1>2. /\ NumSoldiers \in Nat /\ NumSoldiers > 0
      /\ Width \in Nat /\ MaxHp \in Nat /\ MaxHp > 0
      /\ AttackDamage \in Nat /\ AttackDamage > 0
      /\ Speed \in Nat /\ AttackRange \in Nat /\ ShieldTurns \in Nat
      /\ RespawnTurns \in Nat /\ RespawnTurns > 1
    BY <1>1
<1>3. \A s \in Soldiers : Spawn[Owner[s]] \in Positions
    BY SoldiersAssumption DEF SoldiersAssumption
<1>4. /\ \A s \in Soldiers : s \in Nat /\ s < NumSoldiers
      /\ None \notin Soldiers /\ 0 \in Soldiers
    BY <1>2 DEF Soldiers, None
<1>5. None \notin Positions
    BY <1>2 DEF Positions, None
<1> QED
    BY <1>2, <1>3, <1>4, <1>5

\* The loops go through the soldiers in order.
LEMMA Successor ==
    ASSUME TypeOK
    PROVE  (who + 1) % NumSoldiers = IF who + 1 = NumSoldiers THEN 0 ELSE who + 1
<1>1. who + 1 \in Nat /\ who + 1 <= NumSoldiers
    BY Constants DEF TypeOK, Soldiers
<1>2. \A n \in Nat : n < NumSoldiers => n % NumSoldiers = n
    BY Constants
<1>3. NumSoldiers % NumSoldiers = 0
    BY Constants
<1> QED
    BY <1>1, <1>2, <1>3, Constants

\* A march stays on the line.
LEMMA MarchStays ==
    ASSUME NEW x \in Positions, NEW y \in Positions
    PROVE  GetNextPosition(x, y) \in Positions
BY Constants DEF GetNextPosition, Distance, Positions

LEMMA InitIInv == Init => IInv
<1> SUFFICES ASSUME Init PROVE IInv
    OBVIOUS
<1> USE Constants DEF Init
<1>1. TypeOK
    BY DEF TypeOK
<1>2. ASSUME NEW s \in Soldiers PROVE SoldierPart(s)
    BY <1>2 DEF SoldierPart, Vital, Guided, Settled, Paid, Forgets, Updated, Awaited
<1> QED
    BY <1>1, <1>2 DEF IInv

\* The loops go on, or make room for the next.
LEMMA Advance ==
    ASSUME TypeOK, NEW next, NextSoldier(next)
    PROVE  /\ who' \in Soldiers
           /\ \/ who + 1 < NumSoldiers /\ who' = who + 1 /\ phase' = phase
              \/ who + 1 = NumSoldiers /\ who' = 0 /\ phase' = next
<1>1. who \in Nat /\ who < NumSoldiers
    BY Constants DEF TypeOK
<1>2. who + 1 = NumSoldiers \/ who + 1 < NumSoldiers
    BY <1>1, Constants
<1>3. who + 1 < NumSoldiers => who + 1 \in Soldiers
    BY <1>1, Constants DEF Soldiers
<1> QED
    BY <1>2, <1>3, Successor, Constants DEF NextSoldier

\* What the parts of the invariant about s need to know of types.
LEMMA Typing ==
    ASSUME TypeOK, NEW s \in Soldiers
    PROVE  /\ who \in Nat /\ who < NumSoldiers
           /\ hp[s] \in Nat /\ hp[s] <= MaxHp /\ damage[s] \in Nat /\ rewards[s] \in Nat
           /\ down[s] \in Nat /\ down[s] < RespawnTurns
           /\ target[s] # None => target[s] \in Soldiers
           /\ dest[s] # None => dest[s] \in Positions
           /\ pos[s] \in Positions
<1>1. who \in Nat /\ who < NumSoldiers
    BY Constants DEF TypeOK
<1>2. hp[s] \in 0 .. MaxHp /\ damage[s] \in 0 .. MaxHp /\ down[s] \in 0 .. RespawnTurns - 1
    BY DEF TypeOK
<1>3. /\ rewards[s] \in Nat /\ pos[s] \in Positions
      /\ target[s] # None => target[s] \in Soldiers
      /\ dest[s] # None => dest[s] \in Positions
    BY DEF TypeOK
<1> QED
    BY <1>1, <1>2, <1>3, Constants

-----------------------------------------------------------------------------
(* Types.                                                                  *)

\* Commands change orders only.
LEMMA CommandTypes ==
    ASSUME TypeOK, Commands
    PROVE  TypeOK'
<1>1. /\ target' \in [Soldiers -> Soldiers \cup {None}]
      /\ dest' \in [Soldiers -> Positions \cup {None}]
      /\ EndCommand
      /\ phase = "commands"
  <2>1. CASE NoCommand
      BY <2>1 DEF NoCommand, TypeOK, orders
  <2>2. ASSUME NEW x \in Positions, MoveSoldier(x)
        PROVE  /\ target' \in [Soldiers -> Soldiers \cup {None}]
               /\ dest' \in [Soldiers -> Positions \cup {None}]
               /\ EndCommand /\ phase = "commands"
      BY <2>2 DEF MoveSoldier, TypeOK
  <2>3. ASSUME NEW t \in Soldiers, AttackSoldier(t)
        PROVE  /\ target' \in [Soldiers -> Soldiers \cup {None}]
               /\ dest' \in [Soldiers -> Positions \cup {None}]
               /\ EndCommand /\ phase = "commands"
      BY <2>3 DEF AttackSoldier, TypeOK
  <2> QED
      BY <2>1, <2>2, <2>3 DEF Commands
<1>2. who' \in Soldiers /\ phase' \in {"commands", "update", "late"}
    BY <1>1, Advance DEF EndCommand
<1> QED
    BY <1>1, <1>2 DEF EndCommand, TypeOK, body

\* A transition keeps the types.
LEMMA ChangeTypes ==
    ASSUME TypeOK, ChangeState
    PROVE  TypeOK'
<1> USE Constants DEF TypeOK
<1>1. NewState(who) # "same" => NewState(who) \in {"idle", "move", "attack", "pursuit", "dead"}
  <2>1. /\ state[who] \in {"idle", "move", "attack", "pursuit", "dead"}
        /\ hp[who] = 0 \/ hp[who] > 0
      OBVIOUS
  <2> QED
      BY <2>1 DEF NewState
<1>2. state' \in [Soldiers -> {"idle", "move", "attack", "pursuit", "dead"}]
    BY <1>1 DEF ChangeState
<1>3. target' \in [Soldiers -> Soldiers \cup {None}]
    BY DEF ChangeState, NewTarget
<1>4. dest' \in [Soldiers -> Positions \cup {None}]
    BY DEF ChangeState, NewDest
<1>5. /\ pos' \in [Soldiers -> Positions]
      /\ hp' \in [Soldiers -> 0 .. MaxHp]
      /\ shield' \in [Soldiers -> 0 .. ShieldTurns + 1]
  <2>1. CASE state[who] = "dead"
    <3>1. MaxHp \in 0 .. MaxHp /\ ShieldTurns + 1 \in 0 .. ShieldTurns + 1
        OBVIOUS
    <3> QED
        BY <2>1, <3>1 DEF ChangeState
  <2>2. CASE state[who] # "dead"
      BY <2>2 DEF ChangeState
  <2> QED
      BY <2>1, <2>2
<1> QED
    BY <1>2, <1>3, <1>4, <1>5 DEF ChangeState

\* Where a soldier that stays in its state is, and what it has got.
LEMMA Staying ==
    ASSUME IInv, EndUpdate
    PROVE  /\ state[who] = "idle" => target[who] = None /\ dest[who] = None
           /\ state[who] = "move" => target[who] = None /\ dest[who] # None
           /\ state[who] \in {"attack", "pursuit"} =>
                  target[who] \in Soldiers /\ dest[who] = None /\ ~TargetIsDead(who)
           /\ state[who] = "dead" => target[who] = None /\ dest[who] = None /\ down[who] > 0
<1>1. /\ who \in Soldiers /\ TypeOK /\ Vital(who) /\ Guided(who)
      /\ hp[who] \in Nat /\ down[who] \in Nat
      /\ target[who] # None => target[who] \in Soldiers
      /\ state[who] \in {"idle", "move", "attack", "pursuit", "dead"}
      /\ NewState(who) = "same"
    BY Typing DEF IInv, TypeOK, SoldierPart, EndUpdate
<1>2. CASE state[who] = "dead"
    BY <1>1, <1>2 DEF NewState, Guided
<1>3. CASE state[who] = "idle"
    BY <1>1, <1>3 DEF NewState, Guided, Vital
<1>4. CASE state[who] = "move"
    BY <1>1, <1>4 DEF NewState, Guided, Vital
<1>5. CASE state[who] \in {"attack", "pursuit"}
    BY <1>1, <1>5 DEF NewState, Guided, Vital
<1> QED
    BY <1>1, <1>2, <1>3, <1>4, <1>5

\* So do the Updates of states that stay.
LEMMA UpdateTypes ==
    ASSUME IInv, Idle \/ StayDead \/ March \/ Strike
    PROVE  TypeOK'
<1>0. TypeOK /\ EndUpdate /\ who \in Soldiers
    BY DEF Idle, StayDead, March, Strike, IInv, TypeOK
<1>1. who' \in Soldiers /\ phase' \in {"commands", "update", "late"}
    BY <1>0, Advance DEF EndUpdate, TypeOK
<1> USE <1>0, <1>1, Constants DEF EndUpdate, TypeOK, orders
<1>2. CASE Idle
    BY <1>2 DEF Idle
<1>3. CASE StayDead
  <2>1. down[who] - 1 \in 0 .. RespawnTurns - 1
      BY <1>3, Staying DEF StayDead
  <2> QED
      BY <1>3, <2>1 DEF StayDead
<1>4. CASE March
  <2> DEFINE goal == IF state[who] = "move" THEN dest[who] ELSE pos[target[who]]
  <2>1. goal \in Positions /\ pos[who] \in Positions
      BY <1>4, Staying DEF March
  <2>2. GetNextPosition(pos[who], goal) \in Positions
      BY <2>1, MarchStays
  <2> QED
      BY <1>4, <2>2 DEF March
<1>5. CASE Strike
  <2>1. target[who] \in Soldiers
      BY <1>5, Staying DEF Strike
  <2>2. Smaller(hp[target[who]], damage[target[who]] + AttackDamage) \in 0 .. MaxHp
      BY <2>1 DEF Smaller
  <2>3. rewards' \in [Soldiers -> Nat]
      BY <1>5, <2>1 DEF Strike
  <2> QED
      BY <1>5, <2>1, <2>2, <2>3 DEF Strike
<1> QED
    BY <1>2, <1>3, <1>4, <1>5

\* The late update takes no more than there is.
LEMMA LateTypes ==
    ASSUME IInv, LateUpdate
    PROVE  TypeOK'
<1>0. TypeOK /\ who \in Soldiers /\ Vital(who)
    BY DEF IInv, TypeOK, SoldierPart
<1> DEFINE left == IF IsInvulnerable(who) THEN hp[who] ELSE LatestHp(who)
<1>1. left \in 0 .. MaxHp
    BY <1>0, Typing, Constants DEF Vital, LatestHp
<1>2. who' \in Soldiers /\ phase' \in {"commands", "update", "late"}
    BY <1>0, Advance DEF LateUpdate, TypeOK
<1>3. RespawnTurns - 1 \in 0 .. RespawnTurns - 1 /\ 0 \in 0 .. MaxHp
    BY Constants
<1>4. /\ pos' \in [Soldiers -> Positions]
      /\ newPos' \in [Soldiers -> Positions \cup {None}]
      /\ hp' \in [Soldiers -> 0 .. MaxHp]
      /\ damage' \in [Soldiers -> 0 .. MaxHp]
      /\ rewards' \in [Soldiers -> Nat]
    BY <1>0, <1>1, <1>3 DEF LateUpdate, TypeOK
<1>5. shield' \in [Soldiers -> 0 .. ShieldTurns + 1]
  <2>1. shield[who] > 0 => shield[who] - 1 \in 0 .. ShieldTurns + 1
      BY <1>0, Constants DEF TypeOK
  <2>2. 0 \in 0 .. ShieldTurns + 1
      BY Constants
  <2> QED
      BY <1>0, <2>1, <2>2 DEF LateUpdate, TypeOK
<1>6. /\ state' \in [Soldiers -> {"idle", "move", "attack", "pursuit", "dead"}]
      /\ target' \in [Soldiers -> Soldiers \cup {None}]
      /\ dest' \in [Soldiers -> Positions \cup {None}]
      /\ down' \in [Soldiers -> 0 .. RespawnTurns - 1]
    BY <1>0, <1>3 DEF LateUpdate, TypeOK, NewTarget, NewDest
<1> QED
    BY <1>2, <1>4, <1>5, <1>6 DEF TypeOK

LEMMA TypePreserved ==
    ASSUME IInv, [Next]_vars
    PROVE  TypeOK'
<1>1. TypeOK
    BY DEF IInv
<1>2. CASE UNCHANGED vars
    BY <1>1, <1>2 DEF TypeOK, vars, body, orders
<1> QED
    BY <1>1, <1>2, CommandTypes, ChangeTypes, UpdateTypes, LateTypes DEF Next, Update

-----------------------------------------------------------------------------
(* The part about soldier s: one lemma for each kind of step.              *)

\* A command gives the soldier whose turn it is one order, or none.
LEMMA OneCommand ==
    ASSUME IInv, Commands, NEW s \in Soldiers
    PROVE  /\ phase = "commands" /\ EndCommand
           /\ UNCHANGED <<pos, hp, shield, damage, state, newPos, down, rewards>>
           /\ s # who => target'[s] = target[s] /\ dest'[s] = dest[s]
           /\ \/ target'[who] = target[who] /\ dest'[who] = dest[who]
              \/ hp[who] # 0 /\ target'[who] = None /\ dest'[who] # None
              \/ /\ hp[who] # 0 /\ target'[who] \in Soldiers /\ dest'[who] = None
                 /\ hp[target'[who]] # 0
<1>0. TypeOK /\ who \in Soldiers
    BY DEF IInv, TypeOK
<1>1. CASE NoCommand
    BY <1>1 DEF NoCommand, EndCommand, body, orders
<1>2. ASSUME NEW x \in Positions, MoveSoldier(x)
      PROVE  /\ phase = "commands" /\ EndCommand
             /\ s # who => target'[s] = target[s] /\ dest'[s] = dest[s]
             /\ hp[who] # 0 /\ target'[who] = None /\ dest'[who] # None
    BY <1>0, <1>2, Constants DEF MoveSoldier, TypeOK
<1>3. ASSUME NEW t \in Soldiers, AttackSoldier(t)
      PROVE  /\ phase = "commands" /\ EndCommand
             /\ s # who => target'[s] = target[s] /\ dest'[s] = dest[s]
             /\ hp[who] # 0 /\ target'[who] \in Soldiers /\ dest'[who] = None
             /\ hp[target'[who]] # 0
    BY <1>0, <1>3 DEF AttackSoldier, TypeOK
<1> QED
    BY <1>1, <1>2, <1>3 DEF Commands, EndCommand, body

LEMMA CommandPart ==
    ASSUME IInv, Commands, NEW s \in Soldiers
    PROVE  SoldierPart(s)'
<1>0. TypeOK /\ who \in Soldiers /\ SoldierPart(s)
    BY DEF IInv, TypeOK
<1>1. /\ phase = "commands" /\ EndCommand
      /\ UNCHANGED <<hp, damage, state, down, rewards>>
      /\ s # who => target'[s] = target[s] /\ dest'[s] = dest[s]
      /\ \/ target'[who] = target[who] /\ dest'[who] = dest[who]
         \/ hp[who] # 0 /\ target'[who] = None /\ dest'[who] # None
         \/ /\ hp[who] # 0 /\ target'[who] \in Soldiers /\ dest'[who] = None
            /\ hp[target'[who]] # 0
    BY OneCommand
<1>2. \/ who + 1 < NumSoldiers /\ who' = who + 1 /\ phase' = "commands"
      \/ who + 1 = NumSoldiers /\ who' = 0 /\ phase' = "update"
    BY <1>0, <1>1, Advance DEF EndCommand
<1>3. /\ s \in Nat /\ s < NumSoldiers /\ who \in Nat /\ hp[s] \in Nat /\ damage[s] \in Nat
      /\ rewards[s] \in Nat
    BY <1>0, Typing, Constants
<1>4. Vital(s)'
    BY <1>0, <1>1 DEF SoldierPart, Vital
<1>5. Guided(s)'
    BY <1>0, <1>1, Constants DEF SoldierPart, Guided, Vital
<1>6. Settled(s)'
    BY <1>0, <1>1, <1>2, <1>3 DEF SoldierPart, Settled, Updated
<1>7. Paid(s)'
    BY <1>0, <1>1, <1>2, <1>3 DEF SoldierPart, Paid, Awaited, Vital
<1>8. Forgets(s)'
  <2>1. CASE s = who /\ target'[who] \in Soldiers /\ hp[target'[who]] # 0
    <3>1. Vital(target'[who])
        BY <2>1 DEF IInv, SoldierPart
    <3> QED
        BY <1>1, <1>2, <1>3, <2>1, <3>1 DEF Forgets, Updated, Vital
  <2>2. CASE target'[s] = target[s] \/ target'[s] = None
      BY <1>0, <1>1, <1>2, <1>3, <2>2 DEF SoldierPart, Forgets, Updated
  <2> QED
      BY <1>1, <2>1, <2>2
<1> QED
    BY <1>4, <1>5, <1>6, <1>7, <1>8 DEF SoldierPart

\* The transitions there are: back to life, or from one living state to
\* another, with the order that goes with it.
LEMMA Transitions ==
    ASSUME IInv, ChangeState
    PROVE  /\ state[who] = "dead" =>
                 state'[who] = "idle" /\ hp'[who] = MaxHp /\ target'[who] = None /\ dest'[who] = None
           /\ state[who] # "dead" =>
                 /\ hp'[who] = hp[who]
                 /\ state'[who] # "dead"
                 /\ state'[who] = "move" => dest'[who] # None
                 /\ state'[who] \in {"attack", "pursuit"} => target'[who] # None
                 /\ target'[who] = target[who] \/ target'[who] = None
                 /\ dest'[who] = dest[who] \/ dest'[who] = None
<1>1. /\ who \in Soldiers /\ TypeOK /\ Vital(who) /\ Guided(who)
      /\ hp[who] \in Nat
      /\ state[who] \in {"idle", "move", "attack", "pursuit", "dead"}
    BY Typing DEF IInv, TypeOK, SoldierPart
<1>2. /\ NewState(who) # "same"
      /\ state'[who] = NewState(who)
      /\ target'[who] = NewTarget(who, NewState(who))
      /\ dest'[who] = NewDest(who)
      /\ hp'[who] = IF state[who] = "dead" THEN MaxHp ELSE hp[who]
    BY <1>1 DEF ChangeState, TypeOK
<1>3. CASE state[who] = "dead"
    BY <1>1, <1>2, <1>3 DEF NewState, NewTarget, NewDest
<1>4. CASE state[who] = "idle"
    BY <1>1, <1>2, <1>4 DEF NewState, NewTarget, NewDest, Vital
<1>5. CASE state[who] = "move"
    BY <1>1, <1>2, <1>5 DEF NewState, NewTarget, NewDest, Vital
<1>6. CASE state[who] \in {"attack", "pursuit"}
    BY <1>1, <1>2, <1>6 DEF NewState, NewTarget, NewDest, Vital, Guided
<1> QED
    BY <1>1, <1>3, <1>4, <1>5, <1>6

LEMMA ChangePart ==
    ASSUME IInv, ChangeState, NEW s \in Soldiers
    PROVE  SoldierPart(s)'
<1>0. /\ TypeOK /\ who \in Soldiers /\ SoldierPart(s)
      /\ who \in Nat /\ s \in Nat /\ hp[s] \in Nat /\ damage[s] \in Nat /\ rewards[s] \in Nat
    BY Typing, Constants DEF IInv, TypeOK
<1>1. /\ phase = "update" /\ UNCHANGED <<damage, down, phase, who, rewards>>
      /\ \A q \in Soldiers \ {who} :
            /\ state'[q] = state[q] /\ target'[q] = target[q] /\ dest'[q] = dest[q]
            /\ hp'[q] = hp[q]
  <2>1. CASE state[who] = "dead"
      BY <1>0, <2>1 DEF ChangeState, TypeOK
  <2>2. CASE state[who] # "dead"
      BY <1>0, <2>2 DEF ChangeState, TypeOK
  <2> QED
      BY <2>1, <2>2
<1>2. CASE s # who
  <2>1. Vital(s)' /\ Guided(s)' /\ Settled(s)' /\ Paid(s)'
      BY <1>0, <1>1, <1>2 DEF SoldierPart, Vital, Guided, Settled, Updated, Paid, Awaited
  <2>2. target[s] # None => state'[target[s]] # "dead" \/ state[target[s]] = "dead"
      BY <1>0, <1>1, Transitions, Typing
  <2>3. Forgets(s)'
      BY <1>0, <1>1, <1>2, <2>2 DEF SoldierPart, Forgets, Updated
  <2> QED
      BY <2>1, <2>3 DEF SoldierPart
<1>3. CASE s = who
  <2>1. Vital(s)'
      BY <1>0, <1>1, <1>3, Transitions, Constants DEF SoldierPart, Vital
  <2>2. Guided(s)'
      BY <1>0, <1>1, <1>3, Transitions DEF SoldierPart, Guided
  <2>3. Settled(s)' /\ Forgets(s)'
      BY <1>0, <1>1, <1>3 DEF Settled, Forgets, Updated
  <2>4. Paid(s)'
      BY <1>0, <1>1, <1>3, Transitions, Constants DEF SoldierPart, Vital, Paid, Awaited
  <2> QED
      BY <2>1, <2>2, <2>3, <2>4 DEF SoldierPart
<1> QED
    BY <1>2, <1>3

\* The Update of a state that stays ends as its order says.
LEMMA StayOrders ==
    ASSUME IInv, EndUpdate, NEW s \in Soldiers
    PROVE  Guided(s)' /\ Settled(s)' /\ Forgets(s)'
<1>0. /\ TypeOK /\ who \in Soldiers /\ SoldierPart(s)
      /\ who \in Nat /\ s \in Nat /\ s < NumSoldiers
    BY Typing, Constants DEF IInv, TypeOK
<1>1. /\ phase = "update" /\ UNCHANGED <<hp, state, target, dest>>
      /\ \/ who + 1 < NumSoldiers /\ who' = who + 1 /\ phase' = "update"
         \/ who + 1 = NumSoldiers /\ who' = 0 /\ phase' = "late"
    BY <1>0, Advance DEF EndUpdate, orders
<1>2. Guided(s)'
    BY <1>0, <1>1 DEF SoldierPart, Guided
<1>3. Updated(s)' <=> Updated(s) \/ s = who
    BY <1>0, <1>1 DEF Updated
<1>4. Settled(s)'
    BY <1>0, <1>1, <1>3, Staying DEF SoldierPart, Settled, TypeOK
<1>5. target[who] # None => state[target[who]] # "dead"
  <2>1. SUFFICES ASSUME target[who] # None PROVE state[target[who]] # "dead"
      OBVIOUS
  <2>2. target[who] \in Soldiers /\ LatestHp(target[who]) # 0
      BY <1>0, <2>1, Staying DEF TypeOK, TargetIsDead
  <2>3. Vital(target[who]) /\ damage[target[who]] \in Nat /\ hp[target[who]] \in Nat
      BY <1>0, <2>2, Typing DEF IInv, SoldierPart
  <2> QED
      BY <2>2, <2>3 DEF Vital, LatestHp
<1>6. target[s] # None /\ (Updated(s) \/ s = who) => state[target[s]] # "dead"
    BY <1>0, <1>1, <1>5 DEF SoldierPart, Forgets
<1>7. Forgets(s)'
    BY <1>0, <1>1, <1>3, <1>6 DEF Forgets, Updated
<1> QED
    BY <1>2, <1>4, <1>7

\* If the soldier does not strike, health, damage and rewards stay.
LEMMA QuietPart ==
    ASSUME IInv, Idle \/ StayDead \/ March, NEW s \in Soldiers
    PROVE  SoldierPart(s)'
<1>1. /\ TypeOK /\ who \in Soldiers /\ SoldierPart(s) /\ EndUpdate
      /\ UNCHANGED <<damage, rewards>>
    BY DEF IInv, TypeOK, Idle, StayDead, March
<1>2. phase = "update" /\ phase' \in {"update", "late"} /\ UNCHANGED <<hp, state>>
    BY <1>1, Advance DEF EndUpdate
<1>3. who' = 0 \/ phase' = "update"
    BY <1>1, Advance DEF EndUpdate
<1>4. Awaited(s) /\ Awaited(s)'
    BY <1>2, <1>3, Constants DEF Awaited
<1>5. Vital(s)' /\ Paid(s)'
    BY <1>1, <1>2, <1>4 DEF SoldierPart, Vital, Paid
<1> QED
    BY <1>1, <1>5, StayOrders DEF SoldierPart

\* A blow is paid for when it takes the last of its victim's health, which no
\* blow before it has.
LEMMA StrikePart ==
    ASSUME IInv, Strike, NEW s \in Soldiers
    PROVE  SoldierPart(s)'
<1> DEFINE t == target[who]
           harm == Smaller(hp[t], damage[t] + AttackDamage)
<1>1. /\ TypeOK /\ who \in Soldiers /\ SoldierPart(s) /\ EndUpdate
    BY DEF IInv, TypeOK, Strike
<1>2. /\ t \in Soldiers /\ LatestHp(t) # 0
      /\ damage' = [damage EXCEPT ![t] = harm]
      /\ rewards' = [rewards EXCEPT ![t] = IF hp[t] = harm THEN @ + 1 ELSE @]
    BY <1>1, Staying DEF Strike, TargetIsDead
<1>3. phase = "update" /\ phase' \in {"update", "late"} /\ UNCHANGED <<hp, state>>
    BY <1>1, Advance DEF EndUpdate
<1>4. who' = 0 \/ phase' = "update"
    BY <1>1, Advance DEF EndUpdate
<1>5. Awaited(s) /\ Awaited(s)'
    BY <1>3, <1>4, Constants DEF Awaited
<1>6. /\ hp[s] \in Nat /\ damage[s] \in Nat /\ rewards[s] \in Nat
      /\ Vital(s) /\ Paid(s)
    BY <1>1, Typing DEF SoldierPart
<1>7. CASE s # t
  <2>1. damage'[s] = damage[s] /\ rewards'[s] = rewards[s]
      BY <1>1, <1>2, <1>7 DEF TypeOK
  <2>2. Vital(s)' /\ Paid(s)'
      BY <1>3, <1>5, <1>6, <2>1 DEF Vital, Paid
  <2> QED
      BY <1>1, <2>2, StayOrders DEF SoldierPart
<1>8. CASE s = t
  <2>1. damage'[s] = harm /\ rewards'[s] = IF hp[s] = harm THEN rewards[s] + 1 ELSE rewards[s]
      BY <1>1, <1>2, <1>8 DEF TypeOK
  <2>2. damage[s] # hp[s] /\ harm <= hp[s] /\ hp[s] # 0
      BY <1>2, <1>6, <1>8, Constants DEF LatestHp, Smaller, Vital
  <2>3. rewards[s] = 0
      BY <1>5, <1>6, <2>2 DEF Paid
  <2>4. Vital(s)' /\ Paid(s)'
      BY <1>3, <1>5, <1>6, <2>1, <2>2, <2>3 DEF Vital, Paid
  <2> QED
      BY <1>1, <2>4, StayOrders DEF SoldierPart
<1> QED
    BY <1>7, <1>8

\* The late update: who is dead now has been dropped, and dies without orders.
LEMMA LatePart ==
    ASSUME IInv, LateUpdate, NEW s \in Soldiers
    PROVE  SoldierPart(s)'
<1> DEFINE left == IF IsInvulnerable(who) THEN hp[who] ELSE LatestHp(who)
           dies == left = 0 /\ state[who] # "dead"
<1>0. /\ TypeOK /\ who \in Soldiers /\ SoldierPart(s) /\ SoldierPart(who)
      /\ who \in Nat /\ s \in Nat /\ s < NumSoldiers
      /\ hp[s] \in Nat /\ damage[s] \in Nat /\ rewards[s] \in Nat
      /\ hp[who] \in Nat /\ damage[who] \in Nat
    BY Typing, Constants DEF IInv, TypeOK
<1>1. /\ phase = "late"
      /\ \/ who + 1 < NumSoldiers /\ who' = who + 1 /\ phase' = "late" /\ rewards' = rewards
         \/ who + 1 = NumSoldiers /\ who' = 0 /\ phase' = "commands" /\ rewards'[s] = 0
    BY <1>0, Advance DEF LateUpdate
<1>2. /\ \A q \in Soldiers \ {who} :
            /\ hp'[q] = hp[q] /\ damage'[q] = damage[q] /\ state'[q] = state[q]
            /\ target'[q] = target[q] /\ dest'[q] = dest[q] /\ down'[q] = down[q]
      /\ hp'[who] = left /\ damage'[who] = 0
  <2>1. CASE dies
      BY <1>0, <2>1 DEF LateUpdate, TypeOK
  <2>2. CASE ~dies
      BY <1>0, <2>2 DEF LateUpdate, TypeOK
  <2> QED
      BY <2>1, <2>2
<1>3. /\ ~dies => state' = state /\ target' = target /\ dest' = dest /\ down' = down
      /\ dies => /\ state'[who] = "dead" /\ down'[who] = RespawnTurns - 1
                 /\ target'[who] = NewTarget(who, "dead") /\ dest'[who] = NewDest(who)
    BY <1>0 DEF LateUpdate, TypeOK
<1>4. left \in Nat /\ left <= hp[who]
    BY <1>0 DEF SoldierPart, Vital, LatestHp
<1>5. dies => target'[who] = None /\ dest'[who] = None
    BY <1>0, <1>1, <1>3 DEF SoldierPart, Settled, Updated, NewTarget, NewDest
<1>6. Vital(s)'
    BY <1>0, <1>2, <1>3, <1>4 DEF SoldierPart, Vital
<1>7. Guided(s)'
    BY <1>0, <1>2, <1>3, <1>5 DEF SoldierPart, Guided
<1>8. Settled(s)'
    BY <1>0, <1>1, <1>2, <1>3, <1>5 DEF SoldierPart, Settled, Updated
<1>9. Paid(s)'
    BY <1>0, <1>1, <1>2, <1>3 DEF SoldierPart, Paid, Awaited
<1>10. Forgets(s)'
  <2>1. SUFFICES ASSUME target'[s] # None
                 PROVE  state'[target'[s]] = "dead" => down'[target'[s]] = RespawnTurns - 1
      BY <1>1 DEF Forgets
  <2>2. target'[s] = target[s] /\ target[s] # None /\ target[s] \in Soldiers
      BY <1>0, <1>2, <1>3, <1>5, <2>1, Typing
  <2>3. state[target[s]] = "dead" => down[target[s]] = RespawnTurns - 1
      BY <1>0, <1>1, <2>2 DEF SoldierPart, Forgets
  <2>4. CASE target[s] = who
      BY <1>3, <2>2, <2>3, <2>4
  <2>5. CASE target[s] # who
      BY <1>2, <2>2, <2>3, <2>5
  <2> QED
      BY <2>4, <2>5
<1> QED
    BY <1>6, <1>7, <1>8, <1>9, <1>10 DEF SoldierPart

-----------------------------------------------------------------------------
(* Theorems.                                                               *)

\* The invariant holds in every state.
THEOREM Invariance == Spec => []IInv
<1>1. Init => IInv
    BY InitIInv
<1>2. ASSUME IInv, [Next]_vars PROVE IInv'
  <2>1. ASSUME NEW s \in Soldiers PROVE SoldierPart(s)'
    <3>1. CASE Commands
        BY <1>2, <3>1, CommandPart
    <3>2. CASE ChangeState
        BY <1>2, <3>2, ChangePart
    <3>3. CASE Idle \/ StayDead \/ March
        BY <1>2, <3>3, QuietPart
    <3>4. CASE Strike
        BY <1>2, <3>4, StrikePart
    <3>5. CASE LateUpdate
        BY <1>2, <3>5, LatePart
    <3>6. CASE UNCHANGED vars
        BY <1>2, <3>6 DEF IInv, SoldierPart, Vital, Guided, Settled, Paid, Forgets, Updated,
               Awaited, vars, body, orders
    <3> QED
        BY <1>2, <3>1, <3>2, <3>3, <3>4, <3>5, <3>6 DEF Next, Update
  <2> QED
      BY <1>2, <2>1, TypePreserved DEF IInv
<1> QED
    BY <1>1, <1>2, PTL DEF Spec

\* Types: positions stay on the line and counters within what they start with.
THEOREM TypeCorrect == Spec => []TypeOK
<1>1. IInv => TypeOK
    BY DEF IInv
<1> QED
    BY <1>1, Invariance, PTL

\* AttackState and PursuitState never follow a null pointer.
THEOREM TargetsAreThere == Spec => []NoNullTarget
<1>1. IInv => NoNullTarget
    BY DEF IInv, SoldierPart, Guided, NoNullTarget
<1> QED
    BY <1>1, Invariance, PTL

\* No soldier has a destination and a target at the same time.
THEOREM OrdersExclude == Spec => []OneOrder
<1>1. IInv => OneOrder
    BY DEF IInv, SoldierPart, Guided, OneOrder
<1> QED
    BY <1>1, Invariance, PTL

\* However many soldiers strike one victim, and in whatever order, its death is
\* rewarded once, and a blow that does not kill is not.
THEOREM DeathsArePaidOnce == Spec => []DeathIsPaidOnce
<1>1. ASSUME IInv PROVE DeathIsPaidOnce
  <2>1. SUFFICES ASSUME NEW s \in Soldiers
                 PROVE  /\ rewards[s] <= 1
                        /\ (phase = "late" /\ who <= s /\ state[s] # "dead")
                              => (LatestHp(s) = 0 <=> rewards[s] = 1)
      BY DEF DeathIsPaidOnce
  <2>2. Paid(s) /\ hp[s] \in Nat /\ damage[s] \in Nat /\ s \in Nat /\ who \in Nat
      BY <1>1, Typing, Constants DEF IInv, SoldierPart
  <2> QED
      BY <2>2 DEF Paid, Awaited, LatestHp
<1> QED
    BY <1>1, Invariance, PTL

\* When a dead soldier counts down, nobody has it as a target any more: the one
\* that comes back is not chased for an order given before its death.
THEOREM DeadAreForgotten == Spec => []TheDeadAreForgotten
<1>1. ASSUME IInv PROVE TheDeadAreForgotten
  <2>1. SUFFICES ASSUME NEW s \in Soldiers, NEW t \in Soldiers, phase = "commands",
                        state[t] = "dead", down[t] < RespawnTurns - 1, target[s] = t
                 PROVE  FALSE
      BY DEF TheDeadAreForgotten
  <2>2. Forgets(s) /\ t # None /\ down[t] \in Nat
      BY <1>1, Typing, Constants DEF IInv, SoldierPart
  <2> QED
      BY <2>1, <2>2, Constants DEF Forgets
<1> QED
    BY <1>1, Invariance, PTL
-----------------------------------------------------------------------------
(* The turns implement Skirmish: what TurnInv says of the operators of     *)
(* Skirmish, each kind of step on one soldier, then the theorems.          *)

\* The army as a turn found it stays, and with it what Skirmish allows.
LEMMA BegunStays ==
    ASSUME before' = before, NEW s \in Soldiers, NEW t \in Soldiers
    PROVE  /\ Begun!Hunts(s, t)' <=> Begun!Hunts(s, t)
           /\ Begun!InRange(s, t)' <=> Begun!InRange(s, t)
           /\ Begun!Conducts(s)' = Begun!Conducts(s)
           /\ Begun!Outcomes(s)' = Begun!Outcomes(s)
<1>1. Begun!Alive(s)' <=> Begun!Alive(s)
    BY DEF Begun!Alive
<1>2. \A q \in Soldiers : Begun!InRange(s, q)' <=> Begun!InRange(s, q)
    BY DEF Begun!InRange
<1>3. \A q \in Soldiers : Begun!Hunts(s, q)' <=> Begun!Hunts(s, q)
    BY DEF Begun!Hunts, Begun!Alive
<1>4. \A q : Begun!Harm(q)' = Begun!Harm(q)
    BY DEF Begun!Harm, Begun!Hunts, Begun!InRange, Begun!Alive
<1>5. Begun!Conducts(s)' = Begun!Conducts(s)
    BY <1>4 DEF Begun!Conducts, Begun!InRange, Begun!Alive
<1>6. Begun!NewHp(s)' = Begun!NewHp(s)
    BY <1>4 DEF Begun!NewHp
<1>7. Begun!Outcomes(s)' = Begun!Outcomes(s)
    BY <1>1, <1>5, <1>6 DEF Begun!Outcomes
<1> QED
    BY <1>2, <1>3, <1>5, <1>7

\* The instances of Skirmish count as this module does.
LEMMA Counting ==
    \A S : Begun!Cardinality(S) = Cardinality(S) /\ Skirmish!Cardinality(S) = Cardinality(S)
BY DEF Begun!Cardinality, Skirmish!Cardinality, Cardinality

\* During a turn, the army shown is the one the turn found.
LEMMA SameOutcomes ==
    ASSUME phase # "commands", NEW s \in Soldiers
    PROVE  Skirmish!Outcomes(s) = Begun!Outcomes(s)
<1>0. Shown = before
    BY DEF Shown
<1>1. Skirmish!Alive(s) <=> Begun!Alive(s)
    BY <1>0 DEF Begun!Alive, Skirmish!Alive
<1>4. \A q : Skirmish!Harm(q) = Begun!Harm(q)
  <2>1. \A r, q : Skirmish!Hunts(r, q) <=> Begun!Hunts(r, q)
      BY <1>0 DEF Begun!Hunts, Begun!Alive, Skirmish!Hunts, Skirmish!Alive
  <2>2. \A r, q : Skirmish!InRange(r, q) <=> Begun!InRange(r, q)
      BY <1>0 DEF Begun!InRange, Skirmish!InRange, Skirmish!Distance, Begun!Distance
  <2>3. ASSUME NEW q PROVE Skirmish!Harm(q) = Begun!Harm(q)
    <3>1. {r \in Soldiers : Skirmish!Hunts(r, q) /\ Skirmish!InRange(r, q)}
                = {r \in Soldiers : Begun!Hunts(r, q) /\ Begun!InRange(r, q)}
        BY <2>1, <2>2
    <3> QED
        BY <3>1, Counting DEF Begun!Harm, Skirmish!Harm
  <2> QED
      BY <2>3
<1>5. Skirmish!Conducts(s) = Begun!Conducts(s)
    BY <1>0, <1>4 DEF Begun!Conducts, Begun!InRange, Begun!Alive, Skirmish!Conducts, Skirmish!InRange, Skirmish!Alive,
      Skirmish!Distance, Begun!Distance, Skirmish!Towards, Begun!Towards
<1>6. Skirmish!NewHp(s) = Begun!NewHp(s)
    BY <1>0, <1>4 DEF Begun!NewHp, Skirmish!NewHp, Begun!Less, Skirmish!Less
<1> QED
    BY <1>0, <1>1, <1>5, <1>6 DEF Begun!Outcomes, Skirmish!Outcomes, Skirmish!Fresh, Begun!Fresh, Begun!Less, Skirmish!Less


\* Strikes add up to AttackDamage each.
LEMMA Times ==
    ASSUME NEW k \in Nat, NEW a \in Nat, NEW b \in Nat, a <= b
    PROVE  k * a <= k * b /\ k * (a + 1) = k * a + k /\ k * a \in Nat
OBVIOUS

\* What the turn found.
LEMMA Found ==
    ASSUME before \in [Soldiers -> Sight], NEW s \in Soldiers
    PROVE  /\ before[s].pos \in Positions
           /\ before[s].hp \in Nat /\ before[s].hp <= MaxHp
           /\ before[s].target # None => before[s].target \in Soldiers
           /\ before[s].dest # None => before[s].dest \in Positions
           /\ before[s].down \in Nat /\ before[s].shield \in Nat
           /\ before[s] \in Sight
<1>1. before[s] \in Sight
    OBVIOUS
<1>2. \A b \in Sight :
         /\ b.pos \in Positions
         /\ b.hp \in Nat /\ b.hp <= MaxHp
         /\ b.target # None => b.target \in Soldiers
         /\ b.dest # None => b.dest \in Positions
         /\ b.down \in Nat /\ b.shield \in Nat
    BY Constants DEF Sight
<1> QED
    BY <1>1, <1>2

\* Those whose blows are counted are among those who hunt.
LEMMA Blows ==
    ASSUME before \in [Soldiers -> Sight], NEW t \in Soldiers
    PROVE  /\ IsFiniteSet(Strikers(t)) /\ Cardinality(Strikers(t)) \in Nat
           /\ AttackDamage * Cardinality(Strikers(t)) \in Nat
           /\ Begun!Harm(t) \in Nat
           /\ AttackDamage * Cardinality(Strikers(t)) <= Begun!Harm(t)
           /\ (\A s \in Soldiers : Updated(s)) =>
                  AttackDamage * Cardinality(Strikers(t)) = Begun!Harm(t)
<1> DEFINE H == {s \in Soldiers : Begun!Hunts(s, t) /\ Begun!InRange(s, t)}
<1>1. IsFiniteSet(Soldiers)
  <2>1. IsFiniteSet(0 .. NumSoldiers - 1)
      BY Constants, FS_Interval
  <2> QED
      BY <2>1 DEF Soldiers
<1>2. H \in SUBSET Soldiers /\ Strikers(t) \in SUBSET H
    BY DEF Strikers
<1>3. IsFiniteSet(H) /\ Cardinality(H) \in Nat
    BY <1>1, <1>2, FS_Subset, FS_CardinalityType
<1>4. /\ IsFiniteSet(Strikers(t)) /\ Cardinality(Strikers(t)) \in Nat
      /\ Cardinality(Strikers(t)) <= Cardinality(H)
    BY <1>2, <1>3, FS_Subset, FS_CardinalityType
<1>5. Begun!Harm(t) = AttackDamage * Cardinality(H)
    BY Counting DEF Begun!Harm
<1>6. (\A s \in Soldiers : Updated(s)) => Strikers(t) = H
    BY DEF Strikers
<1> HIDE DEF H
<1>7. AttackDamage \in Nat
    BY Constants
<1>8. AttackDamage * Cardinality(Strikers(t)) <= AttackDamage * Cardinality(H)
    BY <1>3, <1>4, <1>7, Times
<1>9. AttackDamage * Cardinality(Strikers(t)) \in Nat /\ AttackDamage * Cardinality(H) \in Nat
    BY <1>3, <1>4, <1>7, Times
<1> QED
    BY <1>4, <1>5, <1>6, <1>8, <1>9

\* A target all of whose health is taken is one that may be seen to fall.
LEMMA Saturated ==
    ASSUME before \in [Soldiers -> Sight], NEW t \in Soldiers, Struck(t),
           damage[t] = before[t].hp
    PROVE  Begun!Harm(t) >= before[t].hp
<1>1. /\ before[t].hp \in Nat
      /\ AttackDamage * Cardinality(Strikers(t)) \in Nat
      /\ Begun!Harm(t) \in Nat
      /\ AttackDamage * Cardinality(Strikers(t)) <= Begun!Harm(t)
    BY Found, Blows
<1> DEFINE n == AttackDamage * Cardinality(Strikers(t))
<1>2. Smaller(before[t].hp, n) = before[t].hp
    BY DEF Struck
<1> HIDE DEF n
<1>3. n >= before[t].hp
    BY <1>1, <1>2 DEF Smaller, n
<1> QED
    BY <1>1, <1>3 DEF n

\* The ways to carry out an order.
LEMMA Ways ==
    ASSUME before \in [Soldiers -> Sight], NEW s \in Soldiers
    PROVE  LET b == before[s]
               t == b.target
               stand == [b EXCEPT !.dest = None, !.target = None] IN
           /\ b.dest # None /\ b.dest = b.pos => stand \in Begun!Conducts(s)
           /\ b.dest # None /\ b.dest # b.pos =>
                  [b EXCEPT !.pos = GetNextPosition(b.pos, b.dest)] \in Begun!Conducts(s)
           /\ b.dest = None /\ t = None => stand \in Begun!Conducts(s)
           /\ b.dest = None /\ t \in Soldiers /\ Begun!Harm(t) >= before[t].hp =>
                  stand \in Begun!Conducts(s)
           /\ b.dest = None /\ t \in Soldiers /\ before[t].hp > 0 =>
                  /\ Begun!InRange(s, t) => b \in Begun!Conducts(s)
                  /\ ~Begun!InRange(s, t) =>
                        [b EXCEPT !.pos = GetNextPosition(b.pos, before[t].pos)] \in Begun!Conducts(s)
<1> DEFINE b == before[s]
           t == b.target
           stand == [b EXCEPT !.dest = None, !.target = None]
<1>1. \A x, y : Begun!Towards(x, y) = GetNextPosition(x, y)
    BY DEF Begun!Towards, GetNextPosition, Distance, Begun!Distance
<1>2. t \in Soldiers => (Begun!Alive(t) <=> before[t].hp > 0)
    BY DEF Begun!Alive
<1>3. None \notin Soldiers
    BY Constants
<1>4. b.dest # None =>
        Begun!Conducts(s) = {IF b.dest = b.pos THEN stand ELSE [b EXCEPT !.pos = GetNextPosition(b.pos, b.dest)]}
    BY <1>1 DEF Begun!Conducts
<1>5. b.dest = None /\ (t = None \/ ~Begun!Alive(t)) => Begun!Conducts(s) = {stand}
    BY DEF Begun!Conducts
<1>6. b.dest = None /\ t # None /\ Begun!Alive(t) =>
        LET pursue == IF Begun!InRange(s, t) THEN b
                      ELSE [b EXCEPT !.pos = GetNextPosition(b.pos, before[t].pos)] IN
        Begun!Conducts(s) = IF Begun!Harm(t) >= before[t].hp THEN {pursue, stand} ELSE {pursue}
    BY <1>1 DEF Begun!Conducts
<1> QED
    BY <1>2, <1>3, <1>4, <1>5, <1>6

-----------------------------------------------------------------------------
(* TurnInv is inductive.                                                   *)

\* The types of an army, and its fields.
LEMMA Sighted ==
    /\ TypeOK => Army \in [Soldiers -> Sight]
    /\ TypeOK' => Army' \in [Soldiers -> Sight]
BY DEF TypeOK, Army, Sight

LEMMA Seen ==
    ASSUME NEW s \in Soldiers
    PROVE  /\ Army[s].pos = pos[s] /\ Army[s].hp = hp[s] /\ Army[s].target = target[s]
           /\ Army[s].dest = dest[s] /\ Army[s].down = down[s] /\ Army[s].shield = shield[s]
           /\ Army'[s].pos = pos'[s] /\ Army'[s].hp = hp'[s] /\ Army'[s].target = target'[s]
           /\ Army'[s].dest = dest'[s] /\ Army'[s].down = down'[s] /\ Army'[s].shield = shield'[s]
BY DEF Army

\* The commands are over, and nobody has acted.
LEMMA CommandTurn ==
    ASSUME TurnInv, Commands, IInv', phase' # "commands", NEW s \in Soldiers
    PROVE  TurnPart(s)'
<1>0. /\ IInv /\ TypeOK /\ SoldierPart(s) /\ SoldierPart(s)'
      /\ newPos[s] = None /\ (hp[s] = 0 => shield[s] = 0)
      /\ who \in Soldiers /\ s \in Nat
    BY OneCommand, Constants DEF TurnInv, IInv, TypeOK
<1>1. /\ phase = "commands" /\ before' = Army'
      /\ UNCHANGED <<pos, hp, shield, damage, state, newPos, down, rewards>>
      /\ s # who => target'[s] = target[s] /\ dest'[s] = dest[s]
      /\ \/ target'[who] = target[who] /\ dest'[who] = dest[who]
         \/ hp[who] # 0 /\ target'[who] = None /\ dest'[who] # None
         \/ /\ hp[who] # 0 /\ target'[who] \in Soldiers /\ dest'[who] = None
            /\ hp[target'[who]] # 0
    BY <1>0, OneCommand DEF EndCommand
<1>2. phase' = "update" /\ who' = 0
    BY <1>0, <1>1, OneCommand, Advance DEF EndCommand
<1>3. \A q \in Soldiers : ~Updated(q)' /\ Awaited(q)'
    BY <1>2, Constants DEF Updated, Awaited
<1>4. Ordered(s)'
  <2>1. /\ target'[s] = None \/ dest'[s] = None
        /\ hp'[s] = 0 => target'[s] = None /\ dest'[s] = None /\ shield'[s] = 0
      BY <1>0, <1>1 DEF SoldierPart, Guided, Vital
  <2>2. ASSUME target'[s] # None, hp'[target'[s]] = 0 PROVE down'[target'[s]] > 0
    <3>1. target'[s] = target[s] /\ target[s] \in Soldiers
        BY <1>0, <1>1, <2>2, Typing
    <3>2. Forgets(s) /\ Vital(target[s])
        BY <1>0, <3>1 DEF IInv, SoldierPart
    <3>3. down[target[s]] = RespawnTurns - 1
        BY <1>1, <2>2, <3>1, <3>2 DEF Forgets, Vital
    <3> QED
        BY <1>1, <3>1, <3>3, Constants
  <2>3. target'[s] # None => target'[s] \in Soldiers
      BY <1>0, <1>1, Typing
  <2> QED
      BY <1>1, <2>1, <2>2, <2>3, Seen DEF Ordered
<1>5. Acts(s)'
  <2>1. KeepsBody(s)' /\ KeepsOrders(s)' /\ down'[s] = before'[s].down /\ newPos'[s] = None
      BY <1>0, <1>1, Seen DEF KeepsBody, KeepsOrders
  <2>2. before'[s].hp = hp'[s] /\ hp'[s] \in Nat /\ down'[s] \in Nat
      BY <1>0, <1>1, Seen, Typing
  <2>3. hp'[s] = 0 => NoOrders(s)'
      BY <1>0, <1>1 DEF SoldierPart, Guided, Vital, NoOrders
  <2> QED
      BY <1>3, <2>1, <2>2, <2>3 DEF Acts, Fights, Rests, Returns
<1>6. Struck(s)'
  <2>1. damage'[s] = 0
      BY <1>0, <1>1 DEF SoldierPart, Paid, Awaited
  <2>2. Strikers(s)' = {}
      BY <1>3 DEF Strikers
  <2>3. AttackDamage * Cardinality({}) = 0
      BY FS_EmptySet, Constants
  <2>4. before'[s].hp \in Nat
      BY <1>0, <1>1, Seen, Typing
  <2>5. (AttackDamage * Cardinality(Strikers(s)))' = 0
      BY <2>2, <2>3
  <2> QED
      BY <2>1, <2>4, <2>5 DEF Struck, Smaller
<1> QED
    BY <1>3, <1>4, <1>5, <1>6 DEF TurnPart

\* What TurnInv says of a soldier in the course of a turn.
LEMMA Underway ==
    ASSUME TurnInv, phase # "commands", NEW s \in Soldiers
    PROVE  /\ IInv /\ TypeOK /\ SoldierPart(s) /\ TurnPart(s) /\ Ordered(s)
           /\ who \in Soldiers /\ who \in Nat /\ s \in Nat /\ s < NumSoldiers
           /\ hp[s] \in Nat /\ damage[s] \in Nat
           /\ phase \in {"update", "late"}
           /\ before \in [Soldiers -> Sight]
           /\ hp[s] = 0 => shield[s] = 0
           /\ phase = "update" => Awaited(s) /\ Acts(s) /\ Struck(s)
<1>1. IInv /\ TypeOK /\ SoldierPart(s) /\ TurnPart(s) /\ before \in [Soldiers -> Sight]
      /\ (hp[s] = 0 => shield[s] = 0)
    BY DEF TurnInv, IInv
<1>2. /\ who \in Soldiers /\ who \in Nat /\ s \in Nat /\ s < NumSoldiers
      /\ hp[s] \in Nat /\ damage[s] \in Nat /\ phase \in {"update", "late"}
    BY <1>1, Typing, Constants DEF TypeOK
<1> QED
    BY <1>1, <1>2 DEF TurnPart, Awaited

\* A target is still where it was, with the health it had.
LEMMA TargetStays ==
    ASSUME TurnInv, phase = "update", before[who].target \in Soldiers
    PROVE  KeepsBody(before[who].target)
<1> DEFINE t == before[who].target
<1>1. /\ Ordered(who) /\ Acts(t) /\ before[t].hp \in Nat /\ t # None
      /\ who \in Soldiers
    BY Underway, Found, Constants DEF TurnInv, IInv, TypeOK
<1>2. before[t].hp > 0 \/ before[t].down > 0
    BY <1>1 DEF Ordered
<1> QED
    BY <1>1, <1>2 DEF Acts, Fights, Rests

\* A transition that gives up an order, and those that do not.
LEMMA GivesUp ==
    ASSUME IInv, ChangeState, state[who] # "dead"
    PROVE  \/ target'[who] = target[who] /\ dest'[who] = dest[who]
           \/ /\ target'[who] = None /\ dest'[who] = None
              /\ \/ dest[who] # None /\ dest[who] = pos[who]
                 \/ dest[who] = None /\ target[who] \in Soldiers /\ TargetIsDead(who)
<1>1. /\ who \in Soldiers /\ TypeOK /\ Vital(who) /\ Guided(who)
      /\ hp[who] \in Nat
      /\ target[who] # None => target[who] \in Soldiers
      /\ state[who] \in {"idle", "move", "attack", "pursuit", "dead"}
    BY Typing DEF IInv, TypeOK, SoldierPart
<1>2. /\ NewState(who) # "same"
      /\ target'[who] = NewTarget(who, NewState(who))
      /\ dest'[who] = NewDest(who)
    BY <1>1 DEF ChangeState, TypeOK
<1>4. CASE state[who] = "idle"
    BY <1>1, <1>2, <1>4 DEF NewState, NewTarget, NewDest, Vital
<1>5. CASE state[who] = "move"
    BY <1>1, <1>2, <1>5 DEF NewState, NewTarget, NewDest, Vital, Guided
<1>6. CASE state[who] \in {"attack", "pursuit"}
    BY <1>1, <1>2, <1>6 DEF NewState, NewTarget, NewDest, Vital, Guided
<1> QED
    BY <1>1, <1>4, <1>5, <1>6

\* What does not change in a transition.
LEMMA OneChanges ==
    ASSUME TypeOK, ChangeState
    PROVE  /\ phase = "update" /\ UNCHANGED <<damage, newPos, down, phase, who, before>>
           /\ \A q \in Soldiers \ {who} :
                /\ target'[q] = target[q] /\ dest'[q] = dest[q]
                /\ pos'[q] = pos[q] /\ hp'[q] = hp[q] /\ shield'[q] = shield[q]
           /\ state[who] # "dead" => UNCHANGED <<pos, hp, shield>>
           /\ state[who] = "dead" =>
                 pos'[who] = Spawn[Owner[who]] /\ hp'[who] = MaxHp /\ shield'[who] = ShieldTurns + 1
<1>1. CASE state[who] = "dead"
    BY <1>1 DEF ChangeState, TypeOK
<1>2. CASE state[who] # "dead"
    BY <1>2 DEF ChangeState, TypeOK
<1> QED
    BY <1>1, <1>2

\* Who strikes is settled by the turn's beginning and by who has been updated.
LEMMA SameStrikers ==
    ASSUME before' = before, NEW t \in Soldiers, \A s \in Soldiers : Updated(s)' <=> Updated(s)
    PROVE  Strikers(t)' = Strikers(t)
<1>1. \A s \in Soldiers : /\ Begun!Hunts(s, t)' <=> Begun!Hunts(s, t)
                          /\ Begun!InRange(s, t)' <=> Begun!InRange(s, t)
    BY BegunStays
<1> QED
    BY <1>1 DEF Strikers

\* A transition, of a soldier that lives, rests or comes back.
LEMMA ChangeTurn ==
    ASSUME TurnInv, ChangeState, NEW s \in Soldiers
    PROVE  TurnPart(s)'
<1>1. /\ phase = "update" /\ UNCHANGED <<damage, newPos, down, phase, who, before>>
      /\ \A q \in Soldiers \ {who} :
                /\ target'[q] = target[q] /\ dest'[q] = dest[q]
                /\ pos'[q] = pos[q] /\ hp'[q] = hp[q] /\ shield'[q] = shield[q]
      /\ state[who] # "dead" => UNCHANGED <<pos, hp, shield>>
      /\ state[who] = "dead" =>
                 pos'[who] = Spawn[Owner[who]] /\ hp'[who] = MaxHp /\ shield'[who] = ShieldTurns + 1
    BY OneChanges DEF TurnInv, IInv
<1>2. /\ IInv /\ TypeOK /\ SoldierPart(s) /\ Ordered(s) /\ Acts(s) /\ Struck(s) /\ who \in Soldiers
      /\ who \in Nat /\ s \in Nat /\ before \in [Soldiers -> Sight]
    BY <1>1, Underway
<1>3. \A q \in Soldiers : (Updated(q)' <=> Updated(q)) /\ Awaited(q)'
    BY <1>1 DEF Updated, Awaited
<1>4. Struck(s)'
  <2>1. Strikers(s)' = Strikers(s)
      BY <1>1, <1>3, SameStrikers
  <2> QED
      BY <1>1, <1>2, <2>1 DEF Struck
<1>5. Ordered(s)'
    BY <1>1, <1>2 DEF Ordered
<1>6. Acts(s)'
  <2>1. CASE s # who
    <3>1. /\ KeepsBody(s)' <=> KeepsBody(s)
          /\ KeepsOrders(s)' <=> KeepsOrders(s)
          /\ NoOrders(s)' <=> NoOrders(s)
          /\ Plan(s)' = Plan(s)
          /\ Begun!Conducts(s)' = Begun!Conducts(s)
        BY <1>1, <2>1, BegunStays DEF KeepsBody, KeepsOrders, NoOrders, Plan
    <3>2. Fights(s) => Fights(s)'
        BY <1>1, <1>3, <2>1, <3>1 DEF Fights
    <3>3. Rests(s) => Rests(s)'
        BY <1>1, <1>3, <3>1 DEF Rests
    <3>4. Returns(s) => Returns(s)'
        BY <1>1, <1>3, <2>1, <3>1 DEF Returns
    <3> QED
        BY <1>1, <1>2, <3>2, <3>3, <3>4 DEF Acts
  <2>2. CASE s = who
    <3>1. ~Updated(s) /\ ~Updated(s)'
        BY <1>1, <1>2, <2>2 DEF Updated
    <3>2. before[s].hp \in Nat /\ before[s].down \in Nat /\ Vital(s)
        BY <1>2, Found DEF SoldierPart
    <3>3. CASE before[s].hp > 0
      <4>1. Fights(s)
          BY <1>2, <3>3 DEF Acts
      <4>2. state[s] # "dead"
          BY <3>2, <3>3, <4>1 DEF Fights, KeepsBody, Vital
      <4>3. KeepsBody(s)' /\ down'[s] = before'[s].down /\ newPos'[s] = None
          BY <1>1, <2>2, <3>1, <4>1, <4>2 DEF Fights, KeepsBody
      <4>4. KeepsOrders(s)' \/ (NoOrders(s)' /\ OrderEnds(s)')
        <5>1. CASE NoOrders(s) /\ OrderEnds(s)
          <6>1. target'[s] = None /\ dest'[s] = None
              BY <1>2, <2>2, <4>2, <5>1, GivesUp DEF NoOrders
          <6> QED
              BY <1>1, <5>1, <6>1 DEF NoOrders, OrderEnds
        <5>2. CASE KeepsOrders(s)
          <6>1. CASE target'[s] = target[s] /\ dest'[s] = dest[s]
              BY <1>1, <5>2, <6>1 DEF KeepsOrders
          <6>2. CASE /\ target'[s] = None /\ dest'[s] = None
                     /\ dest[s] # None /\ dest[s] = pos[s]
              BY <1>1, <4>1, <5>2, <6>2 DEF KeepsOrders, NoOrders, OrderEnds, Fights, KeepsBody
          <6>3. CASE /\ target'[s] = None /\ dest'[s] = None
                     /\ dest[s] = None /\ target[s] \in Soldiers /\ TargetIsDead(s)
            <7> DEFINE t == before[s].target
            <7>1. t = target[s] /\ t \in Soldiers /\ before[s].dest = None
                BY <5>2, <6>3 DEF KeepsOrders
            <7>2. KeepsBody(t) /\ hp[t] \in Nat /\ damage[t] \in Nat
                BY <1>1, <2>2, <7>1, TargetStays, Underway
            <7>3. hp[t] - damage[t] = 0
                BY <6>3, <7>1 DEF TargetIsDead, LatestHp
            <7>4. damage[t] = before[t].hp /\ t # None
                BY <7>1, <7>2, <7>3, Constants DEF KeepsBody
            <7> QED
                BY <1>1, <6>3, <7>1, <7>4 DEF NoOrders, OrderEnds
          <6> QED
              BY <1>2, <2>2, <4>2, <6>1, <6>2, <6>3, GivesUp
        <5> QED
            BY <3>1, <4>1, <5>1, <5>2 DEF Fights
      <4> QED
          BY <1>1, <2>2, <3>1, <3>3, <4>3, <4>4 DEF Acts, Fights
    <3>4. CASE before[s].hp = 0 /\ before[s].down > 0
      <4>1. hp[s] = 0 /\ down[s] # 0
          BY <1>2, <3>1, <3>2, <3>4 DEF Acts, Rests, KeepsBody
      <4>2. NewState(s) = "same"
          BY <3>2, <4>1 DEF Vital, NewState
      <4> QED
          BY <2>2, <4>2 DEF ChangeState
    <3>5. CASE before[s].hp = 0 /\ before[s].down = 0
      <4>1. Returns(s) /\ newPos[s] = None
          BY <1>2, <3>5 DEF Acts
      <4>2. NoOrders(s)'
          BY <1>2, <2>2, <4>1, Transitions DEF Returns, NoOrders
      <4>3. pos'[s] = Spawn[Owner[s]] /\ hp'[s] = MaxHp /\ shield'[s] = ShieldTurns + 1
        <5>1. CASE state[s] = "dead"
            BY <1>1, <2>2, <5>1
        <5>2. CASE state[s] # "dead"
          <6>1. hp[s] # 0
              BY <3>2, <5>2 DEF Vital
          <6> QED
              BY <1>1, <2>2, <3>5, <4>1, <5>2, <6>1 DEF Returns, KeepsBody
        <5> QED
            BY <5>1, <5>2
      <4> QED
          BY <1>1, <3>5, <4>1, <4>2, <4>3 DEF Acts, Returns
    <3> QED
        BY <3>2, <3>3, <3>4, <3>5
  <2> QED
      BY <2>1, <2>2
<1> QED
    BY <1>3, <1>4, <1>5, <1>6 DEF TurnPart

\* How the loop of updates goes on.
LEMMA OneStays ==
    ASSUME TurnInv, Idle \/ StayDead \/ March \/ Strike
    PROVE  /\ phase = "update" /\ EndUpdate /\ NewState(who) = "same"
           /\ UNCHANGED <<target, dest, pos, hp, shield, state, before>>
           /\ \A s \in Soldiers :
                /\ Updated(s)' <=> Updated(s) \/ s = who
                /\ Awaited(s)'
                /\ s # who => newPos'[s] = newPos[s] /\ down'[s] = down[s]
           /\ ~Updated(who)
<1>1. EndUpdate /\ TypeOK /\ who \in Soldiers /\ who \in Nat
    BY Constants DEF TurnInv, IInv, TypeOK, Idle, StayDead, March, Strike
<1>2. /\ phase = "update" /\ NewState(who) = "same"
      /\ UNCHANGED <<target, dest, pos, hp, shield, state, before>>
    BY <1>1 DEF EndUpdate, orders
<1>3. \/ who + 1 < NumSoldiers /\ who' = who + 1 /\ phase' = "update"
      \/ who + 1 = NumSoldiers /\ who' = 0 /\ phase' = "late"
    BY <1>1, <1>2, Advance DEF EndUpdate
<1>4. ASSUME NEW s \in Soldiers
      PROVE  /\ Updated(s)' <=> Updated(s) \/ s = who
             /\ Awaited(s)'
             /\ s # who => newPos'[s] = newPos[s] /\ down'[s] = down[s]
  <2>1. s \in Nat /\ s < NumSoldiers
      BY Constants
  <2>2. Updated(s)' <=> Updated(s) \/ s = who
      BY <1>1, <1>2, <1>3, <2>1 DEF Updated
  <2>3. Awaited(s)'
      BY <1>3, <2>1 DEF Awaited
  <2>4. s # who => newPos'[s] = newPos[s] /\ down'[s] = down[s]
      BY <1>1 DEF Idle, StayDead, March, Strike, TypeOK
  <2> QED
      BY <2>2, <2>3, <2>4
<1>5. ~Updated(who)
    BY <1>1, <1>2 DEF Updated
<1> QED
    BY <1>1, <1>2, <1>4, <1>5

\* A soldier that fights and is in the attack or pursuit state has the order
\* it had as the turn began, at a target that did and does live.
LEMMA Hunting ==
    ASSUME TurnInv, EndUpdate, Fights(who), state[who] \in {"attack", "pursuit"}
    PROVE  LET t == before[who].target IN
           /\ KeepsOrders(who) /\ target[who] = t /\ t \in Soldiers /\ before[who].dest = None
           /\ KeepsBody(t) /\ before[t].hp > 0
           /\ state[who] = IF Begun!InRange(who, t) THEN "attack" ELSE "pursuit"
<1> DEFINE t == before[who].target
<1>1. /\ phase = "update" /\ NewState(who) = "same" /\ who \in Soldiers /\ IInv /\ TypeOK
      /\ ~Updated(who) /\ who \in Nat
    BY Constants DEF EndUpdate, TurnInv, IInv, TypeOK, Updated
<1>2. target[who] \in Soldiers /\ dest[who] = None /\ ~TargetIsDead(who)
    BY <1>1, Staying
<1>3. KeepsOrders(who) /\ target[who] = t /\ before[who].dest = None /\ t # None
    BY <1>1, <1>2, Constants DEF Fights, NoOrders, KeepsOrders
<1>4. KeepsBody(t) /\ t \in Soldiers
    BY <1>1, <1>2, <1>3, TargetStays
<1>5. before[t].hp > 0
  <2>1. /\ Vital(t) /\ hp[t] \in Nat /\ damage[t] \in Nat /\ before[t].hp \in Nat
        /\ hp[t] = before[t].hp
      BY <1>1, <1>4, Underway, Found DEF SoldierPart, KeepsBody
  <2>2. hp[t] - damage[t] # 0
      BY <1>2, <1>3 DEF TargetIsDead, LatestHp
  <2> QED
      BY <2>1, <2>2 DEF Vital
<1>6. InRange(who) <=> Begun!InRange(who, t)
    BY <1>3, <1>4 DEF Fights, KeepsBody, InRange, Begun!InRange, Distance, Begun!Distance
<1>7. state[who] = IF InRange(who) THEN "attack" ELSE "pursuit"
  <2>1. Vital(who) /\ hp[who] \in Nat
      BY <1>1, Underway DEF SoldierPart
  <2> QED
      BY <1>1, <1>2, <2>1 DEF NewState, Vital
<1> QED
    BY <1>3, <1>4, <1>5, <1>6, <1>7

\* A record updated with what it holds.
LEMMA SameFields ==
    ASSUME NEW b \in Sight, NEW x
    PROVE  /\ [b EXCEPT !.pos = x, !.target = b.target, !.dest = b.dest] = [b EXCEPT !.pos = x]
           /\ [b EXCEPT !.pos = b.pos] = b
BY DEF Sight

\* A soldier that lives updates as Skirmish lets it.
LEMMA FightsOn ==
    ASSUME TurnInv, Idle \/ StayDead \/ March \/ Strike,
           NEW s \in Soldiers, s = who, before[s].hp > 0
    PROVE  Fights(s)'
<1> DEFINE b == before[s]
           t == b.target
           stand == [b EXCEPT !.dest = None, !.target = None]
<1>1. /\ phase = "update" /\ EndUpdate /\ NewState(s) = "same"
      /\ UNCHANGED <<target, dest, pos, hp, shield, state, before>>
      /\ ~Updated(s) /\ Updated(s)'
    BY OneStays
<1>2. /\ IInv /\ TypeOK /\ Acts(s) /\ Ordered(s) /\ Vital(s)
      /\ before \in [Soldiers -> Sight]
    BY <1>1, Underway DEF SoldierPart
<1>3. Fights(s) /\ KeepsBody(s) /\ newPos[s] = None
    BY <1>1, <1>2 DEF Acts, Fights
<1>4. state[s] # "dead"
    BY <1>2, <1>3 DEF KeepsBody, Vital
<1>5. KeepsBody(s)' /\ down'[s] = before'[s].down
  <2>1. down' = down
      BY <1>4 DEF Idle, StayDead, March, Strike
  <2> QED
      BY <1>1, <1>3, <2>1 DEF KeepsBody, Fights
<1>6. b \in Sight /\ None \notin Positions /\ b.pos \in Positions
    BY <1>2, Found, Constants
<1>7. Plan(s)' = [b EXCEPT !.pos = IF newPos'[s] # None THEN newPos'[s] ELSE b.pos,
                             !.target = target[s], !.dest = dest[s]]
    BY <1>1, <1>3 DEF Plan, KeepsBody
<1>8. target[s] = t /\ dest[s] = b.dest =>
         /\ newPos'[s] = None => Plan(s)' = b
         /\ newPos'[s] # None => Plan(s)' = [b EXCEPT !.pos = newPos'[s]]
  <2> DEFINE x == IF newPos'[s] # None THEN newPos'[s] ELSE b.pos
  <2>1. SUFFICES ASSUME target[s] = b.target, dest[s] = b.dest
                 PROVE  /\ newPos'[s] = None => Plan(s)' = b
                        /\ newPos'[s] # None => Plan(s)' = [b EXCEPT !.pos = newPos'[s]]
      OBVIOUS
  <2>2. Plan(s)' = [b EXCEPT !.pos = x, !.target = b.target, !.dest = b.dest]
      BY <1>7, <2>1
  <2> HIDE DEF x
  <2>3. \A c \in Sight : \A y :
         /\ [c EXCEPT !.pos = y, !.target = c.target, !.dest = c.dest] = [c EXCEPT !.pos = y]
         /\ [c EXCEPT !.pos = c.pos] = c
      BY SameFields
  <2> HIDE DEF b
  <2>4. Plan(s)' = [b EXCEPT !.pos = x] /\ [b EXCEPT !.pos = b.pos] = b
      BY <1>6, <2>2, <2>3, Zenon
  <2> QED
      BY <2>4 DEF x
<1>9. Plan(s)' \in Begun!Conducts(s)
  <2>1. CASE state[s] = "idle"
    <3>1. target[s] = None /\ dest[s] = None /\ newPos'[s] = None
        BY <1>1, <1>2, <1>3, <2>1, Staying DEF Idle, StayDead, March, Strike
    <3>2. Plan(s)' = stand
        BY <1>6, <1>7, <3>1 DEF Sight
    <3>3. stand \in Begun!Conducts(s)
      <4>1. CASE KeepsOrders(s)
          BY <1>2, <3>1, <4>1, Ways DEF KeepsOrders
      <4>2. CASE NoOrders(s) /\ OrderEnds(s)
        <5>1. CASE b.dest # None
            BY <1>2, <4>2, <5>1, Ways DEF OrderEnds
        <5>2. CASE b.dest = None
          <6>1. t \in Soldiers /\ damage[t] = before[t].hp
              BY <1>2, <4>2, <5>2, Found DEF OrderEnds
          <6>2. Begun!Harm(t) >= before[t].hp
              BY <1>1, <1>2, <6>1, Underway, Saturated
          <6> QED
              BY <1>2, <5>2, <6>1, <6>2, Ways
        <5> QED
            BY <5>1, <5>2
      <4> QED
          BY <1>1, <1>3, <4>1, <4>2 DEF Fights
    <3> QED
        BY <3>2, <3>3
  <2>2. CASE state[s] = "move"
    <3>1. target[s] = None /\ dest[s] # None
        BY <1>1, <1>2, <2>2, Staying
    <3>2. b.target = None /\ b.dest = dest[s] /\ b.dest # None /\ b.dest \in Positions
        BY <1>1, <1>2, <1>3, <3>1, Found DEF Fights, KeepsOrders, NoOrders
    <3>3. pos[s] # dest[s] /\ pos[s] = b.pos
        BY <1>1, <1>2, <1>3, <2>2, <3>1, Underway DEF NewState, KeepsBody, Vital
    <3>4. newPos'[s] = GetNextPosition(b.pos, b.dest)
        BY <1>2, <2>2, <3>2, <3>3 DEF Idle, StayDead, March, Strike, TypeOK
    <3>5. GetNextPosition(b.pos, b.dest) # None
        BY <1>6, <3>2, MarchStays
    <3>6. Plan(s)' = [b EXCEPT !.pos = GetNextPosition(b.pos, b.dest)]
        BY <3>1, <3>2, <3>4, <3>5, <1>8
    <3> QED
        BY <1>2, <3>2, <3>3, <3>6, Ways
  <2>3. CASE state[s] \in {"attack", "pursuit"}
    <3>1. /\ target[s] = t /\ t \in Soldiers /\ b.dest = None /\ dest[s] = None
          /\ KeepsBody(t) /\ before[t].hp > 0
          /\ state[s] = IF Begun!InRange(s, t) THEN "attack" ELSE "pursuit"
        BY <1>1, <1>3, <2>3, Hunting DEF KeepsOrders
    <3>2. CASE Begun!InRange(s, t)
      <4>1. newPos'[s] = None
          BY <1>3, <3>1, <3>2 DEF Idle, StayDead, March, Strike
      <4>2. Plan(s)' = b
          BY <3>1, <4>1, <1>8
      <4> QED
          BY <1>2, <3>1, <3>2, <4>2, Ways
    <3>3. CASE ~Begun!InRange(s, t)
      <4>1. newPos'[s] = GetNextPosition(pos[s], pos[t])
          BY <1>2, <3>1, <3>3 DEF Idle, StayDead, March, Strike, TypeOK
      <4>2. pos[s] = b.pos /\ pos[t] = before[t].pos /\ before[t].pos \in Positions
          BY <1>2, <1>3, <3>1, Found DEF KeepsBody
      <4>3. newPos'[s] = GetNextPosition(b.pos, before[t].pos) /\ newPos'[s] # None
          BY <1>6, <4>1, <4>2, MarchStays
      <4>4. Plan(s)' = [b EXCEPT !.pos = GetNextPosition(b.pos, before[t].pos)]
          BY <3>1, <4>3, <1>8
      <4> QED
          BY <1>2, <3>1, <3>3, <4>4, Ways
    <3> QED
        BY <3>2, <3>3
  <2> QED
      BY <1>2, <1>4, <2>1, <2>2, <2>3 DEF TypeOK
<1>10. Begun!Conducts(s)' = Begun!Conducts(s)
    BY <1>1, BegunStays
<1> QED
    BY <1>1, <1>5, <1>9, <1>10 DEF Fights

\* The dead count down, and who has come back waits for orders.
LEMMA StayActs ==
    ASSUME TurnInv, Idle \/ StayDead \/ March \/ Strike, NEW s \in Soldiers
    PROVE  Acts(s)'
<1>1. /\ phase = "update" /\ EndUpdate /\ NewState(who) = "same"
      /\ UNCHANGED <<target, dest, pos, hp, shield, state, before>>
      /\ Updated(s)' <=> Updated(s) \/ s = who
      /\ s # who => newPos'[s] = newPos[s] /\ down'[s] = down[s]
      /\ ~Updated(who)
    BY OneStays
<1>2. /\ IInv /\ TypeOK /\ Acts(s) /\ Ordered(s) /\ Vital(s)
      /\ before[s].hp \in Nat /\ before[s].down \in Nat
      /\ before \in [Soldiers -> Sight]
    BY <1>1, Underway, Found DEF SoldierPart
<1>3. /\ KeepsBody(s)' <=> KeepsBody(s)
      /\ NoOrders(s)' <=> NoOrders(s)
      /\ KeepsOrders(s)' <=> KeepsOrders(s)
    BY <1>1 DEF KeepsBody, NoOrders, KeepsOrders
<1>4. CASE s # who
  <2>1. Plan(s)' = Plan(s) /\ Begun!Conducts(s)' = Begun!Conducts(s)
      BY <1>1, <1>4, BegunStays DEF Plan
  <2>2. Fights(s) => Fights(s)'
      BY <1>1, <1>3, <1>4, <2>1 DEF Fights
  <2>3. Rests(s) => Rests(s)'
      BY <1>1, <1>3, <1>4 DEF Rests
  <2>4. Returns(s) => Returns(s)'
      BY <1>1, <1>3, <1>4 DEF Returns
  <2> QED
      BY <1>1, <1>2, <1>4, <2>2, <2>3, <2>4 DEF Acts
<1>5. CASE s = who
  <2>1. CASE before[s].hp > 0
      BY <1>1, <1>5, <2>1, FightsOn DEF Acts
  <2>2. CASE before[s].hp = 0 /\ before[s].down > 0
    <3>1. Rests(s) /\ newPos[s] = None /\ hp[s] = 0
        BY <1>2, <2>2 DEF Acts, Rests, KeepsBody
    <3>2. state[s] = "dead"
        BY <1>2, <3>1 DEF Vital
    <3>3. down'[s] = down[s] - 1 /\ newPos'[s] = None
        BY <1>2, <1>5, <3>1, <3>2 DEF Idle, StayDead, March, Strike, TypeOK
    <3>4. Rests(s)'
        BY <1>1, <1>3, <1>5, <3>1, <3>3 DEF Rests
    <3> QED
        BY <1>1, <2>2, <3>3, <3>4 DEF Acts
  <2>3. CASE before[s].hp = 0 /\ before[s].down = 0
    <3>1. Returns(s) /\ newPos[s] = None
        BY <1>2, <2>3 DEF Acts
    <3>2. state[s] # "dead"
        BY <1>1, <1>2, <1>5, <3>1, Staying DEF Returns
    <3>3. hp[s] # 0
        BY <1>2, <3>2 DEF Vital
    <3>4. state[s] = "idle"
        BY <1>1, <1>2, <1>5, <3>1, <3>2, Staying, Constants DEF Returns, NoOrders, TypeOK
    <3>5. UNCHANGED <<newPos, down>>
        BY <1>5, <3>4 DEF Idle, StayDead, March, Strike
    <3>6. Returns(s)'
        BY <1>1, <1>3, <2>3, <3>1, <3>3, <3>5 DEF Returns, KeepsBody
    <3> QED
        BY <1>1, <2>3, <3>1, <3>5, <3>6 DEF Acts
  <2> QED
      BY <1>2, <2>1, <2>2, <2>3
<1> QED
    BY <1>4, <1>5

\* Damage: a soldier that does not strike a target in range has seen it fall.
LEMMA StayStruck ==
    ASSUME TurnInv, Idle \/ StayDead \/ March \/ Strike, NEW t \in Soldiers
    PROVE  Struck(t)'
<1> DEFINE n == Cardinality(Strikers(t))
<1>1. /\ phase = "update" /\ EndUpdate /\ NewState(who) = "same"
      /\ UNCHANGED <<target, dest, pos, hp, shield, state, before>>
      /\ \A s \in Soldiers : Updated(s)' <=> Updated(s) \/ s = who
      /\ ~Updated(who)
    BY OneStays
<1>2. /\ IInv /\ TypeOK /\ Struck(t) /\ Acts(who) /\ Ordered(who) /\ who \in Soldiers
      /\ before \in [Soldiers -> Sight]
      /\ hp[t] \in Nat /\ damage[t] \in Nat
    BY <1>1, Underway
<1>3. /\ before[t].hp \in Nat /\ IsFiniteSet(Strikers(t)) /\ n \in Nat
      /\ AttackDamage \in Nat /\ AttackDamage * n \in Nat
      /\ AttackDamage * (n + 1) = AttackDamage * n + AttackDamage
  <2>1. before[t].hp \in Nat /\ IsFiniteSet(Strikers(t)) /\ n \in Nat /\ AttackDamage \in Nat
      BY <1>2, Found, Blows, Constants
  <2> HIDE DEF n
  <2>2. AttackDamage * n \in Nat /\ AttackDamage * (n + 1) = AttackDamage * n + AttackDamage
      BY <2>1, Times
  <2> QED
      BY <2>1, <2>2
<1>4. \A s \in Soldiers : /\ Begun!Hunts(s, t)' <=> Begun!Hunts(s, t)
                          /\ Begun!InRange(s, t)' <=> Begun!InRange(s, t)
    BY <1>1, BegunStays
<1>5. CASE ~(Begun!Hunts(who, t) /\ Begun!InRange(who, t))
  <2>1. Strikers(t)' = Strikers(t)
      BY <1>1, <1>4, <1>5 DEF Strikers
  <2>2. damage'[t] = damage[t]
    <3>1. CASE Strike
      <4>1. target[who] # t
        <5>1. state[who] = "attack" /\ before[who].hp > 0
          <6>1. state[who] = "attack"
              BY <3>1 DEF Strike
          <6>2. target[who] # None /\ before[who].hp \in Nat /\ before[who].down \in Nat
              BY <1>1, <1>2, <6>1, Staying, Found, Constants
          <6> QED
              BY <1>2, <6>1, <6>2 DEF Acts, Rests, Returns, NoOrders
        <5>2. Fights(who)
            BY <1>2, <5>1 DEF Acts
        <5>3. /\ target[who] = before[who].target /\ before[target[who]].hp > 0
              /\ Begun!InRange(who, target[who])
            BY <1>1, <5>1, <5>2, Hunting
        <5> QED
            BY <1>5, <5>1, <5>3 DEF Begun!Hunts, Begun!Alive
      <4> QED
          BY <1>2, <3>1, <4>1 DEF Strike, TypeOK
    <3>2. CASE ~Strike
        BY <3>2 DEF Idle, StayDead, March
    <3> QED
        BY <3>1, <3>2
  <2> QED
      BY <1>1, <1>2, <2>1, <2>2 DEF Struck
<1>6. CASE Begun!Hunts(who, t) /\ Begun!InRange(who, t)
  <2>1. before[who].hp > 0 /\ before[who].target = t /\ before[t].hp > 0
      BY <1>6 DEF Begun!Hunts, Begun!Alive
  <2>2. Fights(who)
      BY <1>2, <2>1 DEF Acts
  <2>3. Strikers(t)' = Strikers(t) \cup {who} /\ who \notin Strikers(t)
      BY <1>1, <1>2, <1>4, <1>6 DEF Strikers
  <2>4. Cardinality(Strikers(t)') = n + 1
      BY <1>3, <2>3, FS_AddElement
  <2>5. (AttackDamage * Cardinality(Strikers(t)))' = AttackDamage * n + AttackDamage
      BY <1>3, <2>4
  <2>6. damage[t] = Smaller(before[t].hp, AttackDamage * n)
      BY <1>2 DEF Struck
  <2>7. damage'[t] = Smaller(before[t].hp, AttackDamage * n + AttackDamage)
    <3> HIDE DEF n
    <3>1. CASE state[who] \in {"attack", "pursuit"}
      <4>1. state[who] = "attack" /\ target[who] = t /\ hp[t] = before[t].hp
          BY <1>1, <1>6, <2>1, <2>2, <3>1, Hunting DEF KeepsBody
      <4>2. Strike
          BY <4>1 DEF Idle, StayDead, March
      <4>3. damage'[t] = Smaller(before[t].hp, damage[t] + AttackDamage)
          BY <1>2, <4>1, <4>2 DEF Strike, TypeOK
      <4> QED
          BY <1>3, <2>6, <4>3 DEF Smaller
    <3>2. CASE state[who] \notin {"attack", "pursuit"}
      <4>1. target[who] = None
          BY <1>1, <1>2, <3>2, Staying DEF TypeOK
      <4>2. OrderEnds(who)
          BY <1>1, <1>2, <2>1, <2>2, <4>1, Constants DEF Fights, KeepsOrders
      <4>3. damage[t] = before[t].hp
          BY <1>2, <2>1, <4>2, Constants DEF OrderEnds, Ordered
      <4>4. damage' = damage
          BY <3>2 DEF Idle, StayDead, March, Strike
      <4> QED
          BY <1>3, <2>6, <4>3, <4>4 DEF Smaller
    <3> QED
        BY <3>1, <3>2
  <2> QED
      BY <1>1, <2>5, <2>7 DEF Struck
<1> QED
    BY <1>5, <1>6

\* The end of an update.
LEMMA StayTurn ==
    ASSUME TurnInv, Idle \/ StayDead \/ March \/ Strike, NEW s \in Soldiers
    PROVE  TurnPart(s)'
<1>1. before' = before /\ Awaited(s)' /\ Ordered(s)
    BY OneStays, Underway
<1>2. Ordered(s)'
    BY <1>1 DEF Ordered
<1> QED
    BY <1>1, <1>2, StayActs, StayStruck DEF TurnPart

\* What the late update of one soldier changes.
LEMMA OneLate ==
    ASSUME TurnInv, LateUpdate
    PROVE  /\ phase = "late"
           /\ \/ who + 1 < NumSoldiers /\ who' = who + 1 /\ phase' = "late" /\ before' = before
              \/ who + 1 = NumSoldiers /\ who' = 0 /\ phase' = "commands" /\ before' = Army'
           /\ \A s \in Soldiers \ {who} :
                /\ pos'[s] = pos[s] /\ newPos'[s] = newPos[s] /\ hp'[s] = hp[s]
                /\ damage'[s] = damage[s] /\ shield'[s] = shield[s]
                /\ target'[s] = target[s] /\ dest'[s] = dest[s] /\ down'[s] = down[s]
           /\ newPos'[who] = None
<1>1. TypeOK /\ who \in Soldiers /\ phase = "late"
    BY DEF TurnInv, IInv, TypeOK, LateUpdate
<1>2. \/ who + 1 < NumSoldiers /\ who' = who + 1 /\ phase' = "late" /\ before' = before
      \/ who + 1 = NumSoldiers /\ who' = 0 /\ phase' = "commands" /\ before' = Army'
  <2>1. \/ who + 1 < NumSoldiers /\ who' = who + 1 /\ phase' = phase
        \/ who + 1 = NumSoldiers /\ who' = 0 /\ phase' = "commands"
      BY <1>1, Advance DEF LateUpdate
  <2>2. before' = IF who + 1 = NumSoldiers THEN Army' ELSE before
      BY DEF LateUpdate
  <2>3. who + 1 < NumSoldiers => who + 1 # NumSoldiers
      BY <1>1, Constants
  <2> QED
      BY <1>1, <2>1, <2>2, <2>3
<1>3. \A s \in Soldiers \ {who} :
         /\ pos'[s] = pos[s] /\ newPos'[s] = newPos[s] /\ hp'[s] = hp[s]
         /\ damage'[s] = damage[s] /\ shield'[s] = shield[s]
    BY <1>1 DEF LateUpdate, TypeOK
<1>4. \A s \in Soldiers \ {who} :
         target'[s] = target[s] /\ dest'[s] = dest[s] /\ down'[s] = down[s]
  <2> DEFINE left == IF IsInvulnerable(who) THEN hp[who] ELSE LatestHp(who)
  <2>1. CASE left = 0 /\ state[who] # "dead"
      BY <1>1, <2>1 DEF LateUpdate, TypeOK
  <2>2. CASE ~(left = 0 /\ state[who] # "dead")
      BY <1>1, <2>2 DEF LateUpdate, TypeOK
  <2> QED
      BY <2>1, <2>2
<1>5. newPos'[who] = None
    BY <1>1 DEF LateUpdate, TypeOK
<1> QED
    BY <1>1, <1>2, <1>3, <1>4, <1>5

\* The soldiers whose late update it is not.
LEMMA LateOthers ==
    ASSUME TurnInv, LateUpdate, phase' = "late", NEW s \in Soldiers, s # who
    PROVE  TurnPart(s)'
<1>1. /\ phase = "late" /\ who' = who + 1 /\ before' = before
      /\ pos'[s] = pos[s] /\ newPos'[s] = newPos[s] /\ hp'[s] = hp[s]
      /\ damage'[s] = damage[s] /\ shield'[s] = shield[s]
      /\ target'[s] = target[s] /\ dest'[s] = dest[s] /\ down'[s] = down[s]
    BY OneLate
<1>2. /\ Ordered(s) /\ TurnPart(s) /\ who \in Nat /\ s \in Nat
    BY <1>1, Underway
<1>3. Awaited(s)' <=> Awaited(s)
    BY <1>1, <1>2 DEF Awaited
<1>4. \A q \in Soldiers : Updated(q)' /\ Updated(q)
    BY <1>1 DEF Updated
<1>5. Ordered(s)'
    BY <1>1, <1>2 DEF Ordered
<1>6. Begun!Conducts(s)' = Begun!Conducts(s) /\ Begun!Outcomes(s)' = Begun!Outcomes(s)
    BY <1>1, BegunStays
<1>7. Army'[s] = Army[s]
    BY <1>1 DEF Army
<1>8. Struck(s)' <=> Struck(s)
  <2>1. Strikers(s)' = Strikers(s)
      BY <1>1, <1>4, SameStrikers
  <2> QED
      BY <1>1, <2>1 DEF Struck
<1>9. Acts(s) => Acts(s)'
  <2>1. /\ KeepsBody(s)' <=> KeepsBody(s)
        /\ NoOrders(s)' <=> NoOrders(s)
        /\ Plan(s)' = Plan(s)
      BY <1>1 DEF KeepsBody, NoOrders, Plan
  <2>2. Fights(s) => Fights(s)'
      BY <1>1, <1>4, <1>6, <2>1 DEF Fights
  <2>3. (Rests(s) => Rests(s)') /\ (Returns(s) => Returns(s)')
      BY <1>1, <1>4, <2>1 DEF Rests, Returns
  <2> QED
      BY <1>1, <2>2, <2>3 DEF Acts
<1> QED
    BY <1>1, <1>2, <1>3, <1>5, <1>6, <1>7, <1>8, <1>9 DEF TurnPart

\* The outcome of the turn for the soldier whose late update it is.
LEMMA LateOutcome ==
    ASSUME TurnInv, LateUpdate, NEW s \in Soldiers, s = who
    PROVE  Army'[s] \in Begun!Outcomes(s)
<1> DEFINE left == IF IsInvulnerable(s) THEN hp[s] ELSE LatestHp(s)
           b == before[s]
<1>1. phase = "late"
    BY OneLate
<1>2. /\ IInv /\ TypeOK /\ Vital(s) /\ Guided(s) /\ Settled(s) /\ Ordered(s)
      /\ who \in Nat /\ Awaited(s) /\ Acts(s) /\ Struck(s) /\ Updated(s)
      /\ before \in [Soldiers -> Sight]
      /\ hp[s] \in Nat /\ damage[s] \in Nat /\ (hp[s] = 0 => shield[s] = 0)
      /\ damage[s] <= hp[s]
    BY <1>1, Underway DEF SoldierPart, TurnPart, Awaited, Updated, Vital
<1>3. b \in Sight /\ b.hp \in Nat /\ b.down \in Nat /\ b.shield \in Nat
    BY <1>2, Found
<1>4. /\ pos'[s] = IF newPos[s] # None THEN newPos[s] ELSE pos[s]
      /\ hp'[s] = left
      /\ shield'[s] = IF shield[s] > 0 THEN shield[s] - 1 ELSE 0
    BY <1>2 DEF LateUpdate, TypeOK
<1>5. /\ ~(left = 0 /\ state[s] # "dead") =>
            target'[s] = target[s] /\ dest'[s] = dest[s] /\ down'[s] = down[s]
      /\ left = 0 /\ state[s] # "dead" =>
            target'[s] = None /\ dest'[s] = None /\ down'[s] = RespawnTurns - 1
  <2>1. CASE left = 0 /\ state[s] # "dead"
    <3>1. target'[s] = NewTarget(s, "dead") /\ dest'[s] = NewDest(s) /\ down'[s] = RespawnTurns - 1
        BY <1>2, <2>1 DEF LateUpdate, TypeOK
    <3>2. NewTarget(s, "dead") = None /\ NewDest(s) = None
        BY <1>2 DEF Settled, NewTarget, NewDest
    <3> QED
        BY <2>1, <3>1, <3>2
  <2>2. CASE ~(left = 0 /\ state[s] # "dead")
      BY <1>2, <2>2 DEF LateUpdate, TypeOK
  <2> QED
      BY <2>1, <2>2
<1>6. Army'[s] = [pos |-> pos'[s], hp |-> hp'[s], target |-> target'[s], dest |-> dest'[s],
                  down |-> down'[s], shield |-> shield'[s]]
    BY DEF Army
<1>7. Begun!Alive(s) <=> b.hp > 0
    BY DEF Begun!Alive
<1>8. Begun!Fresh(s) = [pos |-> Spawn[Owner[s]], hp |-> MaxHp, target |-> None, dest |-> None,
                        down |-> 0, shield |-> 0]
    BY DEF Begun!Fresh
<1>9. CASE b.hp > 0
  <2>1. /\ KeepsBody(s) /\ down[s] = b.down /\ Plan(s) \in Begun!Conducts(s) /\ hp[s] = b.hp
        /\ shield[s] = b.shield /\ state[s] # "dead"
      BY <1>2, <1>9 DEF Acts, Fights, KeepsBody, Vital
  <2>2. Begun!NewHp(s) = left
    <3>1. \A q \in Soldiers : Updated(q)
        BY <1>1 DEF Updated
    <3>2. damage[s] = Smaller(b.hp, Begun!Harm(s)) /\ Begun!Harm(s) \in Nat
        BY <1>2, <3>1, Blows DEF Struck
    <3> QED
        BY <1>3, <2>1, <3>2 DEF Begun!NewHp, Begun!Less, Smaller, LatestHp, IsInvulnerable
  <2>3. Plan(s) = [b EXCEPT !.pos = pos'[s], !.target = target[s], !.dest = dest[s]]
      BY <1>4 DEF Plan
  <2>4. Begun!Less(b.shield, 1) = shield'[s]
      BY <1>3, <1>4, <2>1 DEF Begun!Less
  <2>5. left \in Nat
      BY <1>2 DEF LatestHp
  <2>6. CASE left > 0
    <3>1. Army'[s] = [Plan(s) EXCEPT !.hp = left, !.shield = Begun!Less(@, 1)]
      <4>1. target'[s] = target[s] /\ dest'[s] = dest[s] /\ down'[s] = b.down /\ hp'[s] = left
          BY <1>4, <1>5, <2>1, <2>6
      <4> HIDE DEF left
      <4>2. /\ b = [pos |-> b.pos, hp |-> b.hp, target |-> b.target, dest |-> b.dest,
                    down |-> b.down, shield |-> b.shield]
          BY <1>3 DEF Sight
      <4>3. Plan(s) = [pos |-> pos'[s], hp |-> b.hp, target |-> target[s], dest |-> dest[s],
                       down |-> b.down, shield |-> b.shield]
          BY <2>3, <4>2
      <4>4. Army'[s] = [pos |-> pos'[s], hp |-> left, target |-> target[s], dest |-> dest[s],
                        down |-> b.down, shield |-> Begun!Less(b.shield, 1)]
          BY <1>6, <2>4, <4>1
      <4>5. [Plan(s) EXCEPT !.hp = left, !.shield = Begun!Less(@, 1)]
            = [pos |-> pos'[s], hp |-> left, target |-> target[s], dest |-> dest[s],
               down |-> b.down, shield |-> Begun!Less(b.shield, 1)]
        <5> DEFINE r == Plan(s)
        <5>1. r = [pos |-> pos'[s], hp |-> b.hp, target |-> target[s], dest |-> dest[s],
                   down |-> b.down, shield |-> b.shield]
            BY <4>3
        <5> HIDE DEF r
        <5>2. [r EXCEPT !.hp = left].shield = b.shield
            BY <5>1
        <5>3. [r EXCEPT !.hp = left, !.shield = Begun!Less(@, 1)]
              = [r EXCEPT !.hp = left, !.shield = Begun!Less(b.shield, 1)]
            BY <5>2, Zenon
        <5>4. [r EXCEPT !.hp = left, !.shield = Begun!Less(b.shield, 1)]
              = [pos |-> pos'[s], hp |-> left, target |-> target[s], dest |-> dest[s],
                 down |-> b.down, shield |-> Begun!Less(b.shield, 1)]
          <6>1. [r EXCEPT !.hp = left]
                = [pos |-> pos'[s], hp |-> left, target |-> target[s], dest |-> dest[s],
                   down |-> b.down, shield |-> b.shield]
              BY <5>1
          <6>2. [[pos |-> pos'[s], hp |-> left, target |-> target[s], dest |-> dest[s],
                  down |-> b.down, shield |-> b.shield] EXCEPT !.shield = Begun!Less(b.shield, 1)]
                = [pos |-> pos'[s], hp |-> left, target |-> target[s], dest |-> dest[s],
                   down |-> b.down, shield |-> Begun!Less(b.shield, 1)]
              OBVIOUS
          <6> QED
              BY <6>1, <6>2, Zenon
        <5> QED
            BY <5>3, <5>4 DEF r
      <4> QED
          BY <4>4, <4>5
    <3>2. Begun!Outcomes(s) =
            {[c EXCEPT !.hp = left, !.shield = Begun!Less(@, 1)] : c \in Begun!Conducts(s)}
      <4> HIDE DEF left
      <4> QED
          BY <1>7, <1>9, <2>2, <2>6 DEF Begun!Outcomes
    <3> HIDE DEF left
    <3> QED
        BY <2>1, <3>1, <3>2
  <2>7. CASE left = 0
    <3>1. target'[s] = None /\ dest'[s] = None /\ down'[s] = RespawnTurns - 1 /\ hp'[s] = 0
        BY <1>4, <1>5, <2>1, <2>7
    <3>2. shield'[s] = 0
      <4>1. shield[s] = 0
          BY <1>3, <1>9, <2>1, <2>7 DEF IsInvulnerable
      <4> QED
          BY <1>4, <4>1
    <3>3. Plan(s).pos = pos'[s]
        BY <1>3, <2>3 DEF Sight
    <3>4. Army'[s] = [Begun!Fresh(s) EXCEPT !.pos = Plan(s).pos, !.hp = 0, !.down = RespawnTurns - 1]
      <4>1. Army'[s] = [pos |-> pos'[s], hp |-> 0, target |-> None, dest |-> None,
                        down |-> RespawnTurns - 1, shield |-> 0]
          BY <1>6, <3>1, <3>2
      <4>2. [Begun!Fresh(s) EXCEPT !.pos = pos'[s], !.hp = 0, !.down = RespawnTurns - 1]
            = [pos |-> pos'[s], hp |-> 0, target |-> None, dest |-> None,
               down |-> RespawnTurns - 1, shield |-> 0]
        <5> DEFINE r == Begun!Fresh(s)
        <5>1. r = [pos |-> Spawn[Owner[s]], hp |-> MaxHp, target |-> None, dest |-> None,
                   down |-> 0, shield |-> 0]
            BY <1>8
        <5> HIDE DEF r
        <5>2. [r EXCEPT !.pos = pos'[s], !.hp = 0, !.down = RespawnTurns - 1]
              = [pos |-> pos'[s], hp |-> 0, target |-> None, dest |-> None,
                 down |-> RespawnTurns - 1, shield |-> 0]
          <6>1. [r EXCEPT !.pos = pos'[s]]
                = [pos |-> pos'[s], hp |-> MaxHp, target |-> None, dest |-> None, down |-> 0, shield |-> 0]
              BY <5>1
          <6>2. [[pos |-> pos'[s], hp |-> MaxHp, target |-> None, dest |-> None, down |-> 0,
                  shield |-> 0] EXCEPT !.hp = 0]
                = [pos |-> pos'[s], hp |-> 0, target |-> None, dest |-> None, down |-> 0, shield |-> 0]
              OBVIOUS
          <6>3. [[pos |-> pos'[s], hp |-> 0, target |-> None, dest |-> None, down |-> 0,
                  shield |-> 0] EXCEPT !.down = RespawnTurns - 1]
                = [pos |-> pos'[s], hp |-> 0, target |-> None, dest |-> None,
                   down |-> RespawnTurns - 1, shield |-> 0]
              OBVIOUS
          <6> QED
              BY <6>1, <6>2, <6>3, Zenon
        <5> QED
            BY <5>2 DEF r
      <4> QED
          BY <3>3, <4>1, <4>2
    <3>5. Begun!Outcomes(s) =
            {[Begun!Fresh(s) EXCEPT !.pos = c.pos, !.hp = 0, !.down = RespawnTurns - 1]
                : c \in Begun!Conducts(s)}
      <4>1. ~(Begun!NewHp(s) > 0)
          BY <2>2, <2>7
      <4> QED
          BY <1>7, <1>9, <4>1 DEF Begun!Outcomes
    <3> QED
        BY <2>1, <3>4, <3>5
  <2> QED
      BY <2>5, <2>6, <2>7
<1>10. CASE b.hp = 0 /\ b.down > 0
  <2>1. /\ KeepsBody(s) /\ NoOrders(s) /\ down[s] = b.down - 1 /\ newPos[s] = None
      BY <1>2, <1>10 DEF Acts, Rests
  <2>2. hp[s] = 0 /\ pos[s] = b.pos /\ shield[s] = 0 /\ b.shield = 0 /\ state[s] = "dead"
        /\ b.target = None /\ b.dest = None
      BY <1>2, <1>10, <2>1 DEF KeepsBody, Vital, Ordered
  <2>3. left = 0
      BY <1>2, <2>2 DEF IsInvulnerable, LatestHp
  <2>4. /\ pos'[s] = b.pos /\ hp'[s] = b.hp /\ shield'[s] = b.shield
        /\ target'[s] = b.target /\ dest'[s] = b.dest /\ down'[s] = b.down - 1
      BY <1>4, <1>5, <1>10, <2>1, <2>2, <2>3 DEF NoOrders
  <2>5. b = [pos |-> b.pos, hp |-> b.hp, target |-> b.target, dest |-> b.dest,
             down |-> b.down, shield |-> b.shield]
      BY <1>3 DEF Sight
  <2>6. Army'[s] = [b EXCEPT !.down = b.down - 1]
      BY <1>6, <2>4, <2>5
  <2>7. Begun!Outcomes(s) = {[b EXCEPT !.down = @ - 1]}
      BY <1>7, <1>10 DEF Begun!Outcomes
  <2> QED
      BY <2>6, <2>7
<1>11. CASE b.hp = 0 /\ b.down = 0
  <2>1. /\ NoOrders(s) /\ down[s] = 0 /\ newPos[s] = None
        /\ pos[s] = Spawn[Owner[s]] /\ hp[s] = MaxHp /\ shield[s] = ShieldTurns + 1
      BY <1>2, <1>11 DEF Acts, Returns
  <2>2. left = MaxHp /\ MaxHp # 0
      BY <2>1, Constants DEF IsInvulnerable
  <2>3. /\ pos'[s] = Spawn[Owner[s]] /\ hp'[s] = MaxHp /\ shield'[s] = ShieldTurns
        /\ target'[s] = None /\ dest'[s] = None /\ down'[s] = 0
    <3>1. shield'[s] = ShieldTurns
        BY <1>4, <2>1, Constants
    <3> QED
        BY <1>4, <1>5, <2>1, <2>2, <3>1 DEF NoOrders
  <2>4. Army'[s] = [Begun!Fresh(s) EXCEPT !.shield = ShieldTurns]
      BY <1>6, <1>8, <2>3
  <2>5. Begun!Outcomes(s) = {[Begun!Fresh(s) EXCEPT !.shield = ShieldTurns]}
      BY <1>7, <1>11 DEF Begun!Outcomes
  <2> QED
      BY <2>4, <2>5
<1> QED
    BY <1>3, <1>9, <1>10, <1>11

\* A late update that is not the last.
LEMMA LateTurn ==
    ASSUME TurnInv, LateUpdate, phase' = "late", NEW s \in Soldiers
    PROVE  TurnPart(s)'
<1>1. CASE s # who
    BY <1>1, LateOthers
<1>2. CASE s = who
  <2>1. /\ phase = "late" /\ who' = who + 1 /\ before' = before /\ newPos'[s] = None
      BY <1>2, OneLate
  <2>2. Ordered(s) /\ who \in Nat
      BY <2>1, Underway
  <2>3. Ordered(s)' /\ ~Awaited(s)'
      BY <1>2, <2>1, <2>2 DEF Ordered, Awaited
  <2>4. Army'[s] \in Begun!Outcomes(s)'
      BY <1>2, <2>1, LateOutcome, BegunStays
  <2> QED
      BY <2>1, <2>3, <2>4 DEF TurnPart
<1> QED
    BY <1>1, <1>2

\* The dead are not immune.
LEMMA MortalDead ==
    ASSUME TurnInv, [Next]_vars, NEW s \in Soldiers
    PROVE  hp'[s] = 0 => shield'[s] = 0
<1>1. /\ TypeOK /\ who \in Soldiers /\ hp[s] \in Nat /\ shield[s] \in Nat
      /\ hp[s] = 0 => shield[s] = 0
    BY Typing, Constants DEF TurnInv, IInv, TypeOK
<1>2. CASE UNCHANGED <<hp, shield>>
    BY <1>1, <1>2
<1>3. CASE ChangeState
    BY <1>1, <1>3, OneChanges, Constants
<1>4. CASE LateUpdate
  <2>1. CASE s # who
      BY <1>1, <1>4, <2>1, OneLate
  <2>2. CASE s = who
    <3>1. /\ hp'[s] = IF IsInvulnerable(s) THEN hp[s] ELSE LatestHp(s)
          /\ shield'[s] = IF shield[s] > 0 THEN shield[s] - 1 ELSE 0
        BY <1>1, <1>4, <2>2 DEF LateUpdate, TypeOK
    <3> QED
        BY <1>1, <3>1 DEF IsInvulnerable
  <2> QED
      BY <2>1, <2>2
<1>5. CASE Commands
  <2>1. UNCHANGED <<hp, shield>>
      BY <1>5, OneCommand DEF TurnInv
  <2> QED
      BY <1>2, <2>1
<1>6. CASE Idle \/ StayDead \/ March \/ Strike
  <2>1. UNCHANGED <<hp, shield>>
      BY <1>6, OneStays
  <2> QED
      BY <1>2, <2>1
<1>7. CASE UNCHANGED vars
    BY <1>2, <1>7 DEF vars, body
<1> QED
    BY <1>3, <1>4, <1>5, <1>6, <1>7 DEF Next, Update

\* TurnInv holds as the game begins, and is inductive.
LEMMA InitTurnInv == Init => TurnInv
<1> SUFFICES ASSUME Init PROVE TurnInv
    OBVIOUS
<1>1. IInv /\ TypeOK
    BY InitIInv DEF IInv
<1>2. before = Army /\ phase = "commands" /\ \A s \in Soldiers : newPos[s] = None /\ shield[s] = 0
    BY DEF Init
<1> QED
    BY <1>1, <1>2, Sighted DEF TurnInv

LEMMA TurnInvariant ==
    ASSUME TurnInv, IInv', [Next]_vars
    PROVE  TurnInv'
<1>0. IInv /\ TypeOK /\ TypeOK' /\ who \in Soldiers /\ before \in [Soldiers -> Sight]
    BY DEF TurnInv, IInv, TypeOK
<1>1. before' \in [Soldiers -> Sight] /\ (phase' = "commands" => before' = Army')
  <2>1. CASE Commands
      BY <1>0, <2>1, OneCommand, Sighted DEF EndCommand
  <2>2. CASE ChangeState
      BY <1>0, <2>2, OneChanges
  <2>3. CASE Idle \/ StayDead \/ March \/ Strike
    <3>1. before' = before /\ phase' # "commands"
        BY <2>3, OneStays, <1>0, Advance DEF EndUpdate
    <3> QED
        BY <1>0, <3>1
  <2>4. CASE LateUpdate
      BY <1>0, <2>4, OneLate, Sighted
  <2>5. CASE UNCHANGED vars
    <3>1. Army' = Army
        BY <2>5 DEF Army, vars, body, orders
    <3> QED
        BY <2>5, <3>1 DEF TurnInv, vars
  <2> QED
      BY <2>1, <2>2, <2>3, <2>4, <2>5 DEF Next, Update
<1>2. \A s \in Soldiers : hp'[s] = 0 => shield'[s] = 0
    BY MortalDead
<1>3. ASSUME phase' = "commands", NEW s \in Soldiers PROVE newPos'[s] = None
  <2>1. CASE Commands
      BY <1>0, <2>1, OneCommand DEF TurnInv
  <2>2. CASE ChangeState \/ Idle \/ StayDead \/ March \/ Strike
      BY <1>0, <1>3, <2>2, OneChanges, OneStays, Advance DEF EndUpdate
  <2>3. CASE LateUpdate
    <3>1. phase = "late" /\ who + 1 = NumSoldiers
        BY <1>3, <2>3, OneLate
    <3>2. TurnPart(s) /\ s \in Nat /\ who \in Nat /\ s < NumSoldiers
        BY <3>1, Underway
    <3>3. s # who => ~Awaited(s) /\ newPos'[s] = newPos[s]
        BY <2>3, <3>1, <3>2, OneLate DEF Awaited
    <3> QED
        BY <2>3, <3>2, <3>3, OneLate DEF TurnPart
  <2>4. CASE UNCHANGED vars
      BY <1>3, <2>4 DEF TurnInv, vars
  <2> QED
      BY <2>1, <2>2, <2>3, <2>4 DEF Next, Update
<1>4. ASSUME phase' # "commands", NEW s \in Soldiers PROVE TurnPart(s)'
  <2>1. CASE Commands
      BY <1>4, <2>1, CommandTurn
  <2>2. CASE ChangeState
      BY <2>2, ChangeTurn
  <2>3. CASE Idle \/ StayDead \/ March \/ Strike
      BY <2>3, StayTurn
  <2>4. CASE LateUpdate
      BY <1>4, <2>4, OneLate, LateTurn
  <2>5. CASE UNCHANGED vars
    <3>1. TurnPart(s) /\ before' = before
        BY <1>4, <2>5 DEF TurnInv, vars
    <3>2. Army' = Army
        BY <2>5 DEF Army, vars, body, orders
    <3>3. \A q \in Soldiers : (Updated(q)' <=> Updated(q)) /\ (Awaited(q)' <=> Awaited(q))
        BY <2>5 DEF Updated, Awaited, vars
    <3>4. Strikers(s)' = Strikers(s)
        BY <3>1, <3>3, SameStrikers
    <3>5. Begun!Conducts(s)' = Begun!Conducts(s) /\ Begun!Outcomes(s)' = Begun!Outcomes(s)
        BY <3>1, BegunStays
    <3>6. Ordered(s)' /\ (Struck(s) => Struck(s)')
        BY <2>5, <3>1, <3>4 DEF TurnPart, Ordered, Struck, vars, body
    <3>7. Acts(s) => Acts(s)'
      <4>1. Plan(s)' = Plan(s) /\ UNCHANGED <<pos, hp, shield, damage, target, dest, down, newPos, who>>
          BY <2>5 DEF Plan, vars, body, orders
      <4>2. Fights(s) => Fights(s)'
          BY <3>1, <3>3, <3>5, <4>1 DEF Fights, KeepsBody, KeepsOrders, NoOrders, OrderEnds
      <4>3. (Rests(s) => Rests(s)') /\ (Returns(s) => Returns(s)')
          BY <3>1, <3>3, <4>1 DEF Rests, Returns, KeepsBody, NoOrders
      <4> QED
          BY <3>1, <4>1, <4>2, <4>3 DEF Acts
    <3>8. newPos' = newPos
        BY <2>5 DEF vars
    <3> QED
        BY <3>1, <3>2, <3>3, <3>5, <3>6, <3>7, <3>8 DEF TurnPart
  <2> QED
      BY <2>1, <2>2, <2>3, <2>4, <2>5 DEF Next, Update
<1> QED
    BY <1>1, <1>2, <1>3, <1>4 DEF TurnInv

-----------------------------------------------------------------------------
(* Every step is one of Skirmish, or none.                                 *)

\* Commands are Skirmish's orders.
LEMMA CommandRefines ==
    ASSUME TurnInv, TurnInv', Commands
    PROVE  Skirmish!Next \/ Shown' = Shown
<1>1. /\ TypeOK /\ who \in Soldiers /\ phase = "commands" /\ before' = Army'
      /\ hp \in [Soldiers -> Nat]
  <2>1. TypeOK /\ who \in Soldiers
      BY DEF TurnInv, IInv, TypeOK
  <2>2. phase = "commands" /\ before' = Army'
      BY <2>1, OneCommand DEF TurnInv, EndCommand
  <2> QED
      BY <2>1, <2>2, Constants DEF TypeOK
<1>2. Shown = Army /\ Shown' = Army'
    BY <1>1 DEF Shown
<1>3. \A s \in Soldiers : Skirmish!Alive(s) <=> hp[s] > 0
    BY <1>2, Seen DEF Skirmish!Alive
<1>4. CASE NoCommand
    BY <1>2, <1>4 DEF NoCommand, EndCommand, Army, body, orders
<1>5. ASSUME NEW x \in Positions, MoveSoldier(x) PROVE Skirmish!March(who, x)
  <2>1. hp[who] > 0 /\ dest' = [dest EXCEPT ![who] = x] /\ target' = [target EXCEPT ![who] = None]
        /\ UNCHANGED <<pos, hp, shield, down>>
      BY <1>1, <1>5 DEF MoveSoldier, EndCommand, body
  <2>2. Army' = [Army EXCEPT ![who].dest = x, ![who].target = None]
      BY <1>1, <2>1 DEF Army, TypeOK
  <2> QED
      BY <1>1, <1>2, <1>3, <2>1, <2>2 DEF Skirmish!March
<1>6. ASSUME NEW t \in Soldiers, AttackSoldier(t) PROVE Skirmish!Attack(who, t)
  <2>1. hp[who] > 0 /\ hp[t] > 0 /\ Owner[t] # Owner[who]
        /\ target' = [target EXCEPT ![who] = t] /\ dest' = [dest EXCEPT ![who] = None]
        /\ UNCHANGED <<pos, hp, shield, down>>
      BY <1>1, <1>6 DEF AttackSoldier, EndCommand, body
  <2>2. Army' = [Army EXCEPT ![who].target = t, ![who].dest = None]
      BY <1>1, <2>1 DEF Army, TypeOK
  <2>3. t \in Skirmish!Enemies(who)
      BY <2>1 DEF Skirmish!Enemies
  <2> QED
      BY <1>1, <1>2, <1>3, <2>1, <2>2, <2>3 DEF Skirmish!Attack
<1>7. Skirmish!Positions = Positions
    BY DEF Skirmish!Positions, Positions
<1> QED
    BY <1>1, <1>4, <1>5, <1>6, <1>7 DEF Commands, Skirmish!Next

\* The last late update completes Skirmish's turn.
LEMMA TurnRefines ==
    ASSUME TurnInv, LateUpdate, phase' = "commands"
    PROVE  Skirmish!Turn
<1>1. phase = "late" /\ who + 1 = NumSoldiers /\ before' = Army' /\ who \in Soldiers /\ who \in Nat
    BY OneLate, Constants DEF TurnInv, IInv, TypeOK
<1>2. Shown' = Army' /\ DOMAIN Army' = Soldiers
    BY DEF Shown, Army
<1>3. ASSUME NEW s \in Soldiers PROVE Army'[s] \in Skirmish!Outcomes(s)
  <2>1. Skirmish!Outcomes(s) = Begun!Outcomes(s)
      BY <1>1, SameOutcomes
  <2>2. CASE s = who
      BY <2>1, <2>2, LateOutcome
  <2>3. CASE s # who
    <3>1. TurnPart(s) /\ s \in Nat /\ s < NumSoldiers
        BY <1>1, Underway
    <3>2. ~Awaited(s)
        BY <1>1, <2>3, <3>1 DEF Awaited
    <3>3. Army'[s] = Army[s]
        BY <2>3, OneLate DEF Army
    <3> QED
        BY <2>1, <3>1, <3>2, <3>3 DEF TurnPart
  <2> QED
      BY <2>2, <2>3
<1> QED
    BY <1>2, <1>3 DEF Skirmish!Turn

\* TurnInv holds in every state.
THEOREM TurnInvariance == Spec => []TurnInv
<1>1. ASSUME TurnInv, IInv', [Next]_vars PROVE TurnInv'
    BY <1>1, TurnInvariant
<1> QED
    BY <1>1, InitTurnInv, Invariance, PTL DEF Spec

\* The order in which the soldiers are updated decides no fight: whatever the
\* loops of a turn do, its outcome is one of a turn in which all soldiers move
\* and strike at once.
THEOREM TurnsAreSkirmishes == Spec => ImplementsSkirmish
<1>1. ASSUME Init PROVE Skirmish!Init
  <2>1. Shown = Army
      BY <1>1 DEF Init, Shown
  <2>2. Army = [s \in Soldiers |-> Skirmish!Fresh(s)]
      BY <1>1 DEF Init, Army, Skirmish!Fresh
  <2> QED
      BY <2>1, <2>2 DEF Skirmish!Init
<1>2. ASSUME TurnInv, TurnInv', [Next]_vars PROVE [Skirmish!Next]_Shown
  <2>1. CASE Commands
      BY <1>2, <2>1, CommandRefines
  <2>2. CASE phase # "commands" /\ phase' # "commands" /\ before' = before
      BY <2>2 DEF Shown
  <2>3. CASE ChangeState
      BY <1>2, <2>2, <2>3, OneChanges DEF TurnInv, IInv
  <2>4. CASE Idle \/ StayDead \/ March \/ Strike
    <3>1. TypeOK
        BY <1>2 DEF TurnInv, IInv
    <3>2. phase = "update" /\ EndUpdate /\ before' = before
        BY <1>2, <2>4, OneStays
    <3>3. phase' # "commands"
        BY <3>1, <3>2, Advance DEF EndUpdate
    <3> QED
        BY <2>2, <3>2, <3>3
  <2>5. CASE LateUpdate
    <3>1. CASE phase' = "commands"
        BY <1>2, <2>5, <3>1, TurnRefines DEF Skirmish!Next
    <3>2. CASE phase' # "commands"
        BY <1>2, <2>2, <2>5, <3>2, OneLate
    <3> QED
        BY <3>1, <3>2
  <2>6. CASE UNCHANGED vars
    <3>1. Shown' = Shown
        BY <2>6 DEF Shown, Army, vars, body, orders
    <3> QED
        BY <3>1
  <2> QED
      BY <1>2, <2>1, <2>3, <2>4, <2>5, <2>6 DEF Next, Update
<1> QED
    BY <1>1, <1>2, TurnInvariance, PTL DEF Spec, Skirmish!Spec, ImplementsSkirmish
=============================================================================
