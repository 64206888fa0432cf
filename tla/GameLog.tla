------------------------------ MODULE GameLog -------------------------------
(***************************************************************************)
(* The game log (logger.cpp) and the calls that fill it: the main driver's *)
(* LogInstructionCount for each player (main_driver.cpp), the LogError of  *)
(* every refused command and the LogState at the end of UpdatePlayerStates *)
(* (state_syncer.cpp), and the end of the file.  LogState writes a frame   *)
(* with what has changed in the towers since the last one, which it finds  *)
(* by walking the towers and those it logged last side by side.            *)
(*                                                                         *)
(* State::Update is the environment: a tower manager may change, remove    *)
(* and, at the end of its list, add towers, whose ids only grow.  Soldiers *)
(* and money, written in full in every frame, are left out.                *)
(***************************************************************************)
EXTENDS Integers, Sequences, FiniteSets, SequencesExt

CONSTANTS
    NumRounds,          \* max_no_turns
    Counts,             \* instructions a player may execute in a turn
    Messages,           \* what LogError may be told
    MaxHp,              \* the greatest hp of a tower
    MaxLevel,           \* the highest level of a tower
    ActorIdBound,       \* bound: no tower is built past this id
    MaxErrors           \* bound: refused commands in a turn

Players == {0, 1}

ASSUME GameLogAssumption ==
    /\ {NumRounds, MaxErrors} \subseteq Nat
    /\ Counts \subseteq Nat
    /\ {MaxHp, MaxLevel} \subseteq Nat \ {0}
    /\ ActorIdBound \in Nat

VARIABLES
    \* State
    towers,             \* the towers of each player
    nextId,             \* Actor::actor_id_increment
    \* MainDriver and StateSyncer
    place,              \* what is being executed
    who,                \* for which player
    rounds,             \* rounds played
    \* Logger
    turnCount,          \* turn_count
    towerLogs,          \* tower_logs
    logPtr,             \* log_ptr
    towerPtr,           \* tower_ptr
    instCounts,         \* instruction_counts
    errorMap,           \* error_map
    errors,             \* errors
    \* what has been written into the log
    replay,             \* the towers that a reader has pieced together from the frames
    legend,             \* error_map of the file, by code
    \* history
    measured,           \* the counts the main driver reported in this round
    refused,            \* the messages of this round, by player
    meant               \* the codes in the frames with the messages they stand for

stateVars == <<towers, nextId>>
driverVars == <<place, who, rounds>>
pointers == <<logPtr, towerPtr>>
fileVars == <<replay, legend>>
history == <<measured, refused, meant>>
vars == <<stateVars, driverVars, turnCount, towerLogs, pointers, instCounts, errorMap, errors,
          fileVars, history>>

Base(p) == [id |-> p, hp |-> MaxHp, level |-> 1, isBase |-> TRUE]
NewTower(id) == [id |-> id, hp |-> MaxHp, level |-> 1, isBase |-> FALSE]

\* What the logger keeps of a tower.
LogEntry(t) == [id |-> t.id, hp |-> t.hp, level |-> t.level]

NobodysCounts == [p \in Players |-> 0]
NoErrors == [p \in Players |-> <<>>]

\* The constructors; Start leads to LogState at once.
Init ==
    /\ towers = [p \in Players |-> <<Base(p)>>]
    /\ nextId = 2
    /\ place = "log"
    /\ who = 0
    /\ rounds = 0
    /\ turnCount = 0
    /\ towerLogs = [p \in Players |-> <<>>]
    /\ logPtr = 1
    /\ towerPtr = 1
    /\ instCounts = NobodysCounts
    /\ errorMap = <<>>
    /\ errors = NoErrors
    /\ replay = {}
    /\ legend = <<>>
    /\ measured = NobodysCounts
    /\ refused = NoErrors
    /\ meant = {}

-----------------------------------------------------------------------------
(* A round.                                                                *)

\* The main driver reports the instructions of player "who".
LogInstructionCount(n) ==
    /\ place = "counts"
    /\ rounds < NumRounds
    /\ instCounts' = [instCounts EXCEPT ![who] = n]
    /\ measured' = [measured EXCEPT ![who] = n]
    /\ who' = 1 - who
    /\ place' = IF who = 1 THEN "decide" ELSE "counts"
    /\ UNCHANGED <<stateVars, rounds, turnCount, towerLogs, pointers, errorMap, errors, fileVars,
                   refused, meant>>

\* The round is played: no forfeit and no time-out.
Proceed ==
    /\ place = "decide"
    /\ place' = "execute"
    /\ UNCHANGED <<stateVars, who, rounds, turnCount, towerLogs, pointers, instCounts, errorMap,
                   errors, fileVars, history>>

\* Mutant: current_error_code is never incremented.
SameCode(m) == 0

\* The code of a message: current_error_code counts the messages seen.
ErrorCode(m) == IF m \in DOMAIN errorMap THEN errorMap[m] ELSE Cardinality(DOMAIN errorMap)

\* StateSyncer refuses a command of p.
LogError(p, m) ==
    /\ place = "execute"
    /\ Len(refused[0]) + Len(refused[1]) < MaxErrors
    /\ errorMap' = [x \in DOMAIN errorMap \cup {m} |-> IF x = m THEN ErrorCode(m) ELSE errorMap[x]]
    /\ errors' = [errors EXCEPT ![p] = Append(@, ErrorCode(m))]
    /\ refused' = [refused EXCEPT ![p] = Append(@, m)]
    /\ UNCHANGED <<stateVars, driverVars, turnCount, towerLogs, pointers, instCounts, fileVars,
                   measured, meant>>

\* What a turn may leave of a tower that does not fall: the tower, upgraded or
\* not and, except for the base, damaged or not.
Fates(t) ==
    LET upgraded == IF t.level < MaxLevel THEN {[t EXCEPT !.level = @ + 1, !.hp = MaxHp]} ELSE {}
        standing == upgraded \cup IF t.hp > 0 THEN {t} ELSE {} IN
    UNION {{[u EXCEPT !.hp = h] : h \in IF u.isBase THEN {u.hp} ELSE 0 .. u.hp} : u \in standing}

\* The towers that stay on the list s, by their places, in order.
Places(s) ==
    {at \in UNION {[1 .. n -> DOMAIN s] : n \in 0 .. Len(s)} :
        /\ \A i, j \in DOMAIN at : i < j => at[i] < at[j]
        /\ \A k \in DOMAIN s : s[k].isBase => \E i \in DOMAIN at : at[i] = k}

\* The lists that may be left of the towers s.
Remains(s) ==
    UNION {{u \in [DOMAIN at -> UNION {Fates(s[k]) : k \in DOMAIN s}] :
               \A i \in DOMAIN at : u[i] \in Fates(s[at[i]])} : at \in Places(s)}

\* State::Update.  The first player's towers are built before the second's.
Update ==
    /\ place = "execute"
    /\ \E old0 \in Remains(towers[0]), old1 \in Remains(towers[1]),
          new0, new1 \in 0 .. ActorIdBound - nextId :
        LET built(n, first) == [i \in 1 .. n |-> NewTower(first + i - 1)] IN
        /\ nextId' = nextId + new0 + new1
        /\ nextId' <= ActorIdBound
        /\ towers' = [p \in Players |->
                        IF p = 0 THEN old0 \o built(new0, nextId)
                        ELSE old1 \o built(new1, nextId + new0)]
    /\ place' = "log"
    /\ rounds' = rounds + 1
    /\ UNCHANGED <<who, turnCount, towerLogs, pointers, instCounts, errorMap, errors, fileVars,
                   history>>

-----------------------------------------------------------------------------
(* LogState.                                                               *)

\* A tower's message; the fields that are not set read as zero.
Message(p, t) ==
    [id |-> t.id, player |-> p, hp |-> t.hp, level |-> t.level, isBase |-> t.isBase,
     isDead |-> FALSE]
Change(p, t) == [Message(p, t) EXCEPT !.isBase = FALSE]
Death(e) == [id |-> e.id, player |-> 0, hp |-> 0, level |-> 0, isBase |-> FALSE, isDead |-> TRUE]

\* A tower as a reader has it.
Shown(m) == [id |-> m.id, player |-> m.player, hp |-> m.hp, level |-> m.level, isBase |-> m.isBase]

\* What a reader should have.
TowersNow ==
    UNION {{Shown(Message(p, towers[p][i])) : i \in DOMAIN towers[p]} : p \in Players}

\* A message is added to the frame: a reader removes the tower if it is dead,
\* changes it if it knows it, and has a new one otherwise.
Send(m) ==
    LET known == {t \in replay : t.id = m.id} IN
    replay' = (replay \ known) \cup
        IF m.isDead THEN {}
        ELSE IF known = {} THEN {Shown(m)}
        ELSE {[t EXCEPT !.hp = m.hp, !.level = m.level] : t \in known}

\* The first turn: all towers.
LogFirstTowers ==
    /\ place = "log"
    /\ turnCount = 0
    /\ turnCount' = 1
    /\ towerLogs' = [p \in Players |-> [i \in DOMAIN towers[p] |-> LogEntry(towers[p][i])]]
    /\ replay' = TowersNow
    /\ place' = "rest"
    /\ UNCHANGED <<stateVars, who, rounds, pointers, instCounts, errorMap, errors, legend,
                   history>>

\* Later turns: walk the lists of each player.
BeginWalk ==
    /\ place = "log"
    /\ turnCount > 0
    /\ turnCount' = turnCount + 1
    /\ logPtr' = 1
    /\ towerPtr' = 1
    /\ place' = "walk"
    /\ UNCHANGED <<stateVars, who, rounds, towerLogs, instCounts, errorMap, errors, fileVars,
                   history>>

LogsLeft == logPtr <= Len(towerLogs[who])
TowersLeft == towerPtr <= Len(towers[who])

\* The tower is that of the log entry, and sent if it has changed.  It is
\* passed over if its id is less than that of the entry.
MatchTower ==
    LET t == towers[who][towerPtr]
        e == towerLogs[who][logPtr] IN
    /\ place = "walk"
    /\ LogsLeft /\ TowersLeft
    /\ e.id >= t.id
    /\ IF e.id = t.id /\ e # LogEntry(t)
       THEN Send(Change(who, t)) /\ towerLogs' = [towerLogs EXCEPT ![who][logPtr] = LogEntry(t)]
       ELSE UNCHANGED <<replay, towerLogs>>
    /\ logPtr' = logPtr + 1
    /\ towerPtr' = towerPtr + 1
    /\ UNCHANGED <<stateVars, driverVars, turnCount, instCounts, errorMap, errors, legend,
                   history>>

\* Mutant: the entry after the one that is erased is passed over.
LoseTowerAndSkip ==
    /\ place = "walk"
    /\ LogsLeft
    /\ TowersLeft => towerLogs[who][logPtr].id < towers[who][towerPtr].id
    /\ Send(Death(towerLogs[who][logPtr]))
    /\ towerLogs' = [towerLogs EXCEPT ![who] = RemoveAt(@, logPtr)]
    /\ logPtr' = logPtr + 1
    /\ UNCHANGED <<stateVars, driverVars, turnCount, towerPtr, instCounts, errorMap, errors,
                   legend, history>>

\* The tower of the log entry is gone.
LoseTower ==
    /\ place = "walk"
    /\ LogsLeft
    /\ TowersLeft => towerLogs[who][logPtr].id < towers[who][towerPtr].id
    /\ Send(Death(towerLogs[who][logPtr]))
    /\ towerLogs' = [towerLogs EXCEPT ![who] = RemoveAt(@, logPtr)]
    /\ UNCHANGED <<stateVars, driverVars, turnCount, pointers, instCounts, errorMap, errors,
                   legend, history>>

\* What remains of the towers are new ones.
MeetTower ==
    LET t == towers[who][towerPtr] IN
    /\ place = "walk"
    /\ ~LogsLeft /\ TowersLeft
    /\ Send(Message(who, t))
    /\ towerLogs' = [towerLogs EXCEPT ![who] = Append(@, LogEntry(t))]
    /\ towerPtr' = towerPtr + 1
    /\ logPtr' = logPtr + 1
    /\ UNCHANGED <<stateVars, driverVars, turnCount, instCounts, errorMap, errors, legend,
                   history>>

\* The next player, or the rest of the frame.
EndWalk ==
    /\ place = "walk"
    /\ ~LogsLeft /\ ~TowersLeft
    /\ logPtr' = 1
    /\ towerPtr' = 1
    /\ who' = 1 - who
    /\ place' = IF who = 1 THEN "rest" ELSE "walk"
    /\ UNCHANGED <<stateVars, rounds, turnCount, towerLogs, instCounts, errorMap, errors, fileVars,
                   history>>

\* What is known of this turn's errors.
Meanings == UNION {{<<errors[p][k], refused[p][k]>> : k \in DOMAIN refused[p]} : p \in Players}

\* Mutant: the errors are not cleared.
LogRestKeepsErrors ==
    /\ place = "rest"
    /\ instCounts' = NobodysCounts
    /\ UNCHANGED errors
    /\ measured' = NobodysCounts
    /\ refused' = NoErrors
    /\ meant' = meant \cup Meanings
    /\ place' = "counts"
    /\ UNCHANGED <<stateVars, who, rounds, turnCount, towerLogs, pointers, errorMap, fileVars>>

\* The instruction counts and errors of the turn go into the frame.
LogRest ==
    /\ place = "rest"
    /\ instCounts' = NobodysCounts
    /\ errors' = NoErrors
    /\ measured' = NobodysCounts
    /\ refused' = NoErrors
    /\ meant' = meant \cup Meanings
    /\ place' = "counts"
    /\ UNCHANGED <<stateVars, who, rounds, turnCount, towerLogs, pointers, errorMap, fileVars>>

-----------------------------------------------------------------------------
(* The end of the game, after the last round or by a forfeit, a time-out   *)
(* or a cancellation in the middle of a turn: LogFinalGameParams turns the *)
(* error map round, WriteGame writes the file.                             *)

WriteGame ==
    /\ place \in {"counts", "decide"}
    /\ legend' = [c \in {errorMap[m] : m \in DOMAIN errorMap} |->
                     CHOOSE m \in DOMAIN errorMap : errorMap[m] = c]
    /\ place' = "closed"
    /\ UNCHANGED <<stateVars, who, rounds, turnCount, towerLogs, pointers, instCounts, errorMap,
                   errors, replay, history>>

-----------------------------------------------------------------------------

Round ==
    \/ \E n \in Counts : LogInstructionCount(n)
    \/ Proceed
    \/ \E p \in Players, m \in Messages : LogError(p, m)
    \/ Update

LogState ==
    \/ LogFirstTowers
    \/ BeginWalk
    \/ MatchTower
    \/ LoseTower
    \/ MeetTower
    \/ EndWalk
    \/ LogRest

Next == Round \/ LogState \/ WriteGame

Spec == Init /\ [][Next]_vars

-----------------------------------------------------------------------------
(* Properties.                                                             *)

InLogState == place \in {"log", "walk", "rest"}

\* The frames hold only what has changed, found by a walk that relies on the
\* order of the ids.  Whatever towers fell, rose and were upgraded in the same
\* turn, a reader of the frames has every player's towers as they are.
ReplayGivesTowers ==
    ~InLogState => replay = TowersNow

\* A frame that is written has the counts and errors of its own turn, all of them
\* and none left over from the turn before.  Nothing is said of a turn that a
\* forfeit breaks off, for which the code writes no frame.
FramesAreOfTheirTurn ==
    place = "rest" =>
        /\ instCounts = measured
        /\ errors = [p \in Players |-> [k \in DOMAIN refused[p] |-> errorMap[refused[p][k]]]]

\* The legend at the end of the file explains every error code in its frames,
\* those of the first as well as those of the last turn.
LegendExplainsErrors ==
    place = "closed" => \A e \in meant : e[1] \in DOMAIN legend /\ legend[e[1]] = e[2]
=============================================================================
