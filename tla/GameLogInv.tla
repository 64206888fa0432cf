----------------------------- MODULE GameLogInv -----------------------------
(***************************************************************************)
(* The inductive invariant of GameLog: why the walk over the towers and    *)
(* the log entries finds exactly what has changed, and why the codes of    *)
(* messages keep their meaning.  GameLogProofs proves it inductive.        *)
(***************************************************************************)
EXTENDS GameLog

Tower == [id : Nat, hp : Nat, level : Nat, isBase : BOOLEAN]
Entry == [id : Nat, hp : Nat, level : Nat]

\* Types.
TypeOK ==
    /\ towers \in [Players -> Seq(Tower)]
    /\ nextId \in Nat
    /\ place \in {"log", "walk", "rest", "counts", "decide", "execute", "closed"}
    /\ who \in Players
    /\ rounds \in Nat
    /\ turnCount \in Nat
    /\ towerLogs \in [Players -> Seq(Entry)]
    /\ logPtr \in Nat \ {0}
    /\ towerPtr \in Nat \ {0}
    /\ instCounts \in [Players -> Nat]
    /\ errors \in [Players -> Seq(Nat)]
    /\ refused \in [Players -> Seq(Messages)]

-----------------------------------------------------------------------------
(* Turns, counts and errors.                                               *)

\* The frame of a round is written before the next round begins.
TurnsAgree ==
    /\ turnCount = IF place = "log" THEN rounds ELSE rounds + 1
    /\ place \in {"log", "rest", "decide", "execute"} => who = 0

\* The codes of the messages so far are the first natural numbers.
CodesDiffer ==
    /\ IsFiniteSet(DOMAIN errorMap)
    /\ errorMap \in [DOMAIN errorMap -> 0 .. Cardinality(DOMAIN errorMap) - 1]
    /\ \A m, n \in DOMAIN errorMap : errorMap[m] = errorMap[n] => m = n

\* The logger has the counts and errors of this round, and of no other.
OfThisRound ==
    /\ instCounts = measured
    /\ \A p \in Players :
        /\ Len(errors[p]) = Len(refused[p])
        /\ \A k \in DOMAIN refused[p] :
             refused[p][k] \in DOMAIN errorMap /\ errors[p][k] = errorMap[refused[p][k]]

\* The codes in the frames still stand for what they stood for.
CodesKeepMeaning ==
    /\ \A e \in meant : e[2] \in DOMAIN errorMap /\ errorMap[e[2]] = e[1]
    /\ place = "closed" =>
         legend = [c \in {errorMap[m] : m \in DOMAIN errorMap} |->
                     CHOOSE m \in DOMAIN errorMap : errorMap[m] = c]

-----------------------------------------------------------------------------
(* Towers and what is logged of them.                                      *)

TowerIds(p) == {towers[p][i].id : i \in DOMAIN towers[p]}
LoggedIds(p) == {towerLogs[p][j].id : j \in DOMAIN towerLogs[p]}

\* The ids of a player's towers rise along the list, and so do those logged.
IdsRise(p) ==
    /\ \A i, j \in DOMAIN towers[p] : i < j => towers[p][i].id < towers[p][j].id
    /\ \A i, j \in DOMAIN towerLogs[p] : i < j => towerLogs[p][i].id < towerLogs[p][j].id

\* Ids are given once: the bases have those of their players, and a player has
\* none of the other's.
IdsAreTaken ==
    /\ nextId >= 2
    /\ \A p \in Players : \A id \in TowerIds(p) \cup LoggedIds(p) : id < nextId
    /\ (TowerIds(0) \cup LoggedIds(0)) \cap (TowerIds(1) \cup LoggedIds(1)) = {}
    /\ \A p \in Players : \A i \in DOMAIN towers[p] :
         towers[p][i].isBase <=> towers[p][i].id = p

\* A tower that is not logged is newer than all that are.
OldOrNew(p) ==
    \A i \in DOMAIN towers[p] :
        \/ towers[p][i].id \in LoggedIds(p)
        \/ \A id \in LoggedIds(p) : id < towers[p][i].id

\* The entries are those of the towers.
Logged(p) ==
    /\ Len(towerLogs[p]) = Len(towers[p])
    /\ \A i \in DOMAIN towers[p] : towerLogs[p][i] = LogEntry(towers[p][i])

\* During the walk both pointers are at the same place, and up to it the
\* entries are those of the towers.
WalkIsInStep ==
    /\ place \notin {"log", "walk"} => \A p \in Players : Logged(p)
    /\ place = "walk" =>
        /\ who = 1 => Logged(0)
        /\ logPtr = towerPtr
        /\ \A i \in 1 .. logPtr - 1 :
             /\ i \in DOMAIN towers[who] /\ i \in DOMAIN towerLogs[who]
             /\ towerLogs[who][i] = LogEntry(towers[who][i])

\* What a reader makes of an entry.
AsRead(p, e) ==
    [id |-> e.id, player |-> p, hp |-> e.hp, level |-> e.level, isBase |-> e.id = p]

\* A reader has what is logged.
ReaderHasTheLog ==
    replay = UNION {{AsRead(p, towerLogs[p][j]) : j \in DOMAIN towerLogs[p]} : p \in Players}

LogInv ==
    /\ TypeOK
    /\ TurnsAgree
    /\ CodesDiffer
    /\ OfThisRound
    /\ CodesKeepMeaning
    /\ \A p \in Players : IdsRise(p) /\ OldOrNew(p)
    /\ IdsAreTaken
    /\ WalkIsInStep
    /\ ReaderHasTheLog
=============================================================================
