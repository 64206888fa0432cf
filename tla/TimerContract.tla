--------------------------- MODULE TimerContract ---------------------------
(***************************************************************************)
(* What a client of drivers::Timer (timer.h) can rely on, one run of the   *)
(* timer (one accepted call of Start) at a time.  Timer implements it, and *)
(* Drivers composes the game timers of the processes out of it.            *)
(***************************************************************************)
CONSTANT Runs       \* one element for each accepted call of Start

VARIABLES
    status,         \* status[r]: what became of the callback of run r
    asked           \* the runs a Cancel was asked for, at any time since they started

contractVars == <<status, asked>>

Statuses == {"unused", "armed", "fired", "dropped", "lost"}

Init ==
    /\ status = [r \in Runs |-> "unused"]
    /\ asked = {}

\* Start: the run is armed.
Start(r) ==
    /\ status[r] = "unused"
    /\ status' = [status EXCEPT ![r] = "armed"]
    /\ UNCHANGED asked

\* Cancel: it concerns the armed runs of the timer it is called on.
Cancel(R) ==
    /\ asked' = asked \cup R
    /\ UNCHANGED status

\* The callback is called.  Cancel does not rule it out: see Timer.
Fire(r) ==
    /\ status[r] = "armed"
    /\ status' = [status EXCEPT ![r] = "fired"]
    /\ UNCHANGED asked

\* The callback is dropped, which only a Cancel can bring about.
Drop(r) ==
    /\ status[r] = "armed"
    /\ r \in asked
    /\ status' = [status EXCEPT ![r] = "dropped"]
    /\ UNCHANGED asked

\* The callback was destroyed before the timer's thread had copied it.
Lose(r) ==
    /\ status[r] = "armed"
    /\ status' = [status EXCEPT ![r] = "lost"]
    /\ UNCHANGED asked

Resolve(r) == Fire(r) \/ Drop(r) \/ Lose(r)

Next ==
    \/ \E r \in Runs : Start(r) \/ Resolve(r)
    \/ \E R \in SUBSET Runs : Cancel(R)

\* Every armed run is resolved: the timer's thread does not stop.
Spec ==
    /\ Init
    /\ [][Next]_contractVars
    /\ \A r \in Runs : WF_contractVars(Resolve(r))
=============================================================================
