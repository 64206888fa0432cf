------------------------------- MODULE Timer -------------------------------
(***************************************************************************)
(* drivers::Timer (drivers/src/timer.cpp): a timer whose every accepted    *)
(* Start spawns a detached thread.  One owner thread (the game driver)     *)
(* calls Start and Cancel; the threads of successive runs share            *)
(* is_running, cancel and cur_duration with it and with each other.        *)
(*                                                                         *)
(* A call of Start that finds is_running set returns false and changes     *)
(* nothing, so it is no action here.                                       *)
(***************************************************************************)
EXTENDS Naturals, FiniteSets

CONSTANTS
    MaxRuns,        \* bound: how many times Start is accepted
    Total,          \* total_timer_duration, in ms
    WakeUp          \* timer_wake_up_duration, in ms

ASSUME TimerAssumption ==
    /\ MaxRuns \in Nat
    /\ Total \in Nat
    /\ WakeUp \in Nat \ {0}

Runs == 1..MaxRuns

VARIABLES
    isRunning,      \* is_running
    cancel,         \* cancel
    curDuration,    \* cur_duration, in ms
    owner,          \* where the owner is: "idle", in "start" or in "cancel"
    started,        \* how many Starts were accepted
    thread,         \* thread[r]: where the thread of run r is
    callback,       \* callback[r]: what that thread holds as its callback
    \* history
    exitAt,         \* exitAt[r]: cur_duration when thread r left its loop
    asked,          \* runs for which Cancel was called at some time after their Start
    askedRunning,   \* runs for which Cancel was called while they were running
    wakeUps         \* wake-ups of the running thread during the present Cancel

vars == <<isRunning, cancel, curDuration, owner, started, thread, callback,
          exitAt, asked, askedRunning, wakeUps>>

shared  == <<isRunning, cancel, curDuration>>
history == <<exitAt, asked, askedRunning, wakeUps>>

Places == {"unborn", "copy", "test", "sleep", "stop", "check", "call",
           "fired", "dropped", "lost"}

Started == 1..started

Init ==
    /\ isRunning = FALSE
    /\ cancel = FALSE
    /\ curDuration = 0
    /\ owner = "idle"
    /\ started = 0
    /\ thread = [r \in Runs |-> "unborn"]
    /\ callback = [r \in Runs |-> "none"]
    /\ exitAt = [r \in Runs |-> 0]
    /\ asked = {}
    /\ askedRunning = {}
    /\ wakeUps = 0

-----------------------------------------------------------------------------
(* The owner.                                                              *)

\* Mutant: Start without its test of is_running.
StartUnguarded ==
    /\ owner = "idle"
    /\ started < MaxRuns
    /\ isRunning' = TRUE
    /\ curDuration' = 0
    /\ started' = started + 1
    /\ thread' = [thread EXCEPT ![started + 1] = "copy"]
    /\ owner' = "start"
    /\ UNCHANGED <<cancel, callback, history>>

\* Start accepts: flags set, thread spawned.  The callback is a by-value
\* parameter of Start, so it lives until StartReturn.
Start ==
    /\ owner = "idle"
    /\ ~isRunning
    /\ started < MaxRuns
    /\ isRunning' = TRUE
    /\ curDuration' = 0
    /\ started' = started + 1
    /\ thread' = [thread EXCEPT ![started + 1] = "copy"]
    /\ owner' = "start"
    /\ UNCHANGED <<cancel, callback, history>>

StartReturn ==
    /\ owner = "start"
    /\ owner' = "idle"
    /\ UNCHANGED <<shared, started, thread, callback, history>>

CancelCall ==
    /\ owner = "idle"
    /\ cancel' = TRUE
    /\ owner' = "cancel"
    /\ asked' = asked \cup Started
    /\ askedRunning' = IF isRunning THEN askedRunning \cup {started} ELSE askedRunning
    /\ wakeUps' = 0
    /\ UNCHANGED <<isRunning, curDuration, started, thread, callback, exitAt>>

\* Mutant: the flag is not reset.
CancelReturnKeepsFlag ==
    /\ owner = "cancel"
    /\ ~isRunning
    /\ owner' = "idle"
    /\ UNCHANGED <<shared, started, thread, callback, history>>

\* Cancel leaves its spin, resets the flag and returns.
CancelReturn ==
    /\ owner = "cancel"
    /\ ~isRunning
    /\ cancel' = FALSE
    /\ owner' = "idle"
    /\ UNCHANGED <<isRunning, curDuration, started, thread, callback, history>>

-----------------------------------------------------------------------------
(* The detached thread of run r.                                           *)

Goto(r, place) == thread' = [thread EXCEPT ![r] = place]

\* The thread copies the callback through the reference std::ref made.  Once
\* Start has returned the reference dangles: the copy may be anything.
Copy(r) ==
    /\ thread[r] = "copy"
    /\ \E c \in IF owner = "start" THEN {"given"} ELSE {"given", "garbage"} :
          callback' = [callback EXCEPT ![r] = c]
    /\ Goto(r, "test")
    /\ UNCHANGED <<shared, owner, started, history>>

\* Mutant: the loop does not look at cancel.
KeepsCountingRegardless == curDuration < Total

\* The condition of the while loop.
KeepsCounting == curDuration < Total /\ ~cancel

Test(r) ==
    /\ thread[r] = "test"
    /\ IF KeepsCounting
       THEN Goto(r, "sleep") /\ UNCHANGED exitAt
       ELSE Goto(r, "stop") /\ exitAt' = [exitAt EXCEPT ![r] = curDuration]
    /\ UNCHANGED <<shared, owner, started, callback, asked, askedRunning, wakeUps>>

Sleep(r) ==
    /\ thread[r] = "sleep"
    /\ curDuration' = curDuration + WakeUp
    /\ Goto(r, "test")
    /\ wakeUps' = IF owner = "cancel" THEN wakeUps + 1 ELSE wakeUps
    /\ UNCHANGED <<isRunning, cancel, owner, started, callback, exitAt, asked, askedRunning>>

\* Mutant: is_running is never given up.
StopSilently(r) ==
    /\ thread[r] = "stop"
    /\ Goto(r, "check")
    /\ UNCHANGED <<shared, owner, started, callback, history>>

Stop(r) ==
    /\ thread[r] = "stop"
    /\ isRunning' = FALSE
    /\ Goto(r, "check")
    /\ UNCHANGED <<cancel, curDuration, owner, started, callback, history>>

\* Mutant: a thread also gives up when the timer was started again meanwhile.
CheckAlsoRunning(r) ==
    /\ thread[r] = "check"
    /\ Goto(r, IF cancel \/ isRunning THEN "dropped" ELSE "call")
    /\ UNCHANGED <<shared, owner, started, callback, history>>

\* The second look at cancel, after is_running was given up.
Check(r) ==
    /\ thread[r] = "check"
    /\ Goto(r, IF cancel THEN "dropped" ELSE "call")
    /\ UNCHANGED <<shared, owner, started, callback, history>>

Call(r) ==
    /\ thread[r] = "call"
    /\ Goto(r, IF callback[r] = "given" THEN "fired" ELSE "lost")
    /\ UNCHANGED <<shared, owner, started, callback, history>>

ThreadStep(r) ==
    Copy(r) \/ Test(r) \/ Sleep(r) \/ Stop(r) \/ Check(r) \/ Call(r)

Next ==
    \/ Start
    \/ StartReturn
    \/ CancelCall
    \/ CancelReturn
    \/ \E r \in Runs : ThreadStep(r)

\* Threads are scheduled, and the owner completes a call it has begun.  Nothing
\* makes the owner call Start or Cancel.
Fairness ==
    /\ \A r \in Runs : WF_vars(ThreadStep(r))
    /\ WF_vars(StartReturn)
    /\ WF_vars(CancelReturn)

Spec == Init /\ [][Next]_vars /\ Fairness

-----------------------------------------------------------------------------
(* Properties.                                                             *)

\* Types; cur_duration overshoots the total by less than one wake-up.
TypeOK ==
    /\ isRunning \in BOOLEAN
    /\ cancel \in BOOLEAN
    /\ curDuration \in Nat
    /\ curDuration < Total + WakeUp
    /\ owner \in {"idle", "start", "cancel"}
    /\ started \in 0..MaxRuns
    /\ thread \in [Runs -> Places]
    /\ callback \in [Runs -> {"none", "given", "garbage"}]
    /\ exitAt \in [Runs -> Nat]
    /\ asked \subseteq Runs
    /\ askedRunning \subseteq asked
    /\ wakeUps \in Nat

Counting == {r \in Runs : thread[r] \in {"copy", "test", "sleep", "stop"}}

\* cur_duration is not atomic: Start and every thread that counts access it.
\* At most the thread of the latest run counts, and it does exactly while
\* is_running is set, so no two accesses race although old threads linger.
OneCountingThread == Counting = IF isRunning THEN {started} ELSE {}

\* A run stops counting short of its total only when Cancel was called during
\* that very run: the cancel flag of one run never leaks into the next.
StopsEarlyOnlyIfCancelled ==
    \A r \in Runs :
        (thread[r] \in {"stop", "check", "call", "fired", "dropped", "lost"} /\ exitAt[r] < Total)
            => r \in askedRunning

\* timer.h: Cancel "blocks for at most timer_wake_up_duration ms", so the
\* counting thread wakes up at most once while Cancel spins.
CancelBlocksOneWakeUp == wakeUps <= 1

\* Cancel always returns.
CancelReturns == owner = "cancel" ~> owner = "idle"

\* What has become of each run, as its client sees it.
Status ==
    [r \in Runs |->
        CASE thread[r] = "unborn" -> "unused"
          [] thread[r] \in {"fired", "dropped", "lost"} -> thread[r]
          [] OTHER -> "armed"]

\* What clients can rely on: a run that was not cancelled is never dropped, and
\* every run comes to one end, fired, dropped or lost.
Contract == INSTANCE TimerContract WITH status <- Status

\* Timer implements its contract, its liveness included.
ImplementsContract == Contract!Spec

\* timer.h: "Cancelled timer won't call callback unless it's very close to
\* expiring already", i.e. less than one wake-up short of its total.
CancelledFiresOnlyNearExpiry ==
    \A r \in Runs :
        (r \in askedRunning /\ thread[r] = "fired") => exitAt[r] + WakeUp >= Total
=============================================================================
