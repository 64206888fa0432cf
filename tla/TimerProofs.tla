----------------------------- MODULE TimerProofs -----------------------------
(***************************************************************************)
(* Proofs about Timer, for any number of runs, any duration and any        *)
(* wake-up time: the threads that successive runs leave behind do not get  *)
(* in each other's way, and what a client relies on holds.                 *)
(***************************************************************************)
EXTENDS Timer, TLAPS

\* Threads are born in the order of the runs.
BornInOrder == \A r \in Runs : thread[r] = "unborn" <=> r > started

\* The cancel flag is up during Cancel only, and Cancel is asked of every run
\* there has been, of the running one in particular.
CancelPart ==
    /\ cancel <=> owner = "cancel"
    /\ owner = "cancel" => Started \subseteq asked
    /\ owner = "cancel" /\ isRunning => started \in askedRunning

\* A thread sleeps only short of the total, and once woken while Cancel waits
\* it does not sleep again.
SleepPart ==
    \A r \in Runs : thread[r] = "sleep" =>
        /\ curDuration < Total
        /\ owner = "cancel" => wakeUps = 0

\* The inductive invariant.
IInv ==
    /\ TypeOK
    /\ BornInOrder
    /\ OneCountingThread
    /\ CancelPart
    /\ SleepPart
    /\ StopsEarlyOnlyIfCancelled
    /\ CancelBlocksOneWakeUp

-----------------------------------------------------------------------------

LEMMA InitIInv == Init => IInv
<1> SUFFICES ASSUME Init PROVE IInv
    OBVIOUS
<1> USE TimerAssumption DEF TimerAssumption, Init, Runs
<1>1. TypeOK
  <2>1. 0 < Total + WakeUp /\ 0 \in 0 .. MaxRuns
      OBVIOUS
  <2> QED
      BY <2>1 DEF TypeOK, Places
<1>2. OneCountingThread
    BY DEF OneCountingThread, Counting
<1>3. BornInOrder /\ CancelPart /\ SleepPart /\ StopsEarlyOnlyIfCancelled /\ CancelBlocksOneWakeUp
    BY DEF BornInOrder, CancelPart, SleepPart, StopsEarlyOnlyIfCancelled, CancelBlocksOneWakeUp
<1> QED
    BY <1>1, <1>2, <1>3 DEF IInv

\* OneCountingThread thread by thread.
OneCounts(r) == thread[r] \in {"copy", "test", "sleep", "stop"} <=> isRunning /\ r = started

LEMMA OneCountsPointwise ==
    OneCountingThread <=>
        /\ isRunning => started \in Runs
        /\ \A r \in Runs : OneCounts(r)
<1>1. ASSUME OneCountingThread PROVE isRunning => started \in Runs
    BY <1>1 DEF OneCountingThread, Counting
<1>2. ASSUME OneCountingThread, NEW r \in Runs PROVE OneCounts(r)
  <2>1. r \in Counting <=> isRunning /\ r = started
      BY <1>2 DEF OneCountingThread
  <2> QED
      BY <2>1 DEF OneCounts, Counting
<1>3. ASSUME isRunning => started \in Runs, \A r \in Runs : OneCounts(r)
      PROVE  OneCountingThread
    BY <1>3 DEF OneCountingThread, Counting, OneCounts
<1> QED
    BY <1>1, <1>2, <1>3

LEMMA TypePreserved ==
    ASSUME IInv, [Next]_vars
    PROVE  TypeOK'
<1> USE TimerAssumption DEF TimerAssumption, IInv, TypeOK, Runs, Places, shared, history
<1>1. CASE Start
    BY <1>1 DEF Start
<1>2. CASE StartReturn
    BY <1>2 DEF StartReturn
<1>3. CASE CancelCall
  <2>1. isRunning => started \in Started
      BY OneCountsPointwise DEF Started
  <2>2. Started \subseteq Runs
      BY DEF Started
  <2> QED
      BY <1>3, <2>1, <2>2 DEF CancelCall
<1>4. CASE CancelReturn
    BY <1>4 DEF CancelReturn
<1>5. ASSUME NEW r \in Runs, ThreadStep(r) PROVE TypeOK'
  <2>1. CASE Copy(r)
      BY <1>5, <2>1 DEF Copy, Goto
  <2>2. CASE Test(r)
      BY <1>5, <2>2 DEF Test, Goto
  <2>3. CASE Sleep(r)
    <3>1. curDuration < Total
        BY <1>5, <2>3 DEF Sleep, SleepPart
    <3> QED
        BY <1>5, <2>3, <3>1 DEF Sleep, Goto
  <2>4. CASE Stop(r) \/ Check(r) \/ Call(r)
      BY <1>5, <2>4 DEF Stop, Check, Call, Goto
  <2> QED
      BY <1>5, <2>1, <2>2, <2>3, <2>4 DEF ThreadStep
<1>6. CASE UNCHANGED vars
    BY <1>6 DEF vars
<1> QED
    BY <1>1, <1>2, <1>3, <1>4, <1>5, <1>6 DEF Next

\* Threads stay in order, only one counts, and its sleep is short of the total.
LEMMA CountingPreserved ==
    ASSUME IInv, [Next]_vars
    PROVE  BornInOrder' /\ OneCountingThread' /\ SleepPart'
<1>0. /\ TypeOK /\ BornInOrder /\ SleepPart /\ (cancel <=> owner = "cancel")
      /\ isRunning => started \in Runs
      /\ \A r \in Runs : OneCounts(r)
    BY OneCountsPointwise DEF IInv, CancelPart
<1> SUFFICES /\ BornInOrder' /\ SleepPart'
             /\ isRunning' => started' \in Runs
             /\ \A r \in Runs : OneCounts(r)'
  <2>1. (OneCountingThread <=>
            /\ isRunning => started \in Runs
            /\ \A r \in Runs : OneCounts(r))'
      BY OneCountsPointwise, PTL
  <2> QED
      BY <2>1
<1> USE <1>0, TimerAssumption DEF TimerAssumption, TypeOK, Runs, shared, history, BornInOrder,
       OneCounts, SleepPart
<1>1. CASE Start
    BY <1>1 DEF Start
<1>2. CASE StartReturn
    BY <1>2 DEF StartReturn
<1>3. CASE CancelCall
    BY <1>3 DEF CancelCall
<1>4. CASE CancelReturn
    BY <1>4 DEF CancelReturn
<1>5. ASSUME NEW r \in Runs, ThreadStep(r)
      PROVE  /\ BornInOrder' /\ SleepPart'
             /\ isRunning' => started' \in Runs
             /\ \A q \in Runs : OneCounts(q)'
  <2>1. CASE Copy(r)
      BY <1>5, <2>1 DEF Copy, Goto
  <2>2. CASE Test(r)
      BY <1>5, <2>2 DEF Test, Goto, KeepsCounting
  <2>3. CASE Sleep(r)
      BY <1>5, <2>3 DEF Sleep, Goto
  <2>4. CASE Stop(r)
      BY <1>5, <2>4 DEF Stop, Goto
  <2>5. CASE Check(r) \/ Call(r)
    <3>1. /\ thread[r] \in {"check", "call"}
          /\ thread'[r] \in {"call", "dropped", "fired", "lost"}
          /\ \A q \in Runs \ {r} : thread'[q] = thread[q]
          /\ UNCHANGED <<isRunning, cancel, curDuration, owner, started, wakeUps>>
        BY <2>5 DEF Check, Call, Goto
    <3> QED
        BY <3>1
  <2> QED
      BY <1>5, <2>1, <2>2, <2>3, <2>4, <2>5 DEF ThreadStep
<1>6. CASE UNCHANGED vars
    BY <1>6 DEF vars
<1> QED
    BY <1>1, <1>2, <1>3, <1>4, <1>5, <1>6 DEF Next

\* The cancel flag of one run does not outlive its Cancel.
LEMMA CancelPreserved ==
    ASSUME IInv, [Next]_vars
    PROVE  CancelPart' /\ StopsEarlyOnlyIfCancelled' /\ CancelBlocksOneWakeUp'
<1> USE TimerAssumption DEF TimerAssumption, IInv, TypeOK, Runs, shared, history, CancelPart,
       StopsEarlyOnlyIfCancelled, CancelBlocksOneWakeUp, Started
<1>1. CASE Start
    BY <1>1 DEF Start, BornInOrder
<1>2. CASE StartReturn
    BY <1>2 DEF StartReturn
<1>3. CASE CancelCall
    BY <1>3 DEF CancelCall
<1>4. CASE CancelReturn
    BY <1>4 DEF CancelReturn
<1>5. ASSUME NEW r \in Runs, ThreadStep(r)
      PROVE  CancelPart' /\ StopsEarlyOnlyIfCancelled' /\ CancelBlocksOneWakeUp'
  <2>0. thread[r] \in {"test", "sleep", "stop"} => isRunning /\ r = started
      BY DEF OneCountingThread, Counting
  <2>1. CASE Copy(r)
      BY <1>5, <2>1 DEF Copy, Goto
  <2>2. CASE Test(r)
      BY <1>5, <2>0, <2>2 DEF Test, Goto, KeepsCounting
  <2>3. CASE Sleep(r)
      BY <1>5, <2>3 DEF Sleep, Goto, SleepPart
  <2>4. CASE Stop(r) \/ Check(r) \/ Call(r)
      BY <1>5, <2>4 DEF Stop, Check, Call, Goto
  <2> QED
      BY <1>5, <2>1, <2>2, <2>3, <2>4 DEF ThreadStep
<1>6. CASE UNCHANGED vars
    BY <1>6 DEF vars
<1> QED
    BY <1>1, <1>2, <1>3, <1>4, <1>5, <1>6 DEF Next

-----------------------------------------------------------------------------
(* Theorems.                                                               *)

\* The invariant holds in every state.
THEOREM Invariance == Spec => []IInv
<1>1. Init => IInv
    BY InitIInv
<1>2. IInv /\ [Next]_vars => IInv'
    BY TypePreserved, CountingPreserved, CancelPreserved DEF IInv
<1> QED
    BY <1>1, <1>2, PTL DEF Spec

\* Types, for any number of runs; cur_duration overshoots by less than a wake-up.
THEOREM TypeCorrect == Spec => []TypeOK
<1>1. IInv => TypeOK
    BY DEF IInv
<1> QED
    BY <1>1, Invariance, PTL

\* The plain int cur_duration is never counted by two threads of one timer,
\* however many detached threads of earlier runs are still around.
THEOREM NoTwoCount == Spec => []OneCountingThread
<1>1. IInv => OneCountingThread
    BY DEF IInv
<1> QED
    BY <1>1, Invariance, PTL

\* No run stops short of its total on account of a Cancel of another run.
THEOREM EarlyStopsAreAsked == Spec => []StopsEarlyOnlyIfCancelled
<1>1. IInv => StopsEarlyOnlyIfCancelled
    BY DEF IInv
<1> QED
    BY <1>1, Invariance, PTL

\* Cancel waits for one wake-up at most, whatever the durations are.
THEOREM CancelIsPrompt == Spec => []CancelBlocksOneWakeUp
<1>1. IInv => CancelBlocksOneWakeUp
    BY DEF IInv
<1> QED
    BY <1>1, Invariance, PTL

-----------------------------------------------------------------------------
(* Timer implements the safety part of its contract.                       *)

\* A thread that goes from one of the armed places to another is no news to
\* the client.
LEMMA SilentMove ==
    ASSUME TypeOK, NEW r \in Runs, NEW place \in Places, Goto(r, place),
           thread[r] \notin {"unborn", "fired", "dropped", "lost"},
           place \notin {"unborn", "fired", "dropped", "lost"}
    PROVE  UNCHANGED Status
<1>1. thread'[r] = place /\ \A q \in Runs \ {r} : thread'[q] = thread[q]
    BY DEF Goto, TypeOK
<1> QED
    BY <1>1 DEF Status

\* One that ends is seen with its outcome.
LEMMA Outcome ==
    ASSUME TypeOK, NEW r \in Runs, NEW place \in {"fired", "dropped", "lost"}, Goto(r, place),
           thread[r] \notin {"unborn", "fired", "dropped", "lost"}
    PROVE  Status[r] = "armed" /\ Status' = [Status EXCEPT ![r] = place]
<1>1. thread'[r] = place /\ \A q \in Runs \ {r} : thread'[q] = thread[q]
    BY DEF Goto, TypeOK
<1>2. Status[r] = "armed"
    BY DEF Status
<1>3. Status'[r] = place /\ \A q \in Runs \ {r} : Status'[q] = Status[q]
    BY <1>1 DEF Status
<1> QED
    BY <1>2, <1>3 DEF Status

\* Every step of the timer is one of the contract, or none.
LEMMA StepContract ==
    ASSUME IInv, [Next]_vars
    PROVE  [Contract!Next]_Contract!contractVars
<1> USE TimerAssumption DEF TimerAssumption, Runs, shared, history, Contract!contractVars
<1>0. TypeOK /\ BornInOrder /\ CancelPart
    BY DEF IInv
<1>1. CASE Start
  <2>1. started + 1 \in Runs /\ thread[started + 1] = "unborn"
      BY <1>0, <1>1 DEF Start, TypeOK, BornInOrder
  <2>2. /\ thread'[started + 1] = "copy"
        /\ \A q \in Runs \ {started + 1} : thread'[q] = thread[q]
      BY <1>0, <1>1 DEF Start, TypeOK
  <2>3. /\ Status[started + 1] = "unused" /\ Status'[started + 1] = "armed"
        /\ \A q \in Runs \ {started + 1} : Status'[q] = Status[q]
      BY <2>1, <2>2 DEF Status
  <2>4. Status' = [Status EXCEPT ![started + 1] = "armed"]
      BY <2>3 DEF Status
  <2> QED
      BY <1>1, <2>1, <2>3, <2>4 DEF Start, Contract!Next, Contract!Start
<1>2. CASE StartReturn \/ CancelReturn
    BY <1>2 DEF StartReturn, CancelReturn, Status
<1>3. CASE CancelCall
  <2>1. Started \subseteq Runs /\ UNCHANGED Status
      BY <1>0, <1>3 DEF CancelCall, Started, TypeOK, Status
  <2> QED
      BY <1>3, <2>1 DEF CancelCall, Contract!Next, Contract!Cancel
<1>4. ASSUME NEW r \in Runs, Copy(r) \/ Test(r) \/ Sleep(r) \/ Stop(r)
      PROVE  UNCHANGED <<Status, asked>>
    BY <1>0, <1>4, SilentMove DEF Copy, Test, Sleep, Stop, Places
<1>5. ASSUME NEW r \in Runs, Check(r)
      PROVE  [Contract!Next]_Contract!contractVars
  <2>1. CASE cancel
    <3>1. r \in asked
        BY <1>0, <1>5, <2>1 DEF Check, BornInOrder, CancelPart, Started, TypeOK
    <3>2. Status[r] = "armed" /\ Status' = [Status EXCEPT ![r] = "dropped"]
        BY <1>0, <1>5, <2>1, Outcome DEF Check
    <3> QED
        BY <1>5, <3>1, <3>2 DEF Check, Contract!Next, Contract!Resolve, Contract!Drop
  <2>2. CASE ~cancel
      BY <1>0, <1>5, <2>2, SilentMove DEF Check, Places
  <2> QED
      BY <2>1, <2>2
<1>6. ASSUME NEW r \in Runs, Call(r)
      PROVE  [Contract!Next]_Contract!contractVars
  <2>1. CASE callback[r] = "given"
    <3>1. Status[r] = "armed" /\ Status' = [Status EXCEPT ![r] = "fired"]
        BY <1>0, <1>6, <2>1, Outcome DEF Call
    <3> QED
        BY <1>6, <3>1 DEF Call, Contract!Next, Contract!Resolve, Contract!Fire
  <2>2. CASE callback[r] # "given"
    <3>1. Status[r] = "armed" /\ Status' = [Status EXCEPT ![r] = "lost"]
        BY <1>0, <1>6, <2>2, Outcome DEF Call
    <3> QED
        BY <1>6, <3>1 DEF Call, Contract!Next, Contract!Resolve, Contract!Lose
  <2> QED
      BY <2>1, <2>2
<1>7. CASE UNCHANGED vars
    BY <1>7 DEF vars, Status
<1> QED
    BY <1>1, <1>2, <1>3, <1>4, <1>5, <1>6, <1>7 DEF Next, ThreadStep

\* Whatever the threads and the owner do, a client sees runs that are armed
\* and then fired, lost, or dropped after a Cancel, each of them once.
THEOREM KeepsItsContract ==
    Spec => Contract!Init /\ [][Contract!Next]_Contract!contractVars
<1>1. Init => Contract!Init
    BY DEF Init, Contract!Init, Status
<1>2. IInv /\ [Next]_vars => [Contract!Next]_Contract!contractVars
    BY StepContract
<1> QED
    BY <1>1, <1>2, Invariance, PTL DEF Spec
=============================================================================
