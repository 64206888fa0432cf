\* Three runs; 15 ms is no multiple of the 10 ms wake-up.
SPECIFICATION Spec
CONSTANTS
    MaxRuns = 3
    Total = 15
    WakeUp = 10
INVARIANT CancelledFiresOnlyNearExpiry
