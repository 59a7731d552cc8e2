SPECIFICATION Spec
CONSTANTS
    MaxThreadNum = 2
    SleepArgs <- MCShortSleeps
    CounterMod = 1
INVARIANTS
    SignalsUnblocked
CHECK_DEADLOCK FALSE
