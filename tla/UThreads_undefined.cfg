SPECIFICATION Spec
CONSTANTS
    MaxThreadNum = 3
    SleepArgs <- MCShortSleeps
    CounterMod = 1
INVARIANTS
    NoUndefinedBehaviour
CHECK_DEADLOCK FALSE
