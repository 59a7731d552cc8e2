SPECIFICATION Spec
CONSTANTS
    MaxThreadNum = 3
    SleepArgs <- MCSleepArgs
    CounterMod = 1
    MaxPreemptions = 1
INVARIANTS
    TimerArmedForThreads
    RunsItself
PROPERTIES
    CallsAreAtomic
CHECK_DEADLOCK FALSE
