SPECIFICATION FairSpec
CONSTANTS
    MaxThreadNum = 3
    SleepArgs <- MCSleepArgs
    CounterMod = 3
INVARIANTS
    TypeOK
    Bookkeeping
    MainSchedulable
    QuantumAccounting
PROPERTIES
    NoOvertaking
    LifecycleSpec
    ReadyThreadsRun
    SleepersWake
CHECK_DEADLOCK FALSE
