SPECIFICATION FairSpec
CONSTANTS
    NumThreads = 4
    MaxRounds = 4
INVARIANTS
    NobodyLeavesEarly
PROPERTIES
    EverybodyPasses
CHECK_DEADLOCK FALSE
