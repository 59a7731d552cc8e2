SPECIFICATION MCFairSpec
CONSTANTS
    MultiThreadLevel = 4
    NumInputs = 3
    Keys <- MCTwoKeys
    MaxSpurious = 0
INVARIANTS
    TypeOK
    ClaimsDistinct
    PairsConserved
    PhasesSeparated
    ReportedProgress
    WaitMeansDone
    TokensMatch
    NoStuckReducer
PROPERTIES
    ProgressMonotone
    JobSpec
    Termination
