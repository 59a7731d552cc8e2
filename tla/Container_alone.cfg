CONSTANTS
    Launchers <- MCLaunchers
    MaxRuns = 5

SPECIFICATION Spec

INVARIANTS
    TypeOK
    ProgramContained
    MountedOnceAndWhole
    CleanAfterSuccess

\* The launchers stop after MaxRuns runs.
CHECK_DEADLOCK FALSE
