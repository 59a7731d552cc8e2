CONSTANTS
    Launchers <- MCLaunchers
    MaxRuns = 1

SPECIFICATION Spec

INVARIANT SuccessMeansRan

\* The launchers stop after MaxRuns runs.
CHECK_DEADLOCK FALSE
