SPECIFICATION SpuriousSpec
CONSTANTS
    MultiThreadLevel = 2
    NumInputs = 2
    Keys <- MCTwoKeys
    MaxSpurious = 1
INVARIANTS
    PhasesSeparated
