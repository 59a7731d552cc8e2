CONSTANTS
    Clients = {c1, c2, c3}
    Lengths <- MCLengths
    Listener = 0
    MAX_CLIENTS = 1
    MAX_BUFFER = 2
    MaxBehind = 1

SPECIFICATION FairSpec

INVARIANTS
    TypeOK
    CommandsWhole
    NoDescriptorLost

PROPERTIES
    EveryClientServed
    ServerSpec

\* Every client connects once; then the server waits for ever.
CHECK_DEADLOCK FALSE
