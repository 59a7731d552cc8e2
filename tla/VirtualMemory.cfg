SPECIFICATION Spec
CONSTANTS
    OffsetWidth = 1
    VirtualAddressWidth = 4
    NumFrames = 5
    Addresses <- MCAddresses
    Values = {0, 1}
INVARIANTS
    TypeOK
    EachFrameOnce
    OnePlace
    PathIntact
    NoFrameLost
    CandidateExists
PROPERTIES
    FlatSpec
