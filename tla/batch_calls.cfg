\* Batches of three calls on one slot.
SPECIFICATION MCSpec
CONSTANTS
    N = 3
    Cap = 1
    Paths <- MCPaths
    Keys <- MCKeys
    NoKey = "none"
    KeyOf <- MCKeyOf
    FileOf <- MCFileOf
    Profiles <- AllProfiles
INVARIANTS
    ConflictOrder
    OverlapOnlyByTimeout
    SameFileSerialized
PROPERTIES
    ImplementsOrder
    BatchTerminates
    AbortReleases
