SPECIFICATION FairSpec
CONSTANTS
    w1 = w1
    w2 = w2
    w3 = w3
    Writers <- MCWriters
    NoWriter = NoWriter
    Files <- MCFiles
    AgentOf <- TwoAgents
    Kinds <- MCKinds
INVARIANTS
    WritersHoldEntries
    ChainSerializes
    WaitsAreSound
PROPERTIES
    CallsAnswer
