SPECIFICATION FairSpec
CONSTANTS
    Msgs = {m1, m2}
    MaxTurns = 2
INVARIANTS
    OnePlace
PROPERTIES
    ImplementsBox
    ReturnedOnlyIfCut
    PlacedAsMeant
    SteeredMessagesMove
    InterruptEndsTurn
