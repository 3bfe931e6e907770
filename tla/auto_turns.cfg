SPECIFICATION FairSpec
CONSTANTS
    t1 = t1
    j1 = j1
    n1 = n1
    w1 = w1
    s1 = s1
    s2 = s2
    r1 = r1
    r2 = r2
    Tasks <- MCTasks
    Scheduled <- MCScheduled
    Notes <- MCNotes
    Wakeups <- MCWakeups
    Slots <- MCSlots
    Runs <- MCRuns
    None = None
    MaxQueue = 2
INVARIANTS
    OnePlace
PROPERTIES
    StopHolds
    QueueEmpties
CHECK_DEADLOCK FALSE
