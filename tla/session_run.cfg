SPECIFICATION FairSpec
CONSTANTS
    a1 = a1
    a2 = a2
    q1 = q1
    Turns <- MCTurns
    Approvals <- MCApprovals
    Questions <- MCQuestions
    None = None
INVARIANTS
    StatusTells
    WaitsDieWithTurn
    ParkedCanResume
PROPERTIES
    StopEndsTurn
CHECK_DEADLOCK FALSE
