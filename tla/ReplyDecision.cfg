SPECIFICATION Spec
CONSTANTS
    c1 = c1
    c2 = c2
    Convs = {c1, c2}
    Day = 3
    Offset = 1
    OpensAt = 2
    ClosesAt = 1
    HandsOff = TRUE
    Cap = 2
    NoCap = NoCap
    Costs = {1}
    ClassifyLimit = 1
    MaxTurns = 2
    Faults <- AllFaults
SYMMETRY Symmetry
INVARIANTS
    TypeOK
    ModelWordsAreClean
    SuspectIsSafe
    OneReplyAfterPause
    OvershootIsBounded
    HoursAreHonoured
    TurnIsSettled
CHECK_DEADLOCK FALSE
