SPECIFICATION Spec
CONSTANTS
    m1 = m1  m2 = m2  a = a
    Msgs = {m1}
    Class <- AllText
    SentAt <- Order
    Stale = {}
    Staff = {a}
    Ops = {"erase", "takeOver"}
    SeenLimit = 1
    MaxRows = 2
    Faults = {"reset", "fail", "lost"}
    MaxFaults = 1
INVARIANTS PersonHasTimer DeadlineIsArmed
PROPERTY KeepsLedger
CHECK_DEADLOCK FALSE
