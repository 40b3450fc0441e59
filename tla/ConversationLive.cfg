SPECIFICATION LiveSpec
CONSTANTS
    m1 = m1  m2 = m2  a = a
    Msgs = {m1, m2}
    Class <- OneFlagged
    SentAt <- Order
    Stale = {m2}
    Staff = {a}
    Ops = {"takeOver", "release", "sendHuman"}
    SeenLimit = 200
    MaxRows = 1
    Faults = {}
    MaxFaults = 0
INVARIANT FlaggedIsLogged
PROPERTIES NoSilence StaleHandoffReturns
CHECK_DEADLOCK FALSE
