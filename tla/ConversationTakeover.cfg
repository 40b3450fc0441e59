SPECIFICATION Spec
CONSTANTS
    m1 = m1  m2 = m2  a = a
    Msgs = {m1}
    Class <- AllText
    SentAt <- Order
    Stale = {}
    Staff = {a}
    Ops = {"takeOver"}
    SeenLimit = 200
    MaxRows = 1
    Faults = {}
    MaxFaults = 0
PROPERTIES QuietUnderHuman
CHECK_DEADLOCK FALSE
