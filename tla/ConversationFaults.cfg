SPECIFICATION Spec
CONSTANTS
    m1 = m1  m2 = m2  a = a
    Msgs = {m1, m2}
    Class <- OneImage
    SentAt <- Order
    Stale = {}
    Staff = {a}
    Ops = {"takeOver"}
    SeenLimit = 1
    MaxRows = 1
    Faults = {"fail", "lost", "crash", "account"}
    MaxFaults = 1
INVARIANTS TypeOK AtMostOneReply NoFalseConfirmation BilledOnlyIfSent
CHECK_DEADLOCK FALSE
