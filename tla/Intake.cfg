SPECIFICATION LiveSpec
CONSTANTS
    a1 = a1
    a2 = a2
    p1 = p1
    p2 = p2
    m1 = m1
    m2 = m2
    m3 = m3
    o1 = o1
    Accounts = {a1, a2}
    Late = {a2}
    Payloads = {p1, p2}
    Outbound = {o1}
    Slug <- MCSlug
    Messages <- MCMessages
    Receipts <- MCReceipts
    Limit = 1
    MaxFaults = 2
INVARIANTS TypeOK OneFailureIsNeverSilent SealedIsReadable
PROPERTY PostedIsTaken
CHECK_DEADLOCK FALSE
