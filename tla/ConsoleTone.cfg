SPECIFICATION Spec
CONSTANTS
    a = a
    b = b
    d1 = d1
    d2 = d2
    d3 = d3
    Orgs = {a, b}
    Demo = a
    Docs = {d1, d2}
    MaxDocuments = 1
    HistoryLimit = 1
    MaxRewrites = 1
    MaxClicks = 3
    MaxFaults = 1
SYMMETRY Ids
INVARIANT ToneIsKept
CHECK_DEADLOCK FALSE
