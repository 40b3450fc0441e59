SPECIFICATION Spec
CONSTANTS
    a = a
    b = b
    d1 = d1
    d2 = d2
    d3 = d3
    Orgs = {a, b}
    Demo = a
    Docs = {d1, d2, d3}
    MaxDocuments = 1
    HistoryLimit = 1
    MaxRewrites = 1
    MaxClicks = 5
    MaxFaults = 1
SYMMETRY Ids
INVARIANTS OneStray ListSettles DocsAreOwn SpentIsMetered
CHECK_DEADLOCK FALSE
