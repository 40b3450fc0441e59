SPECIFICATION Spec
CONSTANTS
    o1 = o1  o2 = o2  u1 = u1  u2 = u2  a1 = a1  a2 = a2
    Orgs = {o1, o2}
    Users = {u1, u2, a1, a2}
    Admins = {a1, a2}
    OwnerOf <- OldClient
    KbLimit = 1
    Doings = {"add", "role", "remove", "grant", "onboard", "export", "offboard", "kb", "resolve"}
    MaxRequests = 3
    MaxFaults = 1
INVARIANTS NothingHalfMade NotByOwnHand KbOverrun
PROPERTIES ExportComesFirst
CHECK_DEADLOCK FALSE
