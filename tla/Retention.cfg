SPECIFICATION LiveSpec
CONSTANTS
    m1 = m1  m2 = m2  c1 = c1  c2 = c2  o1 = o1  o2 = o2
    Msgs = {m1, m2}
    Convs = {c1, c2}
    Orgs = {o1, o2}
    ConvOf <- TwoConversations
    OrgOf <- TwoClients
    Pictures = {m1, m2}
    MediaDays = 0
    RowDays = 2
    Overrides <- Longer
    Earlier = {m2}
    Changing = {o2}
    Touchy = {c1}
    WalkIns = {c1}
    Leaving = {o1}
    MaxDay = 3
    Faults = {"fail", "lost", "partial", "refused"}
    MaxFaults = 1
INVARIANTS TypeOK SuccessIsDone
PROPERTIES NothingForgotten NothingGoesEarly FlaggedIsScrubbed
CHECK_DEADLOCK FALSE
