SPECIFICATION Spec
CONSTANTS
    c1 = c1
    c2 = c2
    s1 = s1
    s2 = s2
    Customers = {c1}
    Staff = {s1}
    Week <- SplitDay
    Resaved <- Narrowed
    Lead = 1
    Limit = 2
    Horizon = 7
    Clock <- TwoTimes
    Edges <- Breaks
    Outcomes <- NoShow
    MaxRows = 3
INVARIANTS
    NoOverlap
    PromiseIsOnRecord
    CountedUntilCancelled
CHECK_DEADLOCK FALSE
