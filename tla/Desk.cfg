SPECIFICATION Spec
CONSTANTS
    c1 = c1
    c2 = c2
    Conversations = {c1, c2}
    MaxLoads = 2
    MaxEvents = 4
    MaxFaults = 1
SYMMETRY Customers
INVARIANT DeskSettles
PROPERTY ErasedIsConfirmed
CHECK_DEADLOCK FALSE
