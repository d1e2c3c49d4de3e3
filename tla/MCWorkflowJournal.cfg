CONSTANTS
    Clients = {c1, c2}
    Stamps = {x1, x2}
    NoState = NoState
    MaxAttempts = 2
    MaxVersion = 6
    MaxFailures = 2
SPECIFICATION JournalSpec
CHECK_DEADLOCK FALSE
SYMMETRY ClientsAndStamps
INVARIANTS JournalTypeOK HeldIsStored StepsAreTransitions
PROPERTY ImplementsHistory
