CONSTANTS
    Requests = {1, 2}
    Resumes = {11, 12}
    Clothing = {dress}
    Binds = {cuffs}
    MaxDisturbances = 2
    MaxErrors = 1
    None = None
SPECIFICATION Spec
CHECK_DEADLOCK FALSE
ACTION_CONSTRAINT InOrder
CONSTRAINT Regular
INVARIANTS TypeOK SingleRun ParoleMeansStripped OwnerLocksKept
