CONSTANTS
    Requests = {1, 2}
    Resumes = {11, 12}
    Clothing = {dress}
    Binds = {cuffs}
    MaxDisturbances = 2
    MaxErrors = 0
    None = None
SPECIFICATION Spec
CHECK_DEADLOCK FALSE
ACTION_CONSTRAINT InOrder
INVARIANT ReleaseIsConfirmed
