CONSTANTS
    stop = stop
    Objects = {o1, o2}
    Calls = {1, 2, 3}
    Keys = {k, end, stop}
    EndKeys = {end, stop}
    ShutdownKeys = {stop}
    None = None
    MaxAttempts = 2
    MaxFailures = 2
    MaxRestarts = 1
SPECIFICATION Spec
CONSTRAINTS InOrder StopLast
CHECK_DEADLOCK FALSE
INVARIANTS TypeOK AuditsTellHistory IdleIsStored BehindHasReason
PROPERTIES ImplementsHistory OperationEnds
