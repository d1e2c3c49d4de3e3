CONSTANTS
    b1 = b1
    b2 = b2
    b3 = b3
    m1 = m1
    m2 = m2
    Members = {m1, m2}
    Bets = {b1, b2, b3}
    Owner <- OwnerOf
    Forfeits = {b2}
    None = None
    MaxFailures = 1
    MaxClosings = 1
SPECIFICATION Spec
CONSTRAINTS FewUpsets FewAtClose
CHECK_DEADLOCK FALSE
INVARIANTS TypeOK BetsHonoured SpinComes
PROPERTY Rests
