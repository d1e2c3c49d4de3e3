CONSTANTS
    Members = {m1, m2}
    Calls = {1, 2, 3}
    Amounts = {2}
    Price = 3
    FreeChips = 1
    InitialChips = 4
    MaxFailures = 1
    None = None
SPECIFICATION Spec
CHECK_DEADLOCK FALSE
SYMMETRY MembersSymmetry
ACTION_CONSTRAINT InOrder
INVARIANTS TypeOK LockedCovered BalanceExplained
