CONSTANTS
    Members = {m1, m2}
    OpIds = {1, 2, 3}
    Calls = {1, 2, 3, 4}
    MaxPending = 2
    Hanging = {m2}
    None = None
    Refused = Refused
SPECIFICATION Spec
ACTION_CONSTRAINT FirstUseInOrder
CHECK_DEADLOCK FALSE
INVARIANTS TypeOK StartsInOrder SlotsExact NoReplay
PROPERTIES WorkEnds ImplementsCharacterWork
