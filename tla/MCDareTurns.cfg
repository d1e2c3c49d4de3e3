CONSTANTS
    a = a
    b = b
    c = c
    Roster <- Three
    TotalRounds = 2
    MaxEnding = 1
    MaxRestarts = 0
SPECIFICATION Spec
CONSTRAINTS Unfinished FewHandlers
CHECK_DEADLOCK FALSE
INVARIANTS TypeOK GameIsWatched
