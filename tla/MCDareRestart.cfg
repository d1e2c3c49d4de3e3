CONSTANTS
    a = a
    b = b
    c = c
    Roster <- Two
    TotalRounds = 1
    MaxEnding = 1
    MaxRestarts = 1
SPECIFICATION Spec
CONSTRAINT Unfinished
CHECK_DEADLOCK FALSE
INVARIANT GameIsWatched
PROPERTY GameEnds
