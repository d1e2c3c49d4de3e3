CONSTANTS
    l1 = l1
    l2 = l2
    i = i
    Listeners = {l1, l2}
    Calls = {0, 1, 2}
    Ids = {i}
    NoId = NoId
    None = None
    Attempts = 2
    Hanging = {l2}
    MaxListed = 1
SPECIFICATION Spec
CONSTRAINTS InOrder MostWithId OneOfAllTypes
CHECK_DEADLOCK FALSE
INVARIANTS TypeOK OncePerId ReportComplete
PROPERTIES PublishEnds
