CONSTANTS
    Members = {1, 2, 3, 4}
    None = None
    MinPlayers = 4
    MaxPlayers = 4
    MinClub = 1
    EscapesToRelease = 3
    MaxRestraint = 2
    Roles = {"kidnapper", "mistress", "switch", "maid", "bystander"}
    Requested <- Requests
    Configurations <- Small
    MaxRounds = 2
    Slots = {1, 2}
SPECIFICATION ServiceSpec
CHECK_DEADLOCK FALSE
CONSTRAINTS FewAssigned DealtSo FewGone FewKept FewCalls
INVARIANTS ServiceTypeOK BoundAreCaptured PhasesKeepApart
PROPERTY ImplementsNights
