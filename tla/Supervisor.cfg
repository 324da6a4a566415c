SPECIFICATION FairSpec
CONSTANTS
    Proc = {p1, p2, p3}
    Command = p1
    Reaper = Reaper
    None = None
INVARIANTS
    TreeGone
    CommandStatus
PROPERTIES
    Terminates
    OrphansTerminate
CHECK_DEADLOCK FALSE
