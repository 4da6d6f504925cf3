SPECIFICATION FairSpec
CONSTANTS
    Paths = {p1, p2}
    Files = {f1, f2, f3}
    Capacity = 2
    Backfill = 2
    MaxLines = 3
    MaxSwitches = 1
    None = None
CHECK_DEADLOCK FALSE
INVARIANTS FaithfulView
PROPERTIES CatchesUp
