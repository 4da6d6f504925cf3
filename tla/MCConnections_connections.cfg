SPECIFICATION FairSpec
CONSTANTS
    c1 = c1
    c2 = c2
    c3 = c3
    Conns = {c1, c2, c3}
    Limit = 2
CONSTRAINT OneReads
CHECK_DEADLOCK FALSE
INVARIANTS PermitsCounted OneTerminalEvent CancelledWithCause
PROPERTIES StoppedLast RequestsEnd
