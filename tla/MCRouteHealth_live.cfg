SPECIFICATION FairSpec
CONSTANTS
    e1 = e1
    e2 = e2
    o1 = o1
    o2 = o2
    c1 = c1
    c2 = c2
    Exits <- BothExits
    Ops = {o1, o2}
    Cells = {c1, c2}
    Plans <- LivePlans
    Weather = {"fair", "slow", "down"}
    Capacity = 4
    Width = 1
    MaxFailures = 3
    NoCell = NoCell
    NoOp = NoOp
CONSTRAINT Paired
PROPERTIES OperationsEnd Recovers
