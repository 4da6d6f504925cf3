SPECIFICATION Spec
CONSTANTS
    e1 = e1
    e2 = e2
    o1 = o1
    o2 = o2
    c1 = c1
    c2 = c2
    Exits <- BothExits
    Ops = {o1, o2}
    Cells = {c1, c2, c3}
    Plans <- AllPlans
    Weather = {"foul"}
    Capacity = 2
    Width = 1
    MaxFailures = 3
    NoCell = NoCell
    NoOp = NoOp
SYMMETRY TaskSymmetry
CONSTRAINT Focused
INVARIANTS ColdProbeHoldsLock LiveSuccessStands OneObservation NoReplay CacheBounded
PROPERTY ImplementsExitHealth
