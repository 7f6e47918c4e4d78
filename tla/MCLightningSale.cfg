CONSTANTS
    c1 = c1
    c2 = c2
    p1 = p1
    p2 = p2
    p3 = p3
    Calls = {c1, c2}
    Proofs = {p1, p2, p3}
    Ends <- MCEnds
    KeepFor = 1
    PruneAfter = 1
    ClockBack = 1
    MaxDelay = 1
    DayLength = 3
    DailyCap = 1
    CompactEvery = 2
    TornWrites = FALSE
    MaxTime = 4
    MaxFaults = 2
SYMMETRY Symmetry
SPECIFICATION Spec
INVARIANTS
    TypeOK
    HonouredOnce
    NoProofWasted
    DayBounded
PROPERTIES
    ClaimsLast
CHECK_DEADLOCK FALSE
