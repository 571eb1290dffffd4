SPECIFICATION Spec
CONSTANTS
    f1 = f1
    f2 = f2
    f3 = f3
    p1 = p1
    P2 = P2
    p3 = p3
    fusion = fusion
    pass_through = pass_through
    wrist = wrist
    chest = chest
    ankle = ankle
    Families = {f1, f2, f3}
    Locations = {wrist, chest, ankle}
    Supports <- MCSupports
    Algorithms = {p1, P2, p3}
    AlgorithmNames = {fusion, pass_through}
    NameOf <- MCNameOf
    Lower <- MCLower
    Order <- MCOrder
    Computes <- MCComputes
    PassThrough = pass_through
    None = None
    MaxChanges = 1
    MaxPerSubject = 3
INVARIANT PlanIsSound
INVARIANT CurrentIsTested
CHECK_DEADLOCK FALSE
