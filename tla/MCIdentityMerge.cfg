SPECIFICATION Spec
CONSTANTS
    Plates = {p1, p2, p3}
    MaxIds = 2
    MaxFamily = 2
    MaxCandidates = 1
    Requests = {r1}
    Batches = {b1, b2}
INVARIANTS TypeOK FamilyBounded AcceptedIsMerged ComparedOnce
PROPERTIES PlatesKept
SYMMETRY Symmetry
CHECK_DEADLOCK FALSE
