SPECIFICATION MCSpec
CONSTANTS
    MaxSegments = 2
    Requests = {r1}
    Purges = {q1}
INVARIANTS TypeOK NoSegmentSkipped DocumentedOnce
CHECK_DEADLOCK FALSE
PROPERTY SegmentsIndexed
