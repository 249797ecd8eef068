SPECIFICATION Spec
CONSTANTS
    Threshold = 2
    MaxCalls = 2
    MaxLoads = 2
    MaxConfigs = 2
    MaxErrors = 4
    Requests = {r1, r2}
SYMMETRY Symmetry
INVARIANTS TypeOK QuarantineComplete CacheCoherent ConfigStaleOnlyByRace
PROPERTIES QuarantineLifted
CHECK_DEADLOCK FALSE
