CONSTANTS
    Cameras = {c1}
    Configs = {g1, g2}
    Workers = {w1, w2}
    MaxReconnects = 1
    MaxFailures = 1
    None = None
SPECIFICATION FairSpec
PROPERTIES ConfigChangeApplied
CHECK_DEADLOCK FALSE
