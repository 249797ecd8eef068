SPECIFICATION MCSpec
CONSTANTS
    Cameras = {c1, c2}
    Configs = {g1, g2}
    MaxChanges = 2
    None = None
INVARIANT TargetsFlagged
PROPERTIES RegistryUsed PartialIsSurgical Converges
CHECK_DEADLOCK FALSE
