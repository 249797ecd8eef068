SPECIFICATION FairSpec
CONSTANTS
    Cameras = {c1, c2}
    MaxTasks = 2
    MaxBursts = 1
    ExtraPasses = 2
    MaxInflight = 2
INVARIANTS TypeOK PlacesAccounted LoopsAccounted
PROPERTIES LoopsAndBurstsEnd
CHECK_DEADLOCK FALSE
