SPECIFICATION FairSpec
CONSTANTS
    MaxWorkers = 2
    MaxFrames = 2
    MaxLoops = 2
INVARIANTS NoLostWakeup EntriesAccounted
PROPERTIES OnlyOfferedTaken NewFrameTaken
CHECK_DEADLOCK FALSE
