SPECIFICATION MCSpec
CONSTANTS
    Settings = {p1, p2}
    Puts = {p1, p2}
    Clips = {v1}
    None = None
    MaxCalls = 2
    First = p1
INVARIANTS TypeOK PipelineInOrder
PROPERTIES OutcomeKept SettingsKept QueueDrains
CHECK_DEADLOCK FALSE
