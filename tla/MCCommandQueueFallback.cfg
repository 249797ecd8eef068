SPECIFICATION MCSpec
CONSTANTS
    Settings = {p1, s1}
    Puts = {p1}
    Clips = {v1}
    None = None
    MaxCalls = 2
    First = p1
PROPERTIES FallbackKeepsSettings
CHECK_DEADLOCK FALSE
