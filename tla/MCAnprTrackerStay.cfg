SPECIFICATION TrackerSpec
CONSTANTS
    Tracks = {t1}
    Texts = {}
    MinReadings = 1
    LostCycles = 2
PROPERTIES OneEntryPerStay
