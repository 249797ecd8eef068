SPECIFICATION TrackerSpec
CONSTANTS
    Tracks = {t1, t2}
    Texts = {p1}
    MinReadings = 2
    LostCycles = 3
SYMMETRY Symmetry
INVARIANTS TrackerTypeOK AbsentForgotten
PROPERTIES EventsPaired
