SPECIFICATION Spec
CONSTANTS
    Writers = {w1, w2}
    Exclusions = {x}
    MaxEvents = 3
    MaxQueued = 1
    MaxFaults = 1
SYMMETRY Sym
INVARIANTS
    RowIsStreamPrefix
PROPERTIES
    AloneCallHeals
    IntentRecorded
CHECK_DEADLOCK FALSE
