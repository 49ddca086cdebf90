SPECIFICATION Spec
CONSTANTS
    Writers = {w1, w2}
    Exclusions = {x}
    MaxEvents = 3
    MaxQueued = 1
    MaxFaults = 1
SYMMETRY Sym
PROPERTIES
    ReapplyRecovers
CHECK_DEADLOCK FALSE
