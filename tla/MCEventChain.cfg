SPECIFICATION Spec
CONSTANTS
    Streams = {stream}
    Appenders = {a1, a2}
    MaxEvents = 2
    MaxBatch = 2
    MaxSweeps = 1
    MaxCheckpoints = 3
    MaxVerifies = 1
    MaxLosses = 1
SYMMETRY Sym
CONSTRAINT Verifying
INVARIANTS OneChain LossIsReported AlarmsAreExplained
PROPERTIES SealsWhatWasProved SweepAnchorsItsSeals
CHECK_DEADLOCK FALSE
