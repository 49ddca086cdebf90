SPECIFICATION FairRotationSpec
CONSTANTS
  Artifacts = {a1, a2}
  WindowStart <- SameWindow
  Unproven = {a2}
  Watched = {a2}
  Sweepers = {w1, w2}
  BatchSize = 1
  MaxFaults = 1
INVARIANTS RotationBound
PROPERTIES ReleasableServed BackstopServed
