SPECIFICATION Spec
CONSTANTS
  rich = rich
  plain = plain
  content = content
  meta = meta
  Artifacts = {rich, plain}
  Hashes = {content, meta}
  Targets <- SharedContent
  Content <- TheContent
  Entry = {"held"}
  Stored = {rich}
  Workers = {w1, w2}
  MaxRejections = 1
  MaxFaults = 1
INVARIANTS LossExplained ZeroIsDeleted
PROPERTIES BytesGoUnclaimed
SYMMETRY Sym
CHECK_DEADLOCK FALSE
