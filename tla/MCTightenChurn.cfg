SPECIFICATION FairWalkSpec
CONSTANTS
  Ids = {1, 2, 3, 4, 5}
  PerPage = 2
  Changes = {"join", "leave"}
  MaxMoves = 2
INVARIANTS MissesBounded
PROPERTIES WalkEnds
