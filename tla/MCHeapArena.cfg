SPECIFICATION Spec
CONSTANTS
  Word = 16
  Base = 7
  Size = 8
  Alignments = {1, 2, 4, 16}
  Requests <- mcRequests
INVARIANTS
  Tiles
  Coalesced
  FailsOnlyWhenFull
