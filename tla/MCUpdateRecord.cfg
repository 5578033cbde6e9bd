CONSTANTS
  Image = {i1, i2}
  NoImage = NoImage
  MaxSeq = 9
SPECIFICATION HistorySpec
SYMMETRY ImageSymmetry
INVARIANTS AlwaysBootable NoRefusedProposal
PROPERTIES TrialIdsUnique HistoryKept CurrentMovesSafely
CHECK_DEADLOCK FALSE
