CONSTANTS
  Value = {v1, v2}
  MaxSeq = 4
  W = 2
  Client = {receiver, confirmation}
  Erased = Erased
  Junk = Junk
  NoSnapshot = NoSnapshot
  NoCall = NoCall
SPECIFICATION Spec
SYMMETRY Interchangeable
INVARIANTS AlwaysLoadable
PROPERTIES IsAtomic
