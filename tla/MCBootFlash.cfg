SPECIFICATION Spec
CONSTANTS
  Client = {c1, c2}
  Bits = {1, 2}
  meta = meta
  manifest = manifest
  payload = payload
  Meta <- MetaValue
  Pages <- PagesValue
INVARIANTS BlockedWhileInDoubt PlanErasesInOrder
PROPERTY OkIsDurable
SYMMETRY ClientSymmetry
