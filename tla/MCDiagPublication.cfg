SPECIFICATION Spec
CONSTANTS
  Stage = {RESET, running}
  Flags = {f1, f2}
  Health = {NONE, healthy}
  RESET = RESET
  NONE = NONE
  Junk = Junk
INVARIANT PublishedIsWhole
