SPECIFICATION HandoffSpec
CONSTANTS
  Slots = {"A", "B"}
INVARIANTS QuietWhenRecorded RefusedForCause
CHECK_DEADLOCK FALSE
