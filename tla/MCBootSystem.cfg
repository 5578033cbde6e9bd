CONSTANTS
  Image = {i1, i2}
  NoImage = NoImage
  MaxSeq = 9
  Blank = Blank
  Torn = Torn
  NoManifest = NoManifest
  NoRecord = NoRecord
  P = 2
  Destination <- OneMisbuilt
  Cause = {"POR", "WDT", "SW"}
  Wear = {"A"}
SPECIFICATION Spec
INVARIANTS RecordDescribesFlash TrialIsDurable NoDoubleCount AcceptedIsDurable UploadCanFinish
PROPERTIES NoWriteInDoubt WritesGivenUpSlot FollowsLifecycle
