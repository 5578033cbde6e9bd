CONSTANTS
  Image = {i1}
  NoImage = NoImage
  MaxSeq = 8
  Blank = Blank
  Torn = Torn
  NoManifest = NoManifest
  NoRecord = NoRecord
  P = 1
  Destination <- BuiltForPeer
  Cause = {"WDT"}
  Wear = {}
SPECIFICATION FairSpec
PROPERTIES BootsAgain TrialEnds
