CONSTANTS
  MaxEpoch = 4
  MaxVerification = 2
  MaxTotal = 2
  Budget = 1
SPECIFICATION WatchdogSpec
INVARIANTS FeedsAreMilestones EpochNamesOneFeed
PROPERTIES ApplicationFeedIsComplete QuarantineIsFinal
