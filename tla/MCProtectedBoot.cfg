CONSTANTS
  MaxEpoch = 8
  MaxVerification = 2
  MaxTotal = 2
  Budget = 2
  Slots = 2
  Operations = 11
SPECIFICATION FairSpec
INVARIANTS EnteredProtected
PROPERTIES FedForWork UsesController NeverHangs
CHECK_DEADLOCK FALSE
