SPECIFICATION NetSpec
CONSTANTS
  MaxWords = 2
  FifoWords = 4
  TxWords = 2
  Drain = 2
INVARIANT ServesOnlyWhenReady
PROPERTIES FramesIntact ListensAgain
