SPECIFICATION Spec
CONSTANTS
  Slots = 3
  Capacity = 2
  Chunk = {0, 1}
  Chain <- Chains
  Most = 3
INVARIANT ChannelsAgree
PROPERTY WholeFile
