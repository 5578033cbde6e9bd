SPECIFICATION CoreSpec
CONSTANTS
  Slots = 8
  Capacity = 2
  Chunk = {c1}
INVARIANTS NoReplyLost DataFollowsStart OperationContract
PROPERTY DeadlinesFresh
