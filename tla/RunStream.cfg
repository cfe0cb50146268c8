CONSTANTS
  Subscribers = {tab, phone}
  BufferLimit = 4
  MaxFrames = 4
SPECIFICATION FairSpec
CHECK_DEADLOCK FALSE
INVARIANTS TypeOK ReplayInOrder
PROPERTIES LeavesUpToDate SubscribersLeave
