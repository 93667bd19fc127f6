CONSTANTS
  MinQueueLen = 1
  Unset = Unset
  SegmentSize = 2
  Capacity = 2
  Subs = {1}
  LogSubs = {}
  MaxPushed = 2
  MaxPolled = 1
  MaxBatch = 2
  NoFilter = NoFilter
SPECIFICATION Spec
PROPERTY ItemsReach
CHECK_DEADLOCK FALSE
