CONSTANTS
  MinQueueLen = 1
  Unset = Unset
  SegmentSize = 2
  Capacity = 2
  Subs = {1, 2}
  LogSubs = {2}
  MaxPushed = 5
  MaxPolled = 9
  MaxBatch = 2
  NoFilter = NoFilter
SPECIFICATION Spec
INVARIANTS TypeOK StreamExact ReadsOn PollReturns
PROPERTIES WaitersRead ConnectionEnds
CHECK_DEADLOCK FALSE
