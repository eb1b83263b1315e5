SPECIFICATION FairSpec
CONSTANTS
  FrameMs = 4
  BurstMs = 8
  PreserveMs = 6
  DiscardMs = 8
  QueueMax = 1
  FeedMax = 1
  Kinds = {"studio", "file"}
  MaxFrame = 3
  MaxTime = 13
PROPERTIES NeverStale EndsWithSource StopEnds Unblocked
CHECK_DEADLOCK FALSE
