SPECIFICATION Spec
CONSTANTS
  FrameMs = 2
  BurstMs = 4
  PreserveMs = 6
  DiscardMs = 8
  QueueMax = 3
  FeedMax = 2
  Kinds = {"studio", "file"}
  MaxFrame = 5
  MaxTime = 14
INVARIANTS PacingTypeOK BurstBounded FileTimeline NothingLeftBehind
PROPERTIES InOrder EngineLife NeverEarly SilentAfterStop OnTime
CHECK_DEADLOCK FALSE
