SPECIFICATION FairSpec
CONSTANTS
  Device = {d1, d2}
  MaxSocket = 3
INVARIANT NewestServed
PROPERTIES FrameReachesAll OpenAudioStays ReplacedEnds DeadLeave
