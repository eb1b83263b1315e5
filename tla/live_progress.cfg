SPECIFICATION FairSpec
CONSTANTS
  Request = {q1}
  Caster = {c1}
  Device = {d1}
  Flaky = {}
  Lists = {}
  Plays = {"once", "loop", "bad"}
  None = None
  SendMaySuspend = FALSE
  MaxSessions = 2
  MaxFiles = 0
PROPERTIES StopReturns EngineOutlivesNoStudio HangUpEndsLive UnansweredLiveEnds
