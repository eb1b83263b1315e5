SPECIFICATION Spec
CONSTANTS
  Request = {q1}
  Caster = {c1}
  Device = {d1}
  Flaky = {d1}
  Lists = {}
  Plays = {"once", "loop"}
  None = None
  SendMaySuspend = FALSE
  MaxSessions = 2
  MaxFiles = 0
INVARIANT NoStuckLive
