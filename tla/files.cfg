SPECIFICATION Spec
CONSTANTS
  Upload = {u1, u2}
  None = None
  MaxChunks = 2
  MaxSecond = 2
  MaxRestarts = 1
  Request = {r1}
  Device = {d1, d2}
  Flaky = {d1}
  Lists = {{d1}}
  SendMaySuspend = TRUE
  MaxFiles = 2
  MaxSessions = 1
CONSTRAINT Bounded
SYMMETRY Symmetry
INVARIANTS FileTypeOK IndexTrue FileAnswerable PlayedWhole
PROPERTIES NothingReturns LiveSurvivesFile
