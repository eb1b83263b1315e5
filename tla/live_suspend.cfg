SPECIFICATION Spec
CONSTANTS
  Request = {q1}
  Caster = {c1, c2}
  Device = {d1}
  Flaky = {}
  Lists = {{d1}}
  Plays = {"once", "loop"}
  None = None
  SendMaySuspend = TRUE
  MaxSessions = 2
  MaxFiles = 2
CONSTRAINT Bounded
SYMMETRY Symmetry
INVARIANTS LiveTypeOK OneBroadcaster OwnSession SlotReleased NoStuckLive
PROPERTIES SessionSpec OneLife
