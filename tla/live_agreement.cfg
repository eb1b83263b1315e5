SPECIFICATION Spec
CONSTANTS
  Request = {q1}
  Caster = {c1}
  Device = {d1, d2}
  Flaky = {}
  Lists = {}
  Plays = {"once", "loop"}
  None = None
  SendMaySuspend = FALSE
  MaxSessions = 2
  MaxFiles = 1
SYMMETRY Symmetry
INVARIANT Agreement
