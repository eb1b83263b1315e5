SPECIFICATION Spec
CONSTANTS
  Request = {q1}
  Caster = {c1}
  Device = {d1, d2}
  Flaky = {d1}
  Lists = {}
  Plays = {"once", "bad"}
  None = None
  SendMaySuspend = FALSE
  MaxSessions = 2
  MaxFiles = 0
INVARIANTS ToldOnlyCurrent LiveIsCurrent
