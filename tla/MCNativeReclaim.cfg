SPECIFICATION Spec
CONSTANTS
  a = a
  b = b
  g1 = g1
  g2 = g2
  Sessions = {a, b}
  Requests = {q1}
  Ops = {}
  Grants = {g1}
  End <- OneWindow
  MaxTime = 1
  MaxRev <- Uneven
  MaxAttempts = 2
  MaxSessions = 1
  Idle = Idle
INVARIANTS
  OneRestartPerGrant
