SPECIFICATION Spec
CONSTANTS
  a = a
  b = b
  g1 = g1
  g2 = g2
  Sessions = {a}
  Requests = {q1, q2, q3}
  Ops = {o}
  Grants = {g1, g2}
  End <- Windows
  MaxTime = 2
  MaxRev <- Deep
  MaxAttempts = 2
  MaxSessions = 1
  Idle = Idle
SYMMETRY Symmetry
INVARIANTS
  OneWriter
  RequestForksOnce
  OldCallbacksExpired
PROPERTY ForksReconciled
