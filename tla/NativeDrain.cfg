SPECIFICATION LiveSpec
CONSTANTS
  Launchers = {l1}
  Callers = {c1, c2}
  Sessions = {s1}
  MaxSessions = 1
INVARIANTS
  ReadyMeansQuiet
  SuccessIsLasting
  NoLateReadiness
PROPERTIES
  OnlyIdleWritersClosed
  DrainReturns
