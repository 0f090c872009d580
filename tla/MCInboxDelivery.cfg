SPECIFICATION Spec
CONSTANTS
  N = 2
  Mixes <- MCMixes
  MaxAttempts = 2
  RoutineCap = 2
CHECK_DEADLOCK FALSE
INVARIANTS
  TypeOK
  DrainNeverStuck
  CursorSkipsNothing
PROPERTIES
  KeepsGuarantee
  Settled
