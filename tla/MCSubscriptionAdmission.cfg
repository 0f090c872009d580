SPECIFICATION Spec
CONSTANTS
  r1 = r1
  r2 = r2
  s1 = s1
  s2 = s2
  s3 = s3
  Replicas = {r1, r2}
  Keys = {"key"}
  Streams = {s1, s2, s3}
  Home <- MCHome
  KeyOf <- MCKeyOf
  Sessions = {x, y, z}
  None = None
  MaxStreams = 2
SYMMETRY Symmetry
INVARIANTS
  TwoPerKey
  DroppedAreEnded
  SessionHasLease
