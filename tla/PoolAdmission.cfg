SPECIFICATION RequestSpec
CONSTANTS
  Workers = {w1, w2}
  Requests = {r1, r2}
  Conns = {c1, c2}
  NoConn = NoConn
  Reserve = 1
INVARIANTS
  PermitsExact
  ForegroundHeadroom
PROPERTY RequestsServed
