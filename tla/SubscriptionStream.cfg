SPECIFICATION LiveSpec
CONSTANTS
  Writers = {w1, w2}
  Kinds = {"topic", "plan", "denied", "other"}
  MaxEvents = 3
  Clients = {c}
  Batch = 1
  Latest = Latest
  Resync = Resync
INVARIANTS
  NoGap
  NoLostWakeup
PROPERTIES
  InOrderOnce
  ReadsLikeALog
  CatchesUp
