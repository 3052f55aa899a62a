SPECIFICATION Spec
CHECK_DEADLOCK FALSE
CONSTANTS
  o = o
  a = a
  b = b
  Users = {o, a, b}
  OwnerId = o
  Workers = {w1, w2}
  Runs = {r1, r2}
  Shops <- MCShops
  MaxUpdates = 2
PROPERTY BroadcastReturns
INVARIANTS TypeOK OwnerRemains ConfiguredOwner BlockedKeptOut
