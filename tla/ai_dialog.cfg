SPECIFICATION Spec
CONSTANTS
  Runs = {r1, r2}
  Deliveries = {d1, d2}
  Roles = {"client", "owner"}
  Cooldown = 2
  Window = 3
  MaxRequests = 1
  StartQuota = 1
  Bonus = 2
  ResetAfter = 2
  KeepTurns = 2
  MaxHistory = 3
  MaxTime = 4
  MaxUpdates = 3
  MaxQuestions = 2
  MaxFaults = 1
  MaxAtOnce = 2
SYMMETRY MCSymmetry
CHECK_DEADLOCK FALSE
INVARIANT TypeOK
INVARIANT CooldownHolds
INVARIANT WindowHolds
 
INVARIANT HistoryOrdered
INVARIANT BroadcastsShownPost
