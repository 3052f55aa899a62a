SPECIFICATION FairSpec
CONSTANTS
  Tasks = {t1, t2}
  Malformed = {t2}
  Workers = {w1, w2}
  MaxRetries = 2
  MaxFaults = 2
INVARIANT TypeOK
INVARIANT NoTaskLost
INVARIANT RetriesEarned
INVARIANT HandedOver
INVARIANT AnswersBounded
PROPERTY EveryTaskSettles
