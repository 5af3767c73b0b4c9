SPECIFICATION FairSpec
CONSTANTS
  r0 = r0
  r1 = r1
  r2 = r2
  r3 = r3
  x = x
  y = y
  Results = {r1, r2}
  TaskOf <- MCTaskOf
  Failed = {}
  Sightings <- MCSightings
  Items = {x, y}
  Workers = {w1}
  Timeout = 0
  MaxAge = 1
  MaxRetries = 1
  Faults = {"count", "items", "stats", "mark", "ack"}
  MaxRestarts = 1
INVARIANT TypeOK
INVARIANT RemovedOnlyIfFinished
INVARIANT RetryBudget
 
PROPERTY KeepsLifeCycle
 
