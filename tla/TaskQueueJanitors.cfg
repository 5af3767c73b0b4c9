SPECIFICATION Spec
CONSTANTS
  a1 = a1
  a2 = a2
  b1 = b1
  ipA = ipA
  ipB = ipB
  Tasks = {a1, a2}
  IPs = {ipA}
  IpOf <- MCIpOf
  Workers = {w1, w2}
  Janitors = {analyzer, j1}
  Analyzer = analyzer
  Timeout <- MCTimeout
  MaxAge = 1
  MaxRetries = 1
  Faults = {"popped", "crawling", "acking"}
  MaxRestarts = 0
SYMMETRY SlotSymmetry
INVARIANT TaskConservation
INVARIANT PendingBacked
INVARIANT DedupUnlessStrayed
INVARIANT RetryBudget
PROPERTY KeepsLifeCycle
