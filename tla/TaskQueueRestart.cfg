SPECIFICATION FairSpec
CONSTANTS
  a1 = a1
  a2 = a2
  b1 = b1
  ipA = ipA
  ipB = ipB
  Tasks = {a1}
  IPs = {ipA}
  IpOf <- MCIpOf
  Workers = {w1, w2}
  Janitors = {analyzer}
  Analyzer = analyzer
  Timeout <- MCTimeout
  MaxAge = 1
  MaxRetries = 1
  Faults = {"popped", "crawling", "acking"}
  MaxRestarts = 2
PROPERTY RecordedTaskMovesOn
PROPERTY KeepsLifeCycle
