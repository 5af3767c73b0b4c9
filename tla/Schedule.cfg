SPECIFICATION FairSpec
CONSTANTS
  BaseInterval = 2
  MinInterval = 1
  MaxInterval = 2
  Sub = 1
  PagesOnSale = 5
  PagesSold = 5
  ScheduleSlot = 0
  IPs = {i1}
  Weights = {200}
  BatchSize = 1
  Threshold = 0
  MaxWait = 1
  Clients = {c1, c2}
  MaxEvents = 2
CHECK_DEADLOCK FALSE
INVARIANT TypeOK
PROPERTY PushSpacing
PROPERTY ActiveIsCrawled
PROPERTY InactiveIsDropped
