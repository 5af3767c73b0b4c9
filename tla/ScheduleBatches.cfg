SPECIFICATION FairSpec
CONSTANTS
  BaseInterval = 3
  MinInterval = 2
  MaxInterval = 3
  Sub = 1
  PagesOnSale = 5
  PagesSold = 5
  ScheduleSlot = 0
  IPs = {i1, i2}
  Weights = {150}
  BatchSize = 1
  Threshold = 0
  MaxWait = 1
  Clients = {c1}
  MaxEvents = 0
CHECK_DEADLOCK FALSE
PROPERTY PushSpacing
 
