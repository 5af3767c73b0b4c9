SPECIFICATION FairSpec
CONSTANTS
  BaseInterval = 90
  MinInterval = 60
  MaxInterval = 120
  Sub = 60
  PagesOnSale = 5
  PagesSold = 5
  ScheduleSlot = 900
  Workers = {k1}
  ApiWeights <- MCApiWeights
  Offsets = {0, 899}
  MaxEdits = 1
  MaxFaults = 1
CHECK_DEADLOCK FALSE
 
PROPERTY AdjustsInItsDirection
 
