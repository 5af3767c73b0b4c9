SPECIFICATION Spec
CONSTANTS
  Slots = {s1, s2}
  MaxConcurrency = 2
  PagesOnSale = 2
  PagesSold = 1
  BlockThreshold = 2
  FailureThreshold = 2
  AutoSwitch = TRUE
  ForceOnce = TRUE
  Burst = 1
  Cost = 1
  MaxTasks = 2
  MaxProcessed = 2
SYMMETRY SlotSymmetry
INVARIANT TypeOK
INVARIANT CountedOnce
INVARIANT CooldownHasSleeper
INVARIANT RateBounded
 
