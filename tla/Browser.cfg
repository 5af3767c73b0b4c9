SPECIFICATION FairSpec
CONSTANTS
  Tasks = {t1, t2}
  None = None
  Health = Health
  MaxEvents = 1
INVARIANT TypeOK
 
INVARIANT DrainIsSignalled
INVARIANT DrainingIsRotation
PROPERTY RotationEnds
PROPERTY ModeFollowsCooldown
PROPERTY InstanceComesBack
