SPECIFICATION Spec
CONSTANTS
  Hosts = {h1, h2}
  Want = 2
  Threshold = 1
  Gap = 3
  Boot = 2
  Post = 1
  Polls = 2
  Hour = 2
  Operations = 3
  MaxMishaps = 1
PROPERTIES RecoveryNeedsStreak ControlPlaneReturns
