CONSTANTS
  KeepCopies = 2
  MaxSame = 2
  Skew = 0
  MaxMinute = 3
  MaxRev = 2
  MaxFail = 2
  MaxCrash = 1
SPECIFICATION Spec
INVARIANT RecentCopiesKept
