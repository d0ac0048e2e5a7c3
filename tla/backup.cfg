CONSTANTS
  KeepCopies = 2
  MaxSame = 2
  Skew = 1
  MaxMinute = 2
  MaxRev = 2
  MaxFail = 1
  MaxCrash = 2
SPECIFICATION FairSpec
INVARIANT KeptRestorable
INVARIANT LatestRestorable
INVARIANT ReaderFindsFile
PROPERTY OnlyBackupsChange
PROPERTY CopiesBounded
