CONSTANTS
  Seeds = {s1, s2}
  Joiners = {j1, j2, j3}
  MaxTries = 2
  MaxFaults = 2
  MaxStops = 1
SPECIFICATION FairSpec
INVARIANT StartsAligned
PROPERTY JoinsAlone
PROPERTY GrowsOneByOne
PROPERTY QuorumReturns
PROPERTY SomeoneJoins
