CONSTANTS
  Seeds = {s1}
  Joiners = {j1, j2}
  MaxTries = 2
  MaxFaults = 0
  MaxStops = 0
SPECIFICATION Spec
INVARIANT ListWaitsForAll
