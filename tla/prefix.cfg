SPECIFICATION Spec
CONSTANTS
  Runs = {r1}
  MaxStack = 1
  Pools = {own}
  Longer = {other}
  Slow = {}
  MaxCommands = 2
  MaxMishaps = 0
PROPERTIES OthersKeepTheirGroups
CHECK_DEADLOCK FALSE
