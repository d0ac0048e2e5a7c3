SPECIFICATION Spec
CONSTANTS
  First = m1
  Masters = {m2}
  Workers = {w1}
  Expected = 2
  IpLength = 7
  Tries = 2
  Polls = 2
  MaxMishaps = 1
CHECK_DEADLOCK FALSE
INVARIANTS TypeOK ActionsFindTheirFiles SameAuthority OneAuthority EntryMatchesHosts
PROPERTY HostsRegister
