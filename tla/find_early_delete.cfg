SPECIFICATION FairSpec
CONSTANTS
  s1 = s1
  s2 = s2
  r1 = r1
  r2 = r2
  r3 = r3
  Statements = {s1}
  NoStatement = NoStatement
  Refs = {r1, r2}
  Content <- Single
  Retained = {}
  MaxCrashes = 0
  MaxFaults = 0
PROPERTIES
  PollingEnds
CHECK_DEADLOCK FALSE
