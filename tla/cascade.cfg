SPECIFICATION TidySpec
CONSTANTS
  s1 = s1
  s2 = s2
  r1 = r1
  r2 = r2
  r3 = r3
  Statements = {s1, s2}
  NoStatement = NoStatement
  Refs = {r1, r2}
  Content <- Overlapping
  Retained = {s1}
  MaxCrashes = 1
  MaxFaults = 0
INVARIANTS
  CascadeComplete
CHECK_DEADLOCK FALSE
