SPECIFICATION FairPatientSpec
CONSTANTS
  s1 = s1
  s2 = s2
  r1 = r1
  r2 = r2
  r3 = r3
  Statements = {s1}
  NoStatement = NoStatement
  Refs = {r1, r2}
  Content <- Single
  Retained = {s1}
  MaxCrashes = 3
  MaxFaults = 2
INVARIANTS
  JobHasStatement
PROPERTIES
  ImplementsContract
  PollingEnds
CHECK_DEADLOCK FALSE
