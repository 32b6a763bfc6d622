SPECIFICATION PatientSpec
CONSTANTS
  s1 = s1
  s2 = s2
  r1 = r1
  r2 = r2
  r3 = r3
  Statements = {s1, s2}
  NoStatement = NoStatement
  Refs = {r1}
  Content <- Repeated
  Retained = {}
  MaxCrashes = 2
  MaxFaults = 0
INVARIANTS
  InFlightStatementIsOwned
CHECK_DEADLOCK FALSE
