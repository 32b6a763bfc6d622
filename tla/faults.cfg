SPECIFICATION Spec
CONSTANTS
  s1 = s1
  s2 = s2
  r1 = r1
  r2 = r2
  r3 = r3
  Statements = {s1, s2}
  NoStatement = NoStatement
  Refs = {r1}
  Content <- Repeated
  Retained = {}
  MaxCrashes = 1
  MaxFaults = 1
SYMMETRY Symmetric
INVARIANTS
  StoredBeforeCompleted
  ResultsBeforeDone
CHECK_DEADLOCK FALSE
