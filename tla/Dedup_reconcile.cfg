SPECIFICATION Spec
CONSTANTS
  r1 = r1
  r2 = r2
  r3 = r3
  a1 = a1
  a2 = a2
  b1 = b1
  b2 = b2
  c1 = c1
  Runs = {r1, r2, r3}
  Raws = {a1, a2, b1, b2, c1}
  None = None
  RunOf <- MCRunOf
  Parts <- MCParts
  Group <- MCGroup
  Given <- MCGiven
  Events = {"call", "crash"}
INVARIANTS
  TypeOK
  ProvenanceNeverLies
  LandsOnce
  LostWereExposed
PROPERTIES
  FilledStaysFilled
\* Every run is over in the end.
CHECK_DEADLOCK FALSE
