SPECIFICATION FairSpec
CONSTANTS
  q1 = q1
  q2 = q2
  Queries = {q1, q2}
  Flaky = {q2}
  Fires <- MCFires
  MaxTime = 4
  MaxFaults = 2
INVARIANTS
  TypeOK
  OwedIsRemembered
PROPERTIES
  KeepsSchedule
  SteadyIsServed
\* The clock is bounded, after which nothing is due.
CHECK_DEADLOCK FALSE
