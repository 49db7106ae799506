SPECIFICATION FairSpec
CONSTANTS
  q1 = q1
  q2 = q2
  Queries = {q1, q2}
  Flaky = {}
  Fires <- MCFires
  MaxTime = 4
  MaxFaults = 0
PROPERTIES
  TickRunsEveryFire
\* The clock is bounded, after which nothing is due.
CHECK_DEADLOCK FALSE
