SPECIFICATION Spec
CONSTANTS
  q1 = q1
  q2 = q2
  Queries = {q1, q2}
  NoQuery = NoQuery
  Items = {i1}
  Manual = {m1}
  Lanes = {1, 2}
  Fires <- MCFires
  Limit <- MCLimit
  MaxTime = 3
  Events = {"call", "send", "crash", "delete"}
SYMMETRY MCSymmetry
INVARIANTS
  TypeOK
  SentIsLedgered
  RepeatsAreRaces
PROPERTIES
  BuriedStaysBuried
  ScheduleRegressesOnlyByRace
\* The owner may stop using the bot: searches and instants are bounded.
CHECK_DEADLOCK FALSE
