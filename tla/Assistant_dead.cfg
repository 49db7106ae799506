SPECIFICATION FairSpec
CONSTANTS
  q1 = q1
  q2 = q2
  Queries = {q1}
  NoQuery = NoQuery
  Items = {i1}
  Manual = {}
  Lanes = {1}
  Fires <- MCFires
  Limit <- MCLimit
  MaxTime = 2
  Events = {"send"}
PROPERTIES
  SchedulerKeepsTicking
\* The owner may stop using the bot: searches and instants are bounded.
CHECK_DEADLOCK FALSE
