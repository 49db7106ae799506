SPECIFICATION FairSpec
CONSTANTS
  q1 = q1
  q2 = q2
  Queries = {q1, q2}
  NoQuery = NoQuery
  Items = {i1, i2}
  Manual = {m1}
  Lanes = {1}
  Fires <- MCFires
  Limit <- MCLimit
  MaxTime = 2
  Events = {}
INVARIANTS
  LedgerIsWhatWasSeen
PROPERTIES
  DueIsServed
  ClaimedIsSeen
\* The owner may stop using the bot: searches and instants are bounded.
CHECK_DEADLOCK FALSE
