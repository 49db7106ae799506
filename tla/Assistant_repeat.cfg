SPECIFICATION Spec
CONSTANTS
  q1 = q1
  q2 = q2
  Queries = {q1}
  NoQuery = NoQuery
  Items = {i1}
  Manual = {m1, m2}
  Lanes = {1}
  Fires <- MCFires
  Limit <- MCLimit
  MaxTime = 2
  Events = {}
SYMMETRY MCSymmetry
INVARIANTS
  NeverDeliveredTwice
\* The owner may stop using the bot: searches and instants are bounded.
CHECK_DEADLOCK FALSE
