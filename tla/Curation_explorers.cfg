SPECIFICATION Spec
CONSTANTS
  Queries = {q1}
  NoQuery = NoQuery
  Items = {i1, i2, i3}
  Dates <- MCDates
  Stamp <- MCStamp
  StartsAt <- MCStartsAt
  NoDate = NoDate
  City <- MCCity
  NoCity = NoCity
  WindowDays = 1
  OwnText = "own"
  Links <- MCLinks
  Canonical <- MCCanonical
  NoUrl = NoUrl
  Unsplittable = {"a:x"}
  BadRow = "bad"
  MaxResults = 2
  K = 1
  Scale = 6
  Texts <- MCTexts
  Answers <- MCAnswers
  Orders <- MCOrders
  Tastes <- MCTastes
  Settings <- MCDefault
  Events = {"call", "delete"}
INVARIANTS
  ExplorersAreDelivered
\* The owner may stop asking for runs.
CHECK_DEADLOCK FALSE
