SPECIFICATION Spec
CONSTANTS
  i1 = i1
  i2 = i2
  i3 = i3
  Queries = {q1}
  Items = {i1, i2, i3}
  Dates <- MCDates
  Stamp <- MCStamp
  StartsAt <- MCStartsAt
  NoDate = NoDate
  City <- MCCity
  NoCity = NoCity
  WindowDays = 1
  MaxIds = 3
  Candidates <- MCCandidates
  Venue <- MCVenue
  Blank = Blank
  AutoMerge = 9
  Tiebreak = 8
  BlockLimit = 2
INVARIANTS
  TypeOK
  RunsReadAlike
  BlocksAlike
  DuplicatesAreFound
