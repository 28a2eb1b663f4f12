\* One event, downloaded long after it was made.
SPECIFICATION FairSpec
CONSTANTS
  None = None
  grp = grp  ws = ws  c1 = c1  c2 = c2
  d1 = d1  d2 = d2
  Items = {c1}
  Kind <- Mixed
  MaxChats = 2
  Period = 1
  Word = 16
  MaxSkew = 0
  MaxTime = 3
  MaxArrivals = 1
  Marks = {}
  Downloads = {d1}
  Faults = {}
PROPERTY RequestsOnlyAfterPeriod
