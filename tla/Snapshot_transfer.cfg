\* A workspace and two chats in a ring of two; restarts and broken streams.
SPECIFICATION FairSpec
CONSTANTS
  None = None
  grp = grp  ws = ws  c1 = c1  c2 = c2
  d1 = d1  d2 = d2
  Items = {ws, c1, c2}
  Kind <- Mixed
  MaxChats = 2
  Period = 0
  Word = 16
  MaxSkew = 0
  MaxTime = 1
  MaxArrivals = 3
  Marks = {1}
  Downloads = {d1, d2}
  Faults = {"crash", "loss"}
INVARIANTS TypeOK ServesWhatItAdvertised RingIsTheLatest SyncedByReceipt
PROPERTY GetsASnapshot
