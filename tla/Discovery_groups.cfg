\* Two groups, two peers, one of them without a proper key, crashes and failing
\* subscriptions.
SPECIFICATION FairSpec
CONSTANTS
  p = p  q = q  r = r  g = g  h = h  m = m
  Peers = {p, q}
  Keys = {p}
  Groups = {g, h}
  Messages = {}
  MaxAge = 1
  PruneEvery = 1
  MaxRelay = 0
  Faults = {"crash", "subfail"}
INVARIANTS TypeOK OneForwarder AnnouncedIsLinked
PROPERTIES NewcomerIntroduced DepartedIsDropped KeepsIntroducing
