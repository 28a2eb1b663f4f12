\* One group, three peers, a prune interval of two units, crashes and
\* database errors.
SPECIFICATION Spec
CONSTANTS
  p = p  q = q  r = r  g = g  h = h  m = m
  Peers = {p, q, r}
  Keys = {p, q, r}
  Groups = {g}
  Messages = {m}
  MaxAge = 2
  PruneEvery = 2
  MaxRelay = 1
  Faults = {"crash", "dbfail"}
INVARIANTS CacheCoherent SilenceIsBounded LiveStaysListed
SYMMETRY PeersAlike
