\* One group message that reaches the group's topic twice.
SPECIFICATION FairSpec
CONSTANTS
  p = p  q = q  r = r  g = g  h = h  m = m
  Peers = {p, q}
  Keys = {p, q}
  Groups = {g}
  Messages = {m}
  MaxAge = 1
  PruneEvery = 1
  MaxRelay = 2
  Faults = {}
INVARIANT GroupEventsDeduplicated
