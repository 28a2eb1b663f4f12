\* One node without neighbours, then two.
SPECIFICATION FairSpec
CONSTANTS
  a = a  b = b  c = c
  ida = ida  idb = idb  idc = idc
  x = x  y = y
  Nodes = {a, b}
  Events = {x}
  NodeIds = {ida, idb}
  NodeId <- OwnKeys
  Source <- AllFromA
  Durable = {a, b}
  MaxQueue = 2
  Faults = {}
PROPERTY WorksOffline
