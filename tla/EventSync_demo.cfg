\* The two terminals of the CLI demo: two database files, one directory, one node.key.
SPECIFICATION FairSpec
CONSTANTS
  a = a  b = b  c = c
  ida = ida  idb = idb  idc = idc
  x = x  y = y
  Nodes = {a, b}
  Events = {x}
  NodeIds = {ida}
  NodeId <- SharedKey
  Source <- AllFromA
  Durable = {a, b}
  MaxQueue = 2
  Faults = {}
PROPERTY DemoReceiverPrints
