\* Peers a and d and the bootstrap server b; d runs on ":memory:".
SPECIFICATION BootFairSpec
CONSTANTS
  a = a  b = b  d = d
  ida = ida  idb = idb  idc = idc
  x = x  y = y  gm = gm  wsp = wsp
  Nodes = {a, b, d}
  Events = {x}
  NodeIds = {ida, idb, idc}
  NodeId <- OwnKeys
  Source <- AllFromA
  Durable = {a, b}
  MaxQueue = 1
  Faults = {"crash", "dup"}
  Boot = b
  GroupMessages = {gm}
  MaxArrivals = 2
  Content <- ChatAndFile
  Groups = {ida}
  Workspaces = {wsp}
  Boards = {}
  None = None
  IggyFaults = {"break"}
PROPERTIES ImplementsFeed SentIsDelivered ReachesIggy
