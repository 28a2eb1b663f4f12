\* Every fault; a has a database file, b runs on ":memory:".
SPECIFICATION Spec
CONSTANTS
  a = a  b = b  c = c
  ida = ida  idb = idb  idc = idc
  x = x  y = y
  Nodes = {a, b}
  Events = {x, y}
  NodeIds = {ida, idb}
  NodeId <- OwnKeys
  Source <- OneEach
  Durable = {a}
  MaxQueue = 2
  Faults = {"crash", "dbfail", "sendfail", "close", "leave", "loss", "dup"}
INVARIANTS TypeOK AtMostOnce NoEcho AuthorKeepsIt OneAttempt IInv
PROPERTY ImplementsLog
