\* Two participants that add the blob, one that fetches it; every fault.
SPECIFICATION FairSpec
CONSTANTS
  a = a  b = b  c = c  blob = blob  c1 = c1  c2 = c2  f1 = f1  f2 = f2
  Nodes = {a, b, c}
  Blobs = {blob}
  Chunks = {c1, c2}
  Fetches = {f1}
  Adders = {a, b}
  Askers = {c}
  Leavers = {a, b}
  MaxOnWire = 1
  None = None
  Faults = {"crash", "slow", "break", "stall", "loss", "dup", "misname"}
INVARIANTS TypeOK HoldersDidHold FailsOnlyWithoutHolder
PROPERTIES ChunksStay FetchReturns AskerLearns
