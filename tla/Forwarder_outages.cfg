\* Every fault; a workspace, its board, an element of the board, a chat, a blank cell.
SPECIFICATION FairSpec
CONSTANTS
  wsp = wsp  bd = bd  g = g  node = node
  wsMade = wsMade  boardMade = boardMade  item = item  chat = chat  file = file  junk = junk
  Events = {wsMade, boardMade, item, chat, junk}
  Content <- OneBoard
  Groups = {g, node}
  Workspaces = {wsp}
  Boards = {bd}
  None = None
  MaxArrivals = 4
  Faults = {"crash", "outage", "break", "nocreate"}
INVARIANTS TypeOK ScopeAsHeard ForwardedInOrder CountsAreTrue
PROPERTY Reconnects
