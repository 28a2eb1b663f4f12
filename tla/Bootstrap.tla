----------------------------- MODULE Bootstrap ------------------------------
(***************************************************************************)
(* EventSync and Forwarder put together: the nodes of one discovery key,   *)
(* one of which, Boot, is the bootstrap server.  Its main loop is the      *)
(* application of Boot: it never sends, and its event_rx is the forwarder's *)
(* inbox.  Two kinds of writer put events on it: the NetworkActor, which   *)
(* hands over what is new to the events table, and the forwarders of the   *)
(* group topics, which hand over every message past that table.            *)
(*                                                                         *)
(* rxQ[Boot] is what of the inbox came by the NetworkActor, so that the    *)
(* nodes take the steps of EventSync and no others.                        *)
(***************************************************************************)
EXTENDS EventSync

CONSTANTS
  Boot,           \* the bootstrap server
  GroupMessages,  \* messages of the group topics, by the hash that is their id
  Content,        \* the parsed payload of each event and message, see Forwarder
  Groups, Workspaces, Boards, None,
  MaxArrivals,    \* bound: no group message comes after that many were handled
  IggyFaults      \* the faults of the Iggy server and the link to it

\* DB_PATH is a file.
ASSUME BootAssumption == Boot \in Nodes \cap Durable /\ Own(Boot) = {}
ASSUME MessageAssumption == GroupMessages \cap Events = {}

VARIABLES
  inbox,  \* event_rx of Boot
  enabled, workspaceGroup, boardWorkspace, client, lastError, counts,
  iggyUp, link, topicReady, log, handled, heard, missed,
  \* history
  came    \* the group messages that ever came to Boot

F == INSTANCE Forwarder WITH
       up     <- up[Boot],
       Events <- Events \cup GroupMessages,
       Faults <- IggyFaults \cup (Faults \cap {"crash"})

forwarderVars ==
  <<enabled, workspaceGroup, boardWorkspace, client, lastError, counts,
    iggyUp, link, topicReady, log, handled, heard, missed>>
allVars == <<vars, inbox, forwarderVars, came>>

BootInit == Init /\ F!Init /\ came = {}

\* The main loop while a node takes a step: an event that the NetworkActor of
\* Boot hands over goes to the end of the inbox.
Beside ==
  /\ \/ rxQ'[Boot] = rxQ[Boot] /\ UNCHANGED inbox
     \/ \E e \in Events :
          /\ rxQ'[Boot] = Append(rxQ[Boot], e)
          /\ inbox' = Append(inbox, e)
  /\ UNCHANGED <<forwarderVars, came>>

\* A peer, or Boot's actors and its place in the topic.
Peer(n) ==
  /\ n # Boot
  /\ Application(n) \/ Storage(n) \/ Network(n) \/ Process(n) \/ Topic(n)
  /\ Beside
BootNode == (Network(Boot) \/ Topic(Boot)) /\ Beside

\* A copy of a group message, the first or a further one: a group forwarder
\* puts it on event_rx, whatever the events table knows.
GroupForwards(g) ==
  /\ UNCHANGED vars
  /\ F!Arrive(g)
  /\ came' = came \cup {g}

\* The main loop of Boot reads what is first in line, of either kind.
BootHandles ==
  /\ inbox # <<>>
  /\ IF Head(inbox) \in Events THEN Take(Boot) ELSE UNCHANGED vars
  /\ F!Handle
  /\ UNCHANGED came
BootEnds     == Crash(Boot) /\ F!Crash /\ UNCHANGED came
BootRestarts == Restart(Boot) /\ F!Restart /\ UNCHANGED came

\* The connection to Iggy, which the topic knows nothing of.
Iggy ==
  /\ UNCHANGED <<vars, came>>
  /\ F!Reconnect \/ F!IggyStops \/ F!IggyStarts \/ F!LinkBreaks

BootNext ==
  \/ \E n \in Nodes : Peer(n)
  \/ \E g \in GroupMessages : GroupForwards(g)
  \/ BootNode \/ BootHandles \/ BootEnds \/ BootRestarts
  \/ Iggy

BootSpec == BootInit /\ [][BootNext]_allVars

\* As in EventSync and Forwarder, of the steps that matter below: a node
\* without events of its own has none to store or broadcast, and that nodes
\* find neighbours and Iggy comes back is what the properties presume.
BootFairness ==
  /\ \A n \in Nodes :
       /\ Own(n) # {} => WF_allVars(StoreEvent(n) /\ Beside)
       /\ Own(n) # {} => WF_allVars(Broadcast(n) /\ Beside)
       /\ n # Boot => WF_allVars(Take(n) /\ Beside)
       /\ \A e \in Events \ Own(n) : WF_allVars(Receive(n, e) /\ Beside)
  /\ WF_allVars(BootHandles)

BootFairSpec == BootSpec /\ BootFairness

-----------------------------------------------------------------------------
\* The nodes and the forwarder implement the feed: whatever gossip repeats,
\* through restarts of Boot on its database file and sends that fail after
\* the append, an event of the events topic is in Iggy at most once, and only
\* if an application sent it; a message of a group topic is there only if it
\* came, but may be there again for each time that it came.
Feed == INSTANCE EventFeed WITH
          Events   <- Events,
          Messages <- GroupMessages,
          feed     <- [i \in DOMAIN log |-> log[i].event]
ImplementsFeed == Feed!Spec

\* An event that an application sends while all nodes are in the topic and the
\* connection to Iggy is up, and all stay so, reaches Iggy if lens wants it.
ReachesIggy ==
  \A e \in Events : \A m \in Authors(e) :
    []( (/\ e \in Range(appQ[m]) \ db[m]
         /\ Content[e].kind \notin {"blank", "other", "foreign"}
         /\ [](mesh = Nodes /\ link /\ topicReady))
        => <>(\E i \in DOMAIN log : log[i].event = e) )
=============================================================================
