----------------------------- MODULE EventSync ------------------------------
(***************************************************************************)
(* The event path of XaeroFlux (src/lib.rs): on every node an application, *)
(* the StorageActor and the NetworkActor joined by unbounded channels, one *)
(* SQLite events table per node, and the gossip topic between the nodes.   *)
(*                                                                         *)
(*   event_tx -> appQ -> StorageActor -> netQ -> NetworkActor -> gossip    *)
(*   event_rx <- rxQ  <-------------------------- NetworkActor <- gossip   *)
(*                                                                         *)
(* The gossip topic and the topic membership belong to iroh-gossip and are *)
(* modelled from how the code uses them: a broadcast reaches the nodes     *)
(* that are in the topic when it is made, and a copy may be late, lost,    *)
(* duplicated or echoed to a restarted author.                             *)
(*                                                                         *)
(* A handler that inserts a row and then sends on a channel is one action: *)
(* the channels die with the process, so a crash between the two leaves    *)
(* the state that a crash right after the send leaves.                     *)
(***************************************************************************)
EXTENDS Naturals, Sequences, Functions

CONSTANTS
  Nodes,     \* the processes that share one discovery key
  Events,    \* the events, told apart by Event.id
  NodeIds,   \* the node ids (public keys)
  NodeId,    \* the id each node runs under, read from node.key
  Source,    \* Event.source, the id of the node that made the event
  Durable,   \* the nodes whose events table is a file, not ":memory:"
  MaxQueue,  \* bound: events an application leaves unread by its StorageActor
  Faults     \* the kinds of fault the environment may inject

FaultKinds == {"crash", "dbfail", "sendfail", "close", "leave", "loss", "dup"}

ASSUME IdAssumption ==
  /\ NodeId \in [Nodes -> NodeIds]
  /\ Source \in [Events -> NodeIds]
ASSUME DurableAssumption == Durable \subseteq Nodes
ASSUME BoundAssumption == MaxQueue \in Nat
ASSUME FaultAssumption == Faults \subseteq FaultKinds

VARIABLES
  up,      \* the process runs
  open,    \* the application holds its XaeroFlux handle
  appQ,    \* event_tx to the StorageActor
  netQ,    \* StorageActor to NetworkActor (network_tx / outbound_rx)
  rxQ,     \* NetworkActor to application (inbound_tx / event_rx)
  db,      \* the events table: the ids it holds
  mesh,    \* the nodes joined to the events topic
  gossip,  \* copies on their way to each node
  \* history, read by no action of the code; the last three start afresh
  \* with a ":memory:" table
  published,  \* events a StorageActor ever inserted
  sent,       \* events a NetworkActor ever broadcast
  handed,     \* how often each node put an event on event_rx
  taken,      \* events each node's application has read from event_rx
  lost        \* events whose broadcast or hand-over a fault cut short

channelVars == <<appQ, netQ, rxQ>>
topicVars   == <<mesh, gossip>>
historyVars == <<published, sent, handed, taken, lost>>
vars == <<up, open, channelVars, db, topicVars, historyVars>>

\* The events that carry n's own id as their source.
Own(n) == {e \in Events : Source[e] = NodeId[n]}

\* What a process that is down no longer has.
VolatileEmpty(n) ==
  /\ ~open[n]
  /\ appQ[n] = <<>> /\ netQ[n] = <<>> /\ rxQ[n] = <<>>
  /\ n \notin mesh /\ gossip[n] = {}

\* The types, and that channels, topic membership and copies under way do not
\* outlive the process.
TypeOK ==
  /\ up \in [Nodes -> BOOLEAN]
  /\ open \in [Nodes -> BOOLEAN]
  /\ appQ \in [Nodes -> Seq(Events)]
  /\ netQ \in [Nodes -> Seq(Events)]
  /\ rxQ \in [Nodes -> Seq(Events)]
  /\ db \in [Nodes -> SUBSET Events]
  /\ mesh \subseteq Nodes
  /\ gossip \in [Nodes -> SUBSET Events]
  /\ published \subseteq Events
  /\ sent \subseteq Events
  /\ handed \in [Nodes -> [Events -> Nat]]
  /\ taken \in [Nodes -> SUBSET Events]
  /\ lost \in [Nodes -> SUBSET Events]
  /\ \A n \in Nodes : ~up[n] => VolatileEmpty(n)

Init ==
  /\ up = [n \in Nodes |-> TRUE]
  /\ open = [n \in Nodes |-> TRUE]
  /\ appQ = [n \in Nodes |-> <<>>]
  /\ netQ = [n \in Nodes |-> <<>>]
  /\ rxQ = [n \in Nodes |-> <<>>]
  /\ db = [n \in Nodes |-> {}]
  /\ mesh = {}
  /\ gossip = [n \in Nodes |-> {}]
  /\ published = {}
  /\ sent = {}
  /\ handed = [n \in Nodes |-> [e \in Events |-> 0]]
  /\ taken = [n \in Nodes |-> {}]
  /\ lost = [n \in Nodes |-> {}]

-----------------------------------------------------------------------------
(* The application.                                                        *)

\* event_tx.send: the callers always fill source with their own node_id.
Send(n, e) ==
  /\ open[n]
  /\ e \in Own(n)
  /\ Len(appQ[n]) < MaxQueue
  /\ appQ' = [appQ EXCEPT ![n] = Append(@, e)]
  /\ UNCHANGED <<up, open, netQ, rxQ, db, topicVars, historyVars>>

\* event_rx.recv.
Take(n) ==
  /\ open[n]
  /\ rxQ[n] # <<>>
  /\ rxQ' = [rxQ EXCEPT ![n] = Tail(@)]
  /\ taken' = [taken EXCEPT ![n] = @ \cup {Head(rxQ[n])}]
  /\ UNCHANGED <<up, open, appQ, netQ, db, topicVars, published, sent, handed, lost>>

\* Dropping the handle closes event_tx and discards what event_rx still
\* holds; both actors run on, the StorageActor until appQ is empty.
DropHandle(n) ==
  /\ "close" \in Faults
  /\ open[n]
  /\ open' = [open EXCEPT ![n] = FALSE]
  /\ rxQ' = [rxQ EXCEPT ![n] = <<>>]
  /\ lost' = [lost EXCEPT ![n] = @ \cup Range(rxQ[n])]
  /\ UNCHANGED <<up, appQ, netQ, db, topicVars, published, sent, handed, taken>>

-----------------------------------------------------------------------------
(* StorageActor::run.                                                      *)

\* MUTANT of StoreEvent: a row goes on only while the node is in the topic.
StoreForwardsIfJoined(n) ==
  /\ up[n]
  /\ appQ[n] # <<>>
  /\ appQ' = [appQ EXCEPT ![n] = Tail(@)]
  /\ LET e == Head(appQ[n]) IN
       /\ db' = [db EXCEPT ![n] = @ \cup {e}]
       /\ netQ' = IF n \in mesh /\ e \notin db[n] THEN [netQ EXCEPT ![n] = Append(@, e)] ELSE netQ
       /\ published' = published \cup {e}
  /\ UNCHANGED <<up, open, rxQ, topicVars, sent, handed, taken, lost>>

\* INSERT OR IGNORE: a new row goes on to the network actor, a known id
\* (rows = 0) ends here.
StoreEvent(n) ==
  /\ up[n]
  /\ appQ[n] # <<>>
  /\ appQ' = [appQ EXCEPT ![n] = Tail(@)]
  /\ LET e == Head(appQ[n]) IN
       \/ /\ e \notin db[n]
          /\ db' = [db EXCEPT ![n] = @ \cup {e}]
          /\ netQ' = [netQ EXCEPT ![n] = Append(@, e)]
          /\ published' = published \cup {e}
       \/ /\ e \in db[n]
          /\ UNCHANGED <<db, netQ, published>>
  /\ UNCHANGED <<up, open, rxQ, topicVars, sent, handed, taken, lost>>

\* MUTANT of StoreFails: the event is broadcast though no row records it.
StoreFailsForwards(n) ==
  /\ "dbfail" \in Faults
  /\ up[n]
  /\ appQ[n] # <<>>
  /\ appQ' = [appQ EXCEPT ![n] = Tail(@)]
  /\ netQ' = [netQ EXCEPT ![n] = Append(@, Head(appQ[n]))]
  /\ UNCHANGED <<up, open, rxQ, db, topicVars, historyVars>>

\* The insert returns Err: logged, the event is gone.
StoreFails(n) ==
  /\ "dbfail" \in Faults
  /\ up[n]
  /\ appQ[n] # <<>>
  /\ appQ' = [appQ EXCEPT ![n] = Tail(@)]
  /\ UNCHANGED <<up, open, netQ, rxQ, db, topicVars, historyVars>>

-----------------------------------------------------------------------------
(* NetworkActor::run.                                                      *)

Reached(n) == IF n \in mesh THEN mesh \ {n} ELSE {}

\* The copies of e the members of S are about to get.
Copied(S, e) == [k \in Nodes |-> gossip[k] \cup {f \in {e} : k \in S}]

\* MUTANT of Broadcast: the event goes to one neighbour only.
BroadcastToOne(n) ==
  /\ up[n]
  /\ netQ[n] # <<>>
  /\ \E S \in SUBSET Reached(n) :
       /\ Reached(n) = {} \/ \E k \in S : S = {k}
       /\ gossip' = Copied(S, Head(netQ[n]))
  /\ sent' = sent \cup {Head(netQ[n])}
  /\ netQ' = [netQ EXCEPT ![n] = Tail(@)]
  /\ UNCHANGED <<up, open, appQ, rxQ, db, mesh, published, handed, taken, lost>>

\* One broadcast, to whoever is in the topic now: to nobody when n is alone.
Broadcast(n) ==
  /\ up[n]
  /\ netQ[n] # <<>>
  /\ gossip' = Copied(Reached(n), Head(netQ[n]))
  /\ sent' = sent \cup {Head(netQ[n])}
  /\ netQ' = [netQ EXCEPT ![n] = Tail(@)]
  /\ UNCHANGED <<up, open, appQ, rxQ, db, mesh, published, handed, taken, lost>>

\* broadcast returns Err: logged, not retried.
BroadcastFails(n) ==
  /\ "sendfail" \in Faults
  /\ up[n]
  /\ netQ[n] # <<>>
  /\ netQ' = [netQ EXCEPT ![n] = Tail(@)]
  /\ lost' = [lost EXCEPT ![n] = @ \cup {Head(netQ[n])}]
  /\ UNCHANGED <<up, open, appQ, rxQ, db, topicVars, published, sent, handed, taken>>

\* inbound_tx.send: onto event_rx; with the receiver dropped the send fails,
\* after the row is in.
HandOver(n, e) ==
  \/ /\ open[n]
     /\ rxQ' = [rxQ EXCEPT ![n] = Append(@, e)]
     /\ handed' = [handed EXCEPT ![n][e] = @ + 1]
     /\ UNCHANGED lost
  \/ /\ ~open[n]
     /\ lost' = [lost EXCEPT ![n] = @ \cup {e}]
     /\ UNCHANGED <<rxQ, handed>>

\* A copy that is not for the application, whatever became of it.
Ignored == UNCHANGED <<db, rxQ, handed, lost>>

\* What every way of receiving a copy shares.
Received(n, e) ==
  /\ up[n]
  /\ e \in gossip[n]
  /\ gossip' = [gossip EXCEPT ![n] = @ \ {e}]
  /\ UNCHANGED <<up, open, appQ, mesh, published, sent, taken>>

\* MUTANT of Receive: the rows > 0 test is dropped.
ReceiveWithoutDedup(n, e) ==
  /\ Received(n, e)
  /\ UNCHANGED netQ
  /\ \/ e \in Own(n) /\ Ignored
     \/ /\ e \notin Own(n)
        /\ db' = [db EXCEPT ![n] = @ \cup {e}]
        /\ HandOver(n, e)

\* MUTANT of Receive: the source test is dropped.
ReceiveOwnToo(n, e) ==
  /\ Received(n, e)
  /\ UNCHANGED netQ
  /\ \/ e \in db[n] /\ Ignored
     \/ /\ e \notin db[n]
        /\ db' = [db EXCEPT ![n] = @ \cup {e}]
        /\ HandOver(n, e)

\* MUTANT of Receive: a synced event is broadcast again.
ReceiveAndRebroadcast(n, e) ==
  /\ Received(n, e)
  /\ \/ e \in Own(n) \cup db[n] /\ Ignored /\ UNCHANGED netQ
     \/ /\ e \notin Own(n) \cup db[n]
        /\ db' = [db EXCEPT ![n] = @ \cup {e}]
        /\ netQ' = [netQ EXCEPT ![n] = Append(@, e)]
        /\ HandOver(n, e)

\* GossipEvent::Received: ignored under n's own id; otherwise inserted, and
\* handed to the application only if the row is new.
Receive(n, e) ==
  /\ Received(n, e)
  /\ UNCHANGED netQ
  /\ \/ e \in Own(n) \cup db[n] /\ Ignored
     \/ /\ e \notin Own(n) \cup db[n]
        /\ db' = [db EXCEPT ![n] = @ \cup {e}]
        /\ HandOver(n, e)

\* MUTANT of ReceiveFails: the event is handed over though no row records it.
ReceiveFailsHands(n, e) ==
  /\ "dbfail" \in Faults
  /\ e \notin Own(n)
  /\ Received(n, e)
  /\ HandOver(n, e)
  /\ UNCHANGED <<netQ, db>>

\* The insert of a received event returns Err: logged, the copy is gone.
ReceiveFails(n, e) ==
  /\ "dbfail" \in Faults
  /\ e \notin Own(n)
  /\ Received(n, e)
  /\ Ignored
  /\ UNCHANGED netQ

-----------------------------------------------------------------------------
(* The process.                                                            *)

\* The channels between the actors, and whatever waits in them, end.
ChannelsEnd(n) ==
  /\ appQ' = [appQ EXCEPT ![n] = <<>>]
  /\ netQ' = [netQ EXCEPT ![n] = <<>>]
  /\ rxQ' = [rxQ EXCEPT ![n] = <<>>]

\* A table in a file survives the process, ":memory:" does not.
TableSurvives(n) ==
  \/ /\ n \in Durable
     /\ lost' = [lost EXCEPT ![n] = @ \cup Range(netQ[n]) \cup Range(rxQ[n])]
     /\ UNCHANGED <<db, handed, taken>>
  \/ /\ n \notin Durable
     /\ db' = [db EXCEPT ![n] = {}]
     /\ handed' = [handed EXCEPT ![n] = [e \in Events |-> 0]]
     /\ taken' = [taken EXCEPT ![n] = {}]
     /\ lost' = [lost EXCEPT ![n] = {}]

\* The process is gone from the machine and from the topic.
Ends(n) ==
  /\ "crash" \in Faults
  /\ up[n]
  /\ up' = [up EXCEPT ![n] = FALSE]
  /\ open' = [open EXCEPT ![n] = FALSE]
  /\ mesh' = mesh \ {n}
  /\ gossip' = [gossip EXCEPT ![n] = {}]
  /\ UNCHANGED <<published, sent>>

\* MUTANT of Crash: the outbound channel outlives the process.
CrashKeepsQueue(n) ==
  /\ Ends(n)
  /\ TableSurvives(n)
  /\ appQ' = [appQ EXCEPT ![n] = <<>>]
  /\ rxQ' = [rxQ EXCEPT ![n] = <<>>]
  /\ UNCHANGED netQ

\* The process ends, at any point (the CLI's send exits one second after its
\* event_tx.send).
Crash(n) == Ends(n) /\ ChannelsEnd(n) /\ TableSurvives(n)

\* XaeroFlux::from_config: same node.key, hence the same id; same table;
\* new channels and actors; not yet in the topic.
Restart(n) ==
  /\ ~up[n]
  /\ up' = [up EXCEPT ![n] = TRUE]
  /\ open' = [open EXCEPT ![n] = TRUE]
  /\ UNCHANGED <<channelVars, db, topicVars, historyVars>>

-----------------------------------------------------------------------------
(* iroh-gossip.                                                            *)

\* n finds neighbours on the events topic: during start-up or any time later.
Join(n) ==
  /\ up[n]
  /\ n \notin mesh
  /\ mesh' = mesh \cup {n}
  /\ UNCHANGED <<up, open, channelVars, db, gossip, historyVars>>

\* n loses its neighbours and the copies on their way to it.
Leave(n) ==
  /\ "leave" \in Faults
  /\ n \in mesh
  /\ mesh' = mesh \ {n}
  /\ gossip' = [gossip EXCEPT ![n] = {}]
  /\ UNCHANGED <<up, open, channelVars, db, historyVars>>

\* A copy is lost: a full receiver (GossipEvent::Lagged) or a broken stream.
Lose(n, e) ==
  /\ "loss" \in Faults
  /\ e \in gossip[n]
  /\ gossip' = [gossip EXCEPT ![n] = @ \ {e}]
  /\ UNCHANGED <<up, open, channelVars, db, mesh, historyVars>>

\* A neighbour passes on an event once more: to a node that has had it, or to
\* its restarted author, whose gossip state knows nothing of it.
Relay(n, e) ==
  /\ "dup" \in Faults
  /\ n \in mesh
  /\ e \in sent \ gossip[n]
  /\ gossip' = [gossip EXCEPT ![n] = @ \cup {e}]
  /\ UNCHANGED <<up, open, channelVars, db, mesh, historyVars>>

-----------------------------------------------------------------------------
Application(n) == Take(n) \/ DropHandle(n) \/ \E e \in Events : Send(n, e)
Storage(n)     == StoreEvent(n) \/ StoreFails(n)
Network(n)     == Broadcast(n) \/ BroadcastFails(n)
                  \/ \E e \in Events : Receive(n, e) \/ ReceiveFails(n, e)
Process(n)     == Crash(n) \/ Restart(n)
Topic(n)       == Join(n) \/ Leave(n) \/ \E e \in Events : Lose(n, e) \/ Relay(n, e)

Next ==
  \E n \in Nodes :
    Application(n) \/ Storage(n) \/ Network(n) \/ Process(n) \/ Topic(n)

Spec == Init /\ [][Next]_vars

\* Both actors loop for as long as their channels hold something, tokio's
\* select! picks among ready branches at random, and a reader reads.  Join is
\* fair because iroh keeps trying to reach the bootstrap peers.
Fairness ==
  \A n \in Nodes :
    /\ WF_vars(StoreEvent(n))
    /\ WF_vars(Broadcast(n))
    /\ WF_vars(Take(n))
    /\ WF_vars(Join(n))
    /\ \A e \in Events : WF_vars(Receive(n, e))

FairSpec == Spec /\ Fairness

-----------------------------------------------------------------------------
(* Safety.                                                                 *)

\* Deduplication (README "Events are deduplicated automatically"): whatever
\* gossip repeats, and across restarts on a database file, an application
\* gets an event at most once for as long as its table remembers it.
AtMostOnce ==
  \A n \in Nodes, e \in Events : handed[n][e] <= 1

\* README "Events from your own node are not sent back to event_rx".  Gossip
\* does echo them to a restarted node, and after a restart on ":memory:" the
\* table no longer knows them: only the source test of NetworkActor::run does.
NoEcho ==
  \A n \in Nodes, e \in Events : handed[n][e] > 0 => Source[e] # NodeId[n]

\* Store before broadcast (StorageActor::run): whatever is on the wire or in
\* a table anywhere, a node of the source id still has in its own table,
\* through any crash, unless that table was ":memory:".
AuthorKeepsIt ==
  \A n \in Nodes : \A e \in gossip[n] \cup db[n] :
    \E m \in Nodes : NodeId[m] = Source[e] /\ (m \in Durable => e \in db[m])

\* A node re-publishes nothing: what waits for its broadcast is its own, and
\* recorded in its table (gossip, not the code, relays other nodes' events).
BroadcastsOwn ==
  \A n \in Nodes : Range(netQ[n]) \subseteq Own(n) \cap db[n]

\* Once a row is in, INSERT OR IGNORE bars the event from every later attempt,
\* so the one attempt has to count: an own event in the table is queued for
\* its broadcast, was broadcast, or fell to a recorded fault; a synced event
\* is queued for the application, was read by it, or fell to a recorded fault.
OneAttempt ==
  \A n \in Nodes : \A e \in db[n] :
    IF e \in Own(n)
    THEN e \in Range(netQ[n]) \cup sent \cup lost[n]
    ELSE e \in Range(rxQ[n]) \cup taken[n] \cup lost[n]

\* Where the copies and rows come from: the application's own events, and
\* nothing on the wire or in a table that no StorageActor published.
FlowsFromAuthors ==
  /\ sent \subseteq published
  /\ \A n \in Nodes :
       /\ Range(appQ[n]) \subseteq Own(n)
       /\ gossip[n] \subseteq sent
       /\ db[n] \subseteq published

\* Every published event is still in a table of a node of its source id.
PublishedIsKept ==
  \A e \in published :
    \E m \in Nodes : NodeId[m] = Source[e] /\ (m \in Durable => e \in db[m])

\* What was handed over is in the table, which is what bars a second time.
HandedIsKnown ==
  \A n \in Nodes, e \in Events : handed[n][e] > 0 => e \in db[n]

\* The inductive invariant: the properties above and the facts they rest on.
IInv ==
  /\ TypeOK
  /\ AtMostOnce
  /\ NoEcho
  /\ HandedIsKnown
  /\ BroadcastsOwn
  /\ FlowsFromAuthors
  /\ PublishedIsKept
  /\ OneAttempt

\* The event path implements the abstract log: tables are what is known, and
\* an application is handed an event when it is put on event_rx.
Log == INSTANCE EventLog WITH
         known  <- db,
         handed <- [n \in Nodes |-> {e \in Events : handed[n][e] > 0}]
ImplementsLog == Log!Spec

-----------------------------------------------------------------------------
(* Liveness.                                                               *)

\* The nodes that run under the id e carries, the only ones to send it.
Authors(e) == {n \in Nodes : NodeId[n] = Source[e]}

\* README "How It Works", steps 1 to 5: an event that an application sends
\* while every node is in the topic, and stays there, reaches the application
\* of every node that runs under another id, whatever happened before.
SentIsDelivered ==
  \A e \in Events : \A m \in Authors(e), n \in Nodes \ Authors(e) :
    []( (e \in Range(appQ[m]) \ db[m] /\ [](mesh = Nodes)) => <>(e \in taken[n]) )

\* README "Works offline - syncs when connected": what a node stored, before
\* it found any neighbour too, is in every table at last.
WorksOffline ==
  \A m, n \in Nodes, e \in Events : e \in db[m] ~> e \in db[n]

\* README "CLI Demo": with both terminals connected, the receiver prints what
\* the first peer sends.
DemoReceiverPrints ==
  \A m, n \in Nodes, e \in Events :
    (mesh = Nodes /\ e \in Range(appQ[m]) \ db[m] /\ m # n) ~> e \in taken[n]
=============================================================================
