------------------------------ MODULE EventLog ------------------------------
(***************************************************************************)
(* What XaeroFlux promises the applications that share a discovery key     *)
(* (README "What It Does", "How It Works"), with no channel, actor or      *)
(* gossip message in sight.  Every node keeps a set of known events.  An   *)
(* event is published by a node that carries its source id; another node   *)
(* may learn it, at most once for as long as it remembers it, and on       *)
(* learning it may hand it to its application.  Only a node without a      *)
(* database file ever forgets.  Nothing here says that an event must be    *)
(* learnt: that is the liveness property of EventSync.                     *)
(***************************************************************************)

CONSTANTS
  Nodes,    \* the processes that share one discovery key
  Events,   \* the events, told apart by Event.id
  NodeIds,  \* the node ids (public keys)
  NodeId,   \* the id each node runs under
  Source,   \* Event.source
  Durable   \* the nodes whose events table is a file

VARIABLES
  published,  \* the events some node has published
  known,      \* the events each node remembers
  handed      \* the events each node gave its application since it last forgot

logVars == <<published, known, handed>>

Init ==
  /\ published = {}
  /\ known = [n \in Nodes |-> {}]
  /\ handed = [n \in Nodes |-> {}]

Publish(n, e) ==
  /\ Source[e] = NodeId[n]
  /\ e \notin known[n]
  /\ published' = published \cup {e}
  /\ known' = [known EXCEPT ![n] = @ \cup {e}]
  /\ UNCHANGED handed

Learn(n, e) ==
  /\ Source[e] # NodeId[n]
  /\ e \in published \ known[n]
  /\ known' = [known EXCEPT ![n] = @ \cup {e}]
  /\ \/ handed' = [handed EXCEPT ![n] = @ \cup {e}]
     \/ UNCHANGED handed
  /\ UNCHANGED published

Forget(n) ==
  /\ n \notin Durable
  /\ known' = [known EXCEPT ![n] = {}]
  /\ handed' = [handed EXCEPT ![n] = {}]
  /\ UNCHANGED published

Next ==
  \E n \in Nodes :
    \/ Forget(n)
    \/ \E e \in Events : Publish(n, e) \/ Learn(n, e)

Spec == Init /\ [][Next]_logVars
=============================================================================
