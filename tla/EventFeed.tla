----------------------------- MODULE EventFeed ------------------------------
(***************************************************************************)
(* What the bootstrap server adds to the Iggy topic, with no node, channel *)
(* or connection in sight (src/bin/xaeroflux_bootstrap.rs, "events from    *)
(* cyan-backend peers ... to Iggy"): a feed to which each published event  *)
(* may be appended, once, and each message of a group topic that came, as  *)
(* often as it likes, for nothing tells its copies apart.  That an event   *)
(* is appended is the liveness property of Bootstrap.                      *)
(***************************************************************************)
EXTENDS Sequences, Functions

CONSTANTS
  Events,    \* those of the events topic
  Messages   \* those of the group topics

VARIABLES
  published,  \* the events some node has published
  came,       \* the messages that some group topic brought
  feed        \* what is in the Iggy topic, in order

Init == published = {} /\ came = {} /\ feed = <<>>

Publish(e) ==
  /\ published' = published \cup {e}
  /\ UNCHANGED <<came, feed>>

Comes(g) ==
  /\ came' = came \cup {g}
  /\ UNCHANGED <<published, feed>>

Feed(x) ==
  /\ x \in (published \ Range(feed)) \cup came
  /\ feed' = Append(feed, x)
  /\ UNCHANGED <<published, came>>

Next ==
  \/ \E e \in Events : Publish(e)
  \/ \E g \in Messages : Comes(g)
  \/ \E x \in Events \cup Messages : Feed(x)

Spec == Init /\ [][Next]_<<published, came, feed>>
=============================================================================
