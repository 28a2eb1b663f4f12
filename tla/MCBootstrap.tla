---------------------------- MODULE MCBootstrap -----------------------------
(* A small instance of Bootstrap for TLC. *)
EXTENDS Bootstrap

CONSTANTS a, b, d, ida, idb, idc,  \* nodes and their ids
          x, y, gm,                \* events, and a group message
          wsp                      \* a workspace

OwnKeys == [n \in Nodes |-> CASE n = a -> ida [] n = b -> idb [] OTHER -> idc]
AllFromA == [e \in Events |-> ida]

\* A chat or a file over the events topic, a chat over a group topic.
ChatAndFile ==
  [e \in Events \cup GroupMessages |->
     [kind |-> IF e = y THEN "file" ELSE "chat", group |-> None,
      ws |-> IF e = y THEN None ELSE wsp, board |-> None, topic |-> ida]]
=============================================================================
