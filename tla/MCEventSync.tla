---------------------------- MODULE MCEventSync -----------------------------
(* Small instances of EventSync for TLC. *)
EXTENDS EventSync

CONSTANTS a, b, c,          \* nodes
          ida, idb, idc,    \* their ids
          x, y              \* events

\* Each node has a key of its own.
OwnKeys == [n \in Nodes |-> CASE n = a -> ida [] n = b -> idb [] OTHER -> idc]

\* Two processes started in one directory share its node.key.
SharedKey == [n \in Nodes |-> ida]

\* x comes from a, y from b.
OneEach == [e \in Events |-> IF e = x THEN ida ELSE idb]

\* Every event comes from a.
AllFromA == [e \in Events |-> ida]
=============================================================================
