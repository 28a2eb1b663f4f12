---------------------------- MODULE MCForwarder -----------------------------
(* A small instance of Forwarder for TLC: one workspace, one board. *)
EXTENDS Forwarder

CONSTANTS wsp, bd, g, node,                            \* ids; node is a node id
          wsMade, boardMade, item, chat, file, junk  \* events

\* The workspace is created in group g, whose topic carries the board and its
\* item; chat and file come over the events topic, whose source is a node id.
OneBoard ==
  [e \in Events |->
     [kind  |-> CASE e = wsMade -> "workspace" [] e = boardMade -> "board" [] e = item -> "item"
                  [] e = chat -> "chat" [] e = file -> "file" [] OTHER -> "blank",
      group |-> IF e = wsMade THEN g ELSE None,
      ws    |-> IF e \in {wsMade, boardMade, chat} THEN wsp ELSE None,
      board |-> IF e \in {boardMade, item, junk} THEN bd ELSE None,
      topic |-> IF e \in {chat, file} THEN node ELSE g]]
=============================================================================
