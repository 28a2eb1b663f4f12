----------------------------- MODULE MCSnapshot -----------------------------
(* Small instances of Snapshot for TLC. *)
EXTENDS Snapshot

CONSTANTS grp, ws, c1, c2,  \* items
          d1, d2            \* downloads

Mixed == [i \in Items |-> CASE i = grp -> "group" [] i = ws -> "listed" [] OTHER -> "chat"]
=============================================================================
