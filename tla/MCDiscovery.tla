---------------------------- MODULE MCDiscovery -----------------------------
(* Small instances of Discovery for TLC. *)
EXTENDS Discovery

CONSTANTS p, q, r,   \* peers
          g, h,      \* groups
          m          \* a group message

\* No definition tells one peer from another.
PeersAlike == Permutations(Peers)
=============================================================================
