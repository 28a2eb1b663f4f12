---------------------------- MODULE MCBlobSwarm -----------------------------
(* A small instance of BlobSwarm for TLC. *)
EXTENDS BlobSwarm

CONSTANTS a, b, c,     \* participants
          blob,        \* a blob
          c1, c2,      \* its chunks
          f1, f2       \* calls of fetch
=============================================================================
