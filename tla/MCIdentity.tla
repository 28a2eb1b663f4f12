----------------------------- MODULE MCIdentity -----------------------------
(* A small instance of Identity for TLC. *)
EXTENDS Identity, TLC

CONSTANTS p, q,        \* processes
          app,         \* an app
          k1, k2, k3, k4  \* keys

\* Nothing tells keys or processes apart.
Symmetry == Permutations(Processes) \cup Permutations(Keys)
=============================================================================
