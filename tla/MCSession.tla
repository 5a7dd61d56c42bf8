----------------------------- MODULE MCSession -----------------------------
(***************************************************************************)
(* Model values and symmetry for the runs of SessionLayer.                 *)
(***************************************************************************)
EXTENDS SessionInv, TLC

CONSTANTS w1, w2, q1, q2, resp, a1, a2, srv

Interchangeable == Permutations({w1, w2}) \cup Permutations({q1, q2})
============================================================================
