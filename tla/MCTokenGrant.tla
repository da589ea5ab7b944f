---------------------------- MODULE MCTokenGrant ----------------------------
(* TokenGrant on a small instance. *)
EXTENDS TokenGrant, TLC

Symmetry == Permutations(Requests) \cup Permutations(Tokens \ Legacy)
=============================================================================
