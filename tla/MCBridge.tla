------------------------------ MODULE MCBridge ------------------------------
(* Small instances of Bridge for TLC. *)
EXTENDS Bridge, TLC

CONSTANTS w1, w2, c1, c2, net

Perms == Permutations(Workers) \cup Permutations(Callers)
=============================================================================
