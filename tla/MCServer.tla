------------------------------ MODULE MCServer ------------------------------
(* Small instances of Server for TLC. *)
EXTENDS Server

CONSTANTS r1, r2, r3
=============================================================================
