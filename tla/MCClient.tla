------------------------------ MODULE MCClient ------------------------------
(* Small instances of Client for TLC. *)
EXTENDS Client

CONSTANTS s1, s2, s3, w1

Bytes == [s \in Senders |-> IF s = s2 THEN 2 ELSE 1]
=============================================================================
