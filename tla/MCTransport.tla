---------------------------- MODULE MCTransport -----------------------------
(* Structs of every version, and two requests, so that the second can find   *)
(* the connection of the first.                                              *)
EXTENDS Transport

(* Too short; the minimum; options of ABI 4.0, which have no proxy; a caller *)
(* newer than this build.                                                    *)
MCSizes == {1, 2, 5, 7}
=============================================================================
