--------------------------- MODULE ClientContract ---------------------------
(* What a Hyper4kClient promises its callers, without threads, queues or     *)
(* counters: how many requests are unfinished at once and how many bytes     *)
(* they reserve, one OnDone for each, and nothing after hyper4k_client_free  *)
(* (lib/src/client/handle.rs, lib/include/hyper4k.h).                        *)
EXTENDS Integers, FiniteSets

CONSTANTS Requests, MaxInflight, MaxBytes, Cost

VARIABLES open,      \* admitted requests that have not had their OnDone
          finished,  \* requests that have had it
          gone       \* free has nothing left to wait for
vars == <<open, finished, gone>>

Reserved(S) == UNION {{r} \X (1 .. Cost[r]) : r \in S}

Init == open = {} /\ finished = {} /\ gone = FALSE

Admit(r) ==
  /\ ~gone /\ r \notin open \cup finished
  /\ Cardinality(open) < MaxInflight
  /\ Cardinality(Reserved(open)) + Cost[r] <= MaxBytes
  /\ open' = open \cup {r}
  /\ UNCHANGED <<finished, gone>>

OnDone(r) ==
  /\ r \in open
  /\ open' = open \ {r}
  /\ finished' = finished \cup {r}
  /\ UNCHANGED gone

Free ==
  /\ ~gone /\ open = {}
  /\ gone' = TRUE
  /\ UNCHANGED <<open, finished>>

Next == Free \/ \E r \in Requests : Admit(r) \/ OnDone(r)

Spec == Init /\ [][Next]_vars
=============================================================================
