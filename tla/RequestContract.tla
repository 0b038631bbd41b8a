--------------------------- MODULE RequestContract ---------------------------
(* What one outbound request promises its callbacks, apart from how it is    *)
(* implemented: hyper4k.h, "ABI v4: outbound client", Callbacks.             *)
(*   - events are delivered in the order the peer sent them, none twice and  *)
(*     none skipped;                                                         *)
(*   - a cancelled, closed or failed request delivers at most the event that *)
(*     was already on its way to the callback;                               *)
(*   - OnDone comes at most once, only after the request was settled, and    *)
(*     never while another callback of the request runs.                     *)
EXTENDS Naturals

VARIABLES sent,       \* events accepted from the network so far
          delivered,  \* the last event handed to a callback
          gate,       \* "running", "drain" or "discard"
          picked,     \* an event has passed the gate and will be delivered
          done        \* OnDones so far

vars == <<sent, delivered, gate, picked, done>>

Init == sent = 0 /\ delivered = 0 /\ gate = "running" /\ picked = FALSE /\ done = 0

Accept ==
  /\ gate # "drain"
  /\ sent' = sent + 1
  /\ UNCHANGED <<delivered, gate, picked, done>>

Settle ==
  /\ gate = "running"
  /\ gate' \in {"drain", "discard"}
  /\ UNCHANGED <<sent, delivered, picked, done>>

Pick ==
  /\ ~picked /\ gate # "discard" /\ delivered < sent
  /\ picked' = TRUE
  /\ UNCHANGED <<sent, delivered, gate, done>>

Deliver ==
  /\ picked
  /\ delivered' = delivered + 1
  /\ picked' = FALSE
  /\ UNCHANGED <<sent, gate, done>>

Done ==
  /\ gate # "running" /\ ~picked /\ done = 0
  /\ done' = 1
  /\ UNCHANGED <<sent, delivered, gate, picked>>

Next == Accept \/ Settle \/ Pick \/ Deliver \/ Done

Spec == Init /\ [][Next]_vars
=============================================================================
