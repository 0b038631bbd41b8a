------------------------------- MODULE Server -------------------------------
(* The server: the listener, handle() and the responder calls of             *)
(* lib/src/lib.rs, driven by the request dispatcher of Hyper4kServer.kt.     *)
(* Each request is a connection task of the engine and, once admitted, a     *)
(* coroutine that runs the user's handler, first inline in the callback and  *)
(* after a suspension on another thread.  Bodies and headers are left out.   *)
EXTENDS Integers, FiniteSets

CONSTANTS Requests,
          MaxConcurrent,  \* maxConcurrentRequests
          Capacity,       \* STREAM_CHANNEL_CAPACITY
          Timeouts,       \* requestTimeoutMillis > 0
          Tls             \* the listener was started with hyper4k_server_start_tls

ASSUME ServerBounds ==
  /\ IsFiniteSet(Requests) /\ MaxConcurrent \in Nat \ {0} /\ Capacity \in Nat \ {0}
  /\ Timeouts \in BOOLEAN /\ Tls \in BOOLEAN

VARIABLES
  conn,       \* the connection task of a request
  pending,    \* PENDING_RESPONSES
  slot, chan, \* SYNC_RESPONSE of the callback's thread; the oneshot channel
  streams,    \* ACTIVE_STREAMS
  queued,     \* chunks in a stream's channel
  co, inline, \* the coroutine, and whether it still runs inside the callback
  started, finished, \* NativeResponseChannel
  cancelled,  \* coroutines that have been cancelled
  accepting, active, slots,     \* AsyncRequestDispatcher
  refused,    \* requests whose answer counted as dropped
  stop, drained,                \* Hyper4kServer's start and stop; stop saw no active request
  ref         \* stateRef, the StableRef the callbacks reach the dispatcher through

engineVars == <<conn, pending, slot, chan>>
streamVars == <<streams, queued>>
channelVars == <<started, finished>>
gateVars == <<accepting, active, slots>>
stopVars == <<stop, drained, ref>>
vars == <<engineVars, streamVars, co, inline, channelVars, cancelled, gateVars, refused, stopVars>>

Init ==
  /\ conn = [r \in Requests |-> "new"] /\ pending = {}
  /\ slot = [r \in Requests |-> "none"] /\ chan = [r \in Requests |-> "none"]
  /\ streams = {} /\ queued = [r \in Requests |-> 0]
  /\ co = [r \in Requests |-> "none"] /\ inline = {}
  /\ started = {} /\ finished = {}
  /\ cancelled = {} /\ refused = {}
  /\ accepting = TRUE /\ active = 0 /\ slots = MaxConcurrent
  /\ stop = "off" /\ drained = FALSE /\ ref = FALSE

Go(r, l) == co' = [co EXCEPT ![r] = l]
-----------------------------------------------------------------------------
(* The listener.                                                             *)

(* Hyper4kServer::start up to the call of the engine. *)
CreateRef ==
  /\ stop = "off"
  /\ ref' = TRUE /\ stop' = "starting"
  /\ UNCHANGED <<engineVars, streamVars, co, inline, channelVars, cancelled, gateVars, refused, drained>>

(* hyper4k_server_start or _tls: the address, the certificate, the runtime   *)
(* or the bind fails and the ref goes; or the accept loop runs.              *)
StartServer ==
  /\ stop = "starting"
  /\ \/ stop' = "off" /\ ref' = FALSE
     \/ stop' = "running" /\ UNCHANGED ref
  /\ UNCHANGED <<engineVars, streamVars, co, inline, channelVars, cancelled, gateVars, refused, drained>>

(* Until the runtime is dropped, also while stop drains. *)
Serving == stop \in {"running", "drain", "shutdown"}

Set(r, l) == conn' = [conn EXCEPT ![r] = l]
OnlyConn == UNCHANGED <<pending, slot, chan, streamVars, co, inline, channelVars, cancelled, gateVars, refused, stopVars>>

Connect(r) == conn[r] = "new" /\ Serving /\ Set(r, "backlog") /\ OnlyConn

(* Mutant of Accept: the accept loop does the handshake itself. *)
AcceptInLoop(r) ==
  /\ conn[r] = "backlog" /\ Serving
  /\ \A q \in Requests : conn[q] # "handshake"
  /\ Set(r, IF Tls THEN "handshake" ELSE "open")
  /\ OnlyConn

(* The accept loop gives the connection a task of its own. *)
Accept(r) ==
  /\ conn[r] = "backlog" /\ Serving
  /\ Set(r, IF Tls THEN "handshake" ELSE "open")
  /\ OnlyConn

(* The peer completes the handshake, or fails it, or does neither. *)
Handshake(r) ==
  /\ conn[r] = "handshake" /\ Serving
  /\ Set(r, "open") \/ Set(r, "gone")
  /\ OnlyConn
-----------------------------------------------------------------------------
(* deliver_response.  IN_CALLBACK names r exactly on the thread that is in   *)
(* r's callback; there the delivery goes to the slot, and a second one, as a *)
(* 500, to the channel.  From any other thread it goes to the channel, which *)
(* takes one delivery while handle() has not dropped its end.                *)

(* Mutant of InSlot: a second delivery from the callback takes the slot too. *)
InSlotAlways(r) == r \in inline

InSlot(r) == r \in inline /\ slot[r] = "none"
Accepted(r) == InSlot(r) \/ r \in pending

Deliver(r, d) ==
  /\ slot' = IF InSlot(r) THEN [slot EXCEPT ![r] = d] ELSE slot
  /\ IF ~InSlot(r) /\ r \in pending
     THEN chan' = [chan EXCEPT ![r] = IF r \in inline THEN "full" ELSE d] /\ pending' = pending \ {r}
     ELSE UNCHANGED <<chan, pending>>
  /\ UNCHANGED conn

(* completeSafely with hyper4k_respond, which is not called while streaming. *)
Complete(r) ==
  /\ Deliver(r, "full")
  /\ refused' = IF Accepted(r) THEN refused ELSE refused \cup {r}
-----------------------------------------------------------------------------
(* The engine's side: handle() and the response body.                        *)

(* A body that is too large or broken is answered with 413 by the engine. *)
RejectBody(r) ==
  /\ conn[r] = "open" /\ Serving
  /\ Set(r, "answered")
  /\ OnlyConn

(* register_response, then the callback. *)
Arrive(r) ==
  /\ conn[r] = "open" /\ Serving
  /\ Set(r, "callback")
  /\ pending' = pending \cup {r}
  /\ inline' = inline \cup {r}
  /\ Go(r, "check")
  /\ UNCHANGED <<slot, chan, streamVars, channelVars, cancelled, gateVars, refused, stopVars>>

(* Mutant of CallbackReturns: the registration ends with the callback. *)
CallbackReturnsUnregistered(r) ==
  /\ conn[r] = "callback" /\ r \notin inline
  /\ conn' = [conn EXCEPT ![r] = CASE slot[r] = "none" -> "await" [] slot[r] = "stream" -> "streaming" [] OTHER -> "answered"]
  /\ pending' = pending \ {r}
  /\ UNCHANGED <<slot, chan, streamVars, co, inline, channelVars, cancelled, gateVars, refused, stopVars>>

Answer(r, d) == conn' = [conn EXCEPT ![r] = IF d = "stream" THEN "streaming" ELSE "answered"]

(* take_sync_response, else wait for the channel.  When handle() returns,    *)
(* the guard clears the registration.                                        *)
CallbackReturns(r) ==
  /\ conn[r] = "callback" /\ r \notin inline
  /\ slot' = [slot EXCEPT ![r] = "none"]
  /\ \/ slot[r] # "none" /\ Answer(r, slot[r]) /\ pending' = pending \ {r}
     \/ slot[r] = "none" /\ conn' = [conn EXCEPT ![r] = "await"] /\ UNCHANGED pending
  /\ UNCHANGED <<chan, streamVars, co, inline, channelVars, cancelled, gateVars, refused, stopVars>>

(* rx.await.  Its error branch is not reachable: a sender leaves the         *)
(* registry only to deliver, or with handle() itself.                        *)
ReceiveDelivery(r) ==
  /\ conn[r] = "await" /\ chan[r] # "none"
  /\ Answer(r, chan[r])
  /\ chan' = [chan EXCEPT ![r] = "none"]
  /\ UNCHANGED <<pending, slot, streamVars, co, inline, channelVars, cancelled, gateVars, refused, stopVars>>

(* The client reads a chunk, or the end once the last sender is dropped. *)
SendersOf(r) == r \in streams \/ co[r] \in {"send", "blocked"}

PollFrame(r) ==
  /\ conn[r] = "streaming"
  /\ \/ queued[r] > 0 /\ queued' = [queued EXCEPT ![r] = @ - 1] /\ UNCHANGED conn
     \/ queued[r] = 0 /\ ~SendersOf(r) /\ Answer(r, "full") /\ UNCHANGED queued
  /\ UNCHANGED <<pending, slot, chan, streams, co, inline, channelVars, cancelled, gateVars, refused, stopVars>>

(* The client disconnects: handle() or the body is dropped. *)
ClientGone(r) ==
  /\ conn[r] \in {"await", "streaming"}
  /\ conn' = [conn EXCEPT ![r] = "gone"]
  /\ pending' = pending \ {r}
  /\ UNCHANGED <<slot, chan, streamVars, co, inline, channelVars, cancelled, gateVars, refused, stopVars>>
-----------------------------------------------------------------------------
(* AsyncRequestDispatcher::submit, inside the callback.                      *)

(* onRequest's catch: submit throws while it copies the request.  The 500    *)
(* goes straight to the engine, which may refuse it uncounted.               *)
CatchThrow(r) ==
  /\ co[r] = "check"
  /\ Deliver(r, "full")
  /\ Go(r, "done") /\ inline' = inline \ {r}
  /\ UNCHANGED <<streamVars, channelVars, cancelled, gateVars, refused, stopVars>>

CheckAccepting(r) ==
  /\ co[r] = "check"
  /\ Go(r, IF accepting THEN "acquire" ELSE "reject")
  /\ UNCHANGED <<engineVars, streamVars, inline, channelVars, cancelled, gateVars, refused, stopVars>>

(* Mutant of AcquireSlot: the slot is taken without looking. *)
AcquireSlotAlways(r) ==
  /\ co[r] = "acquire"
  /\ slots' = slots - 1 /\ Go(r, "count")
  /\ UNCHANGED <<engineVars, streamVars, inline, channelVars, cancelled, accepting, active, refused, stopVars>>

AcquireSlot(r) ==
  /\ co[r] = "acquire"
  /\ \/ slots > 0 /\ slots' = slots - 1 /\ Go(r, "count")
     \/ slots = 0 /\ Go(r, "reject") /\ UNCHANGED slots
  /\ UNCHANGED <<engineVars, streamVars, inline, channelVars, cancelled, accepting, active, refused, stopVars>>

(* Mutant of Reject: the rejection gives back what was never taken. *)
RejectReleases(r) ==
  /\ co[r] = "reject"
  /\ Complete(r)
  /\ Go(r, "release")
  /\ UNCHANGED <<streamVars, inline, channelVars, cancelled, gateVars, stopVars>>

(* completeSafely(503), without a slot. *)
Reject(r) ==
  /\ co[r] = "reject"
  /\ Complete(r)
  /\ Go(r, "done") /\ inline' = inline \ {r}
  /\ UNCHANGED <<streamVars, channelVars, cancelled, gateVars, stopVars>>

CountActive(r) ==
  /\ co[r] = "count"
  /\ active' = active + 1
  /\ Go(r, "recheck")
  /\ UNCHANGED <<engineVars, streamVars, inline, channelVars, cancelled, accepting, slots, refused, stopVars>>

(* Mutant of Recheck: the second look at accepting is left out. *)
RecheckSkipped(r) ==
  /\ co[r] = "recheck"
  /\ Go(r, "handler")
  /\ UNCHANGED <<engineVars, streamVars, inline, channelVars, cancelled, gateVars, refused, stopVars>>

(* The second look, then launch(UNDISPATCHED): the handler starts here. *)
Recheck(r) ==
  /\ co[r] = "recheck"
  /\ Go(r, IF accepting THEN "handler" ELSE "finish")
  /\ UNCHANGED <<engineVars, streamVars, inline, channelVars, cancelled, gateVars, refused, stopVars>>
-----------------------------------------------------------------------------
(* The handler: what user code may do with its channel, and where it may     *)
(* suspend.  It follows the channel's contract.                              *)

Streaming(r) == r \in started \ finished

(* hyper4k_response_begin: claim the responder, then deliver the head. *)
BeginClaim(r) ==
  /\ co[r] = "handler" /\ r \notin started
  /\ streams' = streams \cup {r}
  /\ Go(r, "begin")
  /\ UNCHANGED <<engineVars, queued, inline, channelVars, cancelled, gateVars, refused, stopVars>>

(* Mutant of BeginDeliver: a failed begin keeps its claim. *)
BeginDeliverKeeps(r) ==
  /\ co[r] = "begin"
  /\ Deliver(r, "stream")
  /\ IF Accepted(r)
     THEN started' = started \cup {r} /\ Go(r, "handler")
     ELSE Go(r, "finish") /\ UNCHANGED started
  /\ UNCHANGED <<streamVars, inline, finished, cancelled, gateVars, refused, stopVars>>

BeginDeliver(r) ==
  /\ co[r] = "begin"
  /\ Deliver(r, "stream")
  /\ IF Accepted(r)
     THEN started' = started \cup {r} /\ Go(r, "handler") /\ UNCHANGED streams
     ELSE streams' = streams \ {r} /\ Go(r, "finish") /\ UNCHANGED started
  /\ UNCHANGED <<queued, inline, finished, cancelled, gateVars, refused, stopVars>>

(* write hops to the stream dispatcher and clones the sender there. *)
Write(r) ==
  /\ co[r] = "handler" /\ Streaming(r) /\ r \notin cancelled
  /\ inline' = inline \ {r}
  /\ Go(r, "send")
  /\ UNCHANGED <<engineVars, streamVars, started, finished, cancelled, gateVars, refused, stopVars>>

(* try_send, or blocking_send on a full channel: back to the handler when    *)
(* there is room or when the receiver is dropped (CLIENT_GONE).              *)
TrySend(r) ==
  /\ co[r] \in {"send", "blocked"}
  /\ \/ conn[r] = "gone" /\ Go(r, "handler") /\ UNCHANGED queued
     \/ conn[r] # "gone" /\ queued[r] < Capacity /\ Go(r, "handler") /\ queued' = [queued EXCEPT ![r] = @ + 1]
     \/ conn[r] # "gone" /\ queued[r] = Capacity /\ co[r] = "send" /\ Go(r, "blocked") /\ UNCHANGED queued
  /\ UNCHANGED <<engineVars, streams, inline, channelVars, cancelled, gateVars, refused, stopVars>>

(* The handler closes its own stream. *)
FinishChannel(r) ==
  /\ co[r] = "handler" /\ Streaming(r)
  /\ finished' = finished \cup {r}
  /\ streams' = streams \ {r}
  /\ UNCHANGED <<engineVars, queued, co, inline, started, cancelled, gateVars, refused, stopVars>>

Suspend(r) ==
  /\ co[r] = "handler" /\ r \notin cancelled
  /\ Go(r, "suspended") /\ inline' = inline \ {r}
  /\ UNCHANGED <<engineVars, streamVars, channelVars, cancelled, gateVars, refused, stopVars>>

(* The handler goes on, or unwinds when it has been cancelled. *)
Resume(r) ==
  /\ co[r] = "suspended"
  /\ Go(r, "handler")
  /\ UNCHANGED <<engineVars, streamVars, inline, channelVars, cancelled, gateVars, refused, stopVars>>

(* lazyTimeout: armed once the handler has suspended. *)
TimeOut(r) ==
  /\ Timeouts /\ co[r] \in {"handler", "send", "blocked", "begin", "suspended"} /\ r \notin inline \cup cancelled
  /\ cancelled' = cancelled \cup {r}
  /\ UNCHANGED <<engineVars, streamVars, co, inline, channelVars, gateVars, refused, stopVars>>

(* The handler returns a response or throws. *)
Return(r) ==
  /\ co[r] = "handler"
  /\ Go(r, "finish")
  /\ UNCHANGED <<engineVars, streamVars, inline, channelVars, cancelled, gateVars, refused, stopVars>>
-----------------------------------------------------------------------------
(* finish: close an open stream, or give the answer; a handler that closed   *)
(* its stream itself may return the `streamed` marker and gives none.        *)

(* Mutant of FinishRequest: an open stream is left to the handler. *)
FinishRequestLeavesStream(r) ==
  /\ co[r] = "finish"
  /\ \/ r \in started /\ UNCHANGED <<engineVars, streamVars, finished, refused>>
     \/ ~Streaming(r) /\ Complete(r) /\ UNCHANGED <<streamVars, finished>>
  /\ Go(r, "release")
  /\ UNCHANGED <<inline, started, cancelled, gateVars, stopVars>>

FinishRequest(r) ==
  /\ co[r] = "finish"
  /\ \/ Streaming(r) /\ finished' = finished \cup {r} /\ streams' = streams \ {r} /\ UNCHANGED <<engineVars, refused>>
     \/ ~Streaming(r) /\ Complete(r) /\ UNCHANGED <<streams, finished>>
     \/ r \in finished /\ UNCHANGED <<engineVars, streams, finished, refused>>
  /\ Go(r, "release")
  /\ UNCHANGED <<queued, inline, started, cancelled, gateVars, stopVars>>

ReleaseActive(r) ==
  /\ co[r] = "release"
  /\ active' = active - 1
  /\ Go(r, "unslot")
  /\ UNCHANGED <<engineVars, streamVars, inline, channelVars, cancelled, accepting, slots, refused, stopVars>>

ReleaseSlot(r) ==
  /\ co[r] = "unslot"
  /\ slots' = slots + 1
  /\ Go(r, "done") /\ inline' = inline \ {r}
  /\ UNCHANGED <<engineVars, streamVars, channelVars, cancelled, accepting, active, refused, stopVars>>
-----------------------------------------------------------------------------
(* Hyper4kServer::stop.                                                      *)

StopAccepting ==
  /\ stop = "running"
  /\ accepting' = FALSE
  /\ stop' = "drain"
  /\ UNCHANGED <<engineVars, streamVars, co, inline, channelVars, cancelled, active, slots, refused, drained, ref>>

(* Mutant of AwaitDrained: no deadline. *)
AwaitDrainedForever ==
  /\ stop = "drain" /\ active = 0
  /\ drained' = TRUE
  /\ stop' = "shutdown"
  /\ UNCHANGED <<engineVars, streamVars, co, inline, channelVars, cancelled, gateVars, refused, ref>>

(* awaitDrained: nothing active, or the grace period is over. *)
AwaitDrained ==
  /\ stop = "drain"
  /\ drained' = (active = 0)
  /\ stop' = "shutdown"
  /\ UNCHANGED <<engineVars, streamVars, co, inline, channelVars, cancelled, gateVars, refused, ref>>

(* The tasks that are dropped with the runtime. *)
Droppable == {"backlog", "handshake", "open", "await", "streaming"}

(* Mutant of ServerStop: the runtime is dropped without its workers. *)
ServerStopDetached ==
  /\ stop = "shutdown"
  /\ conn' = [r \in Requests |-> IF conn[r] \in Droppable THEN "gone" ELSE conn[r]]
  /\ pending' = {r \in pending : conn[r] = "callback"}
  /\ stop' = "cancel"
  /\ UNCHANGED <<slot, chan, streamVars, co, inline, channelVars, cancelled, gateVars, refused, drained, ref>>

(* hyper4k_server_stop drops the runtime: its workers end the poll they are  *)
(* in and every task is dropped.                                             *)
ServerStop ==
  /\ stop = "shutdown" /\ \A r \in Requests : conn[r] # "callback"
  /\ conn' = [r \in Requests |-> IF conn[r] \in Droppable THEN "gone" ELSE conn[r]]
  /\ pending' = {}
  /\ stop' = "cancel"
  /\ UNCHANGED <<slot, chan, streamVars, co, inline, channelVars, cancelled, gateVars, refused, drained, ref>>

(* cancelAndJoin, for as long as the grace period, then dispose. *)
CancelAll ==
  /\ stop = "cancel"
  /\ cancelled' = {r \in Requests : co[r] \notin {"none", "done"}}
  /\ stop' = "join"
  /\ UNCHANGED <<engineVars, streamVars, co, inline, channelVars, gateVars, refused, drained, ref>>

Dispose ==
  /\ stop = "join"
  /\ stop' = "stopped" /\ ref' = FALSE
  /\ UNCHANGED <<engineVars, streamVars, co, inline, channelVars, cancelled, gateVars, refused, drained>>
-----------------------------------------------------------------------------
EngineStep(r) == CallbackReturns(r) \/ ReceiveDelivery(r)

SubmitStep(r) ==
  \/ CatchThrow(r) \/ CheckAccepting(r) \/ AcquireSlot(r) \/ Reject(r) \/ CountActive(r) \/ Recheck(r)
  \/ BeginDeliver(r) \/ TrySend(r) \/ FinishRequest(r) \/ ReleaseActive(r) \/ ReleaseSlot(r)

HandlerStep(r) ==
  \/ BeginClaim(r) \/ Write(r) \/ FinishChannel(r) \/ Suspend(r) \/ Resume(r)
  \/ TimeOut(r) \/ Return(r)

StartStep == CreateRef \/ StartServer

StopStep == AwaitDrained \/ ServerStop \/ CancelAll \/ Dispose

Next ==
  \/ \E r \in Requests :
       \/ Connect(r) \/ Accept(r) \/ Handshake(r) \/ RejectBody(r) \/ Arrive(r)
       \/ EngineStep(r) \/ PollFrame(r) \/ ClientGone(r) \/ SubmitStep(r) \/ HandlerStep(r)
  \/ StartStep \/ StopAccepting \/ StopStep

Spec == Init /\ [][Next]_vars

(* The accept loop and the dispatcher keep running; a handler does not keep  *)
(* the callback's thread for ever: it suspends or returns.  Not assumed:     *)
(* that a suspended handler goes on, that a client reads or stays.           *)
LeaveHandler(r) == r \in inline /\ (Suspend(r) \/ Return(r))

Fairness ==
  /\ \A r \in Requests : WF_vars(EngineStep(r)) /\ WF_vars(SubmitStep(r)) /\ WF_vars(LeaveHandler(r))
  /\ \A r \in Requests : WF_vars(Accept(r))
  /\ WF_vars(StopStep)

FairSpec == Spec /\ Fairness
-----------------------------------------------------------------------------
(* Properties.                                                               *)

Holding == {"count", "recheck", "handler", "begin", "send", "blocked", "suspended", "finish", "release", "unslot"}
InHandler == {"handler", "begin", "send", "blocked", "suspended"}

(* The types of the registries, the channels and the dispatcher's counters. *)
TypeOK ==
  /\ conn \in [Requests -> Droppable \cup {"new", "callback", "answered", "gone"}]
  /\ slot \in [Requests -> {"none", "full", "stream"}] /\ chan \in [Requests -> {"none", "full", "stream"}]
  /\ co \in [Requests -> Holding \cup {"none", "check", "acquire", "reject", "done"}]
  /\ queued \in [Requests -> 0 .. Capacity]
  /\ pending \subseteq Requests /\ streams \subseteq Requests /\ inline \subseteq Requests
  /\ started \subseteq Requests /\ finished \subseteq started /\ cancelled \subseteq Requests
  /\ refused \subseteq Requests
  /\ accepting \in BOOLEAN /\ active \in Nat /\ slots \in 0 .. MaxConcurrent
  /\ stop \in {"off", "starting", "running", "drain", "shutdown", "cancel", "join", "stopped"}
  /\ drained \in BOOLEAN /\ ref \in BOOLEAN

(* Nobody waits for what never comes: when a request's coroutine is over, a  *)
(* connection that still waits has its delivery, and a stream that is still  *)
(* open will end because no sender is left.                                  *)
NobodyWaitsInVain == \A r \in Requests : co[r] = "done" =>
  /\ conn[r] = "await" => chan[r] # "none"
  /\ conn[r] = "callback" => slot[r] # "none" \/ chan[r] # "none"
  /\ conn[r] = "streaming" => ~SendersOf(r)

(* The engine refuses an answer only when the client is gone or the handler  *)
(* has already streamed one; a request in its callback or waiting gets it.   *)
RefusedOnlyWhenOver == \A r \in refused : conn[r] = "gone" \/ r \in finished

(* A delivery stays in its slot or channel until handle() answers with it:   *)
(* no later respond or begin, from the callback or from another thread,      *)
(* takes its place, so the first answer is the one the client gets.          *)
Reply(d) == IF d = "stream" THEN "streaming" ELSE "answered"
Kept(box, r) == box[r] # "none" =>
  box'[r] = box[r] \/ (box'[r] = "none" /\ conn'[r] = Reply(box[r]))
FirstAnswerCounts == [][\A r \in Requests : Kept(slot, r) /\ Kept(chan, r)]_vars

(* A claimed responder is released on every way out of the handler: failed   *)
(* begin, exception, timeout, cancellation, lost client (the entry would     *)
(* stay in ACTIVE_STREAMS for the life of the process).                      *)
StreamsReleased == \A r \in streams : co[r] \in InHandler \cup {"finish"} /\ (co[r] = "begin" \/ Streaming(r))

(* Admission: at most maxConcurrentRequests handlers at a time, and the slot *)
(* and the count of a request that is over have been given back.             *)
SlotsBalance ==
  /\ slots = MaxConcurrent - Cardinality({r \in Requests : co[r] \in Holding})
  /\ active = Cardinality({r \in Requests : co[r] \in Holding \ {"count", "unslot"}})

(* Once stop has seen no active request no handler runs or starts, whatever  *)
(* callbacks were in the middle of submit ("drains in-flight handlers").     *)
DrainIsQuiet == drained => \A r \in Requests : co[r] \notin InHandler

(* A callback finds the dispatcher behind user_data: the ref is there before *)
(* the first connection is accepted and goes after the last callback, and a  *)
(* start that failed leaves none behind.                                     *)
CallbackHasDispatcher ==
  /\ ~ref => \A r \in Requests : conn[r] # "callback"
  /\ stop = "off" => ~ref

(* "a slow or hostile peer that never finishes" its handshake does not       *)
(* "stall every connection queued behind it" (lib.rs): every connection is   *)
(* accepted, or ends with the server.                                        *)
BacklogMoves == \A r \in Requests : conn[r] = "backlog" ~> conn[r] # "backlog"

(* stop returns, with handlers that never end, clients that never read and   *)
(* writers blocked on them.                                                  *)
StopReturns == stop = "drain" ~> stop = "stopped"
=============================================================================
