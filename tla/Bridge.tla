------------------------------- MODULE Bridge -------------------------------
(* One outbound request of the client: its slot (bounded event queue), the   *)
(* terminal gate, pause/resume, the executor workers that deliver its events *)
(* and the threads that settle it.  Every step is one access to shared state *)
(* of lib/src/client/bridge.rs; the atomics there are all SeqCst.            *)
EXTENDS Integers, Sequences

CONSTANTS Workers,    \* threads of the BridgeExecutor
          Callers,    \* threads (callback threads included) calling the C ABI
          Net,        \* the Tokio task running run_request for this request
          Capacity,   \* queue_capacity, the permits of Slot::space
          Slice,      \* executor SLICE, the events of one run_slice
          MaxEvents,  \* bound: events the peer sends (event 1 is the headers)
          Verdicts,   \* what the user's callbacks may answer
          Ops         \* what the callers may call

Threads == Workers \cup Callers \cup {Net}
RUNNING == "running"
DRAIN == "drain"
DISCARD == "discard"

ASSUME ThreadsDisjoint ==
  /\ Workers \cap Callers = {}
  /\ Net \notin Workers \cup Callers
ASSUME BoundsPositive ==
  /\ Capacity \in Nat \ {0}
  /\ Slice \in Nat \ {0}
  /\ MaxEvents \in Nat \ {0}
ASSUME EnvironmentChoices ==
  /\ Verdicts \subseteq {"continue", "pause", "cancel"}
  /\ Ops \subseteq {"resume", "cancel", "close"}

VARIABLES
  gate,         \* RequestState::state
  paused,       \* RequestState::paused
  guard,        \* RequestState::pause_guard holds a PauseGuard
  inCallback,   \* RequestState::in_callback
  permit,       \* RequestState::permit
  queue,        \* Slot::queue, events named by their position in the response
  space,        \* Slot::space, available permits
  terminal,     \* Slot::terminal is Some
  doneReady,    \* Slot::done_ready
  scheduled,    \* Slot::scheduled
  running,      \* Slot::running
  finished,     \* Slot::finished_flag
  registered,   \* the id is in Hyper4kClient::requests (and counted in bridges)
  ready,        \* how many times the slot is in the executor's ready queue
  aborted,      \* the task's AbortHandle was taken and fired
  pc, ret,      \* where each thread is, and where it returns to
  budget, held, \* locals of run_owned: events left, event popped
  sent, delivered, done  \* history: last event queued, last delivered, OnDones

reqVars == <<gate, paused, guard, inCallback, permit>>
queueVars == <<queue, space>>
endVars == <<terminal, doneReady, finished, registered>>
schedVars == <<scheduled, running, ready>>
localVars == <<ret, budget, held>>
history == <<sent, delivered, done>>
vars == <<reqVars, queueVars, endVars, schedVars, aborted, pc, localVars, history>>

Init ==
  /\ gate = RUNNING /\ paused = FALSE /\ guard = FALSE
  /\ inCallback = FALSE /\ permit = FALSE
  /\ queue = <<>> /\ space = Capacity
  /\ terminal = FALSE /\ doneReady = FALSE /\ finished = FALSE /\ registered = TRUE
  /\ scheduled = FALSE /\ running = FALSE /\ ready = 0
  /\ aborted = FALSE
  /\ pc = [t \in Threads |-> IF t = Net THEN "await" ELSE "idle"]
  /\ ret = [t \in Threads |-> "idle"]
  /\ budget = [w \in Workers |-> 0]
  /\ held = [w \in Workers |-> 0]
  /\ sent = 0 /\ delivered = 0 /\ done = 0

Go(t, l) == pc' = [pc EXCEPT ![t] = l]

(* A step that only reads shared state and moves on. *)
Branch(t, l) ==
  /\ Go(t, l)
  /\ UNCHANGED <<reqVars, queueVars, endVars, schedVars, aborted, localVars, history>>
-----------------------------------------------------------------------------
(* Executor workers: worker_loop, run_slice and run_owned.                   *)

(* Mutant of TakeReady: run_slice without the running.swap guard. *)
TakeReadyUnguarded(w) ==
  /\ pc[w] = "idle" /\ ready > 0
  /\ ready' = ready - 1
  /\ running' = TRUE
  /\ Go(w, "begin")
  /\ UNCHANGED <<reqVars, queueVars, endVars, scheduled, aborted, localVars, history>>

(* worker_loop takes the slot off the ready queue, and run_slice starts with *)
(* running.swap(true): the loser bounces.                                    *)
TakeReady(w) ==
  /\ pc[w] = "idle" /\ ready > 0
  /\ ready' = ready - 1
  /\ running' = TRUE
  /\ Go(w, IF running THEN "bounce" ELSE "begin")
  /\ UNCHANGED <<reqVars, queueVars, endVars, scheduled, aborted, localVars, history>>

Bounce(w) ==
  /\ pc[w] = "bounce"
  /\ scheduled' = FALSE
  /\ Go(w, "idle")
  /\ UNCHANGED <<reqVars, queueVars, endVars, running, ready, aborted, localVars, history>>

BeginSlice(w) ==
  /\ pc[w] = "begin"
  /\ scheduled' = FALSE
  /\ budget' = [budget EXCEPT ![w] = Slice]
  /\ Go(w, "check")
  /\ UNCHANGED <<reqVars, queueVars, endVars, running, ready, aborted, ret, held, history>>

(* Mutant of CheckPaused: a loop that outruns its budget. *)
CheckPausedNoBudget(w) ==
  /\ pc[w] = "check"
  /\ Branch(w, IF paused THEN "leave" ELSE "pop")

(* The head of the delivery loop: a spent budget ends it, a pause returns.   *)
CheckPaused(w) ==
  /\ pc[w] = "check"
  /\ Branch(w, IF budget[w] = 0 THEN "drained" ELSE IF paused THEN "leave" ELSE "pop")

(* pop_front; the popped event's permit goes straight back to the producer. *)
PopEvent(w) ==
  /\ pc[w] = "pop"
  /\ \/ /\ queue = <<>>
        /\ Go(w, "drained")
        /\ UNCHANGED <<queueVars, held>>
     \/ /\ queue # <<>>
        /\ held' = [held EXCEPT ![w] = Head(queue)]
        /\ queue' = Tail(queue)
        /\ space' = space + 1
        /\ Go(w, "gate")
  /\ UNCHANGED <<reqVars, endVars, schedVars, aborted, ret, budget, history>>

(* Mutant of CheckGate: a discarding request still delivers. *)
CheckGateDelivers(w) ==
  /\ pc[w] = "gate"
  /\ Branch(w, "call")

(* The event is dropped when the request is discarding, delivered otherwise. *)
CheckGate(w) ==
  /\ pc[w] = "gate"
  /\ \/ /\ gate = DISCARD
        /\ budget' = [budget EXCEPT ![w] = @ - 1]
        /\ held' = [held EXCEPT ![w] = 0]
        /\ Go(w, "check")
     \/ /\ gate # DISCARD
        /\ Go(w, "call")
        /\ UNCHANGED <<budget, held>>
  /\ UNCHANGED <<reqVars, queueVars, endVars, schedVars, aborted, ret, history>>

EnterCallback(w) ==
  /\ pc[w] = "call"
  /\ inCallback' = TRUE
  /\ Go(w, "callback")
  /\ UNCHANGED <<gate, paused, guard, permit, queueVars, endVars, schedVars, aborted, localVars, history>>

(* on_headers or on_chunk runs and answers; headers cannot answer PAUSE. *)
Deliver(w) ==
  /\ pc[w] = "callback"
  /\ delivered' = held[w]
  /\ held' = [held EXCEPT ![w] = 0]
  /\ \E v \in Verdicts : /\ v = "pause" => held[w] > 1
                         /\ Go(w, v)
  /\ UNCHANGED <<reqVars, queueVars, endVars, schedVars, aborted, ret, budget, sent, done>>

LeaveCallback(w) ==
  /\ pc[w] \in {"continue", "pause", "cancel"}
  /\ inCallback' = FALSE
  /\ Go(w, CASE pc[w] = "continue" -> "clear"
             [] pc[w] = "pause" -> "consume"
             [] pc[w] = "cancel" -> "cancelled")
  /\ UNCHANGED <<gate, paused, guard, permit, queueVars, endVars, schedVars, aborted, localVars, history>>

(* CONTINUE: a resume that came during the callback is forgotten. *)
ClearPermit(w) ==
  /\ pc[w] = "clear"
  /\ permit' = FALSE
  /\ budget' = [budget EXCEPT ![w] = @ - 1]
  /\ Go(w, "check")
  /\ UNCHANGED <<gate, paused, guard, inCallback, queueVars, endVars, schedVars, aborted, ret, held, history>>

(* CANCEL: the worker settles the slot itself, then returns false. *)
CancelFromCallback(w) ==
  /\ pc[w] = "cancelled"
  /\ permit' = FALSE
  /\ ret' = [ret EXCEPT ![w] = "leave"]
  /\ Go(w, "abandon")
  /\ UNCHANGED <<gate, paused, guard, inCallback, queueVars, endVars, schedVars, aborted, budget, held, history>>

(* PAUSE: permit.swap(false), an early resume takes the pause back. *)
ConsumePermit(w) ==
  /\ pc[w] = "consume"
  /\ permit' = FALSE
  /\ \/ /\ permit
        /\ budget' = [budget EXCEPT ![w] = @ - 1]
        /\ Go(w, "check")
     \/ /\ ~permit
        /\ Go(w, "park")
        /\ UNCHANGED budget
  /\ UNCHANGED <<gate, paused, guard, inCallback, queueVars, endVars, schedVars, aborted, ret, held, history>>

(* enter_pause, in two stores: the flag, then the guard. *)
Park(w) ==
  /\ pc[w] = "park"
  /\ paused' = TRUE
  /\ Go(w, "hold")
  /\ UNCHANGED <<gate, guard, inCallback, permit, queueVars, endVars, schedVars, aborted, localVars, history>>

HoldGuard(w) ==
  /\ pc[w] = "hold"
  /\ guard' = TRUE
  /\ Go(w, "leave")
  /\ UNCHANGED <<gate, paused, inCallback, permit, queueVars, endVars, schedVars, aborted, localVars, history>>

(* After the loop: the queue is looked at, then done_ready.  "yield" returns *)
(* true from run_owned, "leave" returns false.                               *)
CheckEmpty(w) ==
  /\ pc[w] = "drained"
  /\ Branch(w, IF queue = <<>> THEN "checkdone" ELSE "yield")

(* done_ready and terminal.take(): OnDone runs, then finished_flag is set. *)
DeliverDone(w) ==
  /\ pc[w] = "checkdone"
  /\ \/ /\ doneReady /\ terminal
        /\ terminal' = FALSE
        /\ done' = done + 1
        /\ finished' = TRUE
        /\ Go(w, "cleanup")
     \/ /\ ~(doneReady /\ terminal)
        /\ Go(w, "leave")
        /\ UNCHANGED <<terminal, done, finished>>
  /\ UNCHANGED <<reqVars, queueVars, doneReady, registered, schedVars, aborted, localVars, sent, delivered>>

(* The finished closure and counter.leave().  requests.remove takes the map  *)
(* shard's write lock, so it waits for callers still inside requests.get.    *)
Cleanup(w) ==
  /\ pc[w] = "cleanup"
  /\ \A c \in Callers : pc[c] = "idle"
  /\ registered' = FALSE
  /\ Go(w, "leave")
  /\ UNCHANGED <<reqVars, queueVars, terminal, doneReady, finished, schedVars, aborted, localVars, history>>

LeaveSlice(w) ==
  /\ pc[w] \in {"leave", "yield"}
  /\ running' = FALSE
  /\ budget' = [budget EXCEPT ![w] = 0]
  /\ Go(w, IF pc[w] = "leave" THEN "recheck" ELSE "yielded")
  /\ UNCHANGED <<reqVars, queueVars, endVars, scheduled, ready, aborted, ret, held, history>>

(* Nothing follows OnDone: a finished slot is not re-queued. *)
CheckFinished(w) ==
  /\ pc[w] \in {"recheck", "yielded"}
  /\ Branch(w, CASE finished -> "idle"
                 [] ~finished /\ pc[w] = "recheck" -> "requeue?"
                 [] ~finished /\ pc[w] = "yielded" -> "requeue")

(* more || !queue.is_empty(): worker_loop puts the slot back. *)
Requeue(w) ==
  /\ pc[w] \in {"requeue?", "requeue"}
  /\ ready' = IF pc[w] = "requeue" \/ queue # <<>> THEN ready + 1 ELSE ready
  /\ Go(w, "idle")
  /\ UNCHANGED <<reqVars, queueVars, endVars, scheduled, running, aborted, localVars, history>>
-----------------------------------------------------------------------------
(* settle_slot, run by a worker, a caller or the network task.  "abandon"    *)
(* settles with discard = true, "complete" with discard = false.             *)

(* claim(): compare_exchange from RUNNING. *)
Claim(t) ==
  /\ pc[t] \in {"abandon", "complete"}
  /\ \/ /\ gate = RUNNING
        /\ gate' = IF pc[t] = "abandon" THEN DISCARD ELSE DRAIN
        /\ Go(t, "publish")
     \/ /\ gate # RUNNING
        /\ Go(t, IF pc[t] = "abandon" THEN "lost" ELSE ret[t])
        /\ UNCHANGED gate
  /\ UNCHANGED <<paused, guard, inCallback, permit, queueVars, endVars, schedVars, aborted, localVars, history>>

(* The terminal, then done_ready, then one permit more so that a producer    *)
(* waiting for room wakes and sees the gate.                                 *)
Publish(t) ==
  /\ pc[t] = "publish"
  /\ terminal' = TRUE
  /\ doneReady' = TRUE
  /\ space' = space + 1
  /\ Go(t, IF gate = DISCARD THEN "unpark" ELSE "schedule")
  /\ UNCHANGED <<reqVars, queue, finished, registered, schedVars, aborted, localVars, history>>

(* discard && paused: the winner of claim reschedules in any case, the loser *)
(* only when it releases a pause.                                            *)
ReleasePause(t) ==
  /\ pc[t] \in {"unpark", "lost"}
  /\ Branch(t, CASE paused -> "unpause"
             [] ~paused /\ pc[t] = "unpark" -> "schedule"
             [] ~paused /\ pc[t] = "lost" -> ret[t])

(* leave_pause, in two stores: the flag, then the guard is dropped. *)
Unpause(t) ==
  /\ pc[t] = "unpause"
  /\ paused' = FALSE
  /\ Go(t, "unguard")
  /\ UNCHANGED <<gate, guard, inCallback, permit, queueVars, endVars, schedVars, aborted, localVars, history>>

DropGuard(t) ==
  /\ pc[t] = "unguard"
  /\ guard' = FALSE
  /\ Go(t, "schedule")
  /\ UNCHANGED <<gate, paused, inCallback, permit, queueVars, endVars, schedVars, aborted, localVars, history>>

(* Mutant of ScheduleSlot: a caller waits for the slice that is running. *)
ScheduleSlotWaits(t) ==
  /\ pc[t] = "schedule" /\ (t \in Callers => ~running)
  /\ scheduled' = TRUE
  /\ ready' = IF scheduled THEN ready ELSE ready + 1
  /\ Go(t, ret[t])
  /\ UNCHANGED <<reqVars, queueVars, endVars, running, aborted, localVars, history>>

(* schedule_slot: scheduled.swap(true), and the push if it was false. *)
ScheduleSlot(t) ==
  /\ pc[t] = "schedule"
  /\ scheduled' = TRUE
  /\ ready' = IF scheduled THEN ready ELSE ready + 1
  /\ Go(t, ret[t])
  /\ UNCHANGED <<reqVars, queueVars, endVars, running, aborted, localVars, history>>

(* RequestHandle::settle ends by taking and firing the abort handle. *)
Abort(t) ==
  /\ pc[t] = "abort"
  /\ aborted' = TRUE
  /\ ret' = [ret EXCEPT ![t] = "idle"]
  /\ Go(t, IF t = Net THEN "end" ELSE "idle")
  /\ UNCHANGED <<reqVars, queueVars, endVars, schedVars, budget, held, history>>
-----------------------------------------------------------------------------
(* Calls through the C ABI.  Each finds the id in requests or is NOT_FOUND.  *)

CallResume(c) ==
  /\ "resume" \in Ops /\ pc[c] = "idle" /\ registered
  /\ ret' = [ret EXCEPT ![c] = "idle"]
  /\ Go(c, IF paused THEN "unpause" ELSE "early?")
  /\ UNCHANGED <<reqVars, queueVars, endVars, schedVars, aborted, budget, held, history>>

(* Not paused: remember the resume while a callback runs, else refuse it. *)
ResumeEarly(c) ==
  /\ pc[c] = "early?"
  /\ Branch(c, IF inCallback THEN "grant" ELSE "idle")

GrantPermit(c) ==
  /\ pc[c] = "grant"
  /\ permit' = TRUE
  /\ Go(c, "idle")
  /\ UNCHANGED <<gate, paused, guard, inCallback, queueVars, endVars, schedVars, aborted, localVars, history>>

(* hyper4k_client_cancel refuses a request that is already terminal. *)
CallCancel(c) ==
  /\ "cancel" \in Ops /\ pc[c] = "idle" /\ registered
  /\ gate = RUNNING
  /\ ret' = [ret EXCEPT ![c] = "abort"]
  /\ Go(c, "abandon")
  /\ UNCHANGED <<reqVars, queueVars, endVars, schedVars, aborted, budget, held, history>>

(* hyper4k_client_close settles whatever is registered, terminal or not. *)
CallClose(c) ==
  /\ "close" \in Ops /\ pc[c] = "idle" /\ registered
  /\ ret' = [ret EXCEPT ![c] = "abort"]
  /\ Go(c, "abandon")
  /\ UNCHANGED <<reqVars, queueVars, endVars, schedVars, aborted, budget, held, history>>

-----------------------------------------------------------------------------
(* The network task: run_request, deliver_response and EventSink::send.      *)

(* The peer's next event arrives: the headers, then chunks. *)
Receive ==
  /\ pc[Net] = "await" /\ sent < MaxEvents
  /\ Branch(Net, IF gate = RUNNING THEN "acquire" ELSE "end")

(* The body ends after the headers: settle(NONE, drain). *)
EndOfBody ==
  /\ pc[Net] = "await" /\ sent > 0
  /\ ret' = [ret EXCEPT ![Net] = "abort"]
  /\ Go(Net, "complete")
  /\ UNCHANGED <<reqVars, queueVars, endVars, schedVars, aborted, budget, held, history>>

(* No connection, send error, truncation, idle timeout, or the total timeout *)
(* that drops the attempt at whatever await it is in: settle(error, discard). *)
Fail ==
  /\ pc[Net] \in {"await", "acquire"}
  /\ ret' = [ret EXCEPT ![Net] = "abort"]
  /\ Go(Net, "abandon")
  /\ UNCHANGED <<reqVars, queueVars, endVars, schedVars, aborted, budget, held, history>>

(* An aborted task is dropped at the await it is in. *)
Aborted ==
  /\ pc[Net] \in {"await", "acquire"} /\ aborted
  /\ Branch(Net, "end")

(* acquire_owned: wait for room in the queue. *)
Acquire ==
  /\ pc[Net] = "acquire" /\ space > 0
  /\ space' = space - 1
  /\ Go(Net, "still?")
  /\ UNCHANGED <<reqVars, queue, endVars, schedVars, aborted, localVars, history>>

(* Mutant of RecheckGate: the gate is not read again after the wait. *)
RecheckGateSkipped ==
  /\ pc[Net] = "still?"
  /\ Branch(Net, "append")

(* The gate is read again after the wait; the permit goes back if it closed. *)
RecheckGate ==
  /\ pc[Net] = "still?"
  /\ \/ /\ gate = RUNNING
        /\ Go(Net, "append")
        /\ UNCHANGED space
     \/ /\ gate # RUNNING
        /\ space' = space + 1
        /\ Go(Net, "end")
  /\ UNCHANGED <<reqVars, queue, endVars, schedVars, aborted, localVars, history>>

AppendEvent ==
  /\ pc[Net] = "append"
  /\ sent' = sent + 1
  /\ queue' = Append(queue, sent')
  /\ Go(Net, "wake?")
  /\ UNCHANGED <<reqVars, space, endVars, schedVars, aborted, localVars, delivered, done>>

(* A paused slot is left out of the ready queue. *)
WakeSlot ==
  /\ pc[Net] = "wake?"
  /\ ret' = [ret EXCEPT ![Net] = "await"]
  /\ Go(Net, IF paused THEN "await" ELSE "schedule")
  /\ UNCHANGED <<reqVars, queueVars, endVars, schedVars, aborted, budget, held, history>>
-----------------------------------------------------------------------------
WorkerStep(w) ==
  \/ TakeReady(w) \/ Bounce(w) \/ BeginSlice(w)
  \/ CheckPaused(w) \/ PopEvent(w) \/ CheckGate(w)
  \/ EnterCallback(w) \/ Deliver(w) \/ LeaveCallback(w)
  \/ ClearPermit(w) \/ CancelFromCallback(w) \/ ConsumePermit(w)
  \/ Park(w) \/ HoldGuard(w)
  \/ CheckEmpty(w) \/ DeliverDone(w) \/ Cleanup(w)
  \/ LeaveSlice(w) \/ CheckFinished(w) \/ Requeue(w)

SettleStep(t) ==
  \/ Claim(t) \/ Publish(t) \/ ReleasePause(t)
  \/ Unpause(t) \/ DropGuard(t) \/ ScheduleSlot(t) \/ Abort(t)

Call(c) == CallResume(c) \/ CallCancel(c) \/ CallClose(c)

SendStep == Acquire \/ RecheckGate \/ AppendEvent \/ WakeSlot

Next ==
  \/ \E w \in Workers : WorkerStep(w)
  \/ \E t \in Threads : SettleStep(t)
  \/ \E c \in Callers : Call(c) \/ ResumeEarly(c) \/ GrantPermit(c)
  \/ Receive \/ EndOfBody \/ Fail \/ Aborted \/ SendStep

Spec == Init /\ [][Next]_vars

(* Threads that are inside the library keep running.  Nobody has to call the *)
(* library, and the peer need not send, end or fail.  A worker waiting for   *)
(* the map shard gets it in one of the gaps between calls.                   *)
Fairness ==
  /\ \A w \in Workers : WF_vars(WorkerStep(w)) /\ SF_vars(Cleanup(w))
  /\ \A t \in Threads : WF_vars(SettleStep(t))
  /\ \A c \in Callers : WF_vars(ResumeEarly(c) \/ GrantPermit(c))
  /\ WF_vars(SendStep) /\ WF_vars(Aborted)

FairSpec == Spec /\ Fairness
-----------------------------------------------------------------------------
(* Properties.                                                               *)

(* Where a worker holds the slot: between running.swap(true) and the store   *)
(* of false, settle_slot called from a callback included.                    *)
Settling == {"abandon", "publish", "unpark", "lost", "unpause", "unguard", "schedule"}
Owning == {"begin", "check", "pop", "gate", "call", "callback", "continue", "pause", "cancel",
           "clear", "consume", "cancelled", "park", "hold", "drained", "checkdone",
           "cleanup", "leave", "yield"} \cup Settling
Owns(w) == pc[w] \in Owning

(* Where each kind of thread can be. *)
WorkerLabels == Owning \cup {"idle", "bounce", "recheck", "yielded", "requeue?", "requeue"}
CallerLabels == Settling \cup {"idle", "early?", "grant", "abort"}
NetLabels == Settling \cup {"await", "acquire", "still?", "append", "wake?", "complete", "abort", "end"}
LabelsOK ==
  /\ pc \in [Threads -> WorkerLabels \cup CallerLabels \cup NetLabels]
  /\ \A w \in Workers : pc[w] \in WorkerLabels
  /\ \A c \in Callers : pc[c] \in CallerLabels
  /\ pc[Net] \in NetLabels

FlagsOK ==
  /\ paused \in BOOLEAN /\ guard \in BOOLEAN /\ inCallback \in BOOLEAN /\ permit \in BOOLEAN
  /\ terminal \in BOOLEAN /\ doneReady \in BOOLEAN /\ finished \in BOOLEAN /\ registered \in BOOLEAN
  /\ scheduled \in BOOLEAN /\ running \in BOOLEAN /\ aborted \in BOOLEAN
DataOK ==
  /\ gate \in {RUNNING, DRAIN, DISCARD}
  /\ queue \in Seq(1..MaxEvents) /\ space \in Nat /\ ready \in Nat
  /\ ret \in [Threads -> {"idle", "leave", "abort", "await"}]
  /\ budget \in [Workers -> 0..Slice] /\ held \in [Workers -> 0..MaxEvents]
  /\ sent \in 0..MaxEvents /\ delivered \in 0..MaxEvents /\ done \in Nat

(* Every variable has its type: the states the fields of RequestState, Slot  *)
(* and RequestHandle can hold, and where each kind of thread can be.         *)
TypeOK == FlagsOK /\ DataOK /\ LabelsOK

(* At most one worker runs the slot at a time, so the callbacks of a request *)
(* are strictly serial: the test a_slot_never_runs_on_two_workers_at_once.   *)
OneOwner == \A v, w \in Workers : Owns(v) /\ Owns(w) => v = w

(* The slot never buffers more than its capacity, not even with the extra    *)
(* permit that settle_slot hands out to wake a waiting producer.             *)
QueueBounded == Len(queue) <= Capacity

Contract == INSTANCE RequestContract WITH
  picked <- \E w \in Workers : pc[w] \in {"call", "callback"}

(* The bridge implements the per-request callback contract. *)
ImplementsContract == Contract!Spec

(* A slice waits for no resume, event or producer: its worker can always go  *)
(* on, except where the cleanup after OnDone wants the request map.  There   *)
(* it waits for callers that hold the map through settle and resume, and one *)
(* of those can go on: none of them waits for the slice in its turn.         *)
GoesOn(t) == ENABLED (WorkerStep(t) \/ SettleStep(t) \/ ResumeEarly(t) \/ GrantPermit(t))
SlicesNeverStick == \A w \in Workers : pc[w] # "idle" =>
  GoesOn(w) \/ (pc[w] = "cleanup" /\ \E c \in Callers : pc[c] # "idle" /\ GoesOn(c))

(* No event queued for a running request is stranded: it is taken unless the *)
(* consumer pauses or the request is settled (run_slice: "the owner          *)
(* re-queues if work remains, so nothing is lost").                          *)
EventsDrain == (queue # <<>> /\ gate = RUNNING) ~> (queue = <<>> \/ paused \/ gate # RUNNING)

(* OnDone is the last event of a request (bridge.rs: "Set once `OnDone` has  *)
(* been delivered. Nothing may follow it.").                                 *)
DoneIsLast == [][done > 0 => UNCHANGED <<delivered, done>>]_<<delivered, done>>

(* A settled request gets its OnDone, a cancelled one whether paused or not; *)
(* only a completed response may be held back, while its consumer keeps it   *)
(* paused (hyper4k.h: "OnDone fires exactly once per accepted request", "A   *)
(* cancelled request still gets OnDone").                                    *)
SettledGetsOnDone == gate # RUNNING ~> (done > 0 \/ (gate = DRAIN /\ paused))
=============================================================================
