------------------------------- MODULE Client -------------------------------
(* The life cycle of a Hyper4kClient: send against close, the ceilings on    *)
(* requests in flight, the bridge count that free() waits for, and the       *)
(* start-to-end life of the executor's threads (lib/src/client/handle.rs,    *)
(* BridgeCounter of bridge.rs, executor.rs).  A request is reduced to what   *)
(* these see of it: its gate is open, claimed or settled, its slot is queued *)
(* or not, and it has had its OnDone or not.  What else decides when a slot  *)
(* is queued and what a slice does with it (events, pauses, the flags        *)
(* `scheduled` and `running`) is in Bridge; here a slot may be queued at any *)
(* time, or a push be absorbed, and a slice may end without OnDone.          *)
EXTENDS Integers, FiniteSets

CONSTANTS Senders,      \* threads in hyper4k_client_send; also name their request
          Closer,       \* a thread that may call hyper4k_client_close
          Freer,        \* the thread that calls hyper4k_client_free
          Workers,      \* threads of the executor
          MaxInflight,  \* Limits::max_inflight
          MaxBytes,     \* Limits::max_bytes
          Cost          \* bytes each request reserves

Nobody == "nobody"

ASSUME ClientThreads ==
  /\ IsFiniteSet(Senders) /\ Senders \cap Workers = {} /\ Closer # Freer
  /\ {Closer, Freer} \cap (Senders \cup Workers) = {} /\ Nobody \notin Senders \cup Workers
  /\ Workers # {}       \* available_parallelism clamped to 2..8, or 4
ASSUME ClientBounds == MaxInflight \in Nat /\ MaxBytes \in Nat /\ Cost \in [Senders -> Nat]

VARIABLES
  closed,           \* Hyper4kClient::closed
  inflight, bytes,  \* Limits' counters
  bridges,          \* BridgeCounter::n
  requests,         \* ids in Hyper4kClient::requests
  running, ended,   \* requests whose gate is RUNNING; whose done_ready is set
  done,             \* requests that have had their OnDone
  ready, mutex,     \* the executor's ready queue (a set) and who holds its lock
  awake,            \* workers notified while they waited
  stopped,          \* Shared::stopped
  sweep, target,    \* ids a close still has to look at; the one it settles
  pc, job           \* where each thread is; the slot a worker runs

reqVars == <<requests, running, ended, done>>
limitVars == <<inflight, bytes>>
execVars == <<ready, mutex, awake, stopped, job>>
sweepVars == <<sweep, target>>
vars == <<closed, limitVars, bridges, reqVars, execVars, sweepVars, pc>>

Threads == Senders \cup Workers \cup {Closer, Freer}
Sweepers == {Closer, Freer}

Init ==
  /\ closed = FALSE /\ inflight = 0 /\ bytes = 0 /\ bridges = 0
  /\ requests = {} /\ running = {} /\ ended = {} /\ done = {}
  /\ ready = {} /\ mutex = Nobody /\ awake = {} /\ stopped = FALSE
  /\ sweep = [t \in Sweepers |-> {}] /\ target = [t \in Sweepers |-> Nobody]
  /\ pc = [t \in Threads |-> IF t \in Workers THEN "loop" ELSE "idle"]
  /\ job = [w \in Workers |-> Nobody]

Go(t, l) == pc' = [pc EXCEPT ![t] = l]
-----------------------------------------------------------------------------
(* hyper4k_client_send, from the closed check to the spawned task.           *)

(* The request is refused when the client is closed, or when it is malformed *)
(* or asks for a transport that is not there: nothing is registered yet.     *)
CheckClosed(s) ==
  /\ pc[s] = "idle" /\ pc[Freer] = "idle"
  /\ Go(s, "refused") \/ (~closed /\ Go(s, "reserve"))
  /\ UNCHANGED <<closed, limitVars, bridges, reqVars, execVars, sweepVars>>

(* Limits::try_reserve: count first, look afterwards, take back on refusal. *)
ReserveSlot(s) ==
  /\ pc[s] = "reserve"
  /\ inflight' = inflight + 1
  /\ Go(s, IF inflight >= MaxInflight THEN "unreserve" ELSE "weigh")
  /\ UNCHANGED <<closed, bytes, bridges, reqVars, execVars, sweepVars>>

(* Mutant of ReserveBytes: the request's own bytes are not looked at. *)
ReserveBytesBefore(s) ==
  /\ pc[s] = "weigh"
  /\ bytes' = bytes + Cost[s]
  /\ Go(s, IF bytes > MaxBytes THEN "unweigh" ELSE "enter")
  /\ UNCHANGED <<closed, inflight, bridges, reqVars, execVars, sweepVars>>

ReserveBytes(s) ==
  /\ pc[s] = "weigh"
  /\ bytes' = bytes + Cost[s]
  /\ Go(s, IF bytes + Cost[s] > MaxBytes THEN "unweigh" ELSE "enter")
  /\ UNCHANGED <<closed, inflight, bridges, reqVars, execVars, sweepVars>>

(* Mutant of UnreserveBytes: a refusal keeps its bytes. *)
UnreserveBytesKept(s) ==
  /\ pc[s] = "unweigh"
  /\ Go(s, "unreserve")
  /\ UNCHANGED <<closed, limitVars, bridges, reqVars, execVars, sweepVars>>

UnreserveBytes(s) ==
  /\ pc[s] = "unweigh"
  /\ bytes' = bytes - Cost[s]
  /\ Go(s, "unreserve")
  /\ UNCHANGED <<closed, inflight, bridges, reqVars, execVars, sweepVars>>

UnreserveSlot(s) ==
  /\ pc[s] = "unreserve"
  /\ inflight' = inflight - 1
  /\ Go(s, "refused")
  /\ UNCHANGED <<closed, bytes, bridges, reqVars, execVars, sweepVars>>

(* Mutant of Enter: the bridge is not counted. *)
EnterUncounted(s) ==
  /\ pc[s] = "enter"
  /\ Go(s, "insert")
  /\ UNCHANGED <<closed, limitVars, bridges, reqVars, execVars, sweepVars>>

(* bridges.enter, before anything can settle the request. *)
Enter(s) ==
  /\ pc[s] = "enter"
  /\ bridges' = bridges + 1
  /\ Go(s, "insert")
  /\ UNCHANGED <<closed, limitVars, reqVars, execVars, sweepVars>>

(* The bridge is made and registered, and its task spawned: from here on the *)
(* network and close can settle it.                                          *)
Insert(s) ==
  /\ pc[s] = "insert"
  /\ requests' = requests \cup {s}
  /\ running' = running \cup {s}
  /\ Go(s, "accepted")
  /\ UNCHANGED <<closed, limitVars, bridges, ended, done, execVars, sweepVars>>
-----------------------------------------------------------------------------
(* BridgeExecutor::schedule: push under the lock and notify one sleeper.  A  *)
(* slot may be in the queue several times; the set only says that it is.     *)
Asleep == {w \in Workers : pc[w] = "asleep" /\ w \notin awake}

(* Mutant of Schedule: the push does not take the lock. *)
ScheduleUnlocked(r) ==
  /\ ready' = ready \cup {r}
  /\ IF Asleep = {} THEN UNCHANGED awake ELSE \E w \in Asleep : awake' = awake \cup {w}
  /\ UNCHANGED <<mutex, stopped>>

Schedule(r) ==
  /\ mutex = Nobody
  /\ ready' = ready \cup {r}
  /\ IF Asleep = {} THEN UNCHANGED awake ELSE \E w \in Asleep : awake' = awake \cup {w}
  /\ UNCHANGED <<mutex, stopped>>

Waited == pc[Freer] \in {"drop", "stop", "notify", "join", "freed"}

(* settle_slot by the network task (a response, an error, a timeout), by a   *)
(* cancel or by a callback that answers CANCEL: claim, then the terminal and *)
(* done_ready.                                                               *)
Claim(r) ==
  /\ r \in running
  /\ running' = running \ {r}
  /\ UNCHANGED <<closed, limitVars, bridges, requests, ended, done, execVars, sweepVars, pc>>

Publish(r) ==
  /\ pc[r] = "accepted" /\ r \notin running \cup ended
  /\ \A t \in Sweepers : target[t] # r
  /\ ended' = ended \cup {r}
  /\ UNCHANGED <<closed, limitVars, bridges, requests, running, done, execVars, sweepVars, pc>>

(* schedule_slot after an event, a settle or a resume: it may come late,     *)
(* even after OnDone, or be absorbed by a push that is still to be run.  The *)
(* network tasks end with the runtime.                                       *)
Push(r) ==
  /\ pc[r] = "accepted" /\ pc[Freer] \notin {"stop", "notify", "join", "freed"}
  /\ Schedule(r)
  /\ UNCHANGED <<closed, limitVars, bridges, reqVars, job, sweepVars, pc>>

(* Mutant of CallClose: a close of a closed client returns at once. *)
CallCloseOnce(t) ==
  /\ pc[t] = "idle"
  /\ IF t = Freer
     THEN pc[Closer] \in {"idle", "closed"} /\ \A s \in Senders : pc[s] \in {"idle", "refused", "accepted"}
     ELSE pc[Freer] = "idle"
  /\ closed' = TRUE
  /\ Go(t, IF closed THEN "sweep" ELSE "list")
  /\ UNCHANGED <<limitVars, bridges, reqVars, execVars, sweepVars>>

(* hyper4k_client_close: refuse new requests, list the ids, settle each one  *)
(* that is still registered.  free starts with a close of its own, and its   *)
(* caller has exclusive ownership.                                           *)
CallClose(t) ==
  /\ pc[t] = "idle"
  /\ IF t = Freer
     THEN pc[Closer] \in {"idle", "closed"} /\ \A s \in Senders : pc[s] \in {"idle", "refused", "accepted"}
     ELSE pc[Freer] = "idle"
  /\ closed' = TRUE
  /\ Go(t, "list")
  /\ UNCHANGED <<limitVars, bridges, reqVars, execVars, sweepVars>>

(* Requests registered while the map is read may be missed; close may run    *)
(* between a send's closed check and its insertion.                          *)
ListRequests(t) ==
  /\ pc[t] = "list"
  /\ sweep' = [sweep EXCEPT ![t] = requests]
  /\ Go(t, "sweep")
  /\ UNCHANGED <<closed, limitVars, bridges, reqVars, execVars, target>>

(* requests.get and the claim of settle.  A claim that is lost leaves the    *)
(* rest to its winner (the release of a pause is in Bridge).                 *)
SweepRequest(t) ==
  /\ pc[t] = "sweep"
  /\ \E r \in sweep[t] :
       /\ sweep' = [sweep EXCEPT ![t] = @ \ {r}]
       /\ \/ /\ r \in requests \cap running
             /\ running' = running \ {r}
             /\ target' = [target EXCEPT ![t] = r]
             /\ Go(t, "publish")
          \/ /\ r \notin requests \cap running
             /\ UNCHANGED <<running, target, pc>>
  /\ UNCHANGED <<closed, limitVars, bridges, requests, ended, done, execVars>>

PublishSwept(t) ==
  /\ pc[t] = "publish"
  /\ ended' = ended \cup {target[t]}
  /\ target' = [target EXCEPT ![t] = Nobody]
  /\ Go(t, "sweep")
  /\ UNCHANGED <<closed, limitVars, bridges, requests, running, done, execVars, sweep>>

EndSweep(t) ==
  /\ pc[t] = "sweep" /\ sweep[t] = {}
  /\ Go(t, IF t = Freer THEN "wait zero" ELSE "closed")
  /\ UNCHANGED <<closed, limitVars, bridges, reqVars, execVars, sweepVars>>
-----------------------------------------------------------------------------
(* hyper4k_client_free after its close.                                      *)

(* Mutant of WaitZero: free does not wait for the bridges. *)
WaitZeroSkipped ==
  /\ pc[Freer] = "wait zero"
  /\ Go(Freer, "drop")
  /\ UNCHANGED <<closed, limitVars, bridges, reqVars, execVars, sweepVars>>

WaitZero ==
  /\ pc[Freer] = "wait zero" /\ bridges = 0
  /\ Go(Freer, "drop")
  /\ UNCHANGED <<closed, limitVars, bridges, reqVars, execVars, sweepVars>>

(* The pool's shutdown and the drop of the runtime with its tasks. *)
DropRuntime ==
  /\ pc[Freer] = "drop"
  /\ Go(Freer, "stop")
  /\ UNCHANGED <<closed, limitVars, bridges, reqVars, execVars, sweepVars>>

(* BridgeExecutor::shutdown: the flag and notify_all, without the lock. *)
StoreStopped ==
  /\ pc[Freer] = "stop"
  /\ stopped' = TRUE
  /\ Go(Freer, "notify")
  /\ UNCHANGED <<closed, limitVars, bridges, reqVars, ready, mutex, awake, job, sweepVars>>

NotifyAll ==
  /\ pc[Freer] = "notify"
  /\ awake' = awake \cup Asleep
  /\ Go(Freer, "join")
  /\ UNCHANGED <<closed, limitVars, bridges, reqVars, ready, mutex, stopped, job, sweepVars>>

JoinWorkers ==
  /\ pc[Freer] = "join" /\ \A w \in Workers : pc[w] = "exited"
  /\ Go(Freer, "freed")
  /\ UNCHANGED <<closed, limitVars, bridges, reqVars, execVars, sweepVars>>
-----------------------------------------------------------------------------
(* worker_loop.                                                              *)

CheckStopped(w) ==
  /\ pc[w] = "loop"
  /\ Go(w, IF stopped THEN "exited" ELSE "lock")
  /\ UNCHANGED <<closed, limitVars, bridges, reqVars, execVars, sweepVars>>

(* The ready queue's lock, also taken again by a worker that was notified. *)
LockReady(w) ==
  /\ pc[w] = "lock" \/ (pc[w] = "asleep" /\ w \in awake)
  /\ mutex = Nobody
  /\ mutex' = w
  /\ awake' = awake \ {w}
  /\ Go(w, "look")
  /\ UNCHANGED <<closed, limitVars, bridges, reqVars, ready, stopped, job, sweepVars>>

(* pop_front of a slot that may be queued again behind it; an empty queue    *)
(* leads to the second look at stopped.                                      *)
PopReady(w) ==
  /\ pc[w] = "look"
  /\ \/ \E r \in ready :
          /\ ready' \in {ready, ready \ {r}}
          /\ job' = [job EXCEPT ![w] = r]
          /\ mutex' = Nobody
          /\ Go(w, "run")
     \/ /\ ready = {} /\ stopped
        /\ mutex' = Nobody
        /\ Go(w, "exited")
        /\ UNCHANGED <<ready, job>>
     \/ /\ ready = {} /\ ~stopped
        /\ Go(w, "doze")
        /\ UNCHANGED <<mutex, ready, job>>
  /\ UNCHANGED <<closed, limitVars, bridges, reqVars, awake, stopped, sweepVars>>

(* cv.wait gives the lock up and sleeps. *)
Doze(w) ==
  /\ pc[w] = "doze"
  /\ mutex' = Nobody
  /\ Go(w, "asleep")
  /\ UNCHANGED <<closed, limitVars, bridges, reqVars, ready, awake, stopped, job, sweepVars>>

(* A slice that ends without OnDone: it bounces off another worker's, finds  *)
(* the request paused or not settled, parks it, cancels it, or delivers an   *)
(* event that came late.  run_slice looks at finished_flag, and at the queue *)
(* of events to return true.                                                 *)
EndSlice(w) ==
  /\ pc[w] = "run"
  /\ \/ Go(w, "loop") /\ job' = [job EXCEPT ![w] = Nobody]
     \/ job[w] \notin done /\ Go(w, "requeue") /\ UNCHANGED job
  /\ UNCHANGED <<closed, limitVars, bridges, reqVars, ready, mutex, awake, stopped, sweepVars>>

Requeue(w) ==
  /\ pc[w] = "requeue"
  /\ Schedule(job[w])
  /\ job' = [job EXCEPT ![w] = Nobody]
  /\ Go(w, "loop")
  /\ UNCHANGED <<closed, limitVars, bridges, reqVars, sweepVars>>

(* A slice that finds the queue empty, done_ready set and the terminal there *)
(* ends the request: OnDone, then the cleanup gives back the reservation and *)
(* the map entry, then the bridge count.                                     *)
RunDone(w) ==
  /\ pc[w] = "run" /\ job[w] \in ended \ done
  /\ done' = done \cup {job[w]}
  /\ Go(w, "release bytes")
  /\ UNCHANGED <<closed, limitVars, bridges, requests, running, ended, execVars, sweepVars>>

ReleaseBytes(w) ==
  /\ pc[w] = "release bytes"
  /\ bytes' = bytes - Cost[job[w]]
  /\ Go(w, "release slot")
  /\ UNCHANGED <<closed, inflight, bridges, reqVars, execVars, sweepVars>>

(* Mutant of ReleaseSlot: the reservation is released twice. *)
ReleaseSlotTwice(w) ==
  /\ pc[w] = "release slot"
  /\ inflight' = inflight - 2
  /\ Go(w, "remove")
  /\ UNCHANGED <<closed, bytes, bridges, reqVars, execVars, sweepVars>>

ReleaseSlot(w) ==
  /\ pc[w] = "release slot"
  /\ inflight' = inflight - 1
  /\ Go(w, "remove")
  /\ UNCHANGED <<closed, bytes, bridges, reqVars, execVars, sweepVars>>

RemoveRequest(w) ==
  /\ pc[w] = "remove"
  /\ requests' = requests \ {job[w]}
  /\ Go(w, "leave")
  /\ UNCHANGED <<closed, limitVars, bridges, running, ended, done, execVars, sweepVars>>

Leave(w) ==
  /\ pc[w] = "leave"
  /\ bridges' = bridges - 1
  /\ job' = [job EXCEPT ![w] = Nobody]
  /\ Go(w, "loop")
  /\ UNCHANGED <<closed, limitVars, reqVars, ready, mutex, awake, stopped, sweepVars>>
-----------------------------------------------------------------------------
SendStep(s) ==
  \/ ReserveSlot(s) \/ ReserveBytes(s) \/ UnreserveBytes(s) \/ UnreserveSlot(s)
  \/ Enter(s) \/ Insert(s)

CloseStep(t) == ListRequests(t) \/ SweepRequest(t) \/ PublishSwept(t) \/ EndSweep(t)

FreeStep == WaitZero \/ DropRuntime \/ StoreStopped \/ NotifyAll \/ JoinWorkers

WorkerStep(w) ==
  \/ CheckStopped(w) \/ LockReady(w) \/ PopReady(w) \/ Doze(w) \/ EndSlice(w) \/ Requeue(w)
  \/ RunDone(w) \/ ReleaseBytes(w) \/ ReleaseSlot(w) \/ RemoveRequest(w) \/ Leave(w)

Next ==
  \/ \E s \in Senders : CheckClosed(s) \/ SendStep(s) \/ Claim(s) \/ Publish(s) \/ Push(s)
  \/ \E t \in Sweepers : CallClose(t) \/ CloseStep(t)
  \/ FreeStep
  \/ \E w \in Workers : WorkerStep(w)

Spec == Init /\ [][Next]_vars

(* Threads inside the library keep running; who has claimed a request goes   *)
(* on to publish it.  A thread that waits for the ready queue's lock, held   *)
(* only for a few instructions, gets it.                                     *)
Fairness ==
  /\ \A s \in Senders : WF_vars(SendStep(s)) /\ WF_vars(Publish(s))
  /\ \A t \in Sweepers : WF_vars(CloseStep(t))
  /\ WF_vars(FreeStep)
  /\ \A w \in Workers : WF_vars(WorkerStep(w)) /\ SF_vars(LockReady(w))

FairSpec == Spec /\ Fairness
-----------------------------------------------------------------------------
(* Properties.                                                               *)

SenderLabels == {"idle", "refused", "reserve", "weigh", "unweigh", "unreserve", "enter", "insert", "accepted"}
SweeperLabels == {"idle", "list", "sweep", "publish", "closed", "wait zero", "drop", "stop",
                  "notify", "join", "freed"}
WorkerLabels == {"loop", "lock", "look", "doze", "asleep", "run", "requeue", "release bytes",
                 "release slot", "remove", "leave", "exited"}

(* The types of the client's, the limits' and the executor's fields; no      *)
(* counter goes below zero.                                                  *)
TypeOK ==
  /\ closed \in BOOLEAN /\ stopped \in BOOLEAN
  /\ inflight \in Nat /\ bytes \in Nat /\ bridges \in Nat
  /\ requests \subseteq Senders /\ running \subseteq Senders
  /\ ended \subseteq Senders /\ done \subseteq Senders /\ ready \subseteq Senders
  /\ mutex \in Workers \cup {Nobody} /\ awake \subseteq Workers
  /\ sweep \in [Sweepers -> SUBSET Senders] /\ target \in [Sweepers -> Senders \cup {Nobody}]
  /\ job \in [Workers -> Senders \cup {Nobody}]
  /\ pc \in [Threads -> SenderLabels \cup SweeperLabels \cup WorkerLabels]

(* Sends that have counted themselves and not taken it back, and requests    *)
(* whose Reservation has not been dropped; the same for the bytes.           *)
AtWork(r, labels) == \E w \in Workers : job[w] = r /\ pc[w] \in labels
Counted == {s \in Senders : \/ pc[s] \in {"weigh", "unweigh", "unreserve", "enter", "insert"}
                            \/ pc[s] = "accepted" /\ s \notin done
                            \/ AtWork(s, {"release bytes", "release slot"})}
Weighed == {s \in Senders : \/ pc[s] \in {"unweigh", "enter", "insert"}
                            \/ pc[s] = "accepted" /\ s \notin done
                            \/ AtWork(s, {"release bytes"})}
Admitted == {s \in Senders : pc[s] \in {"enter", "insert", "accepted"}} \ done

(* The bytes that a set of requests reserves, one by one: their number is    *)
(* the sum of the requests' costs.                                           *)
Reserved(S) == UNION {{s} \X (1 .. Cost[s]) : s \in S}
Weight(S) == Cardinality(Reserved(S))

(* "no exit path can leak either" (handle.rs): the two counters are at every *)
(* moment what the sends in progress and the unfinished requests hold.       *)
ReservationsBalance == inflight = Cardinality(Counted) /\ bytes = Weight(Weighed)

(* Never more unfinished requests, or bytes reserved for them, than the      *)
(* configured ceilings, however many sends race through try_reserve.         *)
CeilingsHold == Cardinality(Admitted) <= MaxInflight /\ Weight(Admitted) <= MaxBytes

(* What free waits for.  When wait_zero returns, every accepted request has  *)
(* had its OnDone and nothing of it is left in the map or the counters, but  *)
(* a slice of a finished request may still run; "freeing while a callback is *)
(* still running would hand the caller a dangling `user_data`" (handle.rs),  *)
(* so when free returns no worker is in a slice.                             *)
FreeIsSafe ==
  /\ Waited => /\ \A s \in Senders : pc[s] = "accepted" => s \in done
               /\ requests = {} /\ inflight = 0 /\ bytes = 0
  /\ pc[Freer] = "freed" => \A w \in Workers : job[w] = Nobody

(* No wakeup is lost between a worker's look at the empty queue and its      *)
(* cv.wait: until the shutdown a slot is never queued while every worker     *)
(* sleeps unnotified.                                                        *)
QueueIsWatched == ready # {} /\ ~stopped => \E w \in Workers : w \notin Asleep

(* The client as its callers see it (ClientContract): a request is admitted  *)
(* where Limits let it pass, and the client is gone once free has waited.    *)
Contract == INSTANCE ClientContract WITH Requests <- Senders,
  open <- Admitted, finished <- done, gone <- Waited
ImplementsContract == Contract!Spec

(* The part of free's wait that is the client's: its own close settles what  *)
(* the network has not settled and an earlier close missed.  So free's wait  *)
(* ends if every settled request gets its OnDone, which the bridge does not  *)
(* ensure (SettledGetsOnDone of Bridge).                                     *)
FreeDrains ==
  (\A r \in Senders : r \in ended ~> r \in done) => (pc[Freer] = "wait zero" ~> Waited)

(* Once the wait is over, free returns (hyper4k.h: "Blocks until nothing can *)
(* call back any more, then frees.").                                        *)
FreeReturns == pc[Freer] = "stop" ~> pc[Freer] = "freed"
=============================================================================
