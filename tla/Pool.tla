-------------------------------- MODULE Pool --------------------------------
(* The connections of one PoolKey and the requests that use them:            *)
(* lib/src/client/pool.rs, and attempt_loop of handle.rs with the rules of   *)
(* retry.rs.  Keys share nothing but the shutdown, so one stands for all.    *)
EXTENDS Integers, Sequences, FiniteSets

CONSTANTS Tasks,       \* network tasks, one per request
          Idempotent,  \* those whose method is_idempotent
          Closers,     \* tasks that run Pool::shutdown (close's and free's)
          MaxConns,    \* max_conns_per_key
          PausedCap,   \* paused_cap
          MaxRetries,  \* RequestPolicy::max_retries
          Protocols,   \* what a dial may negotiate
          Pausing,     \* tasks whose consumer may park the response
          MaxDials     \* bound: connections ever opened

Conns == 1 .. MaxDials
NoConn == 0
Nobody == "nobody"

ASSUME PoolThreads ==
  /\ IsFiniteSet(Tasks) /\ Tasks \cap Closers = {} /\ Nobody \notin Tasks /\ Idempotent \subseteq Tasks
ASSUME PoolChoices == Protocols \subseteq {"h1", "h2"} /\ Pausing \subseteq Tasks
ASSUME PoolBounds ==
  /\ MaxConns \in Nat \ {0} /\ PausedCap \in Nat \ {0}
  /\ MaxRetries \in Nat /\ MaxDials \in Nat

VARIABLES
  conns,       \* Pool::conns for the key, oldest first
  dialled,     \* connections opened so far
  kind, idle, active, paused, dead,  \* ConnEntry: slot, idle sender, counts, dead
  open,        \* the connection is up: its driver runs, its senders are not closed
  dialer,      \* who holds the key's dial lock
  closed, shutting, complete,        \* Pool's flags
  collected, woken,                  \* driver handles to join, waiters notified
  pc, at,      \* where each thread is; position of reuse in the list
  lease, bound,                      \* Lease::entry, RequestState::conn
  parked, guard, entering, leaving,  \* RequestState::paused, pause_guard; inside enter/leave_pause
  budget, committed, reached         \* attempt_loop; how often the peer may have got it

connVars == <<kind, idle, active, paused, dead, open>>
poolVars == <<conns, dialled, dialer>>
endVars == <<closed, shutting, complete, collected, woken>>
pauseVars == <<parked, guard, entering, leaving>>
reqVars == <<bound, pauseVars, budget, committed, reached>>
vars == <<connVars, poolVars, endVars, pc, at, lease, reqVars>>

Init ==
  /\ conns = <<>> /\ dialled = 0 /\ dialer = Nobody
  /\ kind = [c \in Conns |-> "h1"]
  /\ idle = [c \in Conns |-> FALSE] /\ open = [c \in Conns |-> FALSE]
  /\ active = [c \in Conns |-> 0] /\ paused = [c \in Conns |-> 0]
  /\ dead = [c \in Conns |-> FALSE]
  /\ closed = FALSE /\ shutting = FALSE /\ complete = FALSE
  /\ collected = {} /\ woken = {}
  /\ pc = [t \in Tasks \cup Closers |-> IF t \in Tasks THEN "start" ELSE "uncalled"]
  /\ at = [t \in Tasks |-> 1]
  /\ lease = [t \in Tasks |-> NoConn] /\ bound = [t \in Tasks |-> NoConn]
  /\ parked = [t \in Tasks |-> FALSE] /\ guard = [t \in Tasks |-> FALSE]
  /\ entering = [t \in Tasks |-> FALSE] /\ leaving = [t \in Tasks |-> FALSE]
  /\ budget = [t \in Tasks |-> MaxRetries]
  /\ committed = [t \in Tasks |-> FALSE] /\ reached = [t \in Tasks |-> 0]

Go(t, l) == pc' = [pc EXCEPT ![t] = l]

(* handle.settle and return; which error it reports makes no difference here. *)
Settle(t) == Go(t, "end")
-----------------------------------------------------------------------------
(* Helpers of the pool.                                                      *)

(* ConnEntry::closed: an H1 sender that is out on a lease is not looked at. *)
Closed(c) == dead[c] \/ (~open[c] /\ (kind[c] = "h2" \/ idle[c]))

(* Pool::eligible. *)
Eligible(c) ==
  /\ ~Closed(c)
  /\ paused[c] < PausedCap
  /\ kind[c] = "h1" => idle[c]

(* The dial lock is released when acquire returns or is dropped. *)
Unlock(t) == dialer' = IF dialer = t THEN Nobody ELSE dialer

(* Mutant of Available: the sender is not looked at again. *)
AvailableUnchecked(c) == TRUE

(* Pool::take_lease on c, which fails when another task has taken the H1     *)
(* sender since it was found eligible.                                       *)
Available(c) == kind[c] = "h1" => idle[c]
TakeLease(t, c) ==
  /\ idle' = [idle EXCEPT ![c] = FALSE]
  /\ active' = [active EXCEPT ![c] = @ + 1]
  /\ lease' = [lease EXCEPT ![t] = c]
  /\ UNCHANGED <<kind, paused, dead, open>>

(* Lease::drop: an H1 sender goes back unless its connection is gone. *)
DropLease(t) ==
  /\ lease' = [lease EXCEPT ![t] = NoConn]
  /\ IF lease[t] = NoConn
     THEN UNCHANGED connVars
     ELSE LET c == lease[t] IN
          /\ dead' = [dead EXCEPT ![c] = @ \/ ~open[c]]
          /\ idle' = [idle EXCEPT ![c] = kind[c] = "h1" /\ open[c]]
          /\ active' = [active EXCEPT ![c] = @ - 1]
          /\ UNCHANGED <<kind, paused, open>>

(* Who holds the map's shard in read mode, in the middle of reuse. *)
Reading == {t \in Tasks : pc[t] = "take" \/ (pc[t] = "scan" /\ at[t] > 1)}
-----------------------------------------------------------------------------
(* Pool::acquire.                                                            *)

Acquire(t) ==
  /\ pc[t] = "start"
  /\ \/ closed /\ Settle(t)
     \/ ~closed /\ Go(t, "scan")
  /\ UNCHANGED <<connVars, poolVars, endVars, at, lease, reqVars>>

(* reuse, before and again under the dial lock: look at the next entry. *)
ScanEntry(t) ==
  /\ pc[t] = "scan"
  /\ \/ /\ at[t] > Len(conns)
        /\ Go(t, IF dialer = t THEN "count" ELSE "lock")
        /\ at' = [at EXCEPT ![t] = 1]
     \/ /\ at[t] <= Len(conns)
        /\ IF Eligible(conns[at[t]])
           THEN Go(t, "take") /\ UNCHANGED at
           ELSE at' = [at EXCEPT ![t] = @ + 1] /\ UNCHANGED pc
  /\ UNCHANGED <<connVars, poolVars, endVars, lease, reqVars>>

TakeEntry(t) ==
  /\ pc[t] = "take"
  /\ \/ /\ Available(conns[at[t]])
        /\ TakeLease(t, conns[at[t]])
        /\ Unlock(t)
        /\ Go(t, "leased") /\ at' = [at EXCEPT ![t] = 1]
     \/ /\ ~Available(conns[at[t]])
        /\ at' = [at EXCEPT ![t] = @ + 1]
        /\ Go(t, "scan") /\ UNCHANGED <<connVars, dialer, lease>>
  /\ UNCHANGED <<conns, dialled, endVars, reqVars>>

(* Mutant of LockDial: every task dials under a lock of its own. *)
LockDialAlone(t) ==
  /\ pc[t] = "lock"
  /\ dialer' = t
  /\ Go(t, "scan")
  /\ UNCHANGED <<connVars, conns, dialled, endVars, at, lease, reqVars>>

LockDial(t) ==
  /\ pc[t] = "lock" /\ dialer = Nobody
  /\ dialer' = t
  /\ Go(t, "scan")
  /\ UNCHANGED <<connVars, conns, dialled, endVars, at, lease, reqVars>>

Live == {i \in 1 .. Len(conns) : ~Closed(conns[i])}

(* Mutant of CountLive: off by one at the cap. *)
CountLiveOffByOne(t) ==
  /\ pc[t] = "count"
  /\ \/ Cardinality(Live) > MaxConns /\ Unlock(t) /\ Settle(t)
     \/ Cardinality(Live) <= MaxConns /\ Go(t, "dial") /\ UNCHANGED dialer
  /\ UNCHANGED <<connVars, conns, dialled, endVars, at, lease, reqVars>>

CountLive(t) ==
  /\ pc[t] = "count"
  /\ \/ Cardinality(Live) >= MaxConns /\ Unlock(t) /\ Settle(t)
     \/ Cardinality(Live) < MaxConns /\ Go(t, "dial") /\ UNCHANGED dialer
  /\ UNCHANGED <<connVars, conns, dialled, endVars, at, lease, reqVars>>

(* The connector succeeds with one protocol or the other, or fails. *)
Dial(t) ==
  /\ pc[t] = "dial" /\ dialled < MaxDials
  /\ dialled' = dialled + 1
  /\ \E k \in Protocols :
       /\ kind' = [kind EXCEPT ![dialled'] = k]
       /\ idle' = [idle EXCEPT ![dialled'] = k = "h1"]
  /\ open' = [open EXCEPT ![dialled'] = TRUE]
  /\ Go(t, "insert")
  /\ UNCHANGED <<conns, dialer, active, paused, dead, endVars, at, lease, reqVars>>

DialFails(t) ==
  /\ pc[t] = "dial"
  /\ Unlock(t) /\ Settle(t)
  /\ UNCHANGED <<connVars, conns, dialled, endVars, at, lease, reqVars>>

(* The new entry is pushed under the shard's write lock, then leased: by     *)
(* then another task may have taken an H1 sender.                            *)
Insert(t) ==
  /\ pc[t] = "insert" /\ Reading = {}
  /\ conns' = Append(conns, dialled)
  /\ Go(t, "takenew")
  /\ UNCHANGED <<connVars, dialled, dialer, endVars, at, lease, reqVars>>

TakeNew(t) ==
  /\ pc[t] = "takenew"
  /\ \/ Available(dialled) /\ TakeLease(t, dialled) /\ Go(t, "leased")
     \/ ~Available(dialled) /\ Settle(t) /\ UNCHANGED <<connVars, lease>>
  /\ Unlock(t)
  /\ UNCHANGED <<conns, dialled, endVars, at, bound, pauseVars, budget, committed, reached>>
-----------------------------------------------------------------------------
(* attempt_loop: the request on its lease.                                   *)

(* Mutant of Again: the attempt is not counted. *)
AgainFree(t) == Go(t, "start") /\ UNCHANGED budget

(* Try again with one attempt less. *)
Again(t) == budget' = [budget EXCEPT ![t] = @ - 1] /\ Go(t, "start")

(* A lease on a connection that is already going away is given back. *)
CheckSender(t) ==
  /\ pc[t] = "leased"
  /\ \/ /\ open[lease[t]]
        /\ bound' = [bound EXCEPT ![t] = lease[t]]
        /\ Go(t, "send")
        /\ UNCHANGED <<connVars, lease, budget>>
     \/ /\ ~open[lease[t]]
        /\ DropLease(t)
        /\ IF budget[t] > 0 THEN Again(t) ELSE Settle(t) /\ UNCHANGED budget
        /\ UNCHANGED bound
  /\ UNCHANGED <<poolVars, endVars, at, pauseVars, committed, reached>>

(* Mutants of MayRetry: the budget is not looked at, or the method is not.   *)
MayRetryForever(t, unsent) == ~committed[t] /\ (unsent \/ t \in Idempotent)
MayRetryAnyMethod(t, unsent) == ~committed[t] /\ budget[t] > 0

(* retry::may_retry. *)
MayRetry(t, unsent) == ~committed[t] /\ budget[t] > 0 /\ (unsent \/ t \in Idempotent)

(* try_send_request fails: hyper hands the message back when it was never    *)
(* written.  On H1 a failure means that the connection is gone, or, with the *)
(* message back, that it is open and not ready.                              *)
SendFails(t, unsent) ==
  /\ pc[t] = "send"
  /\ kind[lease[t]] = "h1" /\ open[lease[t]] => unsent
  /\ reached' = IF unsent THEN reached ELSE [reached EXCEPT ![t] = @ + 1]
  /\ DropLease(t)
  /\ IF MayRetry(t, unsent)
     THEN Again(t)
     ELSE Settle(t) /\ UNCHANGED budget
  /\ UNCHANGED <<poolVars, endVars, at, bound, pauseVars, committed>>

(* The response starts: from its headers on the request is committed. *)
Respond(t) ==
  /\ pc[t] = "send" /\ open[lease[t]]
  /\ reached' = [reached EXCEPT ![t] = @ + 1]
  /\ committed' = [committed EXCEPT ![t] = TRUE]
  /\ Go(t, "body")
  /\ UNCHANGED <<connVars, poolVars, endVars, at, lease, bound, pauseVars, budget>>

(* The body ends, stalls or breaks off. *)
EndBody(t) ==
  /\ pc[t] = "body"
  /\ DropLease(t)
  /\ Settle(t)
  /\ UNCHANGED <<poolVars, endVars, at, bound, pauseVars, budget, committed, reached>>

(* Mutant of AbortTask: the dial lock is not released. *)
AbortTaskKeepsLock(t) ==
  /\ pc[t] \in {"lock", "dial", "send", "body"}
  /\ DropLease(t)
  /\ Settle(t)
  /\ UNCHANGED <<poolVars, endVars, at, bound, pauseVars, budget, committed, reached>>

(* settle aborts the task, or the request timeout drops it, at an await:     *)
(* whatever it holds is dropped.  A request that cannot be built ends in the *)
(* same way before it is sent.                                               *)
AbortTask(t) ==
  /\ pc[t] \in {"lock", "dial", "send", "body"}
  /\ DropLease(t) /\ Unlock(t)
  /\ Settle(t)
  /\ UNCHANGED <<conns, dialled, endVars, at, bound, pauseVars, budget, committed, reached>>

(* enter_pause, on the worker that got PAUSE: the flag, then the guard, in    *)
(* place of one that is still there.                                         *)
EnterPause(t) ==
  /\ t \in Pausing /\ committed[t] /\ pc[t] # "over" /\ ~parked[t] /\ ~entering[t]
  /\ parked' = [parked EXCEPT ![t] = TRUE] /\ entering' = [entering EXCEPT ![t] = TRUE]
  /\ UNCHANGED <<connVars, poolVars, endVars, pc, at, lease, bound, guard, leaving, budget, committed, reached>>

(* The field pause_guard gets or loses a PauseGuard, whose new and drop move *)
(* the connection's count; the guard it had is dropped.                      *)
HoldGuard(t, held) ==
  /\ guard' = [guard EXCEPT ![t] = held]
  /\ paused' = [paused EXCEPT ![bound[t]] = @ + (IF held THEN 1 ELSE 0) - (IF guard[t] THEN 1 ELSE 0)]
  /\ UNCHANGED <<kind, idle, active, dead, open, poolVars, endVars, at, lease, bound, budget, committed, reached>>

StoreGuard(t) ==
  /\ entering[t] /\ entering' = [entering EXCEPT ![t] = FALSE]
  /\ HoldGuard(t, TRUE)
  /\ UNCHANGED <<pc, parked, leaving>>

(* leave_pause, by a resume or a settle on another thread: the flag, then    *)
(* the guard.                                                                *)
LeavePause(t) ==
  /\ parked[t] /\ ~leaving[t]
  /\ parked' = [parked EXCEPT ![t] = FALSE] /\ leaving' = [leaving EXCEPT ![t] = TRUE]
  /\ UNCHANGED <<connVars, poolVars, endVars, pc, at, lease, bound, guard, entering, budget, committed, reached>>

ClearGuard(t) ==
  /\ leaving[t] /\ leaving' = [leaving EXCEPT ![t] = FALSE]
  /\ HoldGuard(t, FALSE)
  /\ UNCHANGED <<pc, parked, entering>>

(* After OnDone the request's state is dropped, with a guard that            *)
(* leave_pause has missed.  It may outlive the lease, with chunks queued.    *)
DropState(t) ==
  /\ pc[t] = "end" /\ guard[t] /\ ~parked[t] /\ ~entering[t] /\ ~leaving[t]
  /\ HoldGuard(t, FALSE)
  /\ Go(t, "over")
  /\ UNCHANGED <<parked, entering, leaving>>

(* The peer or the network ends a connection. *)
PeerCloses(c) ==
  /\ open[c]
  /\ open' = [open EXCEPT ![c] = FALSE]
  /\ UNCHANGED <<kind, idle, active, paused, dead, poolVars, endVars, pc, at, lease, reqVars>>
-----------------------------------------------------------------------------
(* Pool::shutdown.                                                           *)

CallShutdown(s) ==
  /\ pc[s] = "uncalled"
  /\ shutting' = TRUE
  /\ Go(s, IF shutting THEN "look" ELSE "close")
  /\ UNCHANGED <<connVars, poolVars, closed, complete, collected, woken, at, lease, reqVars>>

(* Mutant of LookComplete: no second look once registered. *)
LookCompleteOnce(s) ==
  /\ pc[s] \in {"look", "relook"}
  /\ Go(s, CASE pc[s] = "look" /\ complete -> "returned"
             [] pc[s] = "look" /\ ~complete -> "register"
             [] pc[s] = "relook" -> "asleep")
  /\ UNCHANGED <<connVars, poolVars, endVars, at, lease, reqVars>>

(* The loser: look at the flag, register as a waiter, look again, sleep. *)
LookComplete(s) ==
  /\ pc[s] \in {"look", "relook"}
  /\ Go(s, CASE complete -> "returned"
             [] ~complete /\ pc[s] = "look" -> "register"
             [] ~complete /\ pc[s] = "relook" -> "asleep")
  /\ UNCHANGED <<connVars, poolVars, endVars, at, lease, reqVars>>

Register(s) ==
  /\ pc[s] = "register"
  /\ woken' = woken \ {s}
  /\ Go(s, "relook")
  /\ UNCHANGED <<connVars, poolVars, closed, shutting, complete, collected, at, lease, reqVars>>

WakeUp(s) ==
  /\ pc[s] = "asleep" /\ s \in woken
  /\ Go(s, "look")
  /\ UNCHANGED <<connVars, poolVars, endVars, at, lease, reqVars>>

(* The winner: no new leases, then every entry dead and its driver taken,    *)
(* then the map cleared; both walks take the shard's write lock.             *)
CloseDoor(s) ==
  /\ pc[s] = "close"
  /\ closed' = TRUE
  /\ Go(s, "collect")
  /\ UNCHANGED <<connVars, poolVars, shutting, complete, collected, woken, at, lease, reqVars>>

CollectDrivers(s) ==
  /\ pc[s] = "collect" /\ Reading = {}
  /\ LET listed == {conns[i] : i \in 1 .. Len(conns)} IN
     /\ dead' = [c \in Conns |-> dead[c] \/ c \in listed]
     /\ collected' = listed
  /\ Go(s, "clear")
  /\ UNCHANGED <<kind, idle, active, paused, open, poolVars, closed, shutting, complete, woken, at, lease, reqVars>>

ClearConns(s) ==
  /\ pc[s] = "clear" /\ Reading = {}
  /\ conns' = <<>>
  /\ Go(s, "join")
  /\ UNCHANGED <<connVars, dialled, dialer, endVars, at, lease, reqVars>>

(* Mutant of JoinDriver: the drivers are not waited for. *)
JoinDriverSkipped(s) ==
  /\ pc[s] = "join"
  /\ Go(s, "complete")
  /\ UNCHANGED <<connVars, poolVars, endVars, at, lease, reqVars>>

JoinDriver(s) ==
  /\ pc[s] = "join"
  /\ \/ \E c \in collected :
          /\ open' = [open EXCEPT ![c] = FALSE]
          /\ collected' = collected \ {c}
          /\ UNCHANGED pc
     \/ /\ collected = {}
        /\ Go(s, "complete")
        /\ UNCHANGED <<open, collected>>
  /\ UNCHANGED <<kind, idle, active, paused, dead, poolVars, closed, shutting, complete, woken, at, lease, reqVars>>

(* Flag first, then wake. *)
SetComplete(s) ==
  /\ pc[s] = "complete"
  /\ complete' = TRUE
  /\ Go(s, "notify")
  /\ UNCHANGED <<connVars, poolVars, closed, shutting, collected, woken, at, lease, reqVars>>

NotifyWaiters(s) ==
  /\ pc[s] = "notify"
  /\ woken' = {u \in Closers : pc[u] \in {"relook", "asleep"}}
  /\ Go(s, "returned")
  /\ UNCHANGED <<connVars, poolVars, closed, shutting, complete, collected, at, lease, reqVars>>
-----------------------------------------------------------------------------
AcquireStep(t) ==
  \/ Acquire(t) \/ ScanEntry(t) \/ TakeEntry(t) \/ LockDial(t) \/ CountLive(t)
  \/ Dial(t) \/ DialFails(t) \/ Insert(t) \/ TakeNew(t)

AttemptStep(t) ==
  \/ CheckSender(t) \/ SendFails(t, TRUE) \/ SendFails(t, FALSE)
  \/ Respond(t) \/ EndBody(t) \/ AbortTask(t)

PauseStep(t) == EnterPause(t) \/ StoreGuard(t) \/ LeavePause(t) \/ ClearGuard(t) \/ DropState(t)

ShutdownStep(s) ==
  \/ LookComplete(s) \/ Register(s) \/ WakeUp(s) \/ CloseDoor(s) \/ CollectDrivers(s)
  \/ ClearConns(s) \/ JoinDriver(s) \/ SetComplete(s) \/ NotifyWaiters(s)

Next ==
  \/ \E t \in Tasks : AcquireStep(t) \/ AttemptStep(t) \/ PauseStep(t)
  \/ \E c \in Conns : PeerCloses(c)
  \/ \E s \in Closers : CallShutdown(s) \/ ShutdownStep(s)

Spec == Init /\ [][Next]_vars

(* Tokio keeps polling tasks that can proceed, and a dial ends one way or    *)
(* the other.  The peer need not answer, and nobody need call shutdown.      *)
Fairness ==
  /\ \A t \in Tasks : WF_vars(AcquireStep(t))
  /\ \A s \in Closers : WF_vars(ShutdownStep(s))

FairSpec == Spec /\ Fairness
-----------------------------------------------------------------------------
(* Properties.                                                               *)

AcquireLabels == {"start", "scan", "take", "lock", "count", "dial", "insert", "takenew"}
TaskLabels == AcquireLabels \cup {"leased", "send", "body", "end", "over"}
CloserLabels == {"uncalled", "look", "register", "relook", "asleep", "close", "collect", "clear",
                 "join", "complete", "notify", "returned"}

(* The types of the fields of Pool, ConnEntry and Lease; no count is negative. *)
TypeOK ==
  /\ conns \in Seq(Conns) /\ dialled \in 0 .. MaxDials /\ dialer \in Tasks \cup {Nobody}
  /\ kind \in [Conns -> {"h1", "h2"}] /\ idle \in [Conns -> BOOLEAN]
  /\ active \in [Conns -> Nat] /\ paused \in [Conns -> Nat]
  /\ dead \in [Conns -> BOOLEAN] /\ open \in [Conns -> BOOLEAN]
  /\ closed \in BOOLEAN /\ shutting \in BOOLEAN /\ complete \in BOOLEAN
  /\ collected \subseteq Conns /\ woken \subseteq Closers
  /\ pc \in [Tasks \cup Closers -> TaskLabels \cup CloserLabels]
  /\ at \in [Tasks -> Nat] /\ lease \in [Tasks -> Conns \cup {NoConn}]
  /\ bound \in [Tasks -> Conns \cup {NoConn}]
  /\ parked \in [Tasks -> BOOLEAN] /\ guard \in [Tasks -> BOOLEAN]
  /\ entering \in [Tasks -> BOOLEAN] /\ leaving \in [Tasks -> BOOLEAN]
  /\ budget \in [Tasks -> 0 .. MaxRetries] /\ committed \in [Tasks -> BOOLEAN]
  /\ reached \in [Tasks -> Nat]

Holders(c) == {t \in Tasks : lease[t] = c}

(* No path leaks or duplicates a lease (the comment on Lease): an entry's    *)
(* count is the number of its leases, an H1 connection has one user at most, *)
(* and its sender is back in the pool whenever nobody has it.                *)
LeasesBalance == \A c \in Conns :
  /\ active[c] = Cardinality(Holders(c))
  /\ kind[c] = "h1" => Cardinality(Holders(c)) <= 1
  /\ kind[c] = "h1" /\ c <= dialled /\ ~dead[c] => (idle[c] <=> Holders(c) = {})

(* However many tasks dial at once, the key never has more live connections  *)
(* than max_conns_per_key.                                                   *)
ConnCap == Cardinality({i \in 1 .. Len(conns) : open[conns[i]] /\ ~dead[conns[i]]}) <= MaxConns

(* A request whose response has started, or that may have reached the peer   *)
(* and is not idempotent, is never sent again (retry.rs).                    *)
NeverReplayed == [][\A t \in Tasks :
  committed[t] \/ (reached[t] > 0 /\ t \notin Idempotent) => reached'[t] = reached[t]]_vars

(* attempt_loop: however its sends fail, a request may reach the peer once,  *)
(* and once more for each retry its policy allows.                           *)
AttemptsBounded == \A t \in Tasks : reached[t] <= MaxRetries + 1

(* The key's dial lock is held only from inside acquire, where the holder    *)
(* goes on by itself or when its dial ends, and one task at a time counts,   *)
(* dials and inserts: no abort, failure or retry leaves the lock behind.     *)
Dialling == {"count", "dial", "insert", "takenew"}
DialLockInUse ==
  /\ dialer # Nobody => pc[dialer] \in Dialling \cup {"scan", "take"}
  /\ \A t, u \in Tasks : pc[t] \in Dialling /\ pc[u] \in Dialling => t = u

(* When shutdown is complete no entry it has closed has a driver running. *)
DriversJoined == complete => \A c \in Conns : dead[c] => ~open[c]

(* Every shutdown returns, whoever wins the single flight and whenever the   *)
(* losers come ("Awaiting first would hang forever").                        *)
ShutdownReturns == \A s \in Closers : pc[s] # "uncalled" ~> pc[s] = "returned"

(* acquire always returns: a task that gives up, fails or is aborted on the  *)
(* way leaves the dial lock to the others.                                   *)
AcquireReturns == \A t \in Tasks : pc[t] \in AcquireLabels ~> pc[t] \notin AcquireLabels
=============================================================================
