---------------------------- MODULE Client_proofs ----------------------------
(* The counters of a client and what free waits for hold for every number of *)
(* sends and of workers and for every ceiling.                               *)
EXTENDS Client, FiniteSetTheorems, TLAPS

Cleaning == {"release bytes", "release slot", "remove", "leave"}
Busy == Cleaning \cup {"run", "requeue"}

Typing ==
  /\ requests \subseteq Senders /\ ready \subseteq Senders /\ done \subseteq Senders
  /\ job \in [Workers -> Senders \cup {Nobody}]
  /\ pc \in [Threads -> SenderLabels \cup SweeperLabels \cup WorkerLabels]
  /\ \A s \in Senders : pc[s] \in SenderLabels
  /\ \A w \in Workers : pc[w] \in WorkerLabels

(* Only a request that has been accepted is registered, queued or finished. *)
Placed(s) == s \in requests \cup ready \cup done => pc[s] = "accepted"

(* What a worker has in hand: an accepted request, which has had its OnDone  *)
(* when the worker cleans up after it.  Several workers may be in slices of  *)
(* one request, but one of them at most delivers its OnDone and cleans up.   *)
InHand(w) ==
  /\ job[w] # Nobody <=> pc[w] \in Busy
  /\ job[w] # Nobody => pc[job[w]] = "accepted"
  /\ pc[w] \in Cleaning => job[w] \in done
  /\ \A v \in Workers : pc[v] \in Cleaning /\ pc[w] \in Cleaning /\ job[v] = job[w] => v = w

(* A finished request is in the map only until its worker has removed it. *)
Unmapped == {"release bytes", "release slot", "remove"}
Mapped == \A s \in requests \cap done : AtWork(s, Unmapped)

(* free has the client to itself: every send has returned. *)
Alone == pc[Freer] # "idle" => \A s \in Senders : pc[s] \in {"idle", "refused", "accepted"}

(* Once free has waited, no request is unfinished or being cleaned up; once  *)
(* it has joined the workers, they have exited.                              *)
Quiet == Waited => \A s \in Senders : (pc[s] = "accepted" => s \in done) /\ ~AtWork(s, Cleaning)
Joined == pc[Freer] = "freed" => \A w \in Workers : pc[w] = "exited"

(* Requests that have entered the bridge count and not left it. *)
Bridged == {s \in Senders : pc[s] = "insert" \/ (pc[s] = "accepted" /\ s \notin done) \/ AtWork(s, Cleaning)}

(* Sends that have passed the look at the ceiling, and their requests. *)
Passed == {s \in Senders : pc[s] \in {"weigh", "unweigh", "enter", "insert", "accepted"}} \ done

Counts ==
  /\ bridges = Cardinality(Bridged)
  /\ inflight = Cardinality(Counted)
  /\ Cardinality(Passed) <= MaxInflight

IInv ==
  /\ Typing /\ Alone /\ Counts /\ Mapped /\ Quiet /\ Joined
  /\ \A s \in Senders : Placed(s)
  /\ \A w \in Workers : InHand(w)
-----------------------------------------------------------------------------
(* The steps.                                                                *)

Settling(s) == Claim(s) \/ Publish(s) \/ Push(s)
Sweeping(t) == CallClose(t) \/ CloseStep(t)

LEMMA Steps ==
  ASSUME [Next]_vars
  PROVE \/ \E s \in Senders : CheckClosed(s) \/ SendStep(s) \/ Settling(s)
        \/ \E t \in Sweepers : Sweeping(t)
        \/ FreeStep
        \/ \E w \in Workers : WorkerStep(w)
        \/ UNCHANGED vars
BY Zenon DEF Next, Settling, Sweeping

(* A thread moves alone. *)
LEMMA Moves ==
  ASSUME Typing, NEW x \in Threads, NEW l, Go(x, l)
  PROVE /\ pc'[x] = l
        /\ \A t \in Threads : t # x => pc'[t] = pc[t]
        /\ l \in SenderLabels \cup SweeperLabels \cup WorkerLabels =>
             pc' \in [Threads -> SenderLabels \cup SweeperLabels \cup WorkerLabels]
BY DEF Typing, Go

(* What a send does to the threads and the requests. *)
LEMMA SendMoves ==
  ASSUME NEW s \in Senders, CheckClosed(s) \/ SendStep(s)
  PROVE /\ UNCHANGED <<ended, done, execVars>>
        /\ pc[s] \notin {"refused", "accepted"}
        /\ \E l \in SenderLabels : Go(s, l)
        /\ Insert(s) \/ (UNCHANGED <<requests, running>> /\ \E l \in SenderLabels \ {"accepted"} : Go(s, l))
<1>1. UNCHANGED <<ended, done, execVars>>
  BY Zenon DEF CheckClosed, SendStep, ReserveSlot, ReserveBytes, UnreserveBytes, UnreserveSlot, Enter, Insert, reqVars
<1>2. pc[s] \notin {"refused", "accepted"}
  BY DEF CheckClosed, SendStep, ReserveSlot, ReserveBytes, UnreserveBytes, UnreserveSlot, Enter, Insert
<1>3. Insert(s) \/ (UNCHANGED <<requests, running>> /\ \E l \in SenderLabels \ {"accepted"} : Go(s, l))
  <2>1. CASE ReserveSlot(s)
    BY <2>1 DEF ReserveSlot, reqVars, SenderLabels
  <2>2. CASE ReserveBytes(s)
    BY <2>2 DEF ReserveBytes, reqVars, SenderLabels
  <2>3. CASE CheckClosed(s) \/ UnreserveBytes(s) \/ UnreserveSlot(s) \/ Enter(s)
    BY <2>3 DEF CheckClosed, UnreserveBytes, UnreserveSlot, Enter, reqVars, SenderLabels
  <2> QED
    BY <2>1, <2>2, <2>3, Zenon DEF SendStep
<1>4. \E l \in SenderLabels : Go(s, l)
  BY <1>3 DEF Insert, SenderLabels
<1> QED
  BY <1>1, <1>2, <1>3, <1>4

(* A claim, a publication and a sweep leave the map and the workers alone;   *)
(* a push queues an accepted request.                                        *)
Moved ==
  /\ UNCHANGED <<requests, done, job>>
  /\ ready \subseteq ready'
  /\ \A r \in ready' \ ready : r \in Senders /\ pc[r] = "accepted"

LEMMA SettleMoves ==
  ASSUME NEW s \in Senders, Settling(s)
  PROVE Moved /\ UNCHANGED <<pc, bridges, inflight>>
<1>1. CASE Claim(s)
  BY <1>1 DEF Claim, execVars, limitVars, Moved
<1>2. CASE Publish(s)
  BY <1>2 DEF Publish, execVars, limitVars, Moved
<1>3. CASE Push(s)
  BY <1>3 DEF Push, Schedule, reqVars, limitVars, Moved
<1> QED
  BY <1>1, <1>2, <1>3 DEF Settling

LEMMA SweepMoves ==
  ASSUME NEW t \in Sweepers, Sweeping(t)
  PROVE /\ Moved /\ UNCHANGED <<bridges, inflight>>
        /\ UNCHANGED pc \/ \E l \in {"list", "sweep", "publish", "closed", "wait zero"} : Go(t, l)
<1>1. CASE SweepRequest(t)
  BY <1>1 DEF SweepRequest, execVars, limitVars, Moved
<1>2. CASE PublishSwept(t)
  BY <1>2 DEF PublishSwept, execVars, limitVars, Moved
<1>3. CASE CallClose(t) \/ ListRequests(t) \/ EndSweep(t)
  BY <1>3 DEF CallClose, ListRequests, EndSweep, execVars, reqVars, limitVars, Moved
<1> QED
  BY <1>1, <1>2, <1>3, Zenon DEF Sweeping, CloseStep

LEMMA FreeMoves ==
  ASSUME FreeStep
  PROVE /\ UNCHANGED <<requests, done, ready, job, bridges, inflight>>
        /\ \E l \in {"drop", "stop", "notify", "join", "freed"} : Go(Freer, l)
BY DEF FreeStep, WaitZero, DropRuntime, StoreStopped, NotifyAll, JoinWorkers, reqVars, execVars, limitVars

(* A worker that has nothing in hand, one that takes a request, one that     *)
(* lets it go without OnDone, and one that is about to queue it again.       *)
Idles(w) ==
  /\ pc[w] \notin Busy /\ pc[w] # "exited"
  /\ \E l \in WorkerLabels \ Busy : Go(w, l)
  /\ UNCHANGED <<requests, done, ready, job>>

Pops(w, r) ==
  /\ pc[w] = "look" /\ r \in ready
  /\ ready' \subseteq ready /\ job' = [job EXCEPT ![w] = r]
  /\ Go(w, "run")
  /\ UNCHANGED <<requests, done>>

Drops(w) ==
  /\ pc[w] \in {"run", "requeue"}
  /\ ready' \subseteq ready \cup {job[w]} /\ job' = [job EXCEPT ![w] = Nobody]
  /\ Go(w, "loop")
  /\ UNCHANGED <<requests, done>>

Keeps(w) ==
  /\ pc[w] = "run" /\ Go(w, "requeue")
  /\ UNCHANGED <<requests, done, ready, job>>

LEMMA WorkerMoves ==
  ASSUME NEW w \in Workers, WorkerStep(w)
  PROVE \/ UNCHANGED <<inflight, bridges>> /\ (Idles(w) \/ Drops(w) \/ Keeps(w) \/ \E r \in ready : Pops(w, r))
        \/ RunDone(w) \/ ReleaseBytes(w) \/ ReleaseSlot(w) \/ RemoveRequest(w) \/ Leave(w)
<1>1. CASE CheckStopped(w)
  BY <1>1 DEF CheckStopped, Idles, limitVars, reqVars, execVars, WorkerLabels, Busy, Cleaning
<1>2. CASE LockReady(w)
  BY <1>2 DEF LockReady, Idles, limitVars, reqVars, WorkerLabels, Busy, Cleaning
<1>3. CASE Doze(w)
  BY <1>3 DEF Doze, Idles, limitVars, reqVars, WorkerLabels, Busy, Cleaning
<1>4. CASE PopReady(w)
  BY <1>4 DEF PopReady, Idles, Pops, limitVars, reqVars, WorkerLabels, Busy, Cleaning
<1>5. CASE EndSlice(w)
  BY <1>5 DEF EndSlice, Drops, Keeps, limitVars, reqVars
<1>6. CASE Requeue(w)
  BY <1>6 DEF Requeue, Schedule, Drops, limitVars, reqVars
<1> QED
  BY <1>1, <1>2, <1>3, <1>4, <1>5, <1>6, Zenon DEF WorkerStep

(* A worker moves, and is in the middle of its loop. *)
LEMMA WorkerGoes ==
  ASSUME NEW w \in Workers, WorkerStep(w)
  PROVE pc[w] # "exited" /\ \E l \in WorkerLabels : Go(w, l)
BY WorkerMoves DEF Idles, Pops, Drops, Keeps, RunDone, ReleaseBytes, ReleaseSlot, RemoveRequest, Leave, WorkerLabels
-----------------------------------------------------------------------------
(* Where the requests are.                                                   *)

Local ==
  /\ Typing
  /\ \A s \in Senders : Placed(s)
  /\ \A w \in Workers : InHand(w)

LEMMA Disjoint ==
  /\ \A s \in Senders : s \in Threads /\ s \notin Workers /\ s \notin Sweepers /\ s # Nobody
  /\ \A w \in Workers : w \in Threads /\ w \notin Senders /\ w \notin Sweepers
  /\ \A t \in Sweepers : t \in Threads /\ t \notin Senders /\ t \notin Workers
  /\ Freer \in Sweepers
BY ClientThreads DEF Threads, Sweepers

LEMMA LocalSend ==
  ASSUME Local, NEW s \in Senders, CheckClosed(s) \/ SendStep(s)
  PROVE Local'
<1>1. PICK l \in SenderLabels : Go(s, l)
  BY SendMoves
<1>2. /\ pc'[s] = l /\ \A t \in Threads : t # s => pc'[t] = pc[t]
      /\ pc' \in [Threads -> SenderLabels \cup SweeperLabels \cup WorkerLabels]
  BY <1>1, Moves, Disjoint DEF Local
<1>3. UNCHANGED <<done, ready, job>> /\ pc[s] # "accepted"
  BY SendMoves DEF execVars
<1>4. UNCHANGED requests \/ (requests' = requests \cup {s} /\ l = "accepted")
  <2>1. CASE Insert(s)
    <3>1. requests' = requests \cup {s} /\ Go(s, "accepted")
      BY <2>1 DEF Insert
    <3>2. pc'[s] = "accepted"
      BY <3>1, Moves, Disjoint DEF Local
    <3> QED
      BY <1>2, <3>1, <3>2
  <2> QED
    BY <2>1, SendMoves
<1>5. Typing'
  BY <1>1, <1>2, <1>3, <1>4, Disjoint DEF Local, Typing
<1>6. ASSUME NEW q \in Senders PROVE Placed(q)'
  <2>1. CASE q = s
    BY <1>2, <1>3, <1>4, <2>1 DEF Local, Placed
  <2>2. CASE q # s
    BY <1>2, <1>3, <1>4, <2>2, Disjoint DEF Local, Placed
  <2> QED
    BY <2>1, <2>2
<1>7. \A v \in Workers : pc'[v] = pc[v]
  BY <1>2, Disjoint
<1>8. ASSUME NEW w \in Workers PROVE InHand(w)'
  <2>1. InHand(w) /\ job[w] \in Senders \cup {Nobody}
    BY DEF Local, Typing
  <2>2. job[w] # Nobody => job[w] # s /\ pc'[job[w]] = pc[job[w]]
    BY <1>2, <1>3, <2>1, Disjoint DEF InHand
  <2> QED
    BY <1>3, <1>7, <2>1, <2>2 DEF InHand
<1> QED
  BY <1>5, <1>6, <1>8 DEF Local

LEMMA LocalMoved ==
  ASSUME Local, Moved, \A t \in Senders \cup Workers : pc'[t] = pc[t],
         pc' \in [Threads -> SenderLabels \cup SweeperLabels \cup WorkerLabels]
  PROVE Local'
<1>1. Typing'
  BY DEF Local, Typing, Moved
<1>2. ASSUME NEW q \in Senders PROVE Placed(q)'
  BY DEF Local, Placed, Moved
<1>3. ASSUME NEW w \in Workers PROVE InHand(w)'
  <2>1. InHand(w) /\ job[w] \in Senders \cup {Nobody} /\ \A v \in Workers : pc'[v] = pc[v]
    BY DEF Local, Typing
  <2>2. job[w] # Nobody => job[w] \in Senders /\ pc'[job[w]] = pc[job[w]]
    BY <2>1
  <2> QED
    BY <2>1, <2>2 DEF InHand, Moved
<1> QED
  BY <1>1, <1>2, <1>3 DEF Local

LEMMA LocalSettle ==
  ASSUME Local, NEW s \in Senders, Settling(s)
  PROVE Local'
BY SettleMoves, LocalMoved DEF Local, Typing

LEMMA LocalSweep ==
  ASSUME Local, \/ \E t \in Sweepers : Sweeping(t)
                \/ FreeStep
  PROVE Local'
<1>1. PICK t \in Sweepers : UNCHANGED pc \/ \E l \in SweeperLabels : Go(t, l)
  BY SweepMoves, FreeMoves, Disjoint DEF SweeperLabels
<1>2. Moved
  BY SweepMoves, FreeMoves DEF Moved
<1>3. /\ \A u \in Senders \cup Workers : pc'[u] = pc[u]
      /\ pc' \in [Threads -> SenderLabels \cup SweeperLabels \cup WorkerLabels]
  <2>1. CASE UNCHANGED pc
    BY <2>1 DEF Local, Typing
  <2>2. CASE \E l \in SweeperLabels : Go(t, l)
    BY <2>2, Moves, Disjoint DEF Local
  <2> QED
    BY <1>1, <2>1, <2>2
<1> QED
  BY <1>2, <1>3, LocalMoved

(* A worker's step preserves the whole when it does so for what it holds. *)
LEMMA LocalOfWorker ==
  ASSUME Local, NEW w \in Workers, NEW l \in WorkerLabels, Go(w, l),
         requests' \subseteq requests,
         ready' \subseteq ready \/ (pc[w] \in Busy /\ ready' \subseteq ready \cup {job[w]}),
         done' = done \/ (pc[w] \in Busy /\ done' = done \cup {job[w]}),
         job' \in [Workers -> Senders \cup {Nobody}],
         \A v \in Workers : v # w => job'[v] = job[v],
         job'[w] # Nobody <=> l \in Busy,
         job'[w] # Nobody => pc[job'[w]] = "accepted",
         l \in Cleaning => /\ job'[w] \in done'
                           /\ (pc[w] \in Cleaning /\ job'[w] = job[w]) \/ job'[w] \notin done
  PROVE Local'
<1>1. /\ pc'[w] = l /\ \A t \in Threads : t # w => pc'[t] = pc[t]
      /\ pc' \in [Threads -> SenderLabels \cup SweeperLabels \cup WorkerLabels]
  BY Moves, Disjoint DEF Local
<1>2. /\ \A s \in Senders : pc'[s] = pc[s]
      /\ \A v \in Workers : v # w => pc'[v] = pc[v]
      /\ \A v \in Workers : pc'[v] \in WorkerLabels
  BY <1>1, Disjoint DEF Local, Typing
<1>3. \A v \in Workers : InHand(v) /\ job[v] \in Senders \cup {Nobody}
  BY DEF Local, Typing
<1>4. pc[w] \in Busy => job[w] \in Senders /\ pc[job[w]] = "accepted"
  BY <1>3 DEF InHand
<1>5. ready' \subseteq Senders /\ done' \subseteq Senders /\ done \subseteq done'
  BY <1>4 DEF Local, Typing
<1>6. Typing'
  BY <1>1, <1>2, <1>5 DEF Local, Typing
<1>7. ASSUME NEW s \in Senders PROVE Placed(s)'
  BY <1>2, <1>4 DEF Local, Placed
<1>8. ASSUME NEW v \in Workers, v # w PROVE InHand(v)'
  <2>1. InHand(v) /\ pc'[v] = pc[v] /\ job'[v] = job[v]
    BY <1>2, <1>3, <1>8
  <2>2. job[v] # Nobody => pc'[job[v]] = pc[job[v]]
    BY <1>2, <1>3
  <2>3. \A u \in Workers : pc'[u] \in Cleaning /\ pc'[v] \in Cleaning /\ job'[u] = job'[v] => u = v
    <3>1. ASSUME pc'[w] \in Cleaning, pc'[v] \in Cleaning, job'[w] = job'[v] PROVE FALSE
      <4>1. job[v] \in done
        BY <2>1, <3>1 DEF InHand
      <4>2. pc[w] \in Cleaning /\ job[w] = job[v]
        BY <1>1, <2>1, <3>1, <4>1
      <4> QED
        BY <1>8, <2>1, <3>1, <4>2 DEF InHand
    <3>2. ASSUME NEW u \in Workers, u # w, pc'[u] \in Cleaning, pc'[v] \in Cleaning, job'[u] = job'[v] PROVE u = v
      BY <1>2, <2>1, <3>2 DEF InHand
    <3> QED
      BY <3>1, <3>2
  <2> QED
    BY <1>5, <2>1, <2>2, <2>3 DEF InHand
<1>9. InHand(w)'
  <2>1. \A u \in Workers : pc'[u] \in Cleaning /\ pc'[w] \in Cleaning /\ job'[u] = job'[w] => u = w
    BY <1>8 DEF InHand
  <2>2. job'[w] # Nobody => pc'[job'[w]] = "accepted"
    BY <1>2
  <2> QED
    BY <1>1, <2>1, <2>2 DEF InHand
<1> QED
  BY <1>6, <1>7, <1>8, <1>9 DEF Local

LEMMA LocalWork ==
  ASSUME Local, NEW w \in Workers, WorkerStep(w)
  PROVE Local'
<1>1. InHand(w) /\ job \in [Workers -> Senders \cup {Nobody}] /\ ready \subseteq Senders /\ done \subseteq Senders
  BY DEF Local, Typing
<1>2. Cleaning \subseteq Busy /\ Busy \subseteq WorkerLabels /\ "loop" \in WorkerLabels \ Busy
  BY DEF Cleaning, Busy, WorkerLabels
<1>3. ASSUME Idles(w) PROVE Local'
  <2>1. PICK l \in WorkerLabels \ Busy : Go(w, l)
    BY <1>3 DEF Idles
  <2>2. job[w] = Nobody /\ l \notin Cleaning
    BY <1>1, <1>2, <1>3 DEF Idles, InHand
  <2> QED
    BY <1>1, <1>3, <2>1, <2>2, LocalOfWorker DEF Idles
<1>4. ASSUME NEW r \in ready, Pops(w, r) PROVE Local'
  <2>1. r \in Senders /\ pc[r] = "accepted" /\ r # Nobody
    BY <1>1, Disjoint DEF Local, Placed
  <2>2. /\ job'[w] = r /\ job' \in [Workers -> Senders \cup {Nobody}]
        /\ \A v \in Workers : v # w => job'[v] = job[v]
    BY <1>1, <1>4, <2>1 DEF Pops
  <2>3. "run" \in Busy /\ "run" \notin Cleaning
    BY DEF Busy, Cleaning
  <2> QED
    BY <1>2, <1>4, <2>1, <2>2, <2>3, LocalOfWorker DEF Pops
<1>5. ASSUME Drops(w) PROVE Local'
  <2>1. /\ job'[w] = Nobody /\ job' \in [Workers -> Senders \cup {Nobody}]
        /\ \A v \in Workers : v # w => job'[v] = job[v]
    BY <1>1, <1>5 DEF Drops
  <2>2. pc[w] \in Busy
    BY <1>5 DEF Drops, Busy
  <2> QED
    BY <1>2, <1>5, <2>1, <2>2, LocalOfWorker DEF Drops
<1>6. ASSUME Keeps(w) PROVE Local'
  <2>1. pc[w] \in Busy /\ "requeue" \in Busy /\ "requeue" \notin Cleaning
    BY <1>6 DEF Keeps, Busy, Cleaning
  <2> QED
    BY <1>1, <1>2, <1>6, <2>1, LocalOfWorker DEF Keeps, InHand
<1>7. ASSUME RunDone(w) PROVE Local'
  <2>1. /\ pc[w] = "run" /\ Go(w, "release bytes") /\ job[w] \notin done
        /\ done' = done \cup {job[w]} /\ UNCHANGED <<requests, ready, job>>
    BY <1>7 DEF RunDone, execVars
  <2>2. pc[w] \in Busy /\ "release bytes" \in Cleaning
    BY <2>1 DEF Busy, Cleaning
  <2>3. job[w] # Nobody /\ pc[job[w]] = "accepted"
    BY <1>1, <2>2 DEF InHand
  <2> QED
    BY <1>1, <1>2, <2>1, <2>2, <2>3, LocalOfWorker
<1>8. ASSUME ReleaseBytes(w) \/ ReleaseSlot(w) \/ RemoveRequest(w) PROVE Local'
  <2>1. pc[w] \in Cleaning /\ \E l \in Cleaning : Go(w, l)
    BY <1>8 DEF ReleaseBytes, ReleaseSlot, RemoveRequest, Cleaning
  <2>2. PICK l \in Cleaning : Go(w, l)
    BY <2>1
  <2>3. UNCHANGED <<done, ready, job>> /\ requests' \subseteq requests
    BY <1>8 DEF ReleaseBytes, ReleaseSlot, RemoveRequest, reqVars, execVars
  <2>4. job[w] # Nobody /\ pc[job[w]] = "accepted" /\ job[w] \in done
    BY <1>1, <1>2, <2>1 DEF InHand
  <2> QED
    BY <1>1, <1>2, <2>1, <2>2, <2>3, <2>4, LocalOfWorker
<1>9. ASSUME Leave(w) PROVE Local'
  <2>1. Go(w, "loop") /\ UNCHANGED <<requests, done, ready>> /\ job' = [job EXCEPT ![w] = Nobody]
    BY <1>9 DEF Leave, reqVars
  <2>2. /\ job'[w] = Nobody /\ job' \in [Workers -> Senders \cup {Nobody}]
        /\ \A v \in Workers : v # w => job'[v] = job[v]
    BY <1>1, <2>1
  <2> QED
    BY <1>2, <2>1, <2>2, LocalOfWorker
<1> QED
  BY <1>3, <1>4, <1>5, <1>6, <1>7, <1>8, <1>9, WorkerMoves
-----------------------------------------------------------------------------
(* The counters.                                                             *)

Releasing == {"release bytes", "release slot"}

LEMMA Finite ==
  /\ IsFiniteSet(Bridged) /\ IsFiniteSet(Counted) /\ IsFiniteSet(Passed)
  /\ Cardinality(Bridged) \in Nat /\ Cardinality(Counted) \in Nat /\ Cardinality(Passed) \in Nat
<1>1. Bridged \subseteq Senders /\ Counted \subseteq Senders /\ Passed \subseteq Senders
  BY DEF Bridged, Counted, Passed
<1> QED
  BY <1>1, ClientThreads, FS_Subset, FS_CardinalityType

LEMMA Gains ==
  ASSUME NEW S, NEW T, NEW s, IsFiniteSet(S), s \notin S, T = S \cup {s}
  PROVE Cardinality(T) = Cardinality(S) + 1
BY FS_AddElement

LEMMA Loses ==
  ASSUME NEW S, NEW T, NEW s, IsFiniteSet(S), s \in S, T = S \ {s}
  PROVE Cardinality(T) = Cardinality(S) - 1
BY FS_RemoveElement

LEMMA Shrinks ==
  ASSUME NEW S, NEW T, IsFiniteSet(S), T \subseteq S
  PROVE Cardinality(T) \in Nat /\ Cardinality(T) <= Cardinality(S)
BY FS_Subset, FS_CardinalityType

(* A worker's step and who is at work on a request. *)
LEMMA WorkFrame ==
  ASSUME NEW w \in Workers, NEW L, NEW s,
         \A v \in Workers : v # w => job'[v] = job[v] /\ pc'[v] = pc[v],
         job[w] = s /\ pc[w] \in L <=> job'[w] = s /\ pc'[w] \in L
  PROVE AtWork(s, L)' <=> AtWork(s, L)
BY Zenon DEF AtWork

LEMMA WorkersStill ==
  ASSUME \A v \in Workers : job'[v] = job[v] /\ pc'[v] = pc[v]
  PROVE \A s, L : AtWork(s, L)' <=> AtWork(s, L)
BY Zenon DEF AtWork

LEMMA SameSets ==
  ASSUME \A s \in Senders : /\ pc'[s] = pc[s]
                            /\ s \in done' <=> s \in done
                            /\ AtWork(s, Cleaning)' <=> AtWork(s, Cleaning)
                            /\ AtWork(s, Releasing)' <=> AtWork(s, Releasing)
  PROVE Bridged' = Bridged /\ Counted' = Counted /\ Passed' = Passed
<1>1. Bridged' = Bridged
  BY Zenon DEF Bridged
<1>2. Counted' = Counted
  BY Zenon DEF Counted, Releasing
<1>3. Passed' = Passed
  BY DEF Passed
<1> QED
  BY <1>1, <1>2, <1>3

Kept(q) ==
  /\ q \in Bridged' <=> q \in Bridged
  /\ q \in Counted' <=> q \in Counted
  /\ q \in Passed' <=> q \in Passed

(* A send changes the sets at its own request at most. *)
LEMMA SendSets ==
  ASSUME Local, NEW s \in Senders, CheckClosed(s) \/ SendStep(s)
  PROVE /\ \A q \in Senders : q # s => Kept(q)
        /\ s \in Bridged <=> pc[s] = "insert"
        /\ s \in Bridged' <=> pc'[s] \in {"insert", "accepted"}
        /\ s \in Counted <=> pc[s] \in {"weigh", "unweigh", "unreserve", "enter", "insert"}
        /\ s \in Counted' <=> pc'[s] \in {"weigh", "unweigh", "unreserve", "enter", "insert", "accepted"}
        /\ s \in Passed <=> pc[s] \in {"weigh", "unweigh", "enter", "insert"}
        /\ s \in Passed' <=> pc'[s] \in {"weigh", "unweigh", "enter", "insert", "accepted"}
<1>1. PICK l \in SenderLabels : Go(s, l)
  BY SendMoves
<1>2. \A t \in Threads : t # s => pc'[t] = pc[t]
  BY <1>1, Moves, Disjoint DEF Local
<1>3. UNCHANGED <<done, job>> /\ pc[s] # "accepted"
  BY SendMoves DEF execVars
<1>4. \A q, L : AtWork(q, L)' <=> AtWork(q, L)
  BY <1>2, <1>3, Disjoint, WorkersStill
<1>5. \A L : ~AtWork(s, L)
  BY <1>3, Disjoint DEF AtWork, Local, InHand
<1>6. s \notin done
  BY <1>3 DEF Local, Placed
<1>7. \A q \in Senders : q # s => pc'[q] = pc[q]
  BY <1>2, Disjoint
<1>8. \A q \in Senders : q # s => Kept(q)
  BY <1>3, <1>4, <1>7 DEF Kept, Bridged, Counted, Passed
<1>9. /\ s \in Bridged <=> pc[s] = "insert"
      /\ s \in Bridged' <=> pc'[s] \in {"insert", "accepted"}
  BY <1>3, <1>4, <1>5, <1>6 DEF Bridged
<1>10. /\ s \in Counted <=> pc[s] \in {"weigh", "unweigh", "unreserve", "enter", "insert"}
       /\ s \in Counted' <=> pc'[s] \in {"weigh", "unweigh", "unreserve", "enter", "insert", "accepted"}
  BY <1>3, <1>4, <1>5, <1>6 DEF Counted
<1>11. /\ s \in Passed <=> pc[s] \in {"weigh", "unweigh", "enter", "insert"}
       /\ s \in Passed' <=> pc'[s] \in {"weigh", "unweigh", "enter", "insert", "accepted"}
  BY <1>3, <1>6 DEF Passed
<1> QED
  BY <1>8, <1>9, <1>10, <1>11

LEMMA CountsKept ==
  ASSUME Counts, Bridged' = Bridged, Counted' = Counted, Passed' \subseteq Passed, UNCHANGED <<bridges, inflight>>
  PROVE Counts'
<1>1. Cardinality(Passed') \in Nat /\ Cardinality(Passed') <= Cardinality(Passed) /\ Cardinality(Passed) \in Nat
  BY Finite, Shrinks
<1> QED
  BY <1>1, ClientBounds DEF Counts

LEMMA CountsSend ==
  ASSUME Local, Counts, NEW s \in Senders, CheckClosed(s) \/ SendStep(s)
  PROVE Counts'
<1>1. Bridged \subseteq Senders /\ Counted \subseteq Senders /\ Passed \subseteq Senders
  BY DEF Bridged, Counted, Passed
<1>2. Bridged' \subseteq Senders /\ Counted' \subseteq Senders /\ Passed' \subseteq Senders
  BY DEF Bridged, Counted, Passed
<1>3. \A q \in Senders : q # s => Kept(q)
  BY SendSets
<1>4. ASSUME s \in Bridged' <=> s \in Bridged PROVE Bridged' = Bridged
  BY <1>1, <1>2, <1>3, <1>4 DEF Kept
<1>5. ASSUME s \in Counted' <=> s \in Counted PROVE Counted' = Counted
  BY <1>1, <1>2, <1>3, <1>5 DEF Kept
<1>6. ASSUME s \in Passed' => s \in Passed PROVE Passed' \subseteq Passed
  BY <1>1, <1>2, <1>3, <1>6 DEF Kept
<1>7. ASSUME NEW l, Go(s, l) PROVE pc'[s] = l
  BY <1>7, Moves, Disjoint DEF Local
<1>8. CASE CheckClosed(s)
  <2>1. pc[s] = "idle" /\ pc'[s] \in {"refused", "reserve"} /\ UNCHANGED <<bridges, inflight>>
    BY <1>7, <1>8 DEF CheckClosed, limitVars
  <2>2. /\ s \in Bridged' <=> s \in Bridged
        /\ s \in Counted' <=> s \in Counted
        /\ s \in Passed' => s \in Passed
    BY <2>1, SendSets
  <2> QED
    BY <1>4, <1>5, <1>6, <2>1, <2>2, CountsKept
<1>9. CASE ReserveSlot(s)
  <2>1. /\ pc[s] = "reserve" /\ inflight' = inflight + 1 /\ UNCHANGED bridges
        /\ pc'[s] = IF inflight >= MaxInflight THEN "unreserve" ELSE "weigh"
    BY <1>7, <1>9 DEF ReserveSlot
  <2>2. SendStep(s)
    BY <1>9 DEF SendStep
  <2>3. /\ s \in Bridged' <=> s \in Bridged
        /\ s \notin Counted /\ s \in Counted'
        /\ s \notin Passed /\ (s \in Passed' <=> ~(inflight >= MaxInflight))
    BY <2>1, <2>2, SendSets
  <2>4. Bridged' = Bridged
    BY <1>4, <2>3
  <2>5. Counted' = Counted \cup {s}
    BY <1>1, <1>2, <1>3, <2>3 DEF Kept
  <2>6. Cardinality(Counted') = Cardinality(Counted) + 1
    BY <2>3, <2>5, Finite, Gains
  <2>7. Cardinality(Passed') <= MaxInflight
    <3>1. CASE inflight >= MaxInflight
      <4>1. Passed' \subseteq Passed
        BY <1>6, <2>3, <3>1
      <4>2. Cardinality(Passed') \in Nat /\ Cardinality(Passed') <= Cardinality(Passed) /\ Cardinality(Passed) \in Nat
        BY <4>1, Finite, Shrinks
      <4> QED
        BY <4>2, ClientBounds DEF Counts
    <3>2. CASE ~(inflight >= MaxInflight)
      <4>1. Passed \subseteq Counted
        BY DEF Passed, Counted
      <4>2. Passed' \subseteq Counted \cup {s}
        BY <1>2, <1>3, <4>1 DEF Kept
      <4>3. IsFiniteSet(Counted \cup {s}) /\ Cardinality(Counted \cup {s}) = Cardinality(Counted) + 1
        BY <2>3, Finite, FS_AddElement
      <4>4. Cardinality(Passed') \in Nat /\ Cardinality(Passed') <= Cardinality(Counted) + 1
        BY <4>2, <4>3, Shrinks
      <4>5. inflight = Cardinality(Counted) /\ Cardinality(Counted) \in Nat
        BY Finite DEF Counts
      <4> QED
        BY <3>2, <4>4, <4>5, ClientBounds
    <3> QED
      BY <3>1, <3>2
  <2> QED
    BY <2>1, <2>4, <2>6, <2>7 DEF Counts
<1>10. CASE ReserveBytes(s) \/ UnreserveBytes(s) \/ Insert(s)
  <2>1. /\ UNCHANGED <<bridges, inflight>>
        /\ \/ pc[s] = "weigh" /\ pc'[s] \in {"unweigh", "enter"}
           \/ pc[s] = "unweigh" /\ pc'[s] = "unreserve"
           \/ pc[s] = "insert" /\ pc'[s] = "accepted"
    BY <1>7, <1>10 DEF ReserveBytes, UnreserveBytes, Insert, limitVars
  <2>2. SendStep(s)
    BY <1>10, Zenon DEF SendStep
  <2>3. /\ s \in Bridged' <=> s \in Bridged
        /\ s \in Counted' <=> s \in Counted
        /\ s \in Passed' => s \in Passed
    BY <2>1, <2>2, SendSets
  <2> QED
    BY <1>4, <1>5, <1>6, <2>1, <2>3, CountsKept
<1>11. CASE UnreserveSlot(s)
  <2>1. pc[s] = "unreserve" /\ pc'[s] = "refused" /\ inflight' = inflight - 1 /\ UNCHANGED bridges
    BY <1>7, <1>11 DEF UnreserveSlot
  <2>2. SendStep(s)
    BY <1>11 DEF SendStep
  <2>3. /\ s \in Bridged' <=> s \in Bridged
        /\ s \in Counted /\ s \notin Counted'
        /\ s \in Passed' => s \in Passed
    BY <2>1, <2>2, SendSets
  <2>4. Bridged' = Bridged /\ Passed' \subseteq Passed
    BY <1>4, <1>6, <2>3
  <2>5. Counted' = Counted \ {s}
    BY <1>1, <1>2, <1>3, <2>3 DEF Kept
  <2>6. Cardinality(Counted') = Cardinality(Counted) - 1
    BY <2>3, <2>5, Finite, Loses
  <2>7. Cardinality(Passed') \in Nat /\ Cardinality(Passed') <= Cardinality(Passed) /\ Cardinality(Passed) \in Nat
    BY <2>4, Finite, Shrinks
  <2> QED
    BY <2>1, <2>4, <2>6, <2>7, ClientBounds DEF Counts
<1>12. CASE Enter(s)
  <2>1. pc[s] = "enter" /\ pc'[s] = "insert" /\ bridges' = bridges + 1 /\ UNCHANGED inflight
    BY <1>7, <1>12 DEF Enter, limitVars
  <2>2. SendStep(s)
    BY <1>12 DEF SendStep
  <2>3. /\ s \notin Bridged /\ s \in Bridged'
        /\ s \in Counted' <=> s \in Counted
        /\ s \in Passed' => s \in Passed
    BY <2>1, <2>2, SendSets
  <2>4. Counted' = Counted /\ Passed' \subseteq Passed
    BY <1>5, <1>6, <2>3
  <2>5. Bridged' = Bridged \cup {s}
    BY <1>1, <1>2, <1>3, <2>3 DEF Kept
  <2>6. Cardinality(Bridged') = Cardinality(Bridged) + 1
    BY <2>3, <2>5, Finite, Gains
  <2>7. Cardinality(Passed') \in Nat /\ Cardinality(Passed') <= Cardinality(Passed) /\ Cardinality(Passed) \in Nat
    BY <2>4, Finite, Shrinks
  <2> QED
    BY <2>1, <2>4, <2>6, <2>7, ClientBounds DEF Counts
<1> QED
  BY <1>8, <1>9, <1>10, <1>11, <1>12, Zenon DEF SendStep

LEMMA CountsStill ==
  ASSUME Counts, \A t \in Senders \cup Workers : pc'[t] = pc[t], UNCHANGED <<done, job, bridges, inflight>>
  PROVE Counts'
<1>1. \A q, L : AtWork(q, L)' <=> AtWork(q, L)
  BY WorkersStill
<1>2. Bridged' = Bridged /\ Counted' = Counted /\ Passed' = Passed
  BY <1>1, SameSets
<1> QED
  BY <1>2, CountsKept

LEMMA CountsWork ==
  ASSUME Local, Counts, NEW w \in Workers, WorkerStep(w)
  PROVE Counts'
<1>1. ASSUME NEW l, Go(w, l)
      PROVE /\ pc'[w] = l /\ \A s \in Senders : pc'[s] = pc[s]
            /\ \A v \in Workers : v # w => pc'[v] = pc[v]
  BY <1>1, Moves, Disjoint DEF Local
<1>2. InHand(w) /\ job[w] \in Senders \cup {Nobody}
  BY DEF Local, Typing
<1>3. Releasing \subseteq Cleaning /\ Cleaning \subseteq Busy /\ "run" \notin Cleaning
  BY DEF Releasing, Cleaning, Busy
<1>4. ASSUME Idles(w) \/ Keeps(w), UNCHANGED <<inflight, bridges>> PROVE Counts'
  <2>1. UNCHANGED <<done, job>> /\ pc[w] \notin Cleaning /\ \E l : l \notin Cleaning /\ Go(w, l)
    BY <1>3, <1>4 DEF Idles, Keeps, Cleaning
  <2>2. PICK l : l \notin Cleaning /\ Go(w, l)
    BY <2>1
  <2>3. \A s \in Senders : /\ AtWork(s, Cleaning)' <=> AtWork(s, Cleaning)
                           /\ AtWork(s, Releasing)' <=> AtWork(s, Releasing)
    BY <1>1, <1>3, <2>1, <2>2, WorkFrame
  <2>4. Bridged' = Bridged /\ Counted' = Counted /\ Passed' = Passed
    BY <1>1, <2>1, <2>2, <2>3, SameSets
  <2> QED
    BY <1>4, <2>4, CountsKept
<1>5. ASSUME Drops(w) \/ \E r \in ready : Pops(w, r), UNCHANGED <<inflight, bridges>> PROVE Counts'
  <2>1. PICK l \in {"loop", "run"} : Go(w, l) /\ UNCHANGED done /\ pc[w] \notin Cleaning
    BY <1>5 DEF Drops, Pops, Cleaning
  <2>2. \A v \in Workers : v # w => job'[v] = job[v]
    BY <1>5 DEF Drops, Pops, Local, Typing
  <2>3. \A s \in Senders : /\ AtWork(s, Cleaning)' <=> AtWork(s, Cleaning)
                           /\ AtWork(s, Releasing)' <=> AtWork(s, Releasing)
    <3>1. pc'[w] \notin Cleaning /\ \A v \in Workers : v # w => pc'[v] = pc[v]
      BY <1>1, <2>1 DEF Cleaning
    <3> QED
      BY <1>3, <2>1, <2>2, <3>1, WorkFrame
  <2>4. Bridged' = Bridged /\ Counted' = Counted /\ Passed' = Passed
    BY <1>1, <2>1, <2>3, SameSets
  <2> QED
    BY <1>5, <2>4, CountsKept
<1>6. CASE RunDone(w)
  <2>1. /\ pc[w] = "run" /\ Go(w, "release bytes") /\ done' = done \cup {job[w]}
        /\ UNCHANGED <<job, inflight, bridges>>
    BY <1>6 DEF RunDone, execVars, limitVars
  <2>2. job[w] \in Senders /\ job[w] \notin done /\ pc[job[w]] = "accepted"
    BY <1>2, <1>6, <2>1 DEF RunDone, InHand, Busy
  <2>3. \A s \in Senders : s # job[w] => /\ AtWork(s, Cleaning)' <=> AtWork(s, Cleaning)
                                         /\ AtWork(s, Releasing)' <=> AtWork(s, Releasing)
    BY <1>1, <2>1, WorkFrame
  <2>4. AtWork(job[w], Cleaning)' /\ AtWork(job[w], Releasing)'
    BY <1>1, <2>1 DEF AtWork, Cleaning, Releasing
  <2>5. Bridged' = Bridged
    BY <1>1, <2>1, <2>2, <2>3, <2>4 DEF Bridged
  <2>6. Counted' = Counted
    BY <1>1, <2>1, <2>2, <2>3, <2>4 DEF Counted, Releasing
  <2>7. Passed' \subseteq Passed
    BY <1>1, <2>1 DEF Passed
  <2> QED
    BY <2>1, <2>5, <2>6, <2>7, CountsKept
<1>7. CASE ReleaseBytes(w) \/ RemoveRequest(w)
  <2>1. /\ UNCHANGED <<done, job, inflight, bridges>>
        /\ \/ pc[w] = "release bytes" /\ Go(w, "release slot")
           \/ pc[w] = "remove" /\ Go(w, "leave")
    BY <1>7 DEF ReleaseBytes, RemoveRequest, execVars, reqVars, limitVars
  <2>2. /\ pc[w] \in Cleaning <=> pc'[w] \in Cleaning
        /\ pc[w] \in Releasing <=> pc'[w] \in Releasing
    <3>1. \/ pc[w] = "release bytes" /\ pc'[w] = "release slot"
          \/ pc[w] = "remove" /\ pc'[w] = "leave"
      BY <1>1, <2>1
    <3> QED
      BY <3>1 DEF Cleaning, Releasing
  <2>3. \A s \in Senders : /\ AtWork(s, Cleaning)' <=> AtWork(s, Cleaning)
                           /\ AtWork(s, Releasing)' <=> AtWork(s, Releasing)
    BY <1>1, <2>1, <2>2, WorkFrame
  <2>4. Bridged' = Bridged /\ Counted' = Counted /\ Passed' = Passed
    BY <1>1, <2>1, <2>3, SameSets
  <2> QED
    BY <2>1, <2>4, CountsKept
<1>8. CASE ReleaseSlot(w)
  <2>1. /\ pc[w] = "release slot" /\ Go(w, "remove") /\ inflight' = inflight - 1
        /\ UNCHANGED <<done, job, bridges>>
    BY <1>8 DEF ReleaseSlot, execVars, reqVars
  <2>2. PICK r \in Senders : job[w] = r /\ r \in done /\ pc[r] = "accepted"
    BY <1>2, <2>1 DEF InHand, Busy, Cleaning
  <2>3. \A v \in Workers : job[v] = r /\ pc[v] \in Cleaning => v = w
    BY <1>2, <2>1, <2>2 DEF InHand, Cleaning
  <2>4. pc'[w] = "remove"
    BY <1>1, <2>1
  <2>5. \A s \in Senders : AtWork(s, Cleaning)' <=> AtWork(s, Cleaning)
    BY <1>1, <2>1, <2>4, WorkFrame DEF Cleaning
  <2>6. \A s \in Senders : s # r => (AtWork(s, Releasing)' <=> AtWork(s, Releasing))
    BY <1>1, <2>1, <2>2, WorkFrame
  <2>7. AtWork(r, Releasing)
    BY <2>1, <2>2 DEF AtWork, Releasing
  <2>8. ~AtWork(r, Releasing)'
    BY <1>1, <1>3, <2>1, <2>3, <2>4 DEF AtWork, Releasing
  <2>9. Bridged' = Bridged
    BY <1>1, <2>1, <2>5 DEF Bridged
  <2>10. Counted' = Counted \ {r} /\ r \in Counted
    BY <1>1, <2>1, <2>2, <2>6, <2>7, <2>8 DEF Counted, Releasing
  <2>11. Passed' = Passed
    BY <1>1, <2>1 DEF Passed
  <2>12. Cardinality(Counted') = Cardinality(Counted) - 1
    BY <2>10, Finite, Loses
  <2> QED
    BY <2>1, <2>9, <2>11, <2>12 DEF Counts
<1>9. CASE Leave(w)
  <2>1. /\ pc[w] = "leave" /\ Go(w, "loop") /\ bridges' = bridges - 1
        /\ UNCHANGED <<done, inflight>> /\ job' = [job EXCEPT ![w] = Nobody]
    BY <1>9 DEF Leave, reqVars, limitVars
  <2>2. PICK r \in Senders : job[w] = r /\ r \in done /\ pc[r] = "accepted"
    BY <1>2, <2>1 DEF InHand, Busy, Cleaning
  <2>3. \A v \in Workers : job[v] = r /\ pc[v] \in Cleaning => v = w
    BY <1>2, <2>1, <2>2 DEF InHand, Cleaning
  <2>4. job'[w] = Nobody /\ \A v \in Workers : v # w => job'[v] = job[v]
    BY <2>1 DEF Local, Typing
  <2>5. pc[w] \notin Releasing /\ pc'[w] \notin Releasing /\ pc[w] \in Cleaning
    <3>1. pc'[w] = "loop"
      BY <1>1, <2>1
    <3> QED
      BY <2>1, <3>1 DEF Releasing, Cleaning
  <2>6. \A s \in Senders : AtWork(s, Releasing)' <=> AtWork(s, Releasing)
    BY <1>1, <2>1, <2>4, <2>5, WorkFrame
  <2>7. \A s \in Senders : s # r => (AtWork(s, Cleaning)' <=> AtWork(s, Cleaning))
    <3>1. \A v \in Workers : v # w => job'[v] = job[v] /\ pc'[v] = pc[v]
      BY <1>1, <2>1, <2>4
    <3>2. \A s \in Senders : s # r => job[w] # s /\ job'[w] # s
      BY <2>2, <2>4, Disjoint
    <3> QED
      BY <3>1, <3>2, WorkFrame, Zenon
  <2>8. AtWork(r, Cleaning)
    BY <2>2, <2>5, Zenon DEF AtWork
  <2>9. ~AtWork(r, Cleaning)'
    BY <1>1, <2>1, <2>2, <2>3, <2>4, Disjoint DEF AtWork
  <2>10. Bridged' = Bridged \ {r} /\ r \in Bridged
    BY <1>1, <2>1, <2>2, <2>7, <2>8, <2>9 DEF Bridged
  <2>11. Counted' = Counted
    BY <1>1, <2>1, <2>6 DEF Counted, Releasing
  <2>12. Passed' = Passed
    BY <1>1, <2>1 DEF Passed
  <2>13. Cardinality(Bridged') = Cardinality(Bridged) - 1
    BY <2>10, Finite, Loses
  <2> QED
    BY <2>1, <2>11, <2>12, <2>13 DEF Counts
<1> QED
  BY <1>4, <1>5, <1>6, <1>7, <1>8, <1>9, WorkerMoves

LEMMA CountsStep == ASSUME Local, Counts, [Next]_vars PROVE Counts'
<1>1. ASSUME NEW s \in Senders, Settling(s) PROVE Counts'
  BY <1>1, SettleMoves, CountsStill DEF Moved
<1>2. ASSUME NEW t \in Sweepers, Sweeping(t) PROVE Counts'
  <2>1. UNCHANGED <<done, job, bridges, inflight>> /\ \A u \in Senders \cup Workers : pc'[u] = pc[u]
    BY <1>2, SweepMoves, Moves, Disjoint DEF Moved, Local
  <2> QED
    BY <2>1, CountsStill
<1>3. CASE FreeStep
  <2>1. UNCHANGED <<done, job, bridges, inflight>> /\ \A u \in Senders \cup Workers : pc'[u] = pc[u]
    BY <1>3, FreeMoves, Moves, Disjoint DEF Local
  <2> QED
    BY <2>1, CountsStill
<1>4. CASE UNCHANGED vars
  BY <1>4, CountsStill DEF vars, limitVars, reqVars, execVars
<1> QED
  BY <1>1, <1>2, <1>3, <1>4, CountsSend, CountsWork, Steps
-----------------------------------------------------------------------------
(* free.                                                                     *)

(* What the steps do to the freer and to the sends. *)
LEMMA FreerStill ==
  ASSUME Local, [Next]_vars, ~(\E t \in Sweepers : Sweeping(t)), ~FreeStep
  PROVE pc'[Freer] = pc[Freer]
<1>1. Freer \in Threads /\ Freer \notin Senders /\ Freer \notin Workers
  BY Disjoint
<1>2. ASSUME NEW s \in Senders, CheckClosed(s) \/ SendStep(s) PROVE pc'[Freer] = pc[Freer]
  BY <1>1, <1>2, SendMoves, Moves, Disjoint DEF Local
<1>3. ASSUME NEW w \in Workers, WorkerStep(w) PROVE pc'[Freer] = pc[Freer]
  BY <1>1, <1>3, WorkerGoes, Moves, Disjoint DEF Local
<1> QED
  BY <1>2, <1>3, SettleMoves, Steps DEF vars

LEMMA SendsAlone ==
  ASSUME Alone, NEW s \in Senders, CheckClosed(s) \/ SendStep(s)
  PROVE pc[Freer] = "idle"
BY DEF Alone, CheckClosed, SendStep, ReserveSlot, ReserveBytes, UnreserveBytes, UnreserveSlot, Enter, Insert

LEMMA SendersStill ==
  ASSUME Local, [Next]_vars, ~(\E s \in Senders : CheckClosed(s) \/ SendStep(s))
  PROVE \A s \in Senders : pc'[s] = pc[s]
<1>1. ASSUME NEW t \in Sweepers, Sweeping(t) PROVE \A s \in Senders : pc'[s] = pc[s]
  BY <1>1, SweepMoves, Moves, Disjoint DEF Local
<1>2. ASSUME FreeStep PROVE \A s \in Senders : pc'[s] = pc[s]
  BY <1>2, FreeMoves, Moves, Disjoint DEF Local
<1>3. ASSUME NEW w \in Workers, WorkerStep(w) PROVE \A s \in Senders : pc'[s] = pc[s]
  BY <1>3, WorkerGoes, Moves, Disjoint DEF Local
<1> QED
  BY <1>1, <1>2, <1>3, SettleMoves, Steps DEF vars

LEMMA AloneStep == ASSUME Local, Alone, [Next]_vars PROVE Alone'
<1>1. CASE \E s \in Senders : CheckClosed(s) \/ SendStep(s)
  <2>1. PICK s \in Senders : CheckClosed(s) \/ SendStep(s)
    BY <1>1
  <2>2. pc[Freer] = "idle" /\ pc'[Freer] = pc[Freer]
    BY <2>1, SendsAlone, SendMoves, Moves, Disjoint DEF Local
  <2> QED
    BY <2>2 DEF Alone
<1>2. CASE ~(\E s \in Senders : CheckClosed(s) \/ SendStep(s))
  <2>1. \A s \in Senders : pc'[s] = pc[s]
    BY <1>2, SendersStill
  <2>2. CASE pc'[Freer] = pc[Freer] \/ pc[Freer] # "idle"
    BY <2>1, <2>2 DEF Alone
  <2>3. CASE pc'[Freer] # pc[Freer] /\ pc[Freer] = "idle"
    <3>1. ~FreeStep
      BY <2>3 DEF FreeStep, WaitZero, DropRuntime, StoreStopped, NotifyAll, JoinWorkers
    <3>2. PICK t \in Sweepers : Sweeping(t)
      BY <2>3, <3>1, FreerStill
    <3>3. t = Freer
      BY <2>3, <3>2, SweepMoves, Moves, Disjoint DEF Local
    <3> QED
      BY <2>1, <2>3, <3>2, <3>3
         DEF Alone, Sweeping, CallClose, CloseStep, ListRequests, SweepRequest, PublishSwept, EndSweep
  <2> QED
    BY <2>2, <2>3
<1> QED
  BY <1>1, <1>2

(* A finished request leaves the map with its worker's next steps. *)
LEMMA MappedStep == ASSUME Local, Mapped, [Next]_vars PROVE Mapped'
<1>1. Unmapped \subseteq Cleaning /\ "leave" \notin Unmapped
  BY DEF Unmapped, Cleaning
<1>2. ASSUME requests' \cap done' \subseteq requests \cap done,
             \A s \in requests' \cap done' : AtWork(s, Unmapped) => AtWork(s, Unmapped)'
      PROVE Mapped'
  BY <1>2 DEF Mapped
<1>3. ASSUME \A v \in Workers : job'[v] = job[v] /\ pc'[v] = pc[v], requests' \cap done' \subseteq requests \cap done
      PROVE Mapped'
  BY <1>2, <1>3, WorkersStill
<1>4. ASSUME NEW s \in Senders, CheckClosed(s) \/ SendStep(s) PROVE Mapped'
  <2>1. \A v \in Workers : job'[v] = job[v] /\ pc'[v] = pc[v]
    BY <1>4, SendMoves, Moves, Disjoint DEF Local, execVars
  <2>2. requests' \subseteq requests \cup {s} /\ UNCHANGED done /\ s \notin done
    BY <1>4, SendMoves DEF Insert, Local, Placed
  <2> QED
    BY <1>3, <2>1, <2>2
<1>5. ASSUME NEW s \in Senders, Settling(s) PROVE Mapped'
  BY <1>3, <1>5, SettleMoves DEF Moved
<1>6. ASSUME NEW t \in Sweepers, Sweeping(t) PROVE Mapped'
  <2>1. \A v \in Workers : pc'[v] = pc[v]
    BY <1>6, SweepMoves, Moves, Disjoint DEF Local
  <2> QED
    BY <1>3, <1>6, <2>1, SweepMoves DEF Moved
<1>7. CASE FreeStep
  <2>1. \A v \in Workers : pc'[v] = pc[v]
    BY <1>7, FreeMoves, Moves, Disjoint DEF Local
  <2> QED
    BY <1>3, <1>7, <2>1, FreeMoves
<1>8. ASSUME NEW w \in Workers, WorkerStep(w) PROVE Mapped'
  <2>1. /\ \A v \in Workers : v # w => pc'[v] = pc[v]
        /\ \A l : Go(w, l) => pc'[w] = l
    BY <1>8, WorkerGoes, Moves, Disjoint DEF Local
  <2>2. job \in [Workers -> Senders \cup {Nobody}] /\ InHand(w)
    BY DEF Local, Typing
  <2>3. CASE Idles(w) \/ Drops(w) \/ Keeps(w) \/ \E r \in ready : Pops(w, r)
    <3>1. /\ pc[w] \notin Unmapped /\ UNCHANGED <<requests, done>>
          /\ \A v \in Workers : v # w => job'[v] = job[v]
      BY <2>2, <2>3 DEF Idles, Drops, Keeps, Pops, Unmapped, Busy, Cleaning
    <3>2. \A s : AtWork(s, Unmapped) => AtWork(s, Unmapped)'
      BY <2>1, <3>1 DEF AtWork
    <3> QED
      BY <1>2, <3>1, <3>2
  <2>4. CASE RunDone(w)
    <3>1. UNCHANGED <<requests, job>> /\ done' = done \cup {job[w]} /\ pc'[w] = "release bytes" /\ pc[w] = "run"
      BY <2>1, <2>4 DEF RunDone, execVars
    <3>2. AtWork(job[w], Unmapped)'
      BY <3>1 DEF AtWork, Unmapped
    <3>3. \A s : AtWork(s, Unmapped) => AtWork(s, Unmapped)'
      BY <2>1, <3>1 DEF AtWork, Unmapped
    <3> QED
      BY <3>1, <3>2, <3>3 DEF Mapped
  <2>5. CASE ReleaseBytes(w) \/ ReleaseSlot(w)
    <3>1. UNCHANGED <<requests, done, job>> /\ pc'[w] \in Unmapped
      BY <2>1, <2>5 DEF ReleaseBytes, ReleaseSlot, reqVars, execVars, Unmapped
    <3>2. \A s : AtWork(s, Unmapped) => AtWork(s, Unmapped)'
      BY <2>1, <3>1 DEF AtWork
    <3> QED
      BY <1>2, <3>1, <3>2
  <2>6. CASE RemoveRequest(w)
    <3>1. requests' = requests \ {job[w]} /\ UNCHANGED <<done, job>>
      BY <2>6 DEF RemoveRequest, execVars
    <3>2. \A s : s # job[w] /\ AtWork(s, Unmapped) => AtWork(s, Unmapped)'
      BY <2>1, <3>1 DEF AtWork
    <3> QED
      BY <1>2, <3>1, <3>2
  <2>7. CASE Leave(w)
    <3>1. UNCHANGED <<requests, done>> /\ pc[w] = "leave" /\ \A v \in Workers : v # w => job'[v] = job[v]
      BY <2>2, <2>7 DEF Leave, reqVars
    <3>2. \A s : AtWork(s, Unmapped) => AtWork(s, Unmapped)'
      BY <1>1, <2>1, <3>1 DEF AtWork
    <3> QED
      BY <1>2, <3>1, <3>2
  <2> QED
    BY <1>8, <2>3, <2>4, <2>5, <2>6, <2>7, WorkerMoves
<1>9. CASE UNCHANGED vars
  BY <1>3, <1>9 DEF vars, reqVars, execVars
<1> QED
  BY <1>4, <1>5, <1>6, <1>7, <1>8, <1>9, Steps

(* At zero no bridge is left: every request has its OnDone, and no worker    *)
(* cleans up after one.                                                      *)
LEMMA ZeroIsQuiet ==
  ASSUME Local, Counts, bridges = 0
  PROVE \A s \in Senders : (pc[s] = "accepted" => s \in done) /\ ~AtWork(s, Cleaning)
<1>1. Cardinality(Bridged) = 0 /\ IsFiniteSet(Bridged)
  BY Finite DEF Counts
<1>2. Bridged = {}
  BY <1>1, FS_EmptySet
<1> QED
  BY <1>2 DEF Bridged

LEMMA QuietStep ==
  ASSUME Local, Alone, Counts, Quiet, [Next]_vars
  PROVE Quiet'
<1>1. ASSUME ~Waited' PROVE Quiet'
  BY <1>1 DEF Quiet
<1>2. ASSUME pc'[Freer] = pc[Freer], ~Waited PROVE Quiet'
  BY <1>1, <1>2 DEF Waited
<1>3. ASSUME NEW s \in Senders, CheckClosed(s) \/ SendStep(s) PROVE Quiet'
  <2>1. pc'[Freer] = pc[Freer] /\ pc[Freer] = "idle"
    BY <1>3, SendsAlone, SendMoves, Moves, Disjoint DEF Local
  <2> QED
    BY <1>2, <2>1 DEF Waited
<1>4. ASSUME Waited, \A s \in Senders : pc'[s] = pc[s], done \subseteq done',
             \A s \in Senders : AtWork(s, Cleaning)' => AtWork(s, Cleaning)
      PROVE Quiet'
  BY <1>4 DEF Quiet
<1>5. ASSUME NEW s \in Senders, Settling(s) PROVE Quiet'
  <2>1. UNCHANGED <<pc, done, job>>
    BY <1>5, SettleMoves DEF Moved
  <2> QED
    BY <1>2, <1>4, <2>1, WorkersStill
<1>6. ASSUME NEW t \in Sweepers, Sweeping(t) PROVE Quiet'
  <2>1. UNCHANGED <<done, job>> /\ \A u \in Senders \cup Workers : pc'[u] = pc[u]
    BY <1>6, SweepMoves, Moves, Disjoint DEF Moved, Local
  <2>2. CASE pc'[Freer] = pc[Freer]
    BY <1>2, <1>4, <2>1, <2>2, WorkersStill
  <2>3. CASE pc'[Freer] # pc[Freer]
    <3>1. ~Waited'
      BY <1>6, <2>3, SweepMoves, Moves, Disjoint DEF Local, Waited
    <3> QED
      BY <1>1, <3>1
  <2> QED
    BY <2>2, <2>3
<1>7. CASE FreeStep
  <2>1. UNCHANGED <<done, job>> /\ \A u \in Senders \cup Workers : pc'[u] = pc[u]
    BY <1>7, FreeMoves, Moves, Disjoint DEF Local
  <2>2. \A s : AtWork(s, Cleaning)' <=> AtWork(s, Cleaning)
    BY <2>1, WorkersStill
  <2>3. CASE WaitZero
    BY <2>1, <2>2, <2>3, ZeroIsQuiet DEF WaitZero, Quiet
  <2>4. CASE ~WaitZero
    <3>1. Waited
      BY <1>7, <2>4 DEF FreeStep, DropRuntime, StoreStopped, NotifyAll, JoinWorkers, Waited
    <3> QED
      BY <1>4, <2>1, <2>2, <3>1
  <2> QED
    BY <2>3, <2>4
<1>8. ASSUME NEW w \in Workers, WorkerStep(w) PROVE Quiet'
  <2>1. /\ \A s \in Senders : pc'[s] = pc[s]
        /\ \A v \in Workers : v # w => pc'[v] = pc[v]
        /\ pc'[Freer] = pc[Freer]
        /\ \A l : Go(w, l) => pc'[w] = l
    BY <1>8, WorkerGoes, Moves, Disjoint DEF Local
  <2>2. CASE Waited
    <3>1. job \in [Workers -> Senders \cup {Nobody}] /\ InHand(w)
      BY DEF Local, Typing
    <3>2. pc[w] \notin Cleaning
      BY <2>2, <3>1 DEF Quiet, AtWork, InHand, Busy
    <3>3. ~RunDone(w)
      <4>1. ASSUME RunDone(w) PROVE FALSE
        BY <2>2, <3>1, <4>1 DEF RunDone, Quiet, InHand, Busy
      <4> QED
        BY <4>1
    <3>4. Idles(w) \/ Drops(w) \/ Keeps(w) \/ \E r \in ready : Pops(w, r)
      BY <1>8, <3>2, <3>3, WorkerMoves DEF ReleaseBytes, ReleaseSlot, RemoveRequest, Leave, Cleaning
    <3>5. /\ UNCHANGED done /\ pc'[w] \notin Cleaning
          /\ \A v \in Workers : v # w => job'[v] = job[v]
      BY <2>1, <3>1, <3>4 DEF Idles, Drops, Keeps, Pops, Busy, Cleaning
    <3>6. \A s : AtWork(s, Cleaning)' => AtWork(s, Cleaning)
      BY <2>1, <3>5 DEF AtWork
    <3> QED
      BY <1>4, <2>1, <2>2, <3>5, <3>6
  <2> QED
    BY <1>2, <2>1, <2>2
<1>9. CASE UNCHANGED vars
  <2>1. UNCHANGED <<pc, done, job>>
    BY <1>9 DEF vars, reqVars, execVars
  <2> QED
    BY <1>2, <1>4, <2>1, WorkersStill
<1> QED
  BY <1>3, <1>5, <1>6, <1>7, <1>8, <1>9, Steps

LEMMA JoinedStep == ASSUME Local, Alone, Joined, [Next]_vars PROVE Joined'
<1>1. CASE \E w \in Workers : WorkerStep(w)
  <2>1. PICK w \in Workers : WorkerStep(w)
    BY <1>1
  <2>2. pc'[Freer] = pc[Freer] /\ pc[w] # "exited"
    BY <2>1, WorkerGoes, Moves, Disjoint DEF Local
  <2> QED
    BY <2>2 DEF Joined
<1>2. ASSUME NEW s \in Senders, CheckClosed(s) \/ SendStep(s) PROVE Joined'
  BY <1>2, SendsAlone, SendMoves, Moves, Disjoint DEF Local, Joined
<1>3. ASSUME NEW t \in Sweepers, Sweeping(t) PROVE Joined'
  <2>1. \A w \in Workers : pc'[w] = pc[w]
    BY <1>3, SweepMoves, Moves, Disjoint DEF Local
  <2>2. pc'[Freer] = "freed" => pc[Freer] = "freed"
    BY <1>3, SweepMoves, Moves, Disjoint DEF Local
  <2> QED
    BY <2>1, <2>2 DEF Joined
<1>4. CASE FreeStep
  <2>1. \A w \in Workers : pc'[w] = pc[w]
    BY <1>4, FreeMoves, Moves, Disjoint DEF Local
  <2>2. CASE JoinWorkers
    BY <2>1, <2>2 DEF JoinWorkers, Joined
  <2>3. CASE ~JoinWorkers
    <3>1. \E l \in {"drop", "stop", "notify", "join"} : Go(Freer, l)
      BY <1>4, <2>3 DEF FreeStep, WaitZero, DropRuntime, StoreStopped, NotifyAll
    <3>2. pc'[Freer] # "freed"
      BY <3>1, Moves, Disjoint DEF Local
    <3> QED
      BY <3>2 DEF Joined
  <2> QED
    BY <2>2, <2>3
<1>5. ASSUME UNCHANGED pc PROVE Joined'
  BY <1>5 DEF Joined
<1> QED
  BY <1>1, <1>2, <1>3, <1>4, <1>5, SettleMoves, Steps DEF vars
-----------------------------------------------------------------------------
(* The theorems.                                                             *)

LEMMA Initially == Init => IInv
<1> SUFFICES ASSUME Init PROVE IInv
  OBVIOUS
<1>1. /\ \A s \in Senders : pc[s] = "idle"
      /\ \A w \in Workers : pc[w] = "loop" /\ job[w] = Nobody
      /\ pc[Freer] = "idle"
  BY Disjoint DEF Init
<1>2. requests = {} /\ ready = {} /\ done = {}
  BY Zenon DEF Init
<1>3. Typing
  <2>1. job \in [Workers -> Senders \cup {Nobody}]
    BY Zenon DEF Init
  <2>2. pc \in [Threads -> SenderLabels \cup SweeperLabels \cup WorkerLabels]
    BY DEF Init, SenderLabels, WorkerLabels
  <2> QED
    BY <1>1, <1>2, <2>1, <2>2 DEF Typing, SenderLabels, WorkerLabels
<1>4. \A s \in Senders : Placed(s)
  BY <1>2 DEF Placed
<1>5. \A w \in Workers : InHand(w)
  BY <1>1 DEF InHand, Busy, Cleaning
<1>6. Alone /\ Mapped /\ Quiet /\ Joined
  BY <1>1, <1>2 DEF Alone, Mapped, Quiet, Waited, Joined
<1>7. Counts
  <2>1. \A s : ~AtWork(s, Cleaning) /\ ~AtWork(s, Releasing)
    BY <1>1 DEF AtWork, Cleaning, Releasing
  <2>2. Bridged = {} /\ Counted = {} /\ Passed = {}
    BY <1>1, <2>1 DEF Bridged, Counted, Passed, Releasing
  <2>3. bridges = 0 /\ inflight = 0 /\ Cardinality({}) = 0
    BY FS_EmptySet, Zenon DEF Init
  <2> QED
    BY <2>2, <2>3, ClientBounds DEF Counts
<1> QED
  BY <1>3, <1>4, <1>5, <1>6, <1>7 DEF IInv

LEMMA LocalStep == ASSUME Local, [Next]_vars PROVE Local'
<1>1. CASE UNCHANGED vars
  <2>1. UNCHANGED <<requests, ready, done, job, pc>>
    BY <1>1 DEF vars, reqVars, execVars
  <2> QED
    BY <2>1, LocalMoved DEF Local, Typing, Moved
<1> QED
  BY <1>1, LocalSend, LocalSettle, LocalSweep, LocalWork, Steps

LEMMA Inductive == IInv /\ [Next]_vars => IInv'
<1> SUFFICES ASSUME IInv, [Next]_vars PROVE IInv'
  OBVIOUS
<1>1. Local /\ Alone /\ Counts /\ Mapped /\ Quiet /\ Joined
  BY Zenon DEF IInv, Local
<1>2. Local'
  BY <1>1, LocalStep
<1>3. Alone' /\ Counts' /\ Mapped' /\ Quiet' /\ Joined'
  BY <1>1, AloneStep, CountsStep, MappedStep, QuietStep, JoinedStep
<1> QED
  BY <1>2, <1>3, Zenon DEF IInv, Local

(* Limits' count of requests is what the sends in progress and the           *)
(* unfinished requests hold, and never more than max_inflight are admitted,  *)
(* however many sends race through try_reserve.                              *)
THEOREM InflightHolds ==
  Spec => [](inflight = Cardinality(Counted) /\ Cardinality(Admitted) <= MaxInflight)
<1>1. IInv => inflight = Cardinality(Counted) /\ Cardinality(Admitted) <= MaxInflight
  <2> SUFFICES ASSUME IInv PROVE inflight = Cardinality(Counted) /\ Cardinality(Admitted) <= MaxInflight
    OBVIOUS
  <2>1. inflight = Cardinality(Counted) /\ Cardinality(Passed) <= MaxInflight
    BY DEF IInv, Counts
  <2>2. Admitted \subseteq Passed
    BY DEF Admitted, Passed
  <2>3. Cardinality(Admitted) \in Nat /\ Cardinality(Admitted) <= Cardinality(Passed) /\ Cardinality(Passed) \in Nat
    BY <2>2, Finite, Shrinks
  <2> QED
    BY <2>1, <2>3, ClientBounds
<1> QED
  BY <1>1, Initially, Inductive, PTL DEF Spec
=============================================================================
