---------------------------- MODULE Bridge_proofs ----------------------------
(* Proofs about Bridge, for any number of workers, callers and events, any   *)
(* queue capacity and any slice.                                             *)
EXTENDS Bridge_typing, TLAPS

(* The running flag is set while a worker owns the slot, and one at most does. *)
Exclusive == OneOwner /\ \A w \in Workers : Owns(w) => running

(* Before the winner of claim has published the terminal nothing is to be    *)
(* delivered; afterwards the terminal is there until OnDone has taken it.    *)
Terminal ==
  /\ gate = RUNNING => \A t \in Threads : pc[t] # "publish"
  /\ (gate = RUNNING \/ \E t \in Threads : pc[t] = "publish") => ~terminal /\ done = 0
  /\ \A t, u \in Threads : pc[t] = "publish" /\ pc[u] = "publish" => t = u
  /\ done \in {0, 1}
  /\ terminal => done = 0

(* Only the network task completes a request, and it sends nothing after.    *)
Completing == gate = DRAIN =>
  \/ pc[Net] \in {"publish", "schedule"} /\ ret[Net] = "abort"
  \/ pc[Net] \in {"abort", "end"}

(* The queue holds the last events accepted; what was taken off it is         *)
(* delivered or in a worker's hands, as long as nothing is discarded.        *)
Ordered ==
  /\ \A i \in 1 .. Len(queue) : queue[i] = sent - Len(queue) + i
  /\ \A w \in Workers : pc[w] \in {"call", "callback"} => held[w] = delivered + 1
  /\ gate # DISCARD =>
       /\ (\A w \in Workers : pc[w] \notin {"gate", "call", "callback"}) => delivered = sent - Len(queue)
       /\ \A w \in Workers : pc[w] \in {"gate", "call", "callback"} =>
            held[w] = delivered + 1 /\ held[w] = sent - Len(queue)

(* Permits, queued events and an event being queued add up to the capacity   *)
(* until the request is settled.                                             *)
Permits ==
  /\ gate = RUNNING =>
       space + Len(queue) + (IF pc[Net] \in {"still?", "append"} THEN 1 ELSE 0) = Capacity
  /\ Len(queue) + (IF pc[Net] = "append" THEN 1 ELSE 0) <= Capacity

IInv == Typing /\ Exclusive /\ Terminal /\ Completing /\ Ordered /\ Permits

(* running.swap(true) admits one worker, and only that worker clears it. *)
LEMMA ExclusiveStep == Typing /\ Exclusive /\ [Next]_vars => Exclusive'
<1> SUFFICES ASSUME Typing /\ Exclusive, [Next]_vars PROVE Exclusive'
  OBVIOUS
<1> USE ThreadsDisjoint, EnvironmentChoices DEF Go, Branch, schedVars, Typing, TypeOK, LabelsOK,
     Returns, Exclusive, OneOwner, Owns, Owning, Settling, Threads
<1>1. ASSUME NEW w \in Workers, TakeReady(w) \/ Bounce(w) \/ BeginSlice(w) \/ CheckPaused(w) \/
     PopEvent(w) \/ CheckGate(w) \/ EnterCallback(w) \/ Deliver(w) \/ LeaveCallback(w) \/
     ClearPermit(w) PROVE Exclusive'
  BY <1>1 DEF TakeReady, Bounce, BeginSlice, CheckPaused, PopEvent, CheckGate, EnterCallback,
       Deliver, LeaveCallback, ClearPermit
<1>2. ASSUME NEW w \in Workers, CancelFromCallback(w) \/ ConsumePermit(w) \/ Park(w) \/
     HoldGuard(w) \/ CheckEmpty(w) \/ DeliverDone(w) \/ Cleanup(w) \/ LeaveSlice(w) \/
     CheckFinished(w) \/ Requeue(w) PROVE Exclusive'
  BY <1>2 DEF CancelFromCallback, ConsumePermit, Park, HoldGuard, CheckEmpty, DeliverDone,
       Cleanup, LeaveSlice, CheckFinished, Requeue
<1>3. ASSUME NEW t \in Threads, Claim(t) PROVE Exclusive'
  <2>1. running' = running
    BY <1>3 DEF Claim
  <2>2. CASE gate = RUNNING
    BY <1>3, <2>1, <2>2, ClaimCases
  <2>3. CASE gate # RUNNING
    BY <1>3, <2>1, <2>3, ClaimCases
  <2> QED
    BY <2>2, <2>3
<1>4. ASSUME NEW t \in Threads, Publish(t) \/ ReleasePause(t) PROVE Exclusive'
  BY <1>4 DEF Publish, ReleasePause
<1>5. ASSUME NEW t \in Threads, Unpause(t) \/ DropGuard(t) \/ ScheduleSlot(t) \/ Abort(t) PROVE
     Exclusive'
  <2>1. CASE Unpause(t)
    BY <2>1 DEF Unpause
  <2>2. CASE DropGuard(t)
    BY <2>2 DEF DropGuard
  <2>3. CASE ScheduleSlot(t)
    BY <2>3 DEF ScheduleSlot
  <2>4. CASE Abort(t)
    BY <2>4 DEF Abort
  <2> QED
    BY <1>5, <2>1, <2>2, <2>3, <2>4
<1>6. ASSUME NEW c \in Callers, CallResume(c) \/ CallCancel(c) \/ CallClose(c) \/ ResumeEarly(c)
     \/ GrantPermit(c) PROVE Exclusive'
  <2>1. CASE CallResume(c)
    BY <2>1 DEF CallResume
  <2>2. CASE CallCancel(c)
    BY <2>2 DEF CallCancel
  <2>3. CASE CallClose(c)
    BY <2>3 DEF CallClose
  <2>4. CASE ResumeEarly(c)
    BY <2>4 DEF ResumeEarly
  <2>5. CASE GrantPermit(c)
    BY <2>5 DEF GrantPermit
  <2> QED
    BY <1>6, <2>1, <2>2, <2>3, <2>4, <2>5
<1>7. ASSUME Receive \/ EndOfBody \/ Fail \/ Aborted PROVE Exclusive'
  <2>1. CASE Receive
    BY <2>1 DEF Receive
  <2>2. CASE EndOfBody
    BY <2>2 DEF EndOfBody
  <2>3. CASE Fail
    BY <2>3 DEF Fail
  <2>4. CASE Aborted
    BY <2>4 DEF Aborted
  <2> QED
    BY <1>7, <2>1, <2>2, <2>3, <2>4
<1>8. ASSUME Acquire \/ RecheckGate \/ AppendEvent \/ WakeSlot PROVE Exclusive'
  <2>1. CASE Acquire
    BY <2>1 DEF Acquire
  <2>2. CASE RecheckGate
    BY <2>2 DEF RecheckGate
  <2>3. CASE AppendEvent
    BY <2>3 DEF AppendEvent
  <2>4. CASE WakeSlot
    BY <2>4 DEF WakeSlot
  <2> QED
    BY <1>8, <2>1, <2>2, <2>3, <2>4
<1>9. ASSUME UNCHANGED vars PROVE Exclusive'
  BY <1>9 DEF vars
<1> QED
  BY <1>1, <1>2, <1>3, <1>4, <1>5, <1>6, <1>7, <1>8, <1>9 DEF Next, WorkerStep, SettleStep,
       Call, SendStep

(* A thread that neither claims nor publishes leaves the terminal alone. *)
LEMMA TerminalKept ==
  ASSUME Terminal, UNCHANGED <<gate, terminal, done>>, DOMAIN pc = Threads,
         NEW t \in Threads, NEW l, l # "publish", pc' = [pc EXCEPT ![t] = l]
  PROVE  Terminal'
BY DEF Terminal

(* One thread wins claim, publishes one terminal, and one worker takes it. *)
LEMMA TerminalStep == Typing /\ Exclusive /\ Terminal /\ [Next]_vars => Terminal'
<1> SUFFICES ASSUME Typing /\ Exclusive /\ Terminal, [Next]_vars PROVE Terminal'
  OBVIOUS
<1> USE EnvironmentChoices DEF Go, Branch, reqVars, endVars, history, RUNNING, DRAIN, DISCARD,
     Typing, TypeOK, DataOK, LabelsOK, Terminal, Threads
<1>0. DOMAIN pc = Threads /\ Workers \subseteq Threads
  OBVIOUS
<1>1. ASSUME NEW w \in Workers, TakeReady(w) \/ Bounce(w) \/ BeginSlice(w) \/ CheckPaused(w)
     PROVE Terminal'
  <2>1. CASE TakeReady(w)
    BY <2>1 DEF TakeReady
  <2>2. CASE Bounce(w)
    BY <2>2 DEF Bounce
  <2>3. CASE BeginSlice(w)
    BY <2>3 DEF BeginSlice
  <2>4. CASE CheckPaused(w)
    BY <2>4 DEF CheckPaused
  <2> QED
    BY <1>1, <2>1, <2>2, <2>3, <2>4
<1>2. ASSUME NEW w \in Workers, PopEvent(w) \/ CheckGate(w) PROVE Terminal'
  <2>1. CASE PopEvent(w)
    <3>1. UNCHANGED <<gate, terminal, done>> /\ \E l \in {"drained", "gate"} : pc' = [pc EXCEPT ![w] = l]
      BY <2>1 DEF PopEvent
    <3> QED
      BY <3>1, <1>0, TerminalKept
  <2>2. CASE CheckGate(w)
    <3>1. UNCHANGED <<gate, terminal, done>> /\ \E l \in {"check", "call"} : pc' = [pc EXCEPT ![w] = l]
      BY <2>2 DEF CheckGate
    <3> QED
      BY <3>1, <1>0, TerminalKept
  <2> QED
    BY <1>2, <2>1, <2>2
<1>3. ASSUME NEW w \in Workers, EnterCallback(w) PROVE Terminal'
  BY <1>3 DEF EnterCallback
<1>4. ASSUME NEW w \in Workers, LeaveCallback(w) PROVE Terminal'
  BY <1>4 DEF LeaveCallback
<1>5. ASSUME NEW w \in Workers, ClearPermit(w) PROVE Terminal'
  BY <1>5 DEF ClearPermit
<1>6. ASSUME NEW w \in Workers, CancelFromCallback(w) PROVE Terminal'
  BY <1>6 DEF CancelFromCallback
<1>7. ASSUME NEW w \in Workers, ConsumePermit(w) PROVE Terminal'
  BY <1>7 DEF ConsumePermit
<1>8. ASSUME NEW w \in Workers, Park(w) PROVE Terminal'
  BY <1>8 DEF Park
<1>9. ASSUME NEW w \in Workers, HoldGuard(w) \/ CheckEmpty(w) PROVE Terminal'
  <2>1. CASE HoldGuard(w)
    BY <2>1 DEF HoldGuard
  <2>2. CASE CheckEmpty(w)
    BY <2>2 DEF CheckEmpty
  <2> QED
    BY <1>9, <2>1, <2>2
<1>10. ASSUME NEW w \in Workers, DeliverDone(w) \/ Cleanup(w) PROVE Terminal'
  <2>1. CASE DeliverDone(w)
    <3>1. gate' = gate /\ \E l \in {"cleanup", "leave"} : pc' = [pc EXCEPT ![w] = l]
      BY <2>1 DEF DeliverDone
    <3>2. CASE terminal' = terminal /\ done' = done
      BY <3>1, <3>2, <1>0, TerminalKept
    <3>3. CASE terminal /\ terminal' = FALSE /\ done' = done + 1
      <4>1. gate # RUNNING /\ done = 0 /\ \A t \in Threads : pc[t] # "publish"
        BY <3>3
      <4>2. \A t \in Threads : pc'[t] # "publish"
        BY <3>1, <4>1
      <4> QED
        BY <3>1, <3>3, <4>1, <4>2
    <3> QED
      BY <2>1, <3>2, <3>3 DEF DeliverDone
  <2>2. CASE Cleanup(w)
    BY <2>2 DEF Cleanup
  <2> QED
    BY <1>10, <2>1, <2>2
<1>11. ASSUME NEW w \in Workers, LeaveSlice(w) PROVE Terminal'
  BY <1>11 DEF LeaveSlice
<1>12. ASSUME NEW w \in Workers, CheckFinished(w) \/ Requeue(w) PROVE Terminal'
  BY <1>12 DEF CheckFinished, Requeue
<1>13. ASSUME NEW w \in Workers, Deliver(w) PROVE Terminal'
  <2>1. PICK v \in {"continue", "pause", "cancel"} : pc' = [pc EXCEPT ![w] = v]
    BY <1>13, Zenon DEF Deliver
  <2>2. UNCHANGED <<gate, terminal, done>>
    BY <1>13 DEF Deliver
  <2> QED
    BY <2>1, <2>2
<1>14. ASSUME NEW t \in Threads, Claim(t) PROVE Terminal'
  <2>1. UNCHANGED <<terminal, done>>
    BY <1>14 DEF Claim
  <2>2. CASE gate = RUNNING
    <3>1. gate' # RUNNING /\ pc' = [pc EXCEPT ![t] = "publish"]
      BY <1>14, <2>2, ClaimCases
    <3>2. ~terminal /\ done = 0 /\ \A u \in Threads : pc'[u] = "publish" => u = t
      BY <2>2, <3>1
    <3> QED
      BY <2>1, <3>1, <3>2
  <2>3. CASE gate # RUNNING
    <3>1. gate' = gate /\ \E l \in {"lost", "abort"} : pc' = [pc EXCEPT ![t] = l]
      BY <1>14, <2>3, ClaimCases
    <3> QED
      BY <2>1, <3>1, <1>0, TerminalKept
  <2> QED
    BY <2>2, <2>3
<1>15. ASSUME NEW t \in Threads, Publish(t) PROVE Terminal'
  BY <1>15 DEF Publish
<1>16. ASSUME NEW t \in Threads, ReleasePause(t) PROVE Terminal'
  BY <1>16 DEF ReleasePause
<1>17. ASSUME NEW t \in Threads, Unpause(t) \/ DropGuard(t) \/ ScheduleSlot(t) \/ Abort(t) PROVE
     Terminal'
  <2>1. CASE Unpause(t)
    BY <2>1 DEF Unpause
  <2>2. CASE DropGuard(t)
    BY <2>2 DEF DropGuard
  <2>3. CASE ScheduleSlot(t)
    BY <2>3, Zenon DEF ScheduleSlot
  <2>4. CASE Abort(t)
    BY <2>4 DEF Abort
  <2> QED
    BY <1>17, <2>1, <2>2, <2>3, <2>4
<1>18. ASSUME NEW c \in Callers, CallResume(c) PROVE Terminal'
  BY <1>18 DEF CallResume
<1>19. ASSUME NEW c \in Callers, CallCancel(c) PROVE Terminal'
  BY <1>19 DEF CallCancel
<1>20. ASSUME NEW c \in Callers, CallClose(c) PROVE Terminal'
  BY <1>20 DEF CallClose
<1>21. ASSUME NEW c \in Callers, ResumeEarly(c) \/ GrantPermit(c) PROVE Terminal'
  <2>1. CASE ResumeEarly(c)
    BY <2>1 DEF ResumeEarly
  <2>2. CASE GrantPermit(c)
    BY <2>2 DEF GrantPermit
  <2> QED
    BY <1>21, <2>1, <2>2
<1>22. ASSUME Receive \/ EndOfBody \/ Fail \/ Aborted PROVE Terminal'
  <2>1. CASE Receive
    BY <2>1 DEF Receive
  <2>2. CASE EndOfBody
    BY <2>2 DEF EndOfBody
  <2>3. CASE Fail
    BY <2>3 DEF Fail
  <2>4. CASE Aborted
    BY <2>4 DEF Aborted
  <2> QED
    BY <1>22, <2>1, <2>2, <2>3, <2>4
<1>23. ASSUME Acquire \/ RecheckGate \/ AppendEvent \/ WakeSlot PROVE Terminal'
  <2>1. CASE Acquire
    BY <2>1 DEF Acquire
  <2>2. CASE RecheckGate
    BY <2>2 DEF RecheckGate
  <2>3. CASE AppendEvent
    BY <2>3 DEF AppendEvent
  <2>4. CASE WakeSlot
    BY <2>4 DEF WakeSlot
  <2> QED
    BY <1>23, <2>1, <2>2, <2>3, <2>4
<1>24. ASSUME UNCHANGED vars PROVE Terminal'
  BY <1>24 DEF vars
<1> QED
  BY <1>1, <1>2, <1>3, <1>4, <1>5, <1>6, <1>7, <1>8, <1>9, <1>10, <1>11, <1>12, <1>13, <1>14,
       <1>15, <1>16, <1>17, <1>18, <1>19, <1>20, <1>21, <1>22, <1>23, <1>24, Zenon DEF Next,
       WorkerStep, SettleStep, Call, SendStep

(* Once the request is draining, its network task sends nothing more. *)
LEMMA CompletingStep == Typing /\ Completing /\ [Next]_vars => Completing'
<1> SUFFICES ASSUME Typing /\ Completing, [Next]_vars PROVE Completing'
  OBVIOUS
<1> USE ThreadsDisjoint, EnvironmentChoices DEF Go, Branch, reqVars, localVars, RUNNING, DRAIN,
     DISCARD, Typing, TypeOK, DataOK, LabelsOK, Returns, Completing, WorkerLabels, CallerLabels,
     Owning, Settling, Threads
<1>1. ASSUME NEW w \in Workers, TakeReady(w) \/ Bounce(w) \/ BeginSlice(w) \/ CheckPaused(w) \/
     PopEvent(w) \/ CheckGate(w) \/ EnterCallback(w) \/ Deliver(w) \/ LeaveCallback(w) \/
     ClearPermit(w) PROVE Completing'
  BY <1>1 DEF TakeReady, Bounce, BeginSlice, CheckPaused, PopEvent, CheckGate, EnterCallback,
       Deliver, LeaveCallback, ClearPermit
<1>2. ASSUME NEW w \in Workers, CancelFromCallback(w) \/ ConsumePermit(w) \/ Park(w) \/
     HoldGuard(w) \/ CheckEmpty(w) \/ DeliverDone(w) \/ Cleanup(w) \/ LeaveSlice(w) \/
     CheckFinished(w) \/ Requeue(w) PROVE Completing'
  BY <1>2 DEF CancelFromCallback, ConsumePermit, Park, HoldGuard, CheckEmpty, DeliverDone,
       Cleanup, LeaveSlice, CheckFinished, Requeue
<1>3. ASSUME NEW t \in Threads, Publish(t) \/ ReleasePause(t) PROVE Completing'
  BY <1>3 DEF Publish, ReleasePause
<1>4. ASSUME NEW t \in Threads, Claim(t) PROVE Completing'
  <2>1. ret' = ret
    BY <1>4 DEF Claim
  <2>2. CASE pc[t] = "complete"
    <3>1. t = Net /\ ret[Net] = "abort" /\ pc'[Net] \in {"publish", "abort"}
      BY <1>4, <2>2, ClaimCases
    <3> QED
      BY <2>1, <3>1
  <2>3. CASE pc[t] = "abandon"
    <3>1. gate' = DRAIN => gate = DRAIN
      BY <1>4, <2>3, ClaimCases
    <3>2. gate = DRAIN => t # Net
      BY <2>3
    <3>3. t # Net => pc'[Net] = pc[Net]
      BY <1>4, ClaimCases
    <3> QED
      BY <2>1, <3>1, <3>2, <3>3
  <2> QED
    BY <1>4, <2>2, <2>3, ClaimCases
<1>5. ASSUME NEW t \in Threads, Unpause(t) \/ DropGuard(t) \/ ScheduleSlot(t) \/ Abort(t) PROVE
     Completing'
  <2>1. CASE Unpause(t)
    BY <2>1 DEF Unpause
  <2>2. CASE DropGuard(t)
    BY <2>2 DEF DropGuard
  <2>3. CASE ScheduleSlot(t)
    BY <2>3 DEF ScheduleSlot
  <2>4. CASE Abort(t)
    BY <2>4 DEF Abort
  <2> QED
    BY <1>5, <2>1, <2>2, <2>3, <2>4
<1>6. ASSUME NEW c \in Callers, CallResume(c) \/ CallCancel(c) \/ CallClose(c) \/ ResumeEarly(c)
     \/ GrantPermit(c) PROVE Completing'
  BY <1>6 DEF CallResume, CallCancel, CallClose, ResumeEarly, GrantPermit
<1>7. ASSUME Receive \/ EndOfBody \/ Fail \/ Aborted \/ Acquire \/ RecheckGate \/ AppendEvent \/
     WakeSlot PROVE Completing'
  BY <1>7 DEF Receive, EndOfBody, Fail, Aborted, Acquire, RecheckGate, AppendEvent, WakeSlot
<1>8. ASSUME UNCHANGED vars PROVE Completing'
  BY <1>8 DEF vars
<1> QED
  BY <1>1, <1>2, <1>3, <1>4, <1>5, <1>6, <1>7, <1>8 DEF Next, WorkerStep, SettleStep, Call,
       SendStep

(* Taking an event off the queue turns it into a permit. *)
LEMMA PopPermits ==
  ASSUME Typing, Permits, NEW w \in Workers, PopEvent(w), queue # <<>>
  PROVE  Permits'
<1>1. Len(queue) \in Nat /\ Len(queue') = Len(queue) - 1 /\ space \in Nat /\ Capacity \in Nat
  BY BoundsPositive DEF PopEvent, Typing, TypeOK, DataOK
<1>2. gate' = gate /\ space' = space + 1
  BY DEF PopEvent, reqVars
<1>3. pc'[Net] = pc[Net]
  BY ThreadsDisjoint DEF PopEvent, Go, Typing, TypeOK, LabelsOK, Threads
<1> QED
  BY <1>1, <1>2, <1>3 DEF Permits

(* Permits are conserved until settle_slot hands out its extra one, and by *)
(* then the producer no longer queues.                                       *)
LEMMA PermitsStep == Typing /\ Terminal /\ Permits /\ [Next]_vars => Permits'
<1> SUFFICES ASSUME Typing /\ Terminal /\ Permits, [Next]_vars PROVE Permits'
  OBVIOUS
<1> USE ThreadsDisjoint, BoundsPositive DEF Go, Branch, reqVars, queueVars, RUNNING, Typing,
     TypeOK, DataOK, LabelsOK, Terminal, Permits, Threads
<1>1. ASSUME NEW w \in Workers, TakeReady(w) \/ Bounce(w) \/ BeginSlice(w) \/ CheckPaused(w) \/
     CheckGate(w) \/ EnterCallback(w) \/ Deliver(w) \/ LeaveCallback(w) \/ ClearPermit(w) \/
     CancelFromCallback(w) \/ ConsumePermit(w) \/ Park(w) \/ HoldGuard(w) \/ CheckEmpty(w) \/
     DeliverDone(w) \/ Cleanup(w) \/ LeaveSlice(w) \/ CheckFinished(w) \/ Requeue(w) PROVE
     Permits'
  BY <1>1, Zenon DEF TakeReady, Bounce, BeginSlice, CheckPaused, CheckGate, EnterCallback, Deliver,
       LeaveCallback, ClearPermit, CancelFromCallback, ConsumePermit, Park, HoldGuard,
       CheckEmpty, DeliverDone, Cleanup, LeaveSlice, CheckFinished, Requeue
<1>2. ASSUME NEW w \in Workers, PopEvent(w) PROVE Permits'
  <2>1. CASE queue = <<>>
    BY <1>2, <2>1 DEF PopEvent
  <2>2. CASE queue # <<>>
    BY <1>2, <2>2, PopPermits
  <2> QED
    BY <2>1, <2>2
<1>3. ASSUME NEW t \in Threads, Claim(t) \/ Publish(t) \/ ReleasePause(t) \/ Unpause(t) \/
     DropGuard(t) \/ ScheduleSlot(t) \/ Abort(t) PROVE Permits'
  BY <1>3, Zenon DEF Claim, Publish, ReleasePause, Unpause, DropGuard, ScheduleSlot, Abort
<1>4. ASSUME NEW c \in Callers, CallResume(c) \/ CallCancel(c) \/ CallClose(c) \/ ResumeEarly(c)
     \/ GrantPermit(c) PROVE Permits'
  BY <1>4, Zenon DEF CallResume, CallCancel, CallClose, ResumeEarly, GrantPermit
<1>5. ASSUME Receive \/ EndOfBody \/ Fail PROVE Permits'
  BY <1>5 DEF Receive, EndOfBody, Fail
<1>6. ASSUME Aborted \/ RecheckGate PROVE Permits'
  <2>1. CASE Aborted
    BY <2>1 DEF Aborted
  <2>2. CASE RecheckGate
    BY <2>2 DEF RecheckGate
  <2> QED
    BY <1>6, <2>1, <2>2
<1>7. ASSUME AppendEvent PROVE Permits'
  BY <1>7 DEF AppendEvent
<1>8. ASSUME WakeSlot PROVE Permits'
  BY <1>8 DEF WakeSlot
<1>9. ASSUME Acquire PROVE Permits'
  <2>1. Len(queue) \in Nat
    OBVIOUS
  <2>2. pc[Net] = "acquire" /\ pc'[Net] = "still?" /\ space' = space - 1 /\ UNCHANGED <<gate, queue>>
    BY <1>9 DEF Acquire
  <2> QED
    BY <2>1, <2>2
<1>10. ASSUME UNCHANGED vars PROVE Permits'
  BY <1>10 DEF vars
<1> QED
  BY <1>1, <1>2, <1>3, <1>4, <1>5, <1>6, <1>7, <1>8, <1>9, <1>10 DEF Next, WorkerStep,
       SettleStep, Call, SendStep

(* The worker that takes an event is the only one that holds one, and the   *)
(* event is the next to deliver.                                             *)
LEMMA PopOrder ==
  ASSUME Typing, Exclusive, Ordered, NEW w \in Workers, PopEvent(w), queue # <<>>
  PROVE  Ordered'
<1>1. /\ queue \in Seq(1 .. MaxEvents) /\ sent \in Nat /\ delivered \in Nat
      /\ held \in [Workers -> 0 .. MaxEvents] /\ w \in DOMAIN pc
  BY DEF Typing, TypeOK, DataOK, LabelsOK, Threads
<1>2. /\ held' = [held EXCEPT ![w] = Head(queue)] /\ queue' = Tail(queue)
      /\ pc[w] = "pop" /\ pc' = [pc EXCEPT ![w] = "gate"]
      /\ UNCHANGED <<gate, sent, delivered>>
  BY DEF PopEvent, Go, reqVars, history
<1>3. Len(queue) \in Nat /\ Len(queue) > 0 /\ Len(queue') = Len(queue) - 1 /\ Head(queue) = queue[1]
  BY <1>1, <1>2
<1>4. \A i \in 1 .. Len(queue') : queue'[i] = queue[i + 1] /\ i + 1 \in 1 .. Len(queue)
  BY <1>1, <1>2
<1>5. \A v \in Workers : v # w => pc'[v] = pc[v] /\ pc[v] \notin {"gate", "call", "callback"}
  BY <1>1, <1>2 DEF Exclusive, OneOwner, Owns, Owning, Typing, TypeOK, LabelsOK, Threads
<1>6. Head(queue) = sent - Len(queue) + 1
  BY <1>3 DEF Ordered
<1>7. \A i \in 1 .. Len(queue') : queue'[i] = sent' - Len(queue') + i
  <2> TAKE i \in 1 .. Len(queue')
  <2>1. queue[i + 1] = sent - Len(queue) + (i + 1)
    BY <1>4 DEF Ordered
  <2> QED
    BY <1>1, <1>2, <1>3, <1>4, <2>1
<1>8. gate # DISCARD => Head(queue) = delivered + 1
  BY <1>2, <1>5, <1>6, <1>1, <1>3 DEF Ordered
<1>9. pc'[w] = "gate" /\ held'[w] = Head(queue)
  BY <1>1, <1>2
<1>10. Head(queue) = sent' - Len(queue')
  BY <1>1, <1>2, <1>3, <1>6
<1> QED
  BY <1>2, <1>5, <1>7, <1>8, <1>9, <1>10 DEF Ordered

(* A step that hands no event over: no worker takes one, passes the gate or  *)
(* finishes a callback, and a request that discards goes on discarding.      *)
Handling == {"gate", "call", "callback"}
Quiet ==
  /\ UNCHANGED <<queue, sent, delivered, held>> /\ (gate = DISCARD => gate' = DISCARD)
  /\ \A w \in Workers : pc'[w] = pc[w] \/ (pc[w] \notin Handling /\ pc'[w] \notin Handling)

(* Quiet steps leave the order of events as it is. *)
LEMMA QuietOrder == Ordered /\ Quiet => Ordered'
BY DEF Ordered, Quiet, Handling

(* The steps of a worker around the hand-over of an event are quiet. *)
LEMMA WorkerQuiet ==
  ASSUME Typing, NEW w \in Workers,
         \/ TakeReady(w) \/ Bounce(w) \/ BeginSlice(w) \/ CheckPaused(w) \/ LeaveCallback(w)
         \/ ClearPermit(w) \/ CancelFromCallback(w) \/ ConsumePermit(w) \/ Park(w) \/ HoldGuard(w)
         \/ CheckEmpty(w) \/ DeliverDone(w) \/ Cleanup(w) \/ LeaveSlice(w) \/ CheckFinished(w)
         \/ Requeue(w) \/ (PopEvent(w) /\ queue = <<>>)
  PROVE  Quiet
<1>0. w \in DOMAIN pc /\ \A v \in Workers : v \in DOMAIN pc
  BY DEF Typing, TypeOK, LabelsOK, Threads
<1> USE <1>0 DEF Go, Branch, reqVars, queueVars, localVars, history, Quiet, Handling
<1>1. CASE TakeReady(w)
  BY <1>1 DEF TakeReady
<1>2. CASE Bounce(w)
  BY <1>2 DEF Bounce
<1>3. CASE BeginSlice(w)
  BY <1>3 DEF BeginSlice
<1>4. CASE CheckPaused(w)
  BY <1>4 DEF CheckPaused
<1>5. CASE LeaveCallback(w)
  BY <1>5 DEF LeaveCallback
<1>6. CASE ClearPermit(w)
  BY <1>6 DEF ClearPermit
<1>7. CASE CancelFromCallback(w)
  BY <1>7 DEF CancelFromCallback
<1>8. CASE ConsumePermit(w)
  BY <1>8 DEF ConsumePermit
<1>9. CASE Park(w)
  BY <1>9 DEF Park
<1>10. CASE HoldGuard(w)
  BY <1>10 DEF HoldGuard
<1>11. CASE CheckEmpty(w)
  BY <1>11 DEF CheckEmpty
<1>12. CASE DeliverDone(w)
  BY <1>12 DEF DeliverDone
<1>13. CASE Cleanup(w)
  BY <1>13 DEF Cleanup
<1>14. CASE LeaveSlice(w)
  BY <1>14 DEF LeaveSlice
<1>15. CASE CheckFinished(w)
  BY <1>15 DEF CheckFinished
<1>16. CASE Requeue(w)
  BY <1>16 DEF Requeue
<1>17. CASE PopEvent(w) /\ queue = <<>>
  BY <1>17 DEF PopEvent
<1> QED
  BY <1>1, <1>2, <1>3, <1>4, <1>5, <1>6, <1>7, <1>8, <1>9, <1>10, <1>11, <1>12,
     <1>13, <1>14, <1>15, <1>16, <1>17

(* Settling is quiet, whoever does it. *)
LEMMA SettleQuiet ==
  ASSUME Typing, NEW t \in Threads,
         Claim(t) \/ Publish(t) \/ ReleasePause(t) \/ Unpause(t) \/ DropGuard(t) \/ ScheduleSlot(t) \/ Abort(t)
  PROVE  Quiet
<1>0. /\ t \in DOMAIN pc /\ \A v \in Workers : v \in DOMAIN pc
      /\ t \in Workers /\ pc[t] \in Settling => ret[t] = "leave"
      /\ pc[t] \in {"abort", "complete"} => t \notin Workers
  BY DEF Typing, TypeOK, LabelsOK, Returns, WorkerLabels, Owning, Settling, Threads
<1> USE <1>0 DEF Go, Branch, reqVars, queueVars, localVars, history, Quiet, Handling, Settling
<1>1. CASE Claim(t)
  <2>1. UNCHANGED <<queue, sent, delivered, held>>
    BY <1>1 DEF Claim
  <2> QED
    BY <1>1, <2>1, ClaimCases DEF RUNNING, DISCARD
<1>2. CASE Publish(t)
  BY <1>2 DEF Publish
<1>3. CASE ReleasePause(t)
  BY <1>3 DEF ReleasePause
<1>4. CASE Unpause(t)
  BY <1>4 DEF Unpause
<1>5. CASE DropGuard(t)
  BY <1>5 DEF DropGuard
<1>6. CASE ScheduleSlot(t)
  BY <1>6 DEF ScheduleSlot
<1>7. CASE Abort(t)
  BY <1>7 DEF Abort
<1> QED
  BY <1>1, <1>2, <1>3, <1>4, <1>5, <1>6, <1>7

(* Calls and the network task, apart from queueing an event, are quiet. *)
LEMMA OthersQuiet ==
  ASSUME Typing,
         \/ \E c \in Callers : CallResume(c) \/ CallCancel(c) \/ CallClose(c) \/ ResumeEarly(c) \/ GrantPermit(c)
         \/ Receive \/ EndOfBody \/ Fail \/ Aborted \/ Acquire \/ RecheckGate \/ WakeSlot
  PROVE  Quiet
<1>0. /\ Net \in DOMAIN pc /\ Callers \subseteq DOMAIN pc
      /\ \A v \in Workers : v \in DOMAIN pc /\ v # Net /\ v \notin Callers
  BY ThreadsDisjoint DEF Typing, TypeOK, LabelsOK, Threads
<1> USE <1>0 DEF Go, Branch, reqVars, queueVars, localVars, history, Quiet, Handling
<1>1. ASSUME NEW c \in Callers, CallResume(c) PROVE Quiet
  BY <1>1 DEF CallResume
<1>2. ASSUME NEW c \in Callers, CallCancel(c) PROVE Quiet
  BY <1>2 DEF CallCancel
<1>3. ASSUME NEW c \in Callers, CallClose(c) PROVE Quiet
  BY <1>3 DEF CallClose
<1>4. ASSUME NEW c \in Callers, ResumeEarly(c) PROVE Quiet
  BY <1>4 DEF ResumeEarly
<1>5. ASSUME NEW c \in Callers, GrantPermit(c) PROVE Quiet
  BY <1>5 DEF GrantPermit
<1>6. CASE Receive
  BY <1>6 DEF Receive
<1>7. CASE EndOfBody
  BY <1>7 DEF EndOfBody
<1>8. CASE Fail
  BY <1>8 DEF Fail
<1>9. CASE Aborted
  BY <1>9 DEF Aborted
<1>10. CASE Acquire
  BY <1>10 DEF Acquire
<1>11. CASE RecheckGate
  BY <1>11 DEF RecheckGate
<1>12. CASE WakeSlot
  BY <1>12 DEF WakeSlot
<1> QED
  BY <1>1, <1>2, <1>3, <1>4, <1>5, <1>6, <1>7, <1>8, <1>9, <1>10, <1>11, <1>12

(* Events leave the queue in order and reach the callbacks without a gap,    *)
(* until the request discards.                                               *)
LEMMA OrderedStep == Typing /\ Exclusive /\ Ordered /\ [Next]_vars => Ordered'
<1> SUFFICES ASSUME Typing, Exclusive, Ordered, [Next]_vars PROVE Ordered'
  OBVIOUS
<1>0. /\ pc \in [Threads -> WorkerLabels \cup CallerLabels \cup NetLabels] /\ Workers \subseteq Threads
      /\ held \in [Workers -> 0 .. MaxEvents] /\ queue \in Seq(1 .. MaxEvents)
      /\ sent \in Nat /\ delivered \in Nat
  BY DEF Typing, TypeOK, DataOK, LabelsOK, Threads
<1>1. ASSUME NEW w \in Workers, CheckGate(w) PROVE Ordered'
  <2>1. pc[w] = "gate" /\ UNCHANGED <<gate, queue, sent, delivered>>
    BY <1>1 DEF CheckGate, reqVars, queueVars, history
  <2>2. CASE gate = DISCARD
    <3>1. pc' = [pc EXCEPT ![w] = "check"] /\ held' = [held EXCEPT ![w] = 0]
      BY <1>1, <2>2 DEF CheckGate, Go
    <3> QED
      BY <1>0, <2>1, <2>2, <3>1 DEF Ordered
  <2>3. CASE gate # DISCARD
    <3>1. pc' = [pc EXCEPT ![w] = "call"] /\ held' = held
      BY <1>1, <2>3 DEF CheckGate, Go
    <3> QED
      BY <1>0, <2>1, <2>3, <3>1 DEF Ordered
  <2> QED
    BY <2>2, <2>3
<1>2. ASSUME NEW w \in Workers, EnterCallback(w) PROVE Ordered'
  <2>1. /\ pc[w] = "call" /\ pc' = [pc EXCEPT ![w] = "callback"]
        /\ UNCHANGED <<gate, queue, sent, delivered, held>>
    BY <1>2 DEF EnterCallback, Go, queueVars, localVars, history
  <2> QED
    BY <1>0, <2>1 DEF Ordered
<1>3. ASSUME NEW w \in Workers, Deliver(w) PROVE Ordered'
  <2>1. /\ pc[w] = "callback" /\ delivered' = held[w] /\ held' = [held EXCEPT ![w] = 0]
        /\ UNCHANGED <<gate, queue, sent>>
    BY <1>3 DEF Deliver, reqVars, queueVars
  <2>2. PICK v \in {"continue", "pause", "cancel"} : pc' = [pc EXCEPT ![w] = v]
    BY <1>3, EnvironmentChoices, Zenon DEF Deliver, Go
  <2>3. \A u \in Workers : pc'[u] \notin {"gate", "call", "callback"}
    BY <1>0, <2>1, <2>2 DEF Exclusive, OneOwner, Owns, Owning
  <2> QED
    BY <2>1, <2>3 DEF Ordered
<1>4. ASSUME NEW w \in Workers, PopEvent(w), queue # <<>> PROVE Ordered'
  BY <1>4, PopOrder
<1>5. ASSUME AppendEvent PROVE Ordered'
  <2>0. queue' = Append(queue, sent + 1) /\ sent' = sent + 1
    BY <1>5 DEF AppendEvent
  <2>1. Len(queue) \in Nat /\ Len(queue') = Len(queue) + 1
    BY <1>0, <2>0
  <2>2. \A i \in 1 .. Len(queue') : queue'[i] = sent' - Len(queue') + i
    <3> TAKE i \in 1 .. Len(queue')
    <3>1. CASE i = Len(queue')
      <4>1. queue'[i] = sent + 1
        BY <1>0, <2>0, <2>1, <3>1
      <4> QED
        BY <1>0, <2>0, <2>1, <3>1, <4>1
    <3>2. CASE i # Len(queue')
      <4>1. i \in 1 .. Len(queue) /\ queue'[i] = queue[i]
        BY <1>0, <2>0, <2>1, <3>2
      <4>2. queue[i] = sent - Len(queue) + i
        BY <4>1 DEF Ordered
      <4> QED
        BY <1>0, <2>0, <2>1, <4>1, <4>2
    <3> QED
      BY <3>1, <3>2
  <2>3. sent' - Len(queue') = sent - Len(queue)
    BY <1>0, <2>0, <2>1
  <2>4. UNCHANGED <<gate, delivered, held>> /\ \A w \in Workers : pc'[w] = pc[w]
    BY <1>0, <1>5, ThreadsDisjoint DEF AppendEvent, Go, reqVars, localVars, Threads
  <2> QED
    BY <2>2, <2>3, <2>4 DEF Ordered
<1>6. ASSUME UNCHANGED vars PROVE Quiet
  BY <1>6 DEF vars, reqVars, queueVars, localVars, history, Quiet
<1> QED
  BY <1>1, <1>2, <1>3, <1>4, <1>5, <1>6, QuietOrder, WorkerQuiet, SettleQuiet, OthersQuiet
     DEF Next, WorkerStep, SettleStep, Call, SendStep

(* The initial state satisfies the invariant. *)
LEMMA InitIInv == Init => IInv
<1> SUFFICES ASSUME Init PROVE IInv
  OBVIOUS
<1> USE ThreadsDisjoint, BoundsPositive DEF Init
<1>1. FlagsOK
  BY Zenon DEF FlagsOK
<1>2. DataOK
  BY DEF DataOK, Threads, RUNNING
<1>3. LabelsOK
  BY DEF LabelsOK, Threads, WorkerLabels, CallerLabels, NetLabels
<1>4. Returns /\ Budgets /\ Producing /\ Exclusive /\ Completing
  BY DEF Returns, Budgets, Producing, Exclusive, OneOwner, Owns, Owning, Completing, Settling, Threads,
         RUNNING, DRAIN
<1>5. Terminal
  BY Zenon DEF Terminal, Threads
<1>6. sent = 0 /\ delivered = 0 /\ Len(queue) = 0 /\ pc[Net] = "await" /\ \A w \in Workers : pc[w] = "idle"
  BY DEF Threads
<1>7. Ordered
  <2> HIDE DEF Init
  <2> QED
    BY <1>6 DEF Ordered
<1>8. Permits
  BY <1>6 DEF Permits
<1> QED
  BY <1>1, <1>2, <1>3, <1>4, <1>5, <1>7, <1>8 DEF IInv, Typing, TypeOK

(* Every step preserves the invariant. *)
LEMMA StepIInv == IInv /\ [Next]_vars => IInv'
<1> SUFFICES ASSUME IInv, [Next]_vars PROVE IInv'
  OBVIOUS
<1>1. Typing'
  BY TypingStep DEF IInv
<1> QED
  BY <1>1, ExclusiveStep, TerminalStep, CompletingStep, PermitsStep, OrderedStep DEF IInv

(* The inductive invariant holds throughout every behaviour of the bridge. *)
THEOREM Inductive == Spec => []IInv
BY InitIInv, StepIInv, PTL DEF Spec

(* Every field and every thread stays in its type: no permit, budget or event *)
(* number of the bridge leaves its range.                                     *)
THEOREM TypeCorrect == Spec => []TypeOK
<1>1. IInv => TypeOK
  BY DEF IInv, Typing
<1> QED
  BY <1>1, Inductive, PTL

(* At most one worker runs a slot, for any number of workers and however often *)
(* the slot sits in the ready queue: the callbacks of a request are serial.    *)
THEOREM SerialCallbacks == Spec => []OneOwner
<1>1. IInv => OneOwner
  BY DEF IInv, Exclusive
<1> QED
  BY <1>1, Inductive, PTL

(* The event queue of a slot never exceeds its capacity, the extra permit of  *)
(* settle_slot included.                                                      *)
THEOREM BoundedQueue == Spec => []QueueBounded
<1>1. IInv => QueueBounded
  <2> SUFFICES ASSUME IInv PROVE QueueBounded
    OBVIOUS
  <2>1. Len(queue) \in Nat /\ Capacity \in Nat
    BY BoundsPositive DEF IInv, Typing, TypeOK, DataOK
  <2> QED
    BY <2>1 DEF IInv, Permits, QueueBounded
<1> QED
  BY <1>1, Inductive, PTL

(* An event has passed the gate and will be delivered. *)
Picked == \E w \in Workers : pc[w] \in {"call", "callback"}

(* A step that leaves the contract's variables alone. *)
Idle == UNCHANGED <<sent, delivered, gate, done>> /\ (Picked' <=> Picked)

(* Idle steps are stuttering steps of the contract. *)
LEMMA IdleStutters == Idle => UNCHANGED Contract!vars
BY DEF Idle, Picked, Contract!vars

(* CheckGate is where an event is committed to its callback. *)
LEMMA PickStep == ASSUME IInv, NEW w \in Workers, CheckGate(w) PROVE Contract!Pick \/ Idle
<1>1. CASE gate = DISCARD
  BY <1>1 DEF CheckGate, Go, Idle, Picked, reqVars, history, IInv, Typing, TypeOK, LabelsOK, Threads
<1>2. CASE gate # DISCARD
  <2>1. ~Picked
    BY DEF CheckGate, Picked, IInv, Exclusive, OneOwner, Owns, Owning
  <2>2. Picked'
    BY <1>2 DEF CheckGate, Go, Picked, IInv, Typing, TypeOK, LabelsOK, Threads
  <2>3. delivered < sent
    BY <1>2 DEF CheckGate, IInv, Ordered, Typing, TypeOK, DataOK
  <2>4. UNCHANGED <<sent, delivered, gate, done>>
    BY DEF CheckGate, reqVars, history
  <2> QED
    BY <1>2, <2>1, <2>2, <2>3, <2>4 DEF Contract!Pick, Picked, DISCARD
<1> QED
  BY <1>1, <1>2

(* on_headers and on_chunk get the event after the last one delivered. *)
LEMMA DeliverStep == ASSUME IInv, NEW w \in Workers, Deliver(w) PROVE Contract!Deliver
<1>1. PICK l \in {"continue", "pause", "cancel"} : pc' = [pc EXCEPT ![w] = l]
  BY EnvironmentChoices, Zenon DEF Deliver, Go
<1>2. pc[w] = "callback" /\ delivered' = held[w] /\ UNCHANGED <<sent, gate, done>>
  BY DEF Deliver, reqVars
<1>3. \A v \in Workers : v # w => pc[v] \notin {"call", "callback"}
  BY <1>2 DEF IInv, Exclusive, OneOwner, Owns, Owning
<1>4. Picked /\ ~Picked'
  BY <1>1, <1>2, <1>3 DEF Picked, IInv, Typing, TypeOK, LabelsOK, Threads
<1>5. delivered' = delivered + 1
  BY <1>2 DEF IInv, Ordered
<1> QED
  BY <1>2, <1>4, <1>5 DEF Contract!Deliver, Picked

(* OnDone takes the one terminal there is, with no callback on its way. *)
LEMMA DoneStep == ASSUME IInv, NEW w \in Workers, DeliverDone(w) PROVE Contract!Done \/ Idle
<1>1. ~Picked /\ ~Picked'
  BY DEF DeliverDone, Go, Picked, IInv, Exclusive, OneOwner, Owns, Owning, Typing, TypeOK, LabelsOK, Threads
<1>2. UNCHANGED <<sent, delivered, gate>>
  BY DEF DeliverDone, reqVars
<1>3. CASE doneReady /\ terminal
  <2>1. gate # RUNNING /\ done = 0
    BY <1>3 DEF IInv, Terminal
  <2>2. done' = 1
    BY <1>3, <2>1 DEF DeliverDone
  <2> QED
    BY <1>1, <1>2, <2>1, <2>2 DEF Contract!Done, Picked, RUNNING
<1>4. CASE ~(doneReady /\ terminal)
  BY <1>1, <1>2, <1>4 DEF DeliverDone, Idle
<1> QED
  BY <1>3, <1>4

(* claim lets one thread settle the request. *)
LEMMA SettleClaim == ASSUME IInv, NEW t \in Threads, Claim(t) PROVE Contract!Settle \/ Idle
<1> USE ClaimCases DEF IInv
<1>1. Picked' <=> Picked
  BY DEF Picked, Typing, TypeOK, LabelsOK, Threads
<1>2. UNCHANGED <<sent, delivered, done>>
  BY DEF Claim, history
<1>3. CASE gate = RUNNING
  BY <1>1, <1>2, <1>3 DEF Contract!Settle, Picked, RUNNING, DRAIN, DISCARD
<1>4. CASE gate # RUNNING
  BY <1>1, <1>2, <1>4 DEF Idle
<1> QED
  BY <1>3, <1>4

(* An event is accepted only while the request may still deliver or discard. *)
LEMMA AcceptStep == ASSUME IInv, AppendEvent PROVE Contract!Accept
<1>1. gate # DRAIN
  BY DEF AppendEvent, IInv, Completing
<1>2. Picked' <=> Picked
  BY ThreadsDisjoint DEF AppendEvent, Go, Picked, IInv, Typing, TypeOK, LabelsOK, Threads
<1> QED
  BY <1>1, <1>2 DEF AppendEvent, Contract!Accept, Picked, reqVars, DRAIN

(* The other steps of a worker are invisible to the contract. *)
LEMMA WorkerIdle ==
  ASSUME IInv, NEW w \in Workers, TakeReady(w) \/ Bounce(w) \/ BeginSlice(w) \/ CheckPaused(w)
       \/ PopEvent(w) \/ EnterCallback(w) \/ LeaveCallback(w) \/ ClearPermit(w) \/
       CancelFromCallback(w) \/ ConsumePermit(w) \/ Park(w) \/ HoldGuard(w) \/ CheckEmpty(w) \/
       Cleanup(w) \/ LeaveSlice(w) \/ CheckFinished(w) \/ Requeue(w)
  PROVE  Idle
<1> USE ThreadsDisjoint DEF Go, Branch, Idle, Picked, reqVars, history, IInv, Typing, TypeOK,
     DataOK, LabelsOK, Threads
<1>1. CASE TakeReady(w) \/ Bounce(w) \/ BeginSlice(w) \/ CheckPaused(w) \/ PopEvent(w) \/
     EnterCallback(w) \/ LeaveCallback(w) \/ ClearPermit(w) \/ CancelFromCallback(w) \/
     ConsumePermit(w) \/ Park(w) \/ HoldGuard(w) \/ CheckEmpty(w) \/ Cleanup(w) \/ LeaveSlice(w)
     \/ CheckFinished(w) \/ Requeue(w)
  BY <1>1, Zenon DEF TakeReady, Bounce, BeginSlice, CheckPaused, PopEvent, EnterCallback,
       LeaveCallback, ClearPermit, CancelFromCallback, ConsumePermit, Park, HoldGuard,
       CheckEmpty, Cleanup, LeaveSlice, CheckFinished, Requeue
<1> QED
  BY <1>1

(* Settling is visible in claim only. *)
LEMMA SettleIdle ==
  ASSUME IInv, NEW t \in Threads, Publish(t) \/ ReleasePause(t) \/ Unpause(t) \/ DropGuard(t) \/
       ScheduleSlot(t) \/ Abort(t)
  PROVE  Idle
<1> USE ThreadsDisjoint DEF Go, Branch, Idle, Picked, reqVars, history, IInv, Typing, TypeOK,
     DataOK, LabelsOK, Threads
<1>1. CASE Publish(t) \/ ReleasePause(t) \/ Unpause(t) \/ DropGuard(t) \/ ScheduleSlot(t) \/
     Abort(t)
  BY <1>1, Zenon DEF Publish, ReleasePause, Unpause, DropGuard, ScheduleSlot, Abort
<1> QED
  BY <1>1

(* Calls by themselves are invisible. *)
LEMMA CallIdle ==
  ASSUME IInv, NEW c \in Callers, CallResume(c) \/ CallCancel(c) \/ CallClose(c) \/
       ResumeEarly(c) \/ GrantPermit(c)
  PROVE  Idle
<1> USE ThreadsDisjoint DEF Go, Branch, Idle, Picked, reqVars, history, IInv, Typing, TypeOK,
     DataOK, LabelsOK, Threads
<1>1. CASE CallResume(c) \/ CallCancel(c) \/ CallClose(c) \/ ResumeEarly(c) \/ GrantPermit(c)
  BY <1>1 DEF CallResume, CallCancel, CallClose, ResumeEarly, GrantPermit
<1> QED
  BY <1>1

(* Waiting for the peer or for room is invisible. *)
LEMMA NetIdle ==
  ASSUME IInv, Receive \/ EndOfBody \/ Fail \/ Aborted \/ Acquire \/ RecheckGate \/ WakeSlot
  PROVE  Idle
<1> USE ThreadsDisjoint DEF Go, Branch, Idle, Picked, reqVars, history, IInv, Typing, TypeOK,
     DataOK, LabelsOK, Threads
<1>1. CASE Receive \/ EndOfBody \/ Fail \/ Aborted \/ Acquire \/ RecheckGate \/ WakeSlot
  BY <1>1 DEF Receive, EndOfBody, Fail, Aborted, Acquire, RecheckGate, WakeSlot
<1> QED
  BY <1>1

(* The bridge implements the contract of a request: callbacks get the events *)
(* in order, none twice and none skipped, at most the one already under way  *)
(* after a discard, and OnDone at most once.                                 *)
THEOREM RefinesContract == Spec => ImplementsContract
<1>1. Init => Contract!Init
  BY ThreadsDisjoint DEF Init, Contract!Init, RUNNING, Threads
<1>2. IInv /\ [Next]_vars => [Contract!Next]_(Contract!vars)
  <2> SUFFICES ASSUME IInv, [Next]_vars PROVE Contract!Next \/ UNCHANGED Contract!vars
    OBVIOUS
  <2>1. ASSUME NEW w \in Workers, CheckGate(w) PROVE Contract!Next \/ UNCHANGED Contract!vars
    BY <2>1, PickStep, IdleStutters DEF Contract!Next
  <2>2. ASSUME NEW w \in Workers, Deliver(w) PROVE Contract!Next
    BY <2>2, DeliverStep DEF Contract!Next
  <2>3. ASSUME NEW w \in Workers, DeliverDone(w) PROVE Contract!Next \/ UNCHANGED Contract!vars
    BY <2>3, DoneStep, IdleStutters DEF Contract!Next
  <2>4. ASSUME NEW t \in Threads, Claim(t) PROVE Contract!Next \/ UNCHANGED Contract!vars
    BY <2>4, SettleClaim, IdleStutters DEF Contract!Next
  <2>5. ASSUME AppendEvent PROVE Contract!Next
    BY <2>5, AcceptStep DEF Contract!Next
  <2>6. CASE UNCHANGED vars
    BY <2>6 DEF vars, reqVars, history, Contract!vars
  <2> QED
    BY <2>1, <2>2, <2>3, <2>4, <2>5, <2>6, IdleStutters, WorkerIdle, SettleIdle, CallIdle, NetIdle
       DEF Next, WorkerStep, SettleStep, Call, SendStep
<1> QED
  BY <1>1, <1>2, Inductive, PTL DEF Spec, ImplementsContract, Contract!Spec
=============================================================================
