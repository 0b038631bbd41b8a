---------------------------- MODULE Bridge_typing ----------------------------
(* Type correctness of Bridge: Typing, the type invariant with what it needs *)
(* to be inductive, is preserved by every step.                              *)
EXTENDS Bridge, TLAPS

(* Where a settle_slot in progress returns to. *)
Returns ==
  /\ \A w \in Workers : pc[w] \in Settling => ret[w] = "leave"
  /\ \A c \in Callers : /\ pc[c] \in Settling => ret[c] \in {"idle", "abort"}
                        /\ pc[c] \in {"abandon", "publish", "unpark", "lost"} => ret[c] = "abort"
  /\ pc[Net] \in Settling \cup {"complete"} => ret[Net] \in {"abort", "await"}
  /\ pc[Net] = "complete" => ret[Net] = "abort"

(* A worker below its budget check still has budget to spend. *)
Budgets == \A w \in Workers :
  pc[w] \in {"pop", "gate", "call", "callback", "continue", "pause", "clear", "consume"} => budget[w] > 0

(* The producer only asks for room for an event the peer still has. *)
Producing == pc[Net] \in {"acquire", "still?", "append"} => sent < MaxEvents

Typing == TypeOK /\ Returns /\ Budgets /\ Producing

(* What claim does: the winner goes on to publish, a loser that discards     *)
(* looks for a pause to release, and a network task that completes too late   *)
(* goes on to its end.                                                        *)
LEMMA ClaimCases ==
  ASSUME Typing, NEW t \in Threads, Claim(t)
  PROVE  /\ pc[t] \in {"abandon", "complete"} /\ (pc[t] = "complete" => t = Net)
         /\ \/ /\ gate = RUNNING /\ pc' = [pc EXCEPT ![t] = "publish"]
               /\ gate' = IF pc[t] = "abandon" THEN DISCARD ELSE DRAIN
            \/ gate # RUNNING /\ gate' = gate /\ pc[t] = "abandon" /\ pc' = [pc EXCEPT ![t] = "lost"]
            \/ gate # RUNNING /\ gate' = gate /\ pc[t] = "complete" /\ pc' = [pc EXCEPT ![Net] = "abort"]
<1>1. pc[t] \in {"abandon", "complete"}
  BY DEF Claim
<1>2. pc[t] = "complete" => t = Net
  BY DEF Typing, TypeOK, LabelsOK, WorkerLabels, CallerLabels, Owning, Settling, Threads
<1>3. pc[t] = "complete" => ret[t] = "abort"
  BY <1>2 DEF Typing, Returns
<1> QED
  BY <1>1, <1>2, <1>3 DEF Claim, Go

(* Every flag stays a Boolean. *)
LEMMA FlagsStep == FlagsOK /\ [Next]_vars => FlagsOK'
<1> SUFFICES ASSUME FlagsOK, [Next]_vars PROVE FlagsOK'
  OBVIOUS
<1> USE DEF Go, Branch, reqVars, queueVars, endVars, schedVars, localVars, history, FlagsOK
<1>1. ASSUME NEW w \in Workers, TakeReady(w) PROVE FlagsOK'
  BY <1>1, Zenon DEF TakeReady
<1>2. ASSUME NEW w \in Workers, Bounce(w) PROVE FlagsOK'
  BY <1>2, Zenon DEF Bounce
<1>3. ASSUME NEW w \in Workers, BeginSlice(w) PROVE FlagsOK'
  BY <1>3, Zenon DEF BeginSlice
<1>4. ASSUME NEW w \in Workers, CheckPaused(w) \/ PopEvent(w) PROVE FlagsOK'
  BY <1>4 DEF CheckPaused, PopEvent
<1>5. ASSUME NEW w \in Workers, CheckGate(w) PROVE FlagsOK'
  BY <1>5, Zenon DEF CheckGate
<1>6. ASSUME NEW w \in Workers, EnterCallback(w) PROVE FlagsOK'
  BY <1>6, Zenon DEF EnterCallback
<1>7. ASSUME NEW w \in Workers, Deliver(w) PROVE FlagsOK'
  BY <1>7, Zenon DEF Deliver
<1>8. ASSUME NEW w \in Workers, LeaveCallback(w) PROVE FlagsOK'
  BY <1>8, Zenon DEF LeaveCallback
<1>9. ASSUME NEW w \in Workers, ClearPermit(w) PROVE FlagsOK'
  BY <1>9, Zenon DEF ClearPermit
<1>10. ASSUME NEW w \in Workers, CancelFromCallback(w) PROVE FlagsOK'
  BY <1>10, Zenon DEF CancelFromCallback
<1>11. ASSUME NEW w \in Workers, ConsumePermit(w) PROVE FlagsOK'
  BY <1>11, Zenon DEF ConsumePermit
<1>12. ASSUME NEW w \in Workers, Park(w) PROVE FlagsOK'
  BY <1>12, Zenon DEF Park
<1>13. ASSUME NEW w \in Workers, HoldGuard(w) PROVE FlagsOK'
  BY <1>13, Zenon DEF HoldGuard
<1>14. ASSUME NEW w \in Workers, CheckEmpty(w) PROVE FlagsOK'
  BY <1>14, Zenon DEF CheckEmpty
<1>15. ASSUME NEW w \in Workers, DeliverDone(w) PROVE FlagsOK'
  <2>1. CASE doneReady /\ terminal
    BY <1>15, <2>1, Zenon DEF DeliverDone
  <2>2. CASE ~(doneReady /\ terminal)
    BY <1>15, <2>2, Zenon DEF DeliverDone
  <2> QED
    BY <2>1, <2>2
<1>16. ASSUME NEW w \in Workers, Cleanup(w) PROVE FlagsOK'
  BY <1>16, Zenon DEF Cleanup
<1>17. ASSUME NEW w \in Workers, LeaveSlice(w) PROVE FlagsOK'
  BY <1>17, Zenon DEF LeaveSlice
<1>18. ASSUME NEW w \in Workers, CheckFinished(w) \/ Requeue(w) PROVE FlagsOK'
  BY <1>18 DEF CheckFinished, Requeue
<1>19. ASSUME NEW t \in Threads, Claim(t) PROVE FlagsOK'
  BY <1>19, Zenon DEF Claim
<1>20. ASSUME NEW t \in Threads, Publish(t) PROVE FlagsOK'
  BY <1>20, Zenon DEF Publish
<1>21. ASSUME NEW t \in Threads, ReleasePause(t) PROVE FlagsOK'
  BY <1>21, Zenon DEF ReleasePause
<1>22. ASSUME NEW t \in Threads, Unpause(t) PROVE FlagsOK'
  BY <1>22, Zenon DEF Unpause
<1>23. ASSUME NEW t \in Threads, DropGuard(t) PROVE FlagsOK'
  BY <1>23, Zenon DEF DropGuard
<1>24. ASSUME NEW t \in Threads, ScheduleSlot(t) PROVE FlagsOK'
  BY <1>24, Zenon DEF ScheduleSlot
<1>25. ASSUME NEW t \in Threads, Abort(t) PROVE FlagsOK'
  BY <1>25, Zenon DEF Abort
<1>26. ASSUME NEW c \in Callers, CallResume(c) \/ CallCancel(c) PROVE FlagsOK'
  BY <1>26 DEF CallResume, CallCancel
<1>27. ASSUME NEW c \in Callers, CallClose(c) PROVE FlagsOK'
  BY <1>27, Zenon DEF CallClose
<1>28. ASSUME NEW c \in Callers, ResumeEarly(c) PROVE FlagsOK'
  BY <1>28, Zenon DEF ResumeEarly
<1>29. ASSUME NEW c \in Callers, GrantPermit(c) PROVE FlagsOK'
  BY <1>29, Zenon DEF GrantPermit
<1>30. ASSUME Receive \/ EndOfBody \/ Fail \/ Aborted \/ Acquire \/ RecheckGate \/ AppendEvent
     \/ WakeSlot PROVE FlagsOK'
  BY <1>30 DEF Receive, EndOfBody, Fail, Aborted, Acquire, RecheckGate, AppendEvent, WakeSlot
<1>31. ASSUME UNCHANGED vars PROVE FlagsOK'
  BY <1>31, Zenon DEF vars
<1> QED
  BY <1>1, <1>2, <1>3, <1>4, <1>5, <1>6, <1>7, <1>8, <1>9, <1>10, <1>11, <1>12, <1>13, <1>14,
       <1>15, <1>16, <1>17, <1>18, <1>19, <1>20, <1>21, <1>22, <1>23, <1>24, <1>25, <1>26,
       <1>27, <1>28, <1>29, <1>30, <1>31, Zenon DEF Next, WorkerStep, SettleStep, Call, SendStep

(* Workers, callers and the network task stay at labels of their own kind. *)
LEMMA LabelsStep == LabelsOK /\ Returns /\ [Next]_vars => LabelsOK'
<1> SUFFICES ASSUME LabelsOK /\ Returns, [Next]_vars PROVE LabelsOK'
  OBVIOUS
<1> USE ThreadsDisjoint, EnvironmentChoices DEF Go, Branch, Returns, LabelsOK, WorkerLabels,
     CallerLabels, NetLabels, Owning, Settling, Threads
<1>1. ASSUME NEW w \in Workers, TakeReady(w) \/ Bounce(w) \/ BeginSlice(w) \/ CheckPaused(w) \/
     PopEvent(w) \/ CheckGate(w) \/ EnterCallback(w) \/ Deliver(w) \/ LeaveCallback(w) \/
     ClearPermit(w) PROVE LabelsOK'
  BY <1>1 DEF TakeReady, Bounce, BeginSlice, CheckPaused, PopEvent, CheckGate, EnterCallback,
       Deliver, LeaveCallback, ClearPermit
<1>2. ASSUME NEW w \in Workers, CancelFromCallback(w) \/ ConsumePermit(w) \/ Park(w) \/
     HoldGuard(w) \/ CheckEmpty(w) \/ DeliverDone(w) \/ Cleanup(w) \/ LeaveSlice(w) \/
     CheckFinished(w) \/ Requeue(w) PROVE LabelsOK'
  BY <1>2 DEF CancelFromCallback, ConsumePermit, Park, HoldGuard, CheckEmpty, DeliverDone,
       Cleanup, LeaveSlice, CheckFinished, Requeue
<1>3. ASSUME NEW t \in Threads, Claim(t) \/ Publish(t) \/ ReleasePause(t) \/ Unpause(t) \/
     DropGuard(t) \/ ScheduleSlot(t) \/ Abort(t) PROVE LabelsOK'
  BY <1>3 DEF Claim, Publish, ReleasePause, Unpause, DropGuard, ScheduleSlot, Abort
<1>4. ASSUME NEW c \in Callers, CallResume(c) \/ CallCancel(c) \/ CallClose(c) \/ ResumeEarly(c)
     \/ GrantPermit(c) PROVE LabelsOK'
  BY <1>4 DEF CallResume, CallCancel, CallClose, ResumeEarly, GrantPermit
<1>5. ASSUME Receive \/ EndOfBody \/ Fail \/ Aborted \/ Acquire \/ RecheckGate \/ AppendEvent \/
     WakeSlot PROVE LabelsOK'
  BY <1>5 DEF Receive, EndOfBody, Fail, Aborted, Acquire, RecheckGate, AppendEvent, WakeSlot
<1>6. ASSUME UNCHANGED vars PROVE LabelsOK'
  BY <1>6 DEF vars
<1> QED
  BY <1>1, <1>2, <1>3, <1>4, <1>5, <1>6 DEF Next, WorkerStep, SettleStep, Call, SendStep

(* Counters, queue, budgets and events stay in range. *)
LEMMA DataStep == Typing /\ [Next]_vars => DataOK'
<1> SUFFICES ASSUME Typing, [Next]_vars PROVE DataOK'
  OBVIOUS
<1> USE BoundsPositive DEF Go, Branch, reqVars, queueVars, endVars, schedVars, localVars,
     history, Threads, Typing, TypeOK, DataOK, Budgets, Producing
<1>1. ASSUME NEW w \in Workers, TakeReady(w) PROVE DataOK'
  BY <1>1 DEF TakeReady
<1>2. ASSUME NEW w \in Workers, Bounce(w) PROVE DataOK'
  BY <1>2 DEF Bounce
<1>3. ASSUME NEW w \in Workers, BeginSlice(w) PROVE DataOK'
  BY <1>3 DEF BeginSlice
<1>4. ASSUME NEW w \in Workers, CheckPaused(w) PROVE DataOK'
  BY <1>4 DEF CheckPaused
<1>5. ASSUME NEW w \in Workers, EnterCallback(w) PROVE DataOK'
  BY <1>5 DEF EnterCallback
<1>6. ASSUME NEW w \in Workers, Deliver(w) PROVE DataOK'
  BY <1>6 DEF Deliver
<1>7. ASSUME NEW w \in Workers, LeaveCallback(w) PROVE DataOK'
  BY <1>7 DEF LeaveCallback
<1>8. ASSUME NEW w \in Workers, ClearPermit(w) PROVE DataOK'
  BY <1>8 DEF ClearPermit
<1>9. ASSUME NEW w \in Workers, CancelFromCallback(w) \/ Park(w) \/ HoldGuard(w) \/
     CheckEmpty(w) PROVE DataOK'
  BY <1>9, Zenon DEF CancelFromCallback, Park, HoldGuard, CheckEmpty
<1>10. ASSUME NEW w \in Workers, DeliverDone(w) PROVE DataOK'
  BY <1>10 DEF DeliverDone
<1>11. ASSUME NEW w \in Workers, Cleanup(w) PROVE DataOK'
  BY <1>11 DEF Cleanup
<1>12. ASSUME NEW w \in Workers, LeaveSlice(w) PROVE DataOK'
  BY <1>12 DEF LeaveSlice
<1>13. ASSUME NEW w \in Workers, CheckFinished(w) \/ Requeue(w) PROVE DataOK'
  <2>1. CASE CheckFinished(w)
    BY <2>1 DEF CheckFinished
  <2>2. CASE Requeue(w)
    BY <2>2 DEF Requeue
  <2> QED
    BY <1>13, <2>1, <2>2
<1>14. ASSUME NEW w \in Workers, PopEvent(w) PROVE DataOK'
  <2>1. CASE queue = <<>>
    BY <1>14, <2>1 DEF PopEvent
  <2>2. CASE queue # <<>>
    <3>1. Head(queue) \in 1 .. MaxEvents /\ Tail(queue) \in Seq(1 .. MaxEvents)
      BY <2>2
    <3>2. Head(queue) \in 0 .. MaxEvents
      BY <3>1
    <3>3. held' = [held EXCEPT ![w] = Head(queue)] /\ queue' = Tail(queue) /\ space' = space + 1
      BY <1>14, <2>2 DEF PopEvent
    <3>4. held' \in [Workers -> 0 .. MaxEvents] /\ queue' \in Seq(1 .. MaxEvents) /\ space' \in Nat
      BY <3>1, <3>2, <3>3
    <3> QED
      BY <1>14, <3>4 DEF PopEvent
  <2> QED
    BY <2>1, <2>2
<1>15. ASSUME NEW w \in Workers, CheckGate(w) PROVE DataOK'
  <2>1. budget[w] - 1 \in 0 .. Slice /\ 0 \in 0 .. MaxEvents
    BY <1>15 DEF CheckGate
  <2>2. CASE gate = DISCARD
    <3>1. budget' \in [Workers -> 0 .. Slice]
      BY <1>15, <2>1, <2>2, Zenon DEF CheckGate
    <3>2. held' \in [Workers -> 0 .. MaxEvents]
      BY <1>15, <2>1, <2>2, Zenon DEF CheckGate
    <3> QED
      BY <1>15, <3>1, <3>2 DEF CheckGate
  <2>3. CASE gate # DISCARD
    BY <1>15, <2>3 DEF CheckGate
  <2> QED
    BY <2>2, <2>3
<1>16. ASSUME NEW w \in Workers, ConsumePermit(w) PROVE DataOK'
  <2>1. budget[w] - 1 \in 0 .. Slice
    BY <1>16 DEF ConsumePermit
  <2> QED
    BY <1>16, <2>1 DEF ConsumePermit
<1>17. ASSUME NEW t \in Threads, Claim(t) \/ Publish(t) \/ ReleasePause(t) PROVE DataOK'
  BY <1>17 DEF Claim, Publish, ReleasePause
<1>18. ASSUME NEW t \in Threads, Unpause(t) \/ DropGuard(t) \/ ScheduleSlot(t) \/ Abort(t) PROVE
     DataOK'
  <2>1. CASE Unpause(t)
    BY <2>1 DEF Unpause
  <2>2. CASE DropGuard(t)
    BY <2>2 DEF DropGuard
  <2>3. CASE ScheduleSlot(t)
    BY <2>3 DEF ScheduleSlot
  <2>4. CASE Abort(t)
    BY <2>4 DEF Abort
  <2> QED
    BY <1>18, <2>1, <2>2, <2>3, <2>4
<1>19. ASSUME NEW c \in Callers, CallResume(c) \/ CallCancel(c) \/ CallClose(c) \/
     ResumeEarly(c) \/ GrantPermit(c) PROVE DataOK'
  BY <1>19, Zenon DEF CallResume, CallCancel, CallClose, ResumeEarly, GrantPermit
<1>20. ASSUME Receive \/ EndOfBody \/ Fail \/ Aborted PROVE DataOK'
  BY <1>20 DEF Receive, EndOfBody, Fail, Aborted
<1>21. ASSUME Acquire \/ RecheckGate PROVE DataOK'
  BY <1>21 DEF Acquire, RecheckGate
<1>22. ASSUME AppendEvent PROVE DataOK'
  BY <1>22 DEF AppendEvent
<1>23. ASSUME WakeSlot PROVE DataOK'
  BY <1>23 DEF WakeSlot
<1>24. ASSUME UNCHANGED vars PROVE DataOK'
  BY <1>24 DEF vars
<1> QED
  BY <1>1, <1>2, <1>3, <1>4, <1>5, <1>6, <1>7, <1>8, <1>9, <1>10, <1>11, <1>12, <1>13, <1>14,
       <1>15, <1>16, <1>17, <1>18, <1>19, <1>20, <1>21, <1>22, <1>23, <1>24, Zenon DEF Next,
       WorkerStep, SettleStep, Call, SendStep

(* settle_slot returns to the code that called it. *)
LEMMA ReturnsStep == Typing /\ [Next]_vars => Returns'
<1> SUFFICES ASSUME Typing, [Next]_vars PROVE Returns'
  OBVIOUS
<1> USE ThreadsDisjoint, EnvironmentChoices DEF Go, Branch, localVars, Typing, TypeOK, DataOK,
     Returns, LabelsOK, WorkerLabels, CallerLabels, NetLabels, Owning, Settling, Threads
<1>1. ASSUME NEW w \in Workers, TakeReady(w) \/ Bounce(w) \/ BeginSlice(w) \/ CheckPaused(w) \/
     PopEvent(w) PROVE Returns'
  <2>1. CASE TakeReady(w)
    BY <2>1 DEF TakeReady
  <2>2. CASE Bounce(w)
    BY <2>2 DEF Bounce
  <2>3. CASE BeginSlice(w)
    BY <2>3 DEF BeginSlice
  <2>4. CASE CheckPaused(w)
    BY <2>4 DEF CheckPaused
  <2>5. CASE PopEvent(w)
    BY <2>5 DEF PopEvent
  <2> QED
    BY <1>1, <2>1, <2>2, <2>3, <2>4, <2>5
<1>2. ASSUME NEW w \in Workers, CheckGate(w) \/ EnterCallback(w) PROVE Returns'
  BY <1>2 DEF CheckGate, EnterCallback
<1>3. ASSUME NEW w \in Workers, Deliver(w) PROVE Returns'
  <2>1. PICK v \in {"continue", "pause", "cancel"} : pc' = [pc EXCEPT ![w] = v]
    BY <1>3, Zenon DEF Deliver
  <2>2. ret' = ret
    BY <1>3 DEF Deliver
  <2> QED
    BY <2>1, <2>2
<1>4. ASSUME NEW w \in Workers, LeaveCallback(w) \/ ClearPermit(w) PROVE Returns'
  BY <1>4 DEF LeaveCallback, ClearPermit
<1>5. ASSUME NEW w \in Workers, CancelFromCallback(w) \/ ConsumePermit(w) \/ Park(w) \/
     HoldGuard(w) \/ CheckEmpty(w) PROVE Returns'
  <2>1. CASE CancelFromCallback(w)
    BY <2>1 DEF CancelFromCallback
  <2>2. CASE ConsumePermit(w)
    BY <2>2 DEF ConsumePermit
  <2>3. CASE Park(w)
    BY <2>3 DEF Park
  <2>4. CASE HoldGuard(w)
    BY <2>4 DEF HoldGuard
  <2>5. CASE CheckEmpty(w)
    BY <2>5 DEF CheckEmpty
  <2> QED
    BY <1>5, <2>1, <2>2, <2>3, <2>4, <2>5
<1>6. ASSUME NEW w \in Workers, DeliverDone(w) \/ Cleanup(w) \/ LeaveSlice(w) \/
     CheckFinished(w) \/ Requeue(w) PROVE Returns'
  BY <1>6 DEF DeliverDone, Cleanup, LeaveSlice, CheckFinished, Requeue
<1>7. ASSUME NEW t \in Threads, Publish(t) \/ ReleasePause(t) \/ Unpause(t) \/ DropGuard(t) \/
     ScheduleSlot(t) \/ Abort(t) PROVE Returns'
  BY <1>7 DEF Publish, ReleasePause, Unpause, DropGuard, ScheduleSlot, Abort
<1>8. ASSUME NEW t \in Threads, Claim(t) PROVE Returns'
  <2>1. ret' = ret
    BY <1>8 DEF Claim
  <2>2. CASE gate = RUNNING
    BY <1>8, <2>1, <2>2, ClaimCases
  <2>3. CASE gate # RUNNING
    BY <1>8, <2>1, <2>3, ClaimCases
  <2> QED
    BY <2>2, <2>3
<1>9. ASSUME NEW c \in Callers, CallResume(c) \/ CallCancel(c) \/ CallClose(c) \/ ResumeEarly(c)
     \/ GrantPermit(c) PROVE Returns'
  <2>1. CASE CallResume(c)
    BY <2>1 DEF CallResume
  <2>2. CASE CallCancel(c)
    BY <2>2 DEF CallCancel
  <2>3. CASE CallClose(c)
    BY <2>3 DEF CallClose
  <2>4. CASE ResumeEarly(c)
    BY <2>4 DEF ResumeEarly
  <2>5. CASE GrantPermit(c)
    BY <2>5 DEF GrantPermit
  <2> QED
    BY <1>9, <2>1, <2>2, <2>3, <2>4, <2>5
<1>10. ASSUME Receive \/ EndOfBody \/ Fail \/ Aborted PROVE Returns'
  BY <1>10 DEF Receive, EndOfBody, Fail, Aborted
<1>11. ASSUME Acquire \/ RecheckGate \/ AppendEvent \/ WakeSlot PROVE Returns'
  BY <1>11 DEF Acquire, RecheckGate, AppendEvent, WakeSlot
<1>12. ASSUME UNCHANGED vars PROVE Returns'
  BY <1>12 DEF vars
<1> QED
  BY <1>1, <1>2, <1>3, <1>4, <1>5, <1>6, <1>7, <1>8, <1>9, <1>10, <1>11, <1>12, Zenon DEF Next,
       WorkerStep, SettleStep, Call, SendStep

(* run_owned takes no event its budget does not cover. *)
LEMMA BudgetsStep == Typing /\ [Next]_vars => Budgets'
<1> SUFFICES ASSUME Typing, [Next]_vars PROVE Budgets'
  OBVIOUS
<1> USE BoundsPositive, ThreadsDisjoint DEF Go, Branch, localVars, Typing, TypeOK, DataOK,
     LabelsOK, Returns, Budgets, Settling, Threads
<1>1. ASSUME NEW w \in Workers, TakeReady(w) \/ Bounce(w) PROVE Budgets'
  BY <1>1 DEF TakeReady, Bounce
<1>2. ASSUME NEW w \in Workers, BeginSlice(w) PROVE Budgets'
  BY <1>2 DEF BeginSlice
<1>3. ASSUME NEW w \in Workers, CheckPaused(w) \/ PopEvent(w) PROVE Budgets'
  BY <1>3 DEF CheckPaused, PopEvent
<1>4. ASSUME NEW w \in Workers, CheckGate(w) \/ EnterCallback(w) \/ Deliver(w) \/
     LeaveCallback(w) \/ ClearPermit(w) PROVE Budgets'
  BY <1>4 DEF CheckGate, EnterCallback, Deliver, LeaveCallback, ClearPermit
<1>5. ASSUME NEW w \in Workers, CancelFromCallback(w) \/ ConsumePermit(w) PROVE Budgets'
  BY <1>5 DEF CancelFromCallback, ConsumePermit
<1>6. ASSUME NEW w \in Workers, Park(w) \/ HoldGuard(w) \/ CheckEmpty(w) PROVE Budgets'
  BY <1>6 DEF Park, HoldGuard, CheckEmpty
<1>7. ASSUME NEW w \in Workers, DeliverDone(w) \/ Cleanup(w) PROVE Budgets'
  BY <1>7 DEF DeliverDone, Cleanup
<1>8. ASSUME NEW w \in Workers, LeaveSlice(w) \/ CheckFinished(w) \/ Requeue(w) PROVE Budgets'
  BY <1>8 DEF LeaveSlice, CheckFinished, Requeue
<1>9. ASSUME NEW t \in Threads, Claim(t) PROVE Budgets'
  <2>1. budget' = budget
    BY <1>9 DEF Claim
  <2> QED
    BY <1>9, <2>1, ClaimCases
<1>10. ASSUME NEW t \in Threads, Publish(t) PROVE Budgets'
  BY <1>10 DEF Publish
<1>11. ASSUME NEW t \in Threads, ReleasePause(t) PROVE Budgets'
  BY <1>11 DEF ReleasePause
<1>12. ASSUME NEW t \in Threads, Unpause(t) \/ DropGuard(t) \/ ScheduleSlot(t) \/ Abort(t) PROVE
     Budgets'
  BY <1>12 DEF Unpause, DropGuard, ScheduleSlot, Abort
<1>13. ASSUME NEW c \in Callers, CallResume(c) \/ CallCancel(c) \/ CallClose(c) \/
     ResumeEarly(c) \/ GrantPermit(c) PROVE Budgets'
  BY <1>13 DEF CallResume, CallCancel, CallClose, ResumeEarly, GrantPermit
<1>14. ASSUME Receive \/ EndOfBody \/ Fail \/ Aborted \/ Acquire \/ RecheckGate \/ AppendEvent
     \/ WakeSlot PROVE Budgets'
  BY <1>14 DEF Receive, EndOfBody, Fail, Aborted, Acquire, RecheckGate, AppendEvent, WakeSlot
<1>15. ASSUME UNCHANGED vars PROVE Budgets'
  BY <1>15 DEF vars
<1> QED
  BY <1>1, <1>2, <1>3, <1>4, <1>5, <1>6, <1>7, <1>8, <1>9, <1>10, <1>11, <1>12, <1>13, <1>14,
       <1>15 DEF Next, WorkerStep, SettleStep, Call, SendStep

(* The producer never runs past the last event of the peer. *)
LEMMA ProducingStep == Typing /\ [Next]_vars => Producing'
<1> SUFFICES ASSUME Typing, [Next]_vars PROVE Producing'
  OBVIOUS
<1> USE ThreadsDisjoint DEF Go, Branch, history, Typing, TypeOK, DataOK, LabelsOK, Producing,
     Threads
<1>1. ASSUME NEW w \in Workers, TakeReady(w) \/ Bounce(w) \/ BeginSlice(w) \/ CheckPaused(w) \/
     PopEvent(w) \/ CheckGate(w) \/ EnterCallback(w) \/ Deliver(w) \/ LeaveCallback(w) \/
     ClearPermit(w) \/ CancelFromCallback(w) \/ ConsumePermit(w) \/ Park(w) \/ HoldGuard(w) \/
     CheckEmpty(w) \/ DeliverDone(w) \/ Cleanup(w) \/ LeaveSlice(w) \/ CheckFinished(w) \/
     Requeue(w) PROVE Producing'
  BY <1>1 DEF TakeReady, Bounce, BeginSlice, CheckPaused, PopEvent, CheckGate, EnterCallback,
       Deliver, LeaveCallback, ClearPermit, CancelFromCallback, ConsumePermit, Park, HoldGuard,
       CheckEmpty, DeliverDone, Cleanup, LeaveSlice, CheckFinished, Requeue
<1>2. ASSUME NEW t \in Threads, Claim(t) \/ Publish(t) \/ ReleasePause(t) \/ Unpause(t) \/
     DropGuard(t) \/ ScheduleSlot(t) \/ Abort(t) PROVE Producing'
  BY <1>2 DEF Claim, Publish, ReleasePause, Unpause, DropGuard, ScheduleSlot, Abort
<1>3. ASSUME NEW c \in Callers, CallResume(c) \/ CallCancel(c) \/ CallClose(c) \/ ResumeEarly(c)
     \/ GrantPermit(c) PROVE Producing'
  BY <1>3 DEF CallResume, CallCancel, CallClose, ResumeEarly, GrantPermit
<1>4. ASSUME Receive \/ EndOfBody \/ Fail \/ Aborted \/ Acquire \/ RecheckGate \/ AppendEvent \/
     WakeSlot PROVE Producing'
  BY <1>4 DEF Receive, EndOfBody, Fail, Aborted, Acquire, RecheckGate, AppendEvent, WakeSlot
<1>5. ASSUME UNCHANGED vars PROVE Producing'
  BY <1>5 DEF vars
<1> QED
  BY <1>1, <1>2, <1>3, <1>4, <1>5 DEF Next, WorkerStep, SettleStep, Call, SendStep

(* Every step keeps the bridge well typed. *)
LEMMA TypingStep == Typing /\ [Next]_vars => Typing'
BY FlagsStep, LabelsStep, DataStep, ReturnsStep, BudgetsStep, ProducingStep DEF Typing, TypeOK
=============================================================================
