----------------------------- MODULE Pool_proofs ----------------------------
(* Proofs about Pool, for any number of tasks, closers, connections and      *)
(* retries, any cap and any pause budget.                                    *)
EXTENDS Pool, FiniteSetTheorems, TLAPS

Leasing == {"leased", "send", "body"}
Answered == {"body", "end", "over"}
Winning == {"close", "collect", "clear", "join", "complete", "notify"}

Typing ==
  /\ TypeOK
  /\ \A t \in Tasks : pc[t] \in TaskLabels
  /\ \A s \in Closers : pc[s] \in CloserLabels

(* Where a task is and what it holds; the entries of the list are those that *)
(* have been dialled, and a task between two of them keeps the list as it is. *)
Places ==
  /\ \A i \in 1 .. Len(conns) : conns[i] <= dialled
  /\ \A t \in Tasks :
       /\ lease[t] <= dialled /\ (lease[t] # NoConn <=> pc[t] \in Leasing)
       /\ at[t] >= 1 /\ (pc[t] = "take" => at[t] <= Len(conns))
       /\ pc[t] \in Dialling => dialer = t
       /\ pc[t] \in {"insert", "takenew"} => dialled >= 1

(* Where a request is that has been sent or answered. *)
Progress == \A t \in Tasks :
  /\ pc[t] = "send" => bound[t] = lease[t]
  /\ committed[t] => bound[t] # NoConn /\ pc[t] \in Answered
  /\ reached[t] > 0 /\ t \notin Idempotent => pc[t] \in Answered
  /\ parked[t] \/ guard[t] \/ entering[t] \/ leaving[t] => committed[t]

(* A connection that has not been dialled is neither open nor dead. *)
Fresh == \A c \in Conns : c > dialled => ~open[c] /\ ~dead[c]

(* LeasesBalance, made inductive: an idle H1 sender has no user even when    *)
(* its connection is dead.                                                   *)
Leases == \A c \in Conns :
  /\ active[c] = Cardinality(Holders(c))
  /\ kind[c] = "h1" /\ idle[c] => Holders(c) = {}
  /\ kind[c] = "h1" => \A t, u \in Holders(c) : t = u
  /\ kind[c] = "h1" /\ c <= dialled /\ ~dead[c] /\ Holders(c) = {} => idle[c]

(* From the count under the dial lock to the insertion there is room.        *)
Up == {i \in 1 .. Len(conns) : open[conns[i]] /\ ~dead[conns[i]]}
Room ==
  /\ Cardinality(Up) <= MaxConns
  /\ \A t \in Tasks : pc[t] \in {"dial", "insert"} => Cardinality(Up) < MaxConns

(* One task at most does the shutdown, and it has the driver of every entry  *)
(* it has marked.                                                            *)
Ending ==
  /\ ~shutting => \A s \in Closers : pc[s] = "uncalled"
  /\ \A s, u \in Closers : pc[s] \in Winning /\ pc[u] \in Winning => s = u
  /\ complete => \A s \in Closers : pc[s] \in Winning => pc[s] = "notify"
  /\ \A c \in Conns : dead[c] /\ open[c] => c \in collected
  /\ complete => shutting
  /\ complete \/ ~shutting => collected = {}
  /\ \A s \in Closers : pc[s] \in {"close", "collect", "complete"} => collected = {}

(* A connection's pause count counts the guards on it. *)
PausesBalance == \A c \in Conns : paused[c] = Cardinality({t \in Tasks : guard[t] /\ bound[t] = c})

IInv ==
  Typing /\ Places /\ Progress /\ Fresh /\ Leases /\ PausesBalance /\ Room /\ Ending
-----------------------------------------------------------------------------
(* Who changes what.                                                         *)

TaskStep(t) == AcquireStep(t) \/ AttemptStep(t) \/ PauseStep(t)
CloserStep(s) == CallShutdown(s) \/ ShutdownStep(s)

LEMMA Steps == Next <=> \/ \E t \in Tasks : TaskStep(t)
                        \/ \E c \in Conns : PeerCloses(c)
                        \/ \E s \in Closers : CloserStep(s)
BY Zenon DEF Next, TaskStep, CloserStep

(* A task moves itself only, to a label of a task, and leaves the shutdown   *)
(* alone.                                                                    *)
LEMMA TaskMoves ==
  ASSUME Typing, NEW t \in Tasks, TaskStep(t)
  PROVE /\ UNCHANGED endVars /\ pc' \in [Tasks \cup Closers -> TaskLabels \cup CloserLabels]
        /\ pc'[t] \in TaskLabels
        /\ \A u \in Tasks \cup Closers : u # t => pc'[u] = pc[u]
<1> DEFINE Moved == /\ UNCHANGED endVars /\ pc' \in [Tasks \cup Closers -> TaskLabels \cup CloserLabels]
                    /\ pc'[t] \in TaskLabels
                    /\ \A u \in Tasks \cup Closers : u # t => pc'[u] = pc[u]
<1>1. pc \in [Tasks \cup Closers -> TaskLabels \cup CloserLabels] /\ pc[t] \in TaskLabels
  BY DEF Typing, TypeOK
<1>2. ASSUME NEW l \in TaskLabels, Go(t, l), UNCHANGED endVars PROVE Moved
  BY <1>1, <1>2 DEF Go
<1>3. ASSUME UNCHANGED <<pc, endVars>> PROVE Moved
  BY <1>1, <1>3
<1> USE DEF Settle, TaskLabels, AcquireLabels
<1> HIDE DEF Moved
<1>4. ASSUME Acquire(t) \/ TakeEntry(t) \/ LockDial(t) \/ CountLive(t) \/ Dial(t) \/ DialFails(t)
      PROVE Moved
  BY <1>2, <1>4, Zenon DEF Acquire, TakeEntry, LockDial, CountLive, Dial, DialFails
<1>5. ASSUME ScanEntry(t) PROVE Moved
  BY <1>2, <1>3, <1>5 DEF ScanEntry
<1>6. ASSUME Insert(t) \/ TakeNew(t) PROVE Moved
  BY <1>2, <1>6, Zenon DEF Insert, TakeNew
<1>7. ASSUME CheckSender(t) PROVE Moved
  BY <1>2, <1>7 DEF CheckSender, Again
<1>8. ASSUME NEW unsent, SendFails(t, unsent) PROVE Moved
  BY <1>2, <1>8 DEF SendFails, Again
<1>9. ASSUME Respond(t) \/ EndBody(t) \/ AbortTask(t) PROVE Moved
  BY <1>2, <1>9, Zenon DEF Respond, EndBody, AbortTask
<1>10. ASSUME PauseStep(t) PROVE Moved
  BY <1>2, <1>3, <1>10, Zenon DEF PauseStep, EnterPause, StoreGuard, LeavePause, ClearGuard, DropState, HoldGuard
<1>11. Moved
  BY <1>4, <1>5, <1>6, <1>7, <1>8, <1>9, <1>10, Zenon DEF TaskStep, AcquireStep, AttemptStep
<1> QED
  BY <1>11 DEF Moved

(* A closer moves itself only, to a label of a closer, and leaves the        *)
(* requests alone.                                                           *)
LEMMA CloserMoves ==
  ASSUME Typing, NEW s \in Closers, CloserStep(s)
  PROVE /\ UNCHANGED <<kind, idle, active, paused, dialled, dialer, at, lease, reqVars>>
        /\ pc' \in [Tasks \cup Closers -> TaskLabels \cup CloserLabels] /\ pc'[s] \in CloserLabels
        /\ \A u \in Tasks \cup Closers : u # s => pc'[u] = pc[u]
<1> DEFINE Moved == /\ UNCHANGED <<kind, idle, active, paused, dialled, dialer, at, lease, reqVars>>
                    /\ pc' \in [Tasks \cup Closers -> TaskLabels \cup CloserLabels] /\ pc'[s] \in CloserLabels
                    /\ \A u \in Tasks \cup Closers : u # s => pc'[u] = pc[u]
<1>1. pc \in [Tasks \cup Closers -> TaskLabels \cup CloserLabels] /\ pc[s] \in CloserLabels
  BY DEF Typing, TypeOK
<1>2. ASSUME NEW l \in CloserLabels, Go(s, l),
             UNCHANGED <<kind, idle, active, paused, dialled, dialer, at, lease, reqVars>>
      PROVE Moved
  BY <1>1, <1>2 DEF Go
<1> USE DEF CloserLabels, connVars, poolVars
<1> HIDE DEF Moved
<1>3. ASSUME CallShutdown(s) PROVE Moved
  BY <1>2, <1>3 DEF CallShutdown
<1>4. ASSUME LookComplete(s) PROVE Moved
  BY <1>2, <1>4 DEF LookComplete
<1>5. ASSUME Register(s) \/ WakeUp(s) \/ CloseDoor(s) PROVE Moved
  BY <1>2, <1>5, Zenon DEF Register, WakeUp, CloseDoor
<1>6. ASSUME CollectDrivers(s) \/ ClearConns(s) PROVE Moved
  BY <1>2, <1>6, Zenon DEF CollectDrivers, ClearConns
<1>7. ASSUME JoinDriver(s) PROVE Moved
  <2>1. CASE UNCHANGED pc
    BY <1>1, <1>7, <2>1, Zenon DEF JoinDriver, Moved
  <2> QED
    BY <1>2, <1>7, <2>1, Zenon DEF JoinDriver
<1>8. ASSUME SetComplete(s) \/ NotifyWaiters(s) PROVE Moved
  BY <1>2, <1>8, Zenon DEF SetComplete, NotifyWaiters
<1>9. Moved
  BY <1>3, <1>4, <1>5, <1>6, <1>7, <1>8, Zenon DEF CloserStep, ShutdownStep
<1> QED
  BY <1>9 DEF Moved

(* Where the tasks are: conns changes only while nobody is reading it. *)
LEMMA PlacesStep == Typing /\ Places /\ [Next]_vars => Places'
<1> SUFFICES ASSUME Typing, Places, [Next]_vars PROVE Places'
  OBVIOUS
<1>1. /\ DOMAIN pc = Tasks \cup Closers /\ conns \in Seq(Conns) /\ dialled \in 0 .. MaxDials
      /\ lease \in [Tasks -> Conns \cup {NoConn}] /\ at \in [Tasks -> Nat]
  BY DEF Typing, TypeOK
<1> USE <1>1, PoolThreads, PoolBounds
        DEF Go, Settle, connVars, poolVars, Places, Reading, Dialling, Leasing, NoConn, Conns
<1>2. ASSUME NEW t \in Tasks, Acquire(t) PROVE Places'
  BY <1>2 DEF Acquire
<1>3. ASSUME NEW t \in Tasks, ScanEntry(t) PROVE Places'
  BY <1>3 DEF ScanEntry
<1>4. ASSUME NEW t \in Tasks, TakeEntry(t) PROVE Places'
  <2> DEFINE c == conns[at[t]]
  <2>1. c \in Conns /\ c <= dialled /\ pc[t] = "take" /\ UNCHANGED <<conns, dialled>>
    BY <1>4 DEF TakeEntry
  <2>2. \/ /\ lease' = [lease EXCEPT ![t] = c] /\ at' = [at EXCEPT ![t] = 1]
           /\ dialer' = (IF dialer = t THEN Nobody ELSE dialer) /\ pc' = [pc EXCEPT ![t] = "leased"]
        \/ /\ at' = [at EXCEPT ![t] = @ + 1] /\ pc' = [pc EXCEPT ![t] = "scan"]
           /\ UNCHANGED <<dialer, lease>>
    BY <1>4 DEF TakeEntry, TakeLease, Unlock
  <2> HIDE DEF c
  <2>3. \A u \in Tasks :
          /\ lease'[u] <= dialled /\ (lease'[u] # NoConn <=> pc'[u] \in Leasing)
          /\ at'[u] >= 1 /\ (pc'[u] = "take" => at'[u] <= Len(conns))
    BY <2>1, <2>2
  <2>4. \A u \in Tasks :
          /\ pc'[u] \in Dialling => dialer' = u
          /\ pc'[u] \in {"insert", "takenew"} => dialled >= 1
    BY <2>1, <2>2
  <2> QED
    BY <2>1, <2>3, <2>4
<1>5. ASSUME NEW t \in Tasks, LockDial(t) PROVE Places'
  BY <1>5 DEF LockDial
<1>6. ASSUME NEW t \in Tasks, CountLive(t) PROVE Places'
  BY <1>6 DEF CountLive, Unlock
<1>7. ASSUME NEW t \in Tasks, Dial(t) PROVE Places'
  BY <1>7 DEF Dial
<1>8. ASSUME NEW t \in Tasks, DialFails(t) PROVE Places'
  BY <1>8 DEF DialFails, Unlock
<1>9. ASSUME NEW t \in Tasks, Insert(t) PROVE Places'
  BY <1>9 DEF Insert
<1>10. ASSUME NEW t \in Tasks, TakeNew(t) PROVE Places'
  BY <1>10 DEF TakeNew, TakeLease, Unlock
<1>11. ASSUME NEW t \in Tasks, CheckSender(t) PROVE Places'
  BY <1>11 DEF CheckSender, DropLease, Again
<1>12. ASSUME NEW t \in Tasks, NEW unsent, SendFails(t, unsent) PROVE Places'
  BY <1>12 DEF SendFails, DropLease, Again
<1>13. ASSUME NEW t \in Tasks, Respond(t) PROVE Places'
  BY <1>13 DEF Respond
<1>14. ASSUME NEW t \in Tasks, EndBody(t) PROVE Places'
  BY <1>14 DEF EndBody, DropLease
<1>15. ASSUME NEW t \in Tasks, AbortTask(t) PROVE Places'
  BY <1>15 DEF AbortTask, DropLease, Unlock
<1>16. ASSUME NEW t \in Tasks, PauseStep(t) PROVE Places'
  <2>1. UNCHANGED <<poolVars, at, lease>> /\ (UNCHANGED pc \/ (pc[t] = "end" /\ Go(t, "over")))
    BY <1>16, Zenon DEF PauseStep, EnterPause, StoreGuard, LeavePause, ClearGuard, DropState, HoldGuard
  <2> QED
    BY <2>1
<1>17. ASSUME NEW c \in Conns, PeerCloses(c) PROVE Places'
  BY <1>17 DEF PeerCloses
<1>18. ASSUME NEW s \in Closers, CloserStep(s) PROVE Places'
  <2>1. UNCHANGED <<dialled, dialer, at, lease>> /\ \A t \in Tasks : pc'[t] = pc[t]
    BY <1>18, CloserMoves, Zenon
  <2>2. CASE UNCHANGED conns
    BY <2>1, <2>2
  <2>3. CASE ClearConns(s)
    <3>1. conns' = <<>> /\ \A t \in Tasks : pc[t] # "take"
      BY <2>3 DEF ClearConns
    <3> QED
      BY <2>1, <3>1
  <2> QED
    BY <1>18, <2>2, <2>3, Zenon DEF CloserStep, ShutdownStep, CallShutdown, LookComplete, Register, WakeUp,
         CloseDoor, CollectDrivers, JoinDriver, SetComplete, NotifyWaiters
<1>19. ASSUME UNCHANGED vars PROVE Places'
  BY <1>19 DEF vars
<1> QED
  BY <1>2, <1>3, <1>4, <1>5, <1>6, <1>7, <1>8, <1>9, <1>10, <1>11, <1>12, <1>13, <1>14, <1>15, <1>16,
     <1>17, <1>18, <1>19, Steps, Zenon DEF TaskStep, AcquireStep, AttemptStep

(* How far the requests are. *)
LEMMA ProgressStep == Typing /\ Places /\ Progress /\ [Next]_vars => Progress'
<1> SUFFICES ASSUME Typing, Places, Progress, [Next]_vars PROVE Progress'
  OBVIOUS
<1>1. /\ DOMAIN pc = Tasks \cup Closers
      /\ lease \in [Tasks -> Conns \cup {NoConn}] /\ bound \in [Tasks -> Conns \cup {NoConn}]
      /\ committed \in [Tasks -> BOOLEAN] /\ reached \in [Tasks -> Nat]
      /\ parked \in [Tasks -> BOOLEAN] /\ guard \in [Tasks -> BOOLEAN]
      /\ entering \in [Tasks -> BOOLEAN] /\ leaving \in [Tasks -> BOOLEAN]
  BY DEF Typing, TypeOK
<1> USE <1>1 DEF Go, Settle, pauseVars, reqVars, Progress, Answered
<1>2. ASSUME NEW t \in Tasks, UNCHANGED <<lease, reqVars>>, NEW l, Go(t, l), pc[t] \notin Answered, l # "send"
      PROVE Progress'
  BY <1>2
<1>3. ASSUME NEW t \in Tasks, Acquire(t) \/ LockDial(t) \/ CountLive(t) \/ Dial(t) \/ DialFails(t) \/ Insert(t)
      PROVE Progress'
  <2>1. UNCHANGED <<lease, reqVars>> /\ pc[t] \in {"start", "lock", "count", "dial", "insert"}
    BY <1>3, Zenon DEF Acquire, LockDial, CountLive, Dial, DialFails, Insert
  <2>2. \E l \in {"scan", "dial", "insert", "takenew", "end"} : Go(t, l)
    BY <1>3, Zenon DEF Acquire, LockDial, CountLive, Dial, DialFails, Insert
  <2> QED
    BY <1>2, <2>1, <2>2
<1>4. ASSUME NEW t \in Tasks, ScanEntry(t) PROVE Progress'
  BY <1>4, Zenon DEF ScanEntry
<1>5. ASSUME NEW t \in Tasks, TakeEntry(t) \/ TakeNew(t) PROVE Progress'
  <2>1. /\ UNCHANGED reqVars /\ \A u \in Tasks : u # t => lease'[u] = lease[u]
        /\ pc[t] \in {"take", "takenew"}
    BY <1>5 DEF TakeEntry, TakeNew, TakeLease
  <2>2. \E l \in {"scan", "leased", "end"} : Go(t, l)
    BY <1>5, Zenon DEF TakeEntry, TakeNew
  <2> QED
    BY <2>1, <2>2
<1>6. ASSUME NEW t \in Tasks, CheckSender(t) PROVE Progress'
  <2>1. CASE open[lease[t]]
    <3>1. /\ bound' = [bound EXCEPT ![t] = lease[t]] /\ pc[t] = "leased" /\ pc' = [pc EXCEPT ![t] = "send"]
          /\ UNCHANGED <<lease, pauseVars, committed, reached>>
      BY <1>6, <2>1 DEF CheckSender
    <3> QED
      BY <3>1
  <2>2. CASE ~open[lease[t]]
    <3>1. UNCHANGED <<bound, pauseVars, committed, reached>> /\ pc[t] = "leased" /\ DropLease(t)
      BY <1>6, <2>2 DEF CheckSender
    <3>2. \E l \in {"start", "end"} : Go(t, l)
      BY <1>6, <2>2 DEF CheckSender, Again
    <3> QED
      BY <3>1, <3>2 DEF DropLease
  <2> QED
    BY <2>1, <2>2
<1>7. ASSUME NEW t \in Tasks, NEW unsent \in BOOLEAN, SendFails(t, unsent) PROVE Progress'
  BY <1>7 DEF SendFails, DropLease, Again, MayRetry
<1>8. ASSUME NEW t \in Tasks, Respond(t) PROVE Progress'
  BY <1>8 DEF Respond, Places, Leasing
<1>9. ASSUME NEW t \in Tasks, EndBody(t) \/ AbortTask(t) PROVE Progress'
  <2>1. CASE EndBody(t)
    BY <2>1, SMTT(30) DEF EndBody, DropLease
  <2>2. CASE AbortTask(t)
    BY <2>2, SMTT(30) DEF AbortTask, DropLease
  <2> QED
    BY <1>9, <2>1, <2>2
<1>10. ASSUME NEW t \in Tasks, EnterPause(t) \/ LeavePause(t) PROVE Progress'
  BY <1>10 DEF EnterPause, LeavePause
<1>11. ASSUME NEW t \in Tasks, StoreGuard(t) \/ ClearGuard(t) \/ DropState(t) PROVE Progress'
  <2>1. CASE StoreGuard(t)
    BY <2>1, SMTT(30) DEF StoreGuard, HoldGuard
  <2>2. CASE ClearGuard(t)
    BY <2>2, SMTT(30) DEF ClearGuard, HoldGuard
  <2>3. CASE DropState(t)
    BY <2>3, SMTT(30) DEF DropState, HoldGuard
  <2> QED
    BY <1>11, <2>1, <2>2, <2>3
<1>12. ASSUME NEW c \in Conns, PeerCloses(c) PROVE Progress'
  BY <1>12 DEF PeerCloses
<1>13. ASSUME NEW s \in Closers, CloserStep(s) PROVE Progress'
  BY <1>13, CloserMoves, PoolThreads
<1>14. ASSUME UNCHANGED vars PROVE Progress'
  BY <1>14 DEF vars
<1> QED
  BY <1>3, <1>4, <1>5, <1>6, <1>7, <1>8, <1>9, <1>10, <1>11, <1>12, <1>13, <1>14, Steps, Zenon
     DEF TaskStep, AcquireStep, AttemptStep, PauseStep

(* Every thread stays at a label of its kind. *)
LEMMA LabelsStep ==
  ASSUME Typing, [Next]_vars
  PROVE /\ pc' \in [Tasks \cup Closers -> TaskLabels \cup CloserLabels]
        /\ \A t \in Tasks : pc'[t] \in TaskLabels
        /\ \A s \in Closers : pc'[s] \in CloserLabels
<1>1. /\ pc \in [Tasks \cup Closers -> TaskLabels \cup CloserLabels]
      /\ \A t \in Tasks : pc[t] \in TaskLabels
      /\ \A s \in Closers : pc[s] \in CloserLabels
  BY DEF Typing, TypeOK
<1>2. CASE UNCHANGED pc
  BY <1>1, <1>2
<1>3. ASSUME NEW t \in Tasks, TaskStep(t)
      PROVE /\ pc' \in [Tasks \cup Closers -> TaskLabels \cup CloserLabels]
            /\ \A u \in Tasks : pc'[u] \in TaskLabels
            /\ \A s \in Closers : pc'[s] \in CloserLabels
  BY <1>1, <1>3, TaskMoves, PoolThreads
<1>4. ASSUME NEW s \in Closers, CloserStep(s)
      PROVE /\ pc' \in [Tasks \cup Closers -> TaskLabels \cup CloserLabels]
            /\ \A t \in Tasks : pc'[t] \in TaskLabels
            /\ \A u \in Closers : pc'[u] \in CloserLabels
  BY <1>1, <1>4, CloserMoves, PoolThreads
<1>5. ASSUME NEW c \in Conns, PeerCloses(c) PROVE UNCHANGED pc
  BY <1>5 DEF PeerCloses
<1>6. ASSUME UNCHANGED vars PROVE UNCHANGED pc
  BY <1>6 DEF vars
<1> QED
  BY <1>2, <1>3, <1>4, <1>5, <1>6, Steps

(* What a task's step does to the connections: it opens the one it has       *)
(* dialled, and it may mark one dead that is no longer open.                 *)
LEMMA TaskConns ==
  ASSUME Typing, Places, NEW t \in Tasks, TaskStep(t)
  PROVE \/ Dial(t)
        \/ /\ UNCHANGED <<dialled, open>> /\ dead' \in [Conns -> BOOLEAN]
           /\ \A c \in Conns : (dead[c] => dead'[c]) /\ (dead'[c] => dead[c] \/ (~open[c] /\ c <= dialled))
<1> DEFINE Marks == /\ UNCHANGED <<dialled, open>> /\ dead' \in [Conns -> BOOLEAN]
                    /\ \A c \in Conns : (dead[c] => dead'[c]) /\ (dead'[c] => dead[c] \/ (~open[c] /\ c <= dialled))
<1>1. dead \in [Conns -> BOOLEAN] /\ lease \in [Tasks -> Conns \cup {NoConn}] /\ lease[t] <= dialled
  BY DEF Typing, TypeOK, Places
<1>2. ASSUME UNCHANGED <<dialled, open, dead>> PROVE Marks
  BY <1>1, <1>2
<1>3. ASSUME DropLease(t), UNCHANGED dialled PROVE Marks
  BY <1>1, <1>3, Zenon DEF DropLease, connVars
<1> USE DEF connVars, poolVars
<1> HIDE DEF Marks
<1>4. ASSUME AcquireStep(t), ~Dial(t) PROVE Marks
  BY <1>2, <1>4, Zenon DEF AcquireStep, Acquire, ScanEntry, TakeEntry, TakeLease, LockDial, CountLive, DialFails,
       Insert, TakeNew
<1>5. ASSUME AttemptStep(t) PROVE Marks
  <2>1. ASSUME CheckSender(t) PROVE Marks
    BY <1>2, <1>3, <2>1, Zenon DEF CheckSender
  <2>2. ASSUME NEW unsent, SendFails(t, unsent) PROVE Marks
    BY <1>3, <2>2, Zenon DEF SendFails
  <2>3. ASSUME Respond(t) \/ EndBody(t) \/ AbortTask(t) PROVE Marks
    BY <1>2, <1>3, <2>3, Zenon DEF Respond, EndBody, AbortTask
  <2> QED
    BY <1>5, <2>1, <2>2, <2>3, Zenon DEF AttemptStep
<1>6. ASSUME PauseStep(t) PROVE Marks
  BY <1>2, <1>6, Zenon DEF PauseStep, EnterPause, StoreGuard, LeavePause, ClearGuard, DropState, HoldGuard
<1>7. Dial(t) \/ Marks
  BY <1>4, <1>5, <1>6, Zenon DEF TaskStep
<1> QED
  BY <1>7 DEF Marks

LEMMA FreshStep == Typing /\ Places /\ Fresh /\ [Next]_vars => Fresh'
<1> SUFFICES ASSUME Typing, Places, Fresh, [Next]_vars PROVE Fresh'
  OBVIOUS
<1>1. /\ conns \in Seq(Conns) /\ dialled \in 0 .. MaxDials
      /\ dead \in [Conns -> BOOLEAN] /\ open \in [Conns -> BOOLEAN]
  BY DEF Typing, TypeOK
<1> USE DEF Fresh, Conns
<1>2. ASSUME NEW t \in Tasks, TaskStep(t) PROVE Fresh'
  <2>1. CASE Dial(t)
    BY <1>1, <2>1, PoolBounds DEF Dial
  <2>2. CASE ~Dial(t)
    BY <1>1, <1>2, <2>2, TaskConns, PoolBounds
  <2> QED
    BY <2>1, <2>2
<1>3. ASSUME NEW c \in Conns, PeerCloses(c) PROVE Fresh'
  BY <1>1, <1>3 DEF PeerCloses, poolVars
<1>4. ASSUME NEW s \in Closers, CloserStep(s) PROVE Fresh'
  <2>1. dialled' = dialled
    BY <1>4, CloserMoves
  <2>2. CASE CollectDrivers(s)
    <3>1. \A c \in Conns : dead'[c] => dead[c] \/ c <= dialled
      BY <1>1, <2>2 DEF CollectDrivers, Places
    <3>2. open' = open
      BY <2>2 DEF CollectDrivers
    <3> QED
      BY <2>1, <3>1, <3>2, <1>1
  <2>3. CASE JoinDriver(s)
    BY <1>1, <2>1, <2>3, Zenon DEF JoinDriver
  <2>4. CASE UNCHANGED <<open, dead>>
    BY <2>1, <2>4
  <2> QED
    BY <1>4, <2>2, <2>3, <2>4, Zenon DEF CloserStep, ShutdownStep, CallShutdown, LookComplete, Register, WakeUp,
         CloseDoor, ClearConns, SetComplete, NotifyWaiters, connVars
<1>5. ASSUME UNCHANGED vars PROVE Fresh'
  BY <1>5 DEF vars, connVars, poolVars
<1> QED
  BY <1>2, <1>3, <1>4, <1>5, Steps

(* The shutdown: the winner of the flag is alone with the driver handles. *)
LEMMA EndingStep == Typing /\ Places /\ Fresh /\ Ending /\ [Next]_vars => Ending'
<1> SUFFICES ASSUME Typing, Places, Fresh, Ending, [Next]_vars PROVE Ending'
  OBVIOUS
<1>1. /\ DOMAIN pc = Tasks \cup Closers /\ conns \in Seq(Conns) /\ dialled \in 0 .. MaxDials
      /\ dead \in [Conns -> BOOLEAN] /\ open \in [Conns -> BOOLEAN]
  BY DEF Typing, TypeOK
<1>2. ASSUME UNCHANGED endVars, \A s \in Closers : pc'[s] = pc[s],
             \A c \in Conns : dead'[c] /\ open'[c] => dead[c] /\ open[c]
      PROVE Ending'
  BY <1>2 DEF Ending, endVars
<1>3. ASSUME NEW t \in Tasks, TaskStep(t) PROVE Ending'
  <2>1. UNCHANGED endVars /\ \A s \in Closers : pc'[s] = pc[s]
    BY <1>3, TaskMoves, PoolThreads
  <2>2. \A c \in Conns : dead'[c] /\ open'[c] => dead[c] /\ open[c]
    <3>1. CASE Dial(t)
      BY <1>1, <3>1 DEF Dial, Fresh, Conns
    <3>2. CASE ~Dial(t)
      BY <1>1, <1>3, <3>2, TaskConns
    <3> QED
      BY <3>1, <3>2
  <2> QED
    BY <1>2, <2>1, <2>2
<1>4. ASSUME NEW c \in Conns, PeerCloses(c) PROVE Ending'
  BY <1>1, <1>2, <1>4 DEF PeerCloses
<1>5. ASSUME NEW s \in Closers, CloserStep(s) PROVE Ending'
  <2>1. \A u \in Closers : u # s => pc'[u] = pc[u]
    BY <1>5, CloserMoves
  <2> USE <1>1, <2>1 DEF Ending, Winning, Go, connVars
  <2>2. CASE CallShutdown(s)
    <3>1. /\ pc[s] = "uncalled" /\ shutting' /\ UNCHANGED <<dead, open, complete, collected>>
          /\ pc'[s] = IF shutting THEN "look" ELSE "close"
      BY <2>2 DEF CallShutdown
    <3>2. CASE shutting
      BY <3>1, <3>2
    <3>3. CASE ~shutting
      BY <3>1, <3>3
    <3> QED
      BY <3>2, <3>3
  <2>3. CASE LookComplete(s)
    BY <2>3 DEF LookComplete, endVars
  <2>4. CASE Register(s) \/ WakeUp(s)
    BY <2>4, SMTT(30) DEF Register, WakeUp, endVars
  <2>5. CASE CloseDoor(s)
    BY <2>5 DEF CloseDoor
  <2>6. CASE CollectDrivers(s)
    <3>1. /\ pc[s] = "collect" /\ pc'[s] = "clear"
          /\ UNCHANGED <<open, shutting, complete>>
      BY <2>6 DEF CollectDrivers
    <3>2. \A c \in Conns : dead'[c] => dead[c] \/ c \in collected'
      BY <2>6, Zenon DEF CollectDrivers
    <3>3. shutting /\ ~complete /\ collected = {}
      BY <3>1
    <3>4. \A c \in Conns : dead'[c] /\ open'[c] => c \in collected'
      BY <3>1, <3>2, <3>3
    <3>5. \A u \in Closers : u # s => pc'[u] \notin Winning
      BY <3>1
    <3> QED
      BY <3>1, <3>3, <3>4, <3>5, SMTT(30)
  <2>7. CASE ClearConns(s)
    BY <2>7 DEF ClearConns, endVars
  <2>8. CASE JoinDriver(s)
    BY <2>8 DEF JoinDriver
  <2>9. CASE SetComplete(s)
    <3>1. /\ pc[s] = "complete" /\ pc'[s] = "notify" /\ complete'
          /\ UNCHANGED <<dead, open, shutting, collected>>
      BY <2>9 DEF SetComplete
    <3>2. shutting /\ collected = {}
      BY <3>1
    <3>3. \A u \in Closers : u # s => pc'[u] \notin Winning
      BY <3>1
    <3>4. /\ ~shutting' => \A u \in Closers : pc'[u] = "uncalled"
          /\ complete' => shutting'
          /\ complete' \/ ~shutting' => collected' = {}
          /\ \A u \in Closers : pc'[u] \in {"close", "collect", "complete"} => collected' = {}
      BY <3>1, <3>2
    <3>5. \A c \in Conns : dead'[c] /\ open'[c] => c \in collected'
      BY <3>1
    <3>6. \A u, v \in Closers : pc'[u] \in Winning /\ pc'[v] \in Winning => u = v
      BY <3>3
    <3>7. \A u \in Closers : pc'[u] \in Winning => pc'[u] = "notify"
      BY <3>1, <3>3
    <3> QED
      BY <3>4, <3>5, <3>6, <3>7, Zenon DEF Ending
  <2>10. CASE NotifyWaiters(s)
    <3>1. /\ pc[s] = "notify" /\ pc'[s] = "returned"
          /\ UNCHANGED <<dead, open, shutting, complete, collected>>
      BY <2>10 DEF NotifyWaiters
    <3>2. shutting
      BY <3>1
    <3> QED
      BY <3>1, <3>2, SMTT(30)
  <2> QED
    BY <1>5, <2>2, <2>3, <2>4, <2>5, <2>6, <2>7, <2>8, <2>9, <2>10, Zenon DEF CloserStep, ShutdownStep
<1>6. ASSUME UNCHANGED vars PROVE Ending'
  BY <1>2, <1>6 DEF vars, connVars
<1> QED
  BY <1>3, <1>4, <1>5, <1>6, Steps

-----------------------------------------------------------------------------
(* The leases.                                                               *)

LEMMA HoldersFinite == \A c : IsFiniteSet(Holders(c)) /\ Cardinality(Holders(c)) \in Nat
BY PoolThreads, FS_Subset, FS_CardinalityType DEF Holders

(* Nobody can have more leases, and an entry that nobody has is still idle. *)
LEMMA LeasesKept ==
  ASSUME Leases, UNCHANGED <<kind, idle, active, lease, dialled>>, \A c \in Conns : dead[c] => dead'[c]
  PROVE Leases'
<1>1. \A c : Holders(c)' = Holders(c)
  BY DEF Holders
<1> QED
  BY <1>1 DEF Leases

LEMMA LeaseTaken ==
  ASSUME Typing, Leases, NEW t \in Tasks, lease[t] = NoConn, NEW c \in Conns, Available(c), TakeLease(t, c),
         UNCHANGED dialled
  PROVE Leases'
<1>1. /\ lease \in [Tasks -> Conns \cup {NoConn}] /\ active \in [Conns -> Nat] /\ idle \in [Conns -> BOOLEAN]
  BY DEF Typing, TypeOK
<1>2. c # NoConn
  BY DEF Conns, NoConn
<1>3. Holders(c)' = Holders(c) \cup {t} /\ t \notin Holders(c)
  BY <1>1, <1>2 DEF Holders, TakeLease
<1>4. \A d \in Conns : d # c => Holders(d)' = Holders(d)
  BY <1>1 DEF Holders, TakeLease, Conns, NoConn
<1>5. Cardinality(Holders(c)') = Cardinality(Holders(c)) + 1
  BY <1>3, HoldersFinite, FS_AddElement
<1>6. UNCHANGED <<kind, dead>> /\ idle' = [idle EXCEPT ![c] = FALSE] /\ active' = [active EXCEPT ![c] = @ + 1]
  BY DEF TakeLease
<1>7. kind[c] = "h1" => Holders(c) = {}
  BY DEF Available, Leases
<1> SUFFICES ASSUME NEW d \in Conns
             PROVE /\ active'[d] = Cardinality(Holders(d)')
                   /\ kind'[d] = "h1" /\ idle'[d] => Holders(d)' = {}
                   /\ kind'[d] = "h1" => \A u, v \in Holders(d)' : u = v
                   /\ kind'[d] = "h1" /\ d <= dialled' /\ ~dead'[d] /\ Holders(d)' = {} => idle'[d]
  BY DEF Leases
<1>8. CASE d = c
  BY <1>1, <1>3, <1>5, <1>6, <1>7, <1>8, Zenon DEF Leases
<1>9. CASE d # c
  BY <1>1, <1>4, <1>6, <1>9 DEF Leases
<1> QED
  BY <1>8, <1>9

LEMMA LeaseDropped ==
  ASSUME Typing, Leases, NEW t \in Tasks, DropLease(t), UNCHANGED dialled
  PROVE Leases' /\ active' \in [Conns -> Nat]
<1>1. /\ lease \in [Tasks -> Conns \cup {NoConn}] /\ active \in [Conns -> Nat] /\ idle \in [Conns -> BOOLEAN]
      /\ dead \in [Conns -> BOOLEAN] /\ open \in [Conns -> BOOLEAN]
  BY DEF Typing, TypeOK
<1>2. CASE lease[t] = NoConn
  <2>1. UNCHANGED <<kind, idle, active, lease, dead>>
    BY <1>1, <1>2 DEF DropLease, connVars
  <2> QED
    BY <1>1, <2>1, LeasesKept
<1>3. CASE lease[t] # NoConn
  <2>0. PICK c \in Conns : c = lease[t]
    BY <1>1, <1>3
  <2>1. c \in Conns /\ c # NoConn
    BY <1>3, <2>0
  <2>2. Holders(c)' = Holders(c) \ {t} /\ t \in Holders(c)
    BY <1>1, <2>0, <2>1 DEF Holders, DropLease
  <2>3. \A d \in Conns : d # c => Holders(d)' = Holders(d)
    BY <1>1, <2>0, <2>1 DEF Holders, DropLease, Conns, NoConn
  <2>4. Cardinality(Holders(c)') = Cardinality(Holders(c)) - 1
    BY <2>2, HoldersFinite, FS_RemoveElement, Zenon
  <2>5. /\ dead' = [dead EXCEPT ![c] = @ \/ ~open[c]] /\ idle' = [idle EXCEPT ![c] = kind[c] = "h1" /\ open[c]]
        /\ active' = [active EXCEPT ![c] = @ - 1] /\ UNCHANGED kind
    BY <1>3, <2>0 DEF DropLease
  <2>6. kind[c] = "h1" => Holders(c)' = {}
    BY <2>1, <2>2 DEF Leases
  <2>7. active'[c] = Cardinality(Holders(c)') /\ Cardinality(Holders(c)') \in Nat
    <3>1. IsFiniteSet(Holders(c)')
      BY <2>2, HoldersFinite, FS_RemoveElement
    <3> QED
      BY <1>1, <2>1, <2>4, <2>5, <3>1, FS_CardinalityType DEF Leases
  <2>8. ASSUME NEW d \in Conns
        PROVE /\ active'[d] = Cardinality(Holders(d)')
              /\ kind'[d] = "h1" /\ idle'[d] => Holders(d)' = {}
              /\ kind'[d] = "h1" => \A u, v \in Holders(d)' : u = v
              /\ kind'[d] = "h1" /\ d <= dialled' /\ ~dead'[d] /\ Holders(d)' = {} => idle'[d]
    <3>1. CASE d = c
      BY <1>1, <2>1, <2>5, <2>6, <2>7, <3>1, Zenon
    <3>2. CASE d # c
      BY <1>1, <2>3, <2>5, <3>2 DEF Leases
    <3> QED
      BY <3>1, <3>2
  <2>9. active' \in [Conns -> Nat]
    BY <1>1, <2>1, <2>5, <2>7
  <2> QED
    BY <2>8, <2>9 DEF Leases
<1> QED
  BY <1>2, <1>3

LEMMA LeasesStep == Typing /\ Places /\ Leases /\ [Next]_vars => Leases'
<1> SUFFICES ASSUME Typing, Places, Leases, [Next]_vars PROVE Leases'
  OBVIOUS
<1>1. /\ conns \in Seq(Conns) /\ dialled \in 0 .. MaxDials /\ lease \in [Tasks -> Conns \cup {NoConn}]
      /\ kind \in [Conns -> {"h1", "h2"}] /\ idle \in [Conns -> BOOLEAN]
      /\ dead \in [Conns -> BOOLEAN] /\ at \in [Tasks -> Nat]
  BY DEF Typing, TypeOK
<1>2. ASSUME UNCHANGED <<kind, idle, active, lease, dialled, dead>> PROVE Leases'
  BY <1>2, LeasesKept
<1>3. ASSUME NEW t \in Tasks, AcquireStep(t) PROVE Leases'
  <2>1. CASE Acquire(t) \/ ScanEntry(t) \/ LockDial(t) \/ CountLive(t) \/ DialFails(t) \/ Insert(t)
    BY <1>2, <2>1, Zenon DEF Acquire, ScanEntry, LockDial, CountLive, DialFails, Insert, connVars, poolVars
  <2>2. CASE TakeEntry(t)
    <3>1. lease[t] = NoConn /\ conns[at[t]] \in Conns /\ UNCHANGED dialled
      <4>1. pc[t] = "take" /\ UNCHANGED dialled
        BY <2>2 DEF TakeEntry
      <4>2. lease[t] = NoConn /\ at[t] >= 1 /\ at[t] <= Len(conns)
        BY <4>1 DEF Places, Leasing
      <4> QED
        BY <1>1, <4>1, <4>2
    <3>2. CASE Available(conns[at[t]]) /\ TakeLease(t, conns[at[t]])
      BY <3>1, <3>2, LeaseTaken
    <3> QED
      BY <1>2, <2>2, <3>1, <3>2, Zenon DEF TakeEntry, connVars
  <2>3. CASE TakeNew(t)
    <3>1. lease[t] = NoConn /\ dialled \in Conns /\ UNCHANGED dialled
      <4>1. pc[t] = "takenew" /\ UNCHANGED dialled
        BY <2>3, Zenon DEF TakeNew
      <4>2. lease[t] = NoConn /\ dialled >= 1
        BY <4>1 DEF Places, Leasing
      <4> QED
        BY <1>1, <4>1, <4>2 DEF Conns
    <3>2. CASE Available(dialled) /\ TakeLease(t, dialled)
      BY <3>1, <3>2, LeaseTaken
    <3> QED
      BY <1>2, <2>3, <3>1, <3>2, Zenon DEF TakeNew, connVars
  <2>4. CASE Dial(t)
    <3> DEFINE new == dialled + 1
    <3>1. PICK k \in Protocols : kind' = [kind EXCEPT ![new] = k] /\ idle' = [idle EXCEPT ![new] = k = "h1"]
      BY <2>4, Zenon DEF Dial
    <3>2. UNCHANGED <<active, lease, dead>> /\ dialled' = new /\ new \in Conns
      BY <1>1, <2>4, PoolBounds DEF Dial, Conns
    <3>3. \A c : Holders(c)' = Holders(c)
      BY <3>2 DEF Holders
    <3>4. Holders(new) = {}
      BY <1>1 DEF Holders, Places, Conns, NoConn
    <3>5. \A c \in Conns : c <= new => c <= dialled \/ c = new
      BY <1>1, PoolBounds DEF Conns
    <3>6. PICK n \in Conns : n = new
      BY <3>2
    <3> HIDE DEF new
    <3>7. ASSUME NEW d \in Conns
          PROVE /\ active'[d] = Cardinality(Holders(d)')
                /\ kind'[d] = "h1" /\ idle'[d] => Holders(d)' = {}
                /\ kind'[d] = "h1" => \A u, v \in Holders(d)' : u = v
                /\ kind'[d] = "h1" /\ d <= dialled' /\ ~dead'[d] /\ Holders(d)' = {} => idle'[d]
      <4>1. CASE d = n
        BY <1>1, <3>1, <3>2, <3>3, <3>4, <3>6, <4>1, Zenon DEF Leases
      <4>2. CASE d # n
        BY <1>1, <3>1, <3>2, <3>3, <3>5, <3>6, <4>2 DEF Leases
      <4> QED
        BY <4>1, <4>2
    <3> QED
      BY <3>7 DEF Leases
  <2> QED
    BY <1>3, <2>1, <2>2, <2>3, <2>4, Zenon DEF AcquireStep
<1>4. ASSUME NEW t \in Tasks, AttemptStep(t) PROVE Leases'
  <2>1. CASE CheckSender(t)
    BY <1>2, <2>1, LeaseDropped, Zenon DEF CheckSender, connVars, poolVars
  <2>2. ASSUME NEW unsent, SendFails(t, unsent) PROVE Leases'
    BY <2>2, LeaseDropped, Zenon DEF SendFails, poolVars
  <2>3. CASE Respond(t) \/ EndBody(t) \/ AbortTask(t)
    BY <1>2, <2>3, LeaseDropped, Zenon DEF Respond, EndBody, AbortTask, connVars, poolVars
  <2> QED
    BY <1>4, <2>1, <2>2, <2>3, Zenon DEF AttemptStep
<1>5. ASSUME NEW t \in Tasks, PauseStep(t) PROVE Leases'
  BY <1>2, <1>5, Zenon DEF PauseStep, EnterPause, StoreGuard, LeavePause, ClearGuard, DropState, HoldGuard,
       connVars, poolVars
<1>6. ASSUME NEW c \in Conns, PeerCloses(c) PROVE Leases'
  BY <1>2, <1>6, Zenon DEF PeerCloses, poolVars
<1>7. ASSUME NEW s \in Closers, CloserStep(s) PROVE Leases'
  <2>1. UNCHANGED <<kind, idle, active, lease, dialled>>
    BY <1>7, CloserMoves, Zenon
  <2>2. CASE CollectDrivers(s)
    BY <1>1, <2>1, <2>2, LeasesKept DEF CollectDrivers
  <2>3. CASE UNCHANGED dead
    BY <1>2, <2>1, <2>3
  <2> QED
    BY <1>7, <2>2, <2>3, Zenon DEF CloserStep, ShutdownStep, CallShutdown, LookComplete, Register, WakeUp,
         CloseDoor, ClearConns, JoinDriver, SetComplete, NotifyWaiters, connVars
<1>8. ASSUME UNCHANGED vars PROVE Leases'
  BY <1>2, <1>8 DEF vars, connVars, poolVars
<1> QED
  BY <1>3, <1>4, <1>5, <1>6, <1>7, <1>8, Steps, Zenon DEF TaskStep

-----------------------------------------------------------------------------
(* The pause budget.                                                         *)

Guarded(c) == {t \in Tasks : guard[t] /\ bound[t] = c}

LEMMA GuardedFinite == \A c : IsFiniteSet(Guarded(c)) /\ Cardinality(Guarded(c)) \in Nat
BY PoolThreads, FS_Subset, FS_CardinalityType DEF Guarded

LEMMA PausesKept ==
  ASSUME PausesBalance, UNCHANGED paused, \A c \in Conns : Guarded(c)' = Guarded(c)
  PROVE PausesBalance'
BY DEF PausesBalance, Guarded

LEMMA GuardMoved ==
  ASSUME Typing, Progress, PausesBalance, NEW t \in Tasks, committed[t], NEW held \in BOOLEAN, HoldGuard(t, held)
  PROVE PausesBalance' /\ paused' \in [Conns -> Nat]
<1>1. /\ bound \in [Tasks -> Conns \cup {NoConn}] /\ paused \in [Conns -> Nat] /\ guard \in [Tasks -> BOOLEAN]
  BY DEF Typing, TypeOK
<1>2. PICK c \in Conns : bound[t] = c
  BY <1>1 DEF Progress
<1>3. /\ guard' = [guard EXCEPT ![t] = held] /\ bound' = bound
      /\ paused' = [paused EXCEPT ![c] = @ + (IF held THEN 1 ELSE 0) - (IF guard[t] THEN 1 ELSE 0)]
  BY <1>2 DEF HoldGuard
<1>4. \A d \in Conns : d # c => Guarded(d)' = Guarded(d) /\ paused'[d] = paused[d]
  BY <1>1, <1>2, <1>3 DEF Guarded
<1>5. paused[c] = Cardinality(Guarded(c))
  BY DEF PausesBalance, Guarded
<1>6. paused'[c] = Cardinality(Guarded(c)')
  <2>1. CASE held /\ ~guard[t]
    <3>1. Guarded(c)' = Guarded(c) \cup {t} /\ t \notin Guarded(c)
      BY <1>1, <1>2, <1>3, <2>1 DEF Guarded
    <3>2. Cardinality(Guarded(c)') = Cardinality(Guarded(c)) + 1
      BY <3>1, GuardedFinite, FS_AddElement, Zenon
    <3> QED
      BY <1>1, <1>3, <1>5, <2>1, <3>2
  <2>2. CASE ~held /\ guard[t]
    <3>1. Guarded(c)' = Guarded(c) \ {t} /\ t \in Guarded(c)
      BY <1>1, <1>2, <1>3, <2>2 DEF Guarded
    <3>2. Cardinality(Guarded(c)') = Cardinality(Guarded(c)) - 1
      BY <3>1, GuardedFinite, FS_RemoveElement, Zenon
    <3> QED
      BY <1>1, <1>3, <1>5, <2>2, <3>2
  <2>3. CASE held = guard[t]
    <3>1. Guarded(c)' = Guarded(c)
      BY <1>1, <1>3, <2>3 DEF Guarded
    <3> QED
      BY <1>1, <1>3, <1>5, <2>3, <3>1
  <2> QED
    BY <1>1, <2>1, <2>2, <2>3
<1>7. Cardinality(Guarded(c)') \in Nat
  <2>1. Guarded(c)' \subseteq Tasks
    BY DEF Guarded
  <2> QED
    BY <2>1, PoolThreads, FS_Subset, FS_CardinalityType
<1>8. paused' \in [Conns -> Nat]
  BY <1>1, <1>3, <1>6, <1>7
<1>9. PausesBalance'
  BY <1>4, <1>6, Zenon DEF PausesBalance, Guarded
<1> QED
  BY <1>8, <1>9

LEMMA PausesStep == Typing /\ Progress /\ PausesBalance /\ [Next]_vars => PausesBalance'
<1> SUFFICES ASSUME Typing, Progress, PausesBalance, [Next]_vars PROVE PausesBalance'
  OBVIOUS
<1>1. ASSUME UNCHANGED <<paused, guard, bound>> PROVE PausesBalance'
  BY <1>1 DEF PausesBalance
<1> USE DEF connVars, reqVars, pauseVars
<1>2. ASSUME NEW t \in Tasks, AcquireStep(t) PROVE PausesBalance'
  BY <1>1, <1>2, Zenon DEF AcquireStep, Acquire, ScanEntry, TakeEntry, TakeLease, LockDial, CountLive, Dial, DialFails,
       Insert, TakeNew
<1>3. ASSUME NEW t \in Tasks, DropLease(t) PROVE UNCHANGED paused
  BY <1>3, Zenon DEF DropLease
<1>4. ASSUME NEW t \in Tasks, CheckSender(t) PROVE PausesBalance'
  <2>1. UNCHANGED <<paused, guard>> /\ pc[t] = "leased" /\ \A u \in Tasks : u # t => bound'[u] = bound[u]
    <3>1. bound \in [Tasks -> Conns \cup {NoConn}]
      BY DEF Typing, TypeOK
    <3>2. CASE DropLease(t) /\ UNCHANGED bound
      BY <1>3, <1>4, <3>2, Zenon DEF CheckSender
    <3>3. CASE UNCHANGED connVars /\ bound' = [bound EXCEPT ![t] = lease[t]]
      BY <1>4, <3>1, <3>3 DEF CheckSender
    <3> QED
      BY <1>4, <3>2, <3>3, Zenon DEF CheckSender
  <2>2. ~guard[t]
    BY <2>1 DEF Progress, Answered
  <2>3. \A c \in Conns : Guarded(c)' = Guarded(c)
    BY <2>1, <2>2 DEF Guarded
  <2> QED
    BY <2>1, <2>3, PausesKept
<1>5. ASSUME NEW t \in Tasks, NEW unsent, SendFails(t, unsent) PROVE PausesBalance'
  BY <1>1, <1>3, <1>5, Zenon DEF SendFails
<1>6. ASSUME NEW t \in Tasks, Respond(t) \/ EndBody(t) \/ AbortTask(t) PROVE PausesBalance'
  BY <1>1, <1>3, <1>6, Zenon DEF Respond, EndBody, AbortTask
<1>7. ASSUME NEW t \in Tasks, EnterPause(t) \/ LeavePause(t) PROVE PausesBalance'
  BY <1>1, <1>7, Zenon DEF EnterPause, LeavePause
<1>8. ASSUME NEW t \in Tasks, StoreGuard(t) \/ ClearGuard(t) \/ DropState(t) PROVE PausesBalance'
  <2>1. committed[t] /\ \E held \in BOOLEAN : HoldGuard(t, held)
    BY <1>8, Zenon DEF StoreGuard, ClearGuard, DropState, Progress
  <2> QED
    BY <2>1, GuardMoved
<1>9. ASSUME NEW c \in Conns, PeerCloses(c) PROVE PausesBalance'
  BY <1>1, <1>9, Zenon DEF PeerCloses
<1>10. ASSUME NEW s \in Closers, CloserStep(s) PROVE PausesBalance'
  BY <1>1, <1>10, CloserMoves, Zenon
<1>11. ASSUME UNCHANGED vars PROVE PausesBalance'
  BY <1>1, <1>11, Zenon DEF vars
<1> QED
  BY <1>2, <1>4, <1>5, <1>6, <1>7, <1>8, <1>9, <1>10, <1>11, Steps, Zenon DEF TaskStep, AttemptStep, PauseStep
-----------------------------------------------------------------------------
(* The cap on connections.                                                   *)

LEMMA UpFinite == conns \in Seq(Conns) => IsFiniteSet(Up) /\ Cardinality(Up) \in Nat
<1> SUFFICES ASSUME conns \in Seq(Conns) PROVE IsFiniteSet(Up) /\ Cardinality(Up) \in Nat
  OBVIOUS
<1>1. IsFiniteSet(1 .. Len(conns))
  BY FS_Interval
<1> QED
  BY <1>1, FS_Subset, FS_CardinalityType DEF Up

(* No connection of the list comes up again. *)
LEMMA UpShrinks ==
  ASSUME conns \in Seq(Conns), UNCHANGED conns,
         \A i \in 1 .. Len(conns) : open'[conns[i]] /\ ~dead'[conns[i]] => open[conns[i]] /\ ~dead[conns[i]]
  PROVE Cardinality(Up') \in Nat /\ Cardinality(Up') <= Cardinality(Up)
<1>1. Up' \subseteq Up
  BY DEF Up
<1> QED
  BY <1>1, UpFinite, FS_Subset, FS_CardinalityType

LEMMA NoneComesUp ==
  ASSUME conns \in Seq(Conns), UNCHANGED conns,
         \A c \in Conns : open'[c] /\ ~dead'[c] => open[c] /\ ~dead[c]
  PROVE Cardinality(Up') \in Nat /\ Cardinality(Up') <= Cardinality(Up)
<1>1. \A i \in 1 .. Len(conns) : conns[i] \in Conns
  OBVIOUS
<1>2. \A i \in 1 .. Len(conns) : open'[conns[i]] /\ ~dead'[conns[i]] => open[conns[i]] /\ ~dead[conns[i]]
  BY <1>1, Zenon
<1> QED
  BY <1>2, UpShrinks, Zenon

LEMMA RoomStep == Typing /\ Places /\ Room /\ [Next]_vars => Room'
<1> SUFFICES ASSUME Typing, Places, Room, [Next]_vars PROVE Room'
  OBVIOUS
<1>1. /\ DOMAIN pc = Tasks \cup Closers /\ conns \in Seq(Conns) /\ dialled \in 0 .. MaxDials
      /\ dead \in [Conns -> BOOLEAN] /\ open \in [Conns -> BOOLEAN]
  BY DEF Typing, TypeOK
<1>2. Cardinality(Up) \in Nat
  BY <1>1, UpFinite
<1>3. ASSUME Cardinality(Up') \in Nat, Cardinality(Up') <= Cardinality(Up),
             \A t \in Tasks : pc'[t] \in {"dial", "insert"} => pc[t] \in {"dial", "insert"}
      PROVE Room'
  BY <1>2, <1>3, PoolBounds, SMTT(30) DEF Room
<1>4. ASSUME UNCHANGED <<conns, open, dead>> PROVE Up' = Up
  BY <1>4 DEF Up
<1>5. ASSUME NEW t \in Tasks, TaskStep(t) PROVE Room'
  <2>1. CASE CountLive(t)
    <3>1. Up' = Up /\ pc[t] = "count"
      BY <1>4, <2>1 DEF CountLive, connVars
    <3>2. CASE Go(t, "end")
      BY <1>1, <1>2, <1>3, <3>1, <3>2 DEF Go
    <3>3. CASE Cardinality(Live) < MaxConns /\ Go(t, "dial")
      <4>1. Up \subseteq Live /\ IsFiniteSet(Live)
        <5>1. IsFiniteSet(1 .. Len(conns))
          BY <1>1, FS_Interval
        <5> QED
          BY <5>1, FS_Subset DEF Up, Live, Closed
      <4>2. Cardinality(Up) <= Cardinality(Live) /\ Cardinality(Live) \in Nat
        BY <4>1, FS_Subset, FS_CardinalityType
      <4> QED
        BY <1>1, <1>2, <3>1, <3>3, <4>2, PoolBounds DEF Room, Go
    <3> QED
      BY <2>1, <3>2, <3>3 DEF CountLive, Settle
  <2>2. CASE Dial(t)
    <3>1. UNCHANGED <<conns, dead>> /\ dialled' = dialled + 1 /\ open' = [open EXCEPT ![dialled'] = TRUE]
      BY <2>2 DEF Dial
    <3>2. \A i \in 1 .. Len(conns) : conns[i] \in Conns /\ conns[i] # dialled + 1
      <4>1. \A i \in 1 .. Len(conns) : conns[i] \in Conns /\ conns[i] <= dialled
        BY <1>1 DEF Places
      <4>2. \A c \in Conns : c <= dialled => c # dialled + 1
        BY <1>1, PoolBounds DEF Conns
      <4> QED
        BY <4>1, <4>2
    <3>3. Cardinality(Up') \in Nat /\ Cardinality(Up') <= Cardinality(Up)
      <4>1. \A i \in 1 .. Len(conns) : open'[conns[i]] = open[conns[i]]
        BY <1>1, <3>1, <3>2
      <4> QED
        BY <1>1, <3>1, <4>1, UpShrinks, Zenon
    <3>4. \A u \in Tasks : pc'[u] \in {"dial", "insert"} => pc[u] \in {"dial", "insert"}
      BY <1>1, <2>2 DEF Dial, Go
    <3> QED
      BY <1>3, <3>3, <3>4
  <2>3. CASE Insert(t)
    <3>1. conns' = Append(conns, dialled) /\ UNCHANGED <<open, dead>> /\ pc[t] = "insert" /\ Go(t, "takenew")
      BY <2>3 DEF Insert, connVars
    <3>2. Up' \subseteq Up \cup {Len(conns) + 1} /\ Len(conns) + 1 \notin Up
      BY <1>1, <3>1 DEF Up
    <3>3. IsFiniteSet(Up \cup {Len(conns) + 1}) /\ Cardinality(Up \cup {Len(conns) + 1}) = Cardinality(Up) + 1
      BY <1>1, <3>2, UpFinite, FS_AddElement
    <3>4. Cardinality(Up') \in Nat /\ Cardinality(Up') <= Cardinality(Up) + 1
      BY <3>2, <3>3, FS_Subset, FS_CardinalityType
    <3>5. Cardinality(Up') <= MaxConns
      BY <1>2, <3>1, <3>4, PoolBounds DEF Room
    <3>6. \A u \in Tasks : pc'[u] \notin {"dial", "insert"}
      BY <1>1, <3>1 DEF Go, Places, Dialling
    <3> QED
      BY <3>5, <3>6 DEF Room
  <2>4. CASE ~CountLive(t) /\ ~Dial(t) /\ ~Insert(t)
    <3>1. UNCHANGED conns
      BY <1>5, <2>4, Zenon DEF TaskStep, AcquireStep, Acquire, ScanEntry, TakeEntry, LockDial, DialFails, TakeNew,
           AttemptStep, CheckSender, SendFails, Respond, EndBody, AbortTask,
           PauseStep, EnterPause, StoreGuard, LeavePause, ClearGuard, DropState, HoldGuard, poolVars
    <3>2. UNCHANGED open /\ \A c \in Conns : dead[c] => dead'[c]
      BY <1>5, <2>4, TaskConns
    <3>3. Cardinality(Up') \in Nat /\ Cardinality(Up') <= Cardinality(Up)
      BY <1>1, <3>1, <3>2, NoneComesUp, Zenon
    <3>4. pc'[t] \in {"dial", "insert"} => pc[t] \in {"dial", "insert"}
      <4>1. \/ UNCHANGED pc
            \/ \E l \in {"start", "scan", "take", "lock", "count", "leased", "send", "body", "end", "over"} : Go(t, l)
        BY <1>5, <2>4, ZenonT(30) DEF TaskStep, AcquireStep, Acquire, ScanEntry, TakeEntry, LockDial, DialFails, TakeNew,
             AttemptStep, CheckSender, SendFails, Respond, EndBody, AbortTask, Again, Settle,
             PauseStep, EnterPause, StoreGuard, LeavePause, ClearGuard, DropState, HoldGuard
      <4> QED
        BY <1>1, <4>1 DEF Go
    <3> QED
      BY <1>3, <1>5, <3>3, <3>4, TaskMoves
  <2> QED
    BY <2>1, <2>2, <2>3, <2>4
<1>6. ASSUME NEW c \in Conns, PeerCloses(c) PROVE Room'
  <2>1. UNCHANGED <<conns, dead, pc>> /\ \A d \in Conns : open'[d] => open[d]
    BY <1>1, <1>6 DEF PeerCloses, poolVars
  <2>2. Cardinality(Up') \in Nat /\ Cardinality(Up') <= Cardinality(Up)
    BY <1>1, <2>1, NoneComesUp, Zenon
  <2> QED
    BY <1>3, <2>1, <2>2, Zenon
<1>7. ASSUME NEW s \in Closers, CloserStep(s) PROVE Room'
  <2>1. \A t \in Tasks : pc'[t] = pc[t]
    BY <1>7, CloserMoves, PoolThreads
  <2>2. CASE ClearConns(s)
    <3>1. Up' = {}
      BY <2>2 DEF ClearConns, Up
    <3>2. Cardinality({}) = 0
      BY FS_EmptySet, Zenon
    <3>3. Cardinality(Up') = 0
      BY <3>1, <3>2, Zenon
    <3>4. \A t \in Tasks : pc'[t] \in {"dial", "insert"} => pc[t] \in {"dial", "insert"}
      BY <2>1, Zenon
    <3>5. Cardinality(Up') \in Nat /\ Cardinality(Up') <= Cardinality(Up)
      BY <1>2, <3>3
    <3> QED
      BY <1>3, <3>4, <3>5, Zenon
  <2>3. CASE CollectDrivers(s)
    <3>1. UNCHANGED <<conns, open>> /\ \A c \in Conns : dead[c] => dead'[c]
      BY <1>1, <2>3 DEF CollectDrivers, poolVars
    <3>2. Cardinality(Up') \in Nat /\ Cardinality(Up') <= Cardinality(Up)
      BY <1>1, <3>1, NoneComesUp, Zenon
    <3> QED
      BY <1>3, <2>1, <3>2, Zenon
  <2>4. CASE JoinDriver(s)
    <3>1. UNCHANGED <<conns, dead>> /\ \A c \in Conns : open'[c] => open[c]
      BY <1>1, <2>4 DEF JoinDriver, poolVars
    <3>2. Cardinality(Up') \in Nat /\ Cardinality(Up') <= Cardinality(Up)
      BY <1>1, <3>1, NoneComesUp, Zenon
    <3> QED
      BY <1>3, <2>1, <3>2, Zenon
  <2>5. CASE UNCHANGED <<conns, open, dead>>
    <3>1. Up' = Up
      BY <1>4, <2>5
    <3>2. Cardinality(Up') \in Nat /\ Cardinality(Up') <= Cardinality(Up)
      BY <1>2, <3>1
    <3> QED
      BY <1>3, <2>1, <3>2
  <2> QED
    BY <1>7, <2>2, <2>3, <2>4, <2>5, Zenon DEF CloserStep, ShutdownStep, CallShutdown, LookComplete, Register,
         WakeUp, CloseDoor, SetComplete, NotifyWaiters, connVars, poolVars
<1>8. ASSUME UNCHANGED vars PROVE Room'
  BY <1>2, <1>3, <1>4, <1>8 DEF vars, connVars, poolVars
<1> QED
  BY <1>5, <1>6, <1>7, <1>8, Steps

-----------------------------------------------------------------------------
(* Types, by what the variables are about.                                   *)

ConnTypes ==
  /\ kind \in [Conns -> {"h1", "h2"}] /\ idle \in [Conns -> BOOLEAN]
  /\ active \in [Conns -> Nat] /\ paused \in [Conns -> Nat]
  /\ dead \in [Conns -> BOOLEAN] /\ open \in [Conns -> BOOLEAN]

PoolTypes ==
  /\ conns \in Seq(Conns) /\ dialled \in 0 .. MaxDials /\ dialer \in Tasks \cup {Nobody}
  /\ closed \in BOOLEAN /\ shutting \in BOOLEAN /\ complete \in BOOLEAN
  /\ collected \subseteq Conns /\ woken \subseteq Closers

TaskTypes ==
  /\ at \in [Tasks -> Nat] /\ lease \in [Tasks -> Conns \cup {NoConn}]
  /\ bound \in [Tasks -> Conns \cup {NoConn}]
  /\ parked \in [Tasks -> BOOLEAN] /\ guard \in [Tasks -> BOOLEAN]
  /\ entering \in [Tasks -> BOOLEAN] /\ leaving \in [Tasks -> BOOLEAN]
  /\ budget \in [Tasks -> 0 .. MaxRetries] /\ committed \in [Tasks -> BOOLEAN]
  /\ reached \in [Tasks -> Nat]

LEMMA TypeParts ==
  TypeOK <=> /\ ConnTypes /\ PoolTypes /\ TaskTypes
             /\ pc \in [Tasks \cup Closers -> TaskLabels \cup CloserLabels]
BY Zenon DEF TypeOK, ConnTypes, PoolTypes, TaskTypes

LEMMA ConnsStep ==
  ASSUME Typing, Places, Progress, Leases, PausesBalance, [Next]_vars
  PROVE ConnTypes'
<1>1. ConnTypes /\ conns \in Seq(Conns) /\ dialled \in 0 .. MaxDials /\ at \in [Tasks -> Nat]
      /\ collected \subseteq Conns /\ lease \in [Tasks -> Conns \cup {NoConn}]
  BY Zenon DEF Typing, TypeOK, ConnTypes
<1>2. ASSUME UNCHANGED connVars PROVE ConnTypes'
  BY <1>1, <1>2 DEF ConnTypes, connVars
<1>3. ASSUME NEW t \in Tasks, NEW c \in Conns, TakeLease(t, c) PROVE ConnTypes'
  BY <1>1, <1>3 DEF ConnTypes, TakeLease
<1>4. ASSUME NEW t \in Tasks, DropLease(t), UNCHANGED dialled PROVE ConnTypes'
  <2>1. active' \in [Conns -> Nat]
    BY <1>4, LeaseDropped
  <2>2. CASE lease[t] = NoConn
    BY <1>2, <1>4, <2>2, Zenon DEF DropLease
  <2>3. CASE lease[t] # NoConn
    BY <1>1, <1>4, <2>1, <2>3, Zenon DEF ConnTypes, DropLease
  <2> QED
    BY <2>2, <2>3
<1>5. ASSUME NEW t \in Tasks, AcquireStep(t) PROVE ConnTypes'
  <2>1. CASE Acquire(t) \/ ScanEntry(t) \/ LockDial(t) \/ CountLive(t) \/ DialFails(t) \/ Insert(t)
    BY <1>2, <2>1, Zenon DEF Acquire, ScanEntry, LockDial, CountLive, DialFails, Insert
  <2>2. CASE TakeEntry(t)
    <3>1. conns[at[t]] \in Conns
      BY <1>1, <2>2, SMTT(30) DEF TakeEntry, Places
    <3> QED
      BY <1>2, <1>3, <2>2, <3>1, Zenon DEF TakeEntry
  <2>3. CASE TakeNew(t)
    <3>1. dialled \in Conns
      BY <1>1, <2>3, PoolBounds, SMTT(30) DEF TakeNew, Places, Conns
    <3> QED
      BY <1>2, <1>3, <2>3, <3>1, Zenon DEF TakeNew
  <2>4. CASE Dial(t)
    <3>1. PICK k \in Protocols :
            kind' = [kind EXCEPT ![dialled'] = k] /\ idle' = [idle EXCEPT ![dialled'] = k = "h1"]
      BY <2>4, Zenon DEF Dial
    <3> QED
      BY <1>1, <2>4, <3>1, PoolChoices, Zenon DEF Dial, ConnTypes
  <2> QED
    BY <1>5, <2>1, <2>2, <2>3, <2>4, Zenon DEF AcquireStep
<1>6. ASSUME NEW t \in Tasks, AttemptStep(t) PROVE ConnTypes'
  BY <1>2, <1>4, <1>6, Zenon DEF AttemptStep, CheckSender, SendFails, Respond, EndBody, AbortTask, poolVars
<1>7. ASSUME NEW t \in Tasks, PauseStep(t) PROVE ConnTypes'
  <2>1. CASE EnterPause(t) \/ LeavePause(t)
    BY <1>2, <2>1, Zenon DEF EnterPause, LeavePause
  <2>2. CASE StoreGuard(t) \/ ClearGuard(t) \/ DropState(t)
    <3>1. committed[t] /\ \E held \in BOOLEAN : HoldGuard(t, held)
      BY <2>2, Zenon DEF StoreGuard, ClearGuard, DropState, Progress
    <3>2. paused' \in [Conns -> Nat] /\ UNCHANGED <<kind, idle, active, dead, open>>
      BY <3>1, GuardMoved, Zenon DEF HoldGuard
    <3> QED
      BY <1>1, <3>2 DEF ConnTypes
  <2> QED
    BY <1>7, <2>1, <2>2, Zenon DEF PauseStep
<1>8. ASSUME NEW c \in Conns, PeerCloses(c) PROVE ConnTypes'
  BY <1>1, <1>8 DEF PeerCloses, ConnTypes
<1>9. ASSUME NEW s \in Closers, CloserStep(s) PROVE ConnTypes'
  <2>1. CASE CollectDrivers(s)
    BY <1>1, <2>1 DEF CollectDrivers, ConnTypes
  <2>2. CASE JoinDriver(s)
    BY <1>1, <2>2, Zenon DEF JoinDriver, ConnTypes
  <2> QED
    BY <1>2, <1>9, <2>1, <2>2, Zenon DEF CloserStep, ShutdownStep, CallShutdown, LookComplete, Register,
         WakeUp, CloseDoor, ClearConns, SetComplete, NotifyWaiters
<1> QED
  BY <1>2, <1>5, <1>6, <1>7, <1>8, <1>9, Steps, Zenon DEF TaskStep, vars

LEMMA PoolStep == Typing /\ Places /\ [Next]_vars => PoolTypes'
<1> SUFFICES ASSUME Typing, Places, [Next]_vars PROVE PoolTypes'
  OBVIOUS
<1>1. PoolTypes
  BY Zenon DEF Typing, TypeOK, PoolTypes
<1>2. ASSUME UNCHANGED <<conns, dialled, endVars>>, dialer' \in Tasks \cup {Nobody} PROVE PoolTypes'
  BY <1>1, <1>2 DEF PoolTypes, endVars
<1>3. ASSUME NEW t \in Tasks, Unlock(t) PROVE dialer' \in Tasks \cup {Nobody}
  BY <1>1, <1>3 DEF PoolTypes, Unlock
<1>4. dialer \in Tasks \cup {Nobody}
  BY <1>1 DEF PoolTypes
<1>5. ASSUME NEW t \in Tasks, AcquireStep(t) PROVE PoolTypes'
  <2>1. CASE Dial(t)
    BY <1>1, <2>1, PoolBounds DEF Dial, PoolTypes, endVars
  <2>2. CASE Insert(t)
    <3>1. dialled \in Conns
      <4>1. pc[t] = "insert"
        BY <2>2, Zenon DEF Insert
      <4>2. dialled >= 1
        BY <4>1 DEF Places
      <4>3. dialled \in 0 .. MaxDials
        BY <1>1, Zenon DEF PoolTypes
      <4> QED
        BY <4>2, <4>3, PoolBounds DEF Conns
    <3> QED
      BY <1>1, <2>2, <3>1 DEF Insert, PoolTypes, endVars
  <2>3. CASE LockDial(t)
    BY <1>2, <2>3 DEF LockDial
  <2> QED
    BY <1>2, <1>3, <1>4, <1>5, <2>1, <2>2, <2>3, Zenon DEF AcquireStep, Acquire, ScanEntry, TakeEntry, CountLive,
         DialFails, TakeNew, poolVars
<1>6. ASSUME NEW t \in Tasks, AttemptStep(t) \/ PauseStep(t) PROVE PoolTypes'
  BY <1>2, <1>3, <1>4, <1>6, Zenon DEF AttemptStep, CheckSender, SendFails, Respond, EndBody, AbortTask,
       PauseStep, EnterPause, StoreGuard, LeavePause, ClearGuard, DropState, HoldGuard, poolVars
<1>7. ASSUME NEW c \in Conns, PeerCloses(c) PROVE PoolTypes'
  BY <1>2, <1>4, <1>7, Zenon DEF PeerCloses, poolVars
<1>8. ASSUME NEW s \in Closers, CloserStep(s) PROVE PoolTypes'
  <2> USE <1>1 DEF PoolTypes, poolVars, endVars
  <2>1. CASE CallShutdown(s) \/ LookComplete(s) \/ WakeUp(s) \/ CloseDoor(s)
    BY <2>1, Zenon DEF CallShutdown, LookComplete, WakeUp, CloseDoor
  <2>2. CASE Register(s) \/ NotifyWaiters(s) \/ SetComplete(s)
    BY <2>2, Zenon DEF Register, NotifyWaiters, SetComplete
  <2>3. CASE CollectDrivers(s)
    <3>1. collected' = {conns[i] : i \in 1 .. Len(conns)}
      BY <2>3, Zenon DEF CollectDrivers
    <3>2. UNCHANGED <<conns, dialled, dialer, closed, shutting, complete, woken>>
      BY <2>3, Zenon DEF CollectDrivers
    <3>3. \A i \in 1 .. Len(conns) : conns[i] \in Conns
      BY SMTT(30)
    <3>4. collected' \subseteq Conns
      BY <3>1, <3>3, Zenon
    <3> QED
      BY <3>2, <3>4, Zenon
  <2>4. CASE ClearConns(s)
    BY <2>4 DEF ClearConns
  <2>5. CASE JoinDriver(s)
    BY <2>5 DEF JoinDriver
  <2> QED
    BY <1>8, <2>1, <2>2, <2>3, <2>4, <2>5, Zenon DEF CloserStep, ShutdownStep
<1> QED
  BY <1>2, <1>4, <1>5, <1>6, <1>7, <1>8, Steps, Zenon DEF TaskStep, vars, poolVars

LEMMA TasksStep == Typing /\ Places /\ [Next]_vars => TaskTypes'
<1> SUFFICES ASSUME Typing, Places, [Next]_vars PROVE TaskTypes'
  OBVIOUS
<1>1. /\ TaskTypes /\ conns \in Seq(Conns) /\ dialled \in 0 .. MaxDials
  BY Zenon DEF Typing, TypeOK, TaskTypes
<1>2. ASSUME UNCHANGED reqVars, at' \in [Tasks -> Nat], lease' \in [Tasks -> Conns \cup {NoConn}]
      PROVE TaskTypes'
  BY <1>1, <1>2 DEF TaskTypes, reqVars, pauseVars
<1>3. at \in [Tasks -> Nat] /\ lease \in [Tasks -> Conns \cup {NoConn}]
  BY <1>1 DEF TaskTypes
<1>4. ASSUME NEW t \in Tasks, DropLease(t) PROVE lease' \in [Tasks -> Conns \cup {NoConn}]
  BY <1>3, <1>4 DEF DropLease
<1>5. ASSUME NEW t \in Tasks, AcquireStep(t) PROVE TaskTypes'
  <2>1. CASE Acquire(t) \/ LockDial(t) \/ CountLive(t) \/ DialFails(t) \/ Insert(t) \/ Dial(t)
    BY <1>2, <1>3, <2>1, Zenon DEF Acquire, LockDial, CountLive, DialFails, Insert, Dial
  <2>2. CASE ScanEntry(t)
    <3>1. at' \in [Tasks -> Nat] /\ UNCHANGED <<lease, reqVars>>
      BY <1>3, <2>2 DEF ScanEntry
    <3> QED
      BY <1>2, <1>3, <3>1
  <2>3. CASE TakeEntry(t)
    <3>1. conns[at[t]] \in Conns
      <4>1. pc[t] = "take"
        BY <2>3, Zenon DEF TakeEntry
      <4>2. at[t] >= 1 /\ at[t] <= Len(conns)
        BY <4>1 DEF Places
      <4>3. at[t] \in Nat
        BY <1>3, Zenon DEF TaskTypes
      <4> QED
        BY <1>1, <4>2, <4>3
    <3>2. at' \in [Tasks -> Nat] /\ lease' \in [Tasks -> Conns \cup {NoConn}] /\ UNCHANGED reqVars
      BY <1>3, <2>3, <3>1 DEF TakeEntry, TakeLease
    <3> QED
      BY <1>2, <3>2
  <2>4. CASE TakeNew(t)
    <3>1. dialled \in Conns
      <4>1. pc[t] = "takenew"
        BY <2>4, Zenon DEF TakeNew
      <4>2. dialled >= 1
        BY <4>1 DEF Places
      <4> QED
        BY <1>1, <4>2, PoolBounds DEF Conns
    <3>2. UNCHANGED at /\ lease' \in [Tasks -> Conns \cup {NoConn}] /\ UNCHANGED reqVars
      BY <1>3, <2>4, <3>1 DEF TakeNew, TakeLease, reqVars
    <3> QED
      BY <1>2, <1>3, <3>2
  <2> QED
    BY <1>5, <2>1, <2>2, <2>3, <2>4, Zenon DEF AcquireStep
<1>6. ASSUME NEW t \in Tasks, Again(t), budget[t] > 0 PROVE budget' \in [Tasks -> 0 .. MaxRetries]
  BY <1>1, <1>6, PoolBounds DEF Again, TaskTypes
<1>7. ASSUME NEW t \in Tasks, CheckSender(t) PROVE TaskTypes'
  <2>1. budget' \in [Tasks -> 0 .. MaxRetries] /\ lease' \in [Tasks -> Conns \cup {NoConn}]
    BY <1>1, <1>3, <1>4, <1>6, <1>7 DEF CheckSender, TaskTypes
  <2>2. bound' \in [Tasks -> Conns \cup {NoConn}] /\ UNCHANGED <<at, pauseVars, committed, reached>>
    BY <1>1, <1>3, <1>7, Zenon DEF CheckSender, TaskTypes
  <2> QED
    BY <1>1, <2>1, <2>2 DEF TaskTypes, pauseVars
<1>8. ASSUME NEW t \in Tasks, NEW unsent, SendFails(t, unsent) PROVE TaskTypes'
  <2>1. budget' \in [Tasks -> 0 .. MaxRetries] /\ lease' \in [Tasks -> Conns \cup {NoConn}]
    BY <1>1, <1>4, <1>6, <1>8 DEF SendFails, MayRetry, TaskTypes
  <2>2. UNCHANGED <<at, bound, pauseVars, committed>>
    BY <1>8, Zenon DEF SendFails
  <2>3. reached' = reached \/ reached' = [reached EXCEPT ![t] = @ + 1]
    BY <1>8, Zenon DEF SendFails
  <2>4. reached \in [Tasks -> Nat]
    BY <1>1, Zenon DEF TaskTypes
  <2>5. reached' \in [Tasks -> Nat]
    BY <2>3, <2>4
  <2> QED
    BY <1>1, <2>1, <2>2, <2>5 DEF TaskTypes, pauseVars
<1>9. ASSUME NEW t \in Tasks, Respond(t) PROVE TaskTypes'
  <2>1. UNCHANGED <<at, lease, bound, pauseVars, budget>>
    BY <1>9, Zenon DEF Respond
  <2>2. reached' = [reached EXCEPT ![t] = @ + 1] /\ committed' = [committed EXCEPT ![t] = TRUE]
    BY <1>9, Zenon DEF Respond
  <2>3. reached \in [Tasks -> Nat] /\ committed \in [Tasks -> BOOLEAN]
    BY <1>1, Zenon DEF TaskTypes
  <2>4. reached' \in [Tasks -> Nat]
    BY <2>2, <2>3
  <2>5. committed' \in [Tasks -> BOOLEAN]
    BY <2>2, <2>3, Zenon
  <2> QED
    BY <1>1, <2>1, <2>4, <2>5, Zenon DEF TaskTypes, pauseVars
<1>10. ASSUME NEW t \in Tasks, EndBody(t) \/ AbortTask(t) PROVE TaskTypes'
  BY <1>2, <1>3, <1>4, <1>10, Zenon DEF EndBody, AbortTask, reqVars
<1>11. ASSUME NEW t \in Tasks, PauseStep(t) PROVE TaskTypes'
  <2>1. /\ parked \in [Tasks -> BOOLEAN] /\ guard \in [Tasks -> BOOLEAN]
        /\ entering \in [Tasks -> BOOLEAN] /\ leaving \in [Tasks -> BOOLEAN]
    BY <1>1 DEF TaskTypes
  <2>2. /\ parked' \in [Tasks -> BOOLEAN] /\ guard' \in [Tasks -> BOOLEAN]
        /\ entering' \in [Tasks -> BOOLEAN] /\ leaving' \in [Tasks -> BOOLEAN]
    BY <1>11, <2>1, Zenon DEF PauseStep, EnterPause, StoreGuard, LeavePause, ClearGuard, DropState, HoldGuard
  <2>3. UNCHANGED <<at, lease, bound, budget, committed, reached>>
    BY <1>11, Zenon DEF PauseStep, EnterPause, StoreGuard, LeavePause, ClearGuard, DropState, HoldGuard
  <2> QED
    BY <1>1, <2>2, <2>3 DEF TaskTypes
<1>12. ASSUME NEW c \in Conns, PeerCloses(c) PROVE TaskTypes'
  BY <1>2, <1>3, <1>12, Zenon DEF PeerCloses
<1>13. ASSUME NEW s \in Closers, CloserStep(s) PROVE TaskTypes'
  BY <1>2, <1>3, <1>13, CloserMoves, Zenon
<1> QED
  BY <1>2, <1>3, <1>5, <1>7, <1>8, <1>9, <1>10, <1>11, <1>12, <1>13, Steps, Zenon DEF TaskStep, AttemptStep, vars
-----------------------------------------------------------------------------
LEMMA Initially == Init => IInv
<1> SUFFICES ASSUME Init PROVE IInv
  OBVIOUS
<1>1. Typing
  <2>1. ConnTypes
    BY DEF Init, ConnTypes
  <2>2. PoolTypes
    <3>1. conns \in Seq(Conns) /\ dialled \in 0 .. MaxDials /\ dialer \in Tasks \cup {Nobody}
      BY PoolBounds DEF Init
    <3>2. /\ closed \in BOOLEAN /\ shutting \in BOOLEAN /\ complete \in BOOLEAN
          /\ collected \subseteq Conns /\ woken \subseteq Closers
      BY Zenon DEF Init
    <3> QED
      BY <3>1, <3>2, Zenon DEF PoolTypes
  <2>3. TaskTypes
    <3>1. /\ parked \in [Tasks -> BOOLEAN] /\ guard \in [Tasks -> BOOLEAN]
          /\ entering \in [Tasks -> BOOLEAN] /\ leaving \in [Tasks -> BOOLEAN]
          /\ committed \in [Tasks -> BOOLEAN]
      BY DEF Init
    <3>2. /\ at \in [Tasks -> Nat] /\ lease \in [Tasks -> Conns \cup {NoConn}]
          /\ bound \in [Tasks -> Conns \cup {NoConn}]
          /\ budget \in [Tasks -> 0 .. MaxRetries] /\ reached \in [Tasks -> Nat]
      BY PoolBounds DEF Init
    <3> QED
      BY <3>1, <3>2 DEF TaskTypes
  <2>4. /\ pc \in [Tasks \cup Closers -> TaskLabels \cup CloserLabels]
        /\ \A t \in Tasks : pc[t] = "start"
        /\ \A s \in Closers : pc[s] = "uncalled"
    BY PoolThreads DEF Init, TaskLabels, CloserLabels, AcquireLabels
  <2> QED
    BY <2>1, <2>2, <2>3, <2>4, TypeParts DEF Typing, TaskLabels, CloserLabels, AcquireLabels
<1>2. /\ \A t \in Tasks : pc[t] = "start"
      /\ \A s \in Closers : pc[s] = "uncalled"
  BY PoolThreads DEF Init
<1>3. Places
  <2>1. conns = <<>> /\ dialled = 0
    BY Zenon DEF Init
  <2>2. \A t \in Tasks : lease[t] = NoConn /\ at[t] = 1
    BY Zenon DEF Init
  <2>3. \A i \in 1 .. Len(conns) : conns[i] <= dialled
    BY <2>1
  <2>4. \A t \in Tasks : lease[t] <= dialled /\ at[t] >= 1
    BY <2>1, <2>2 DEF NoConn
  <2>5. \A t \in Tasks : /\ lease[t] # NoConn <=> pc[t] \in Leasing
                         /\ pc[t] # "take" /\ pc[t] \notin Dialling
                         /\ pc[t] \notin {"insert", "takenew"}
    BY <1>2, <2>2 DEF Leasing, Dialling
  <2> QED
    BY <2>3, <2>4, <2>5, Zenon DEF Places
<1>4. Progress
  <2>1. \A t \in Tasks : /\ ~committed[t] /\ ~parked[t] /\ ~guard[t]
                         /\ ~entering[t] /\ ~leaving[t]
    BY Zenon DEF Init
  <2>2. \A t \in Tasks : reached[t] = 0
    BY Zenon DEF Init
  <2>3. \A t \in Tasks : pc[t] # "send" /\ ~(reached[t] > 0)
    BY <1>2, <2>2
  <2> QED
    BY <2>1, <2>3, Zenon DEF Progress
<1>5. Fresh
  BY Zenon DEF Init, Fresh
<1>6. \A c \in Conns : Holders(c) = {} /\ Guarded(c) = {}
  <2>1. \A t \in Tasks : lease[t] = 0 /\ ~guard[t]
    BY Zenon DEF Init, NoConn
  <2>2. \A c \in Conns : c # 0
    BY DEF Conns
  <2> QED
    BY <2>1, <2>2 DEF Holders, Guarded
<1>7. Leases
  <2>1. \A c \in Conns : active[c] = 0 /\ ~idle[c] /\ ~(c <= dialled)
    BY PoolBounds DEF Init, Conns
  <2> QED
    BY <1>6, <2>1, FS_EmptySet DEF Leases
<1>8. PausesBalance
  BY <1>6, FS_EmptySet, Zenon DEF Init, PausesBalance, Guarded
<1>9. Room
  <2>1. Up = {}
    BY DEF Init, Up
  <2> QED
    BY <1>2, <2>1, FS_EmptySet, PoolBounds DEF Room
<1>10. Ending
  BY <1>2 DEF Init, Ending, Winning
<1> QED
  BY <1>1, <1>3, <1>4, <1>5, <1>7, <1>8, <1>9, <1>10, Zenon DEF IInv

(* Every step of a task, of a closer or of a peer keeps the invariant. *)
LEMMA Kept == IInv /\ [Next]_vars => IInv'
<1> SUFFICES ASSUME IInv, [Next]_vars PROVE IInv'
  OBVIOUS
<1>1. Typing'
  <2>1. Typing /\ Places /\ Progress /\ Leases /\ PausesBalance
    BY Zenon DEF IInv
  <2>2. ConnTypes' /\ PoolTypes' /\ TaskTypes'
    BY <2>1, ConnsStep, PoolStep, TasksStep, Zenon
  <2> QED
    BY <2>1, <2>2, LabelsStep, TypeParts, Zenon DEF Typing, TypeOK, ConnTypes, PoolTypes, TaskTypes
<1> QED
  BY <1>1, PlacesStep, ProgressStep, FreshStep, LeasesStep, PausesStep, RoomStep, EndingStep, Zenon DEF IInv

(* The inductive invariant holds in every reachable state. *)
THEOREM Inductive == Spec => []IInv
<1>1. Init => IInv
  BY Initially
<1>2. IInv /\ [Next]_vars => IInv'
  BY Kept
<1> QED
  BY <1>1, <1>2, PTL DEF Spec

(* Every field of the pool, of its entries and of the leases keeps its type: *)
(* no count of active or paused requests and no retry budget goes below 0.   *)
THEOREM TypeCorrect == Spec => []TypeOK
<1>1. IInv => TypeOK
  BY DEF IInv, Typing
<1> QED
  BY <1>1, Inductive, PTL

(* Lease and take_lease: an entry's active count is the number of its leases, *)
(* an H1 connection has one user at most, and its sender is idle in the pool *)
(* whenever nobody has it and the connection is not dead.                    *)
THEOREM LeasesKeptInBalance == Spec => []LeasesBalance
<1>1. IInv => LeasesBalance
  <2> SUFFICES ASSUME IInv, NEW c \in Conns
               PROVE /\ active[c] = Cardinality(Holders(c))
                     /\ kind[c] = "h1" => Cardinality(Holders(c)) <= 1
                     /\ kind[c] = "h1" /\ c <= dialled /\ ~dead[c] => (idle[c] <=> Holders(c) = {})
    BY DEF LeasesBalance
  <2>1. Leases /\ idle \in [Conns -> BOOLEAN]
    BY DEF IInv, Typing, TypeOK
  <2>2. ASSUME kind[c] = "h1" PROVE Cardinality(Holders(c)) <= 1
    <3>1. CASE Holders(c) = {}
      BY <3>1, FS_EmptySet
    <3>2. ASSUME NEW t \in Holders(c) PROVE Cardinality(Holders(c)) <= 1
      <4>1. Holders(c) = {t}
        BY <2>1, <2>2 DEF Leases
      <4> QED
        BY <4>1, FS_Singleton
    <3> QED
      BY <3>1, <3>2
  <2> QED
    BY <2>1, <2>2 DEF Leases
<1> QED
  BY <1>1, Inductive, PTL

(* acquire counts under the dial lock: the live connections of a key never   *)
(* exceed max_conns_per_key, however many tasks dial.                        *)
THEOREM CapKept == Spec => []ConnCap
<1>1. IInv => ConnCap
  BY DEF IInv, Room, Up, ConnCap
<1> QED
  BY <1>1, Inductive, PTL

(* Pool::shutdown: once it is complete, no connection it has marked dead has *)
(* a driver running.                                                         *)
THEOREM DriversEnd == Spec => []DriversJoined
<1>1. IInv => DriversJoined
  BY DEF IInv, Ending, DriversJoined
<1> QED
  BY <1>1, Inductive, PTL

(* may_retry: a committed request, or one that is not idempotent and may     *)
(* have reached the peer, is never sent again.                               *)
THEOREM NoReplay == Spec => NeverReplayed
<1> DEFINE Once == \A t \in Tasks :
             committed[t] \/ (reached[t] > 0 /\ t \notin Idempotent) => reached'[t] = reached[t]
<1>1. IInv /\ [Next]_vars => [Once]_vars
  <2> SUFFICES ASSUME IInv, Next, NEW u \in Tasks,
                      committed[u] \/ (reached[u] > 0 /\ u \notin Idempotent)
               PROVE reached'[u] = reached[u]
    BY Zenon
  <2>1. pc[u] \in Answered /\ reached \in [Tasks -> Nat]
    BY DEF IInv, Progress, Typing, TypeOK
  <2>2. pc[u] # "send"
    BY <2>1 DEF Answered
  <2> USE DEF reqVars
  <2>3. ASSUME NEW t \in Tasks, Respond(t) PROVE reached'[u] = reached[u]
    BY <2>1, <2>2, <2>3 DEF Respond
  <2>4. ASSUME NEW t \in Tasks, NEW unsent, SendFails(t, unsent) PROVE reached'[u] = reached[u]
    BY <2>1, <2>2, <2>4 DEF SendFails
  <2>5. ASSUME NEW t \in Tasks, AcquireStep(t) PROVE UNCHANGED reached
    BY <2>5, Zenon DEF AcquireStep, Acquire, ScanEntry, TakeEntry, LockDial, CountLive, Dial, DialFails, Insert, TakeNew
  <2>6. ASSUME NEW t \in Tasks, CheckSender(t) \/ EndBody(t) \/ AbortTask(t) \/ PauseStep(t) PROVE UNCHANGED reached
    BY <2>6, Zenon DEF CheckSender, EndBody, AbortTask, PauseStep, EnterPause, StoreGuard, LeavePause, ClearGuard,
         DropState, HoldGuard
  <2>7. ASSUME NEW c \in Conns, PeerCloses(c) PROVE UNCHANGED reached
    BY <2>7, Zenon DEF PeerCloses
  <2>8. ASSUME NEW s \in Closers, CloserStep(s) PROVE UNCHANGED reached
    BY <2>8, CloserMoves, Zenon DEF IInv
  <2> QED
    BY <2>3, <2>4, <2>5, <2>6, <2>7, <2>8, Steps, Zenon DEF TaskStep, AttemptStep
<1> QED
  BY <1>1, Inductive, PTL DEF Spec, NeverReplayed
-----------------------------------------------------------------------------
(* What the liveness of acquire and of shutdown rests on, and how often a    *)
(* request is sent.                                                          *)

(* A shutdown that sleeps has been woken, or the one that won is still on    *)
(* its way to notify_waiters; one that has returned leaves the pool closed   *)
(* and complete.                                                             *)
SleepersAreWoken == \A s \in Closers :
  /\ pc[s] = "asleep" => s \in woken \/ \E u \in Closers : pc[u] \in Winning
  /\ pc[s] = "returned" => closed /\ complete

(* Until shutdown clears the map, every connection that has been dialled is  *)
(* in the list or with the task that is about to insert it.                  *)
Cleared == complete \/ \E s \in Closers : pc[s] \in {"join", "complete"}
Listed(c) == \E i \in 1 .. Len(conns) : conns[i] = c
NoConnForgotten == ~Cleared => \A c \in 1 .. dialled :
  Listed(c) \/ \E t \in Tasks : pc[t] = "insert" /\ c = dialled

(* The inductive forms: what an attempt has used up, and who won. *)
Spent == \A t \in Tasks :
  reached[t] + budget[t] <= MaxRetries + (IF pc[t] \in Answered THEN 1 ELSE 0)
Elected ==
  /\ shutting /\ ~complete => \E u \in Closers : pc[u] \in Winning \ {"notify"}
  /\ \A s \in Closers : pc[s] \in Winning \ {"close"} => closed
  /\ complete => closed
  /\ \A s \in Closers : pc[s] \in {"notify", "returned"} => complete
  /\ \A s \in Closers : pc[s] = "asleep" => s \in woken \/ \E u \in Closers : pc[u] \in Winning

LEMMA LockStep ==
  ASSUME IInv, [Next]_vars, dialer # Nobody => pc[dialer] \in Dialling \cup {"scan", "take"}
  PROVE dialer' # Nobody => pc'[dialer'] \in Dialling \cup {"scan", "take"}
<1> DEFINE Used == dialer # Nobody => pc[dialer] \in Dialling \cup {"scan", "take"}
<1> SUFFICES Used'
  OBVIOUS
<1>1. pc \in [Tasks \cup Closers -> TaskLabels \cup CloserLabels] /\ dialer \in Tasks \cup {Nobody}
  BY DEF IInv, Typing, TypeOK
<1>2. Typing /\ Places
  BY DEF IInv
<1>3. ASSUME NEW t \in Tasks, TaskStep(t) PROVE Used'
  <2>1. /\ \A u \in Tasks \cup Closers : u # t => pc'[u] = pc[u]
        /\ pc' \in [Tasks \cup Closers -> TaskLabels \cup CloserLabels]
    BY <1>2, <1>3, TaskMoves
  <2>2. ASSUME Unlock(t) PROVE Used'
    BY <1>1, <2>1, <2>2 DEF Unlock
  <2>3. ASSUME NEW l \in Dialling \cup {"scan", "take"}, Go(t, l), dialer' = dialer \/ dialer' = t PROVE Used'
    BY <1>1, <2>1, <2>3 DEF Go
  <2>4. ASSUME dialer' = dialer, dialer # t PROVE Used'
    BY <1>1, <2>1, <2>4
  <2>5. ASSUME UNCHANGED <<dialer, pc>> PROVE Used'
    BY <2>5
  <2>6. dialer = t => pc[t] \in Dialling \cup {"scan", "take"}
    BY PoolThreads
  <2> HIDE DEF Used
  <2> USE DEF Dialling, poolVars
  <2>7. ASSUME Acquire(t) \/ EnterPause(t) \/ StoreGuard(t) \/ LeavePause(t) \/ ClearGuard(t) PROVE Used'
    BY <2>3, <2>4, <2>5, <2>6, <2>7 DEF Acquire, EnterPause, StoreGuard, LeavePause, ClearGuard, HoldGuard
  <2>8. ASSUME ScanEntry(t) PROVE Used'
    BY <2>3, <2>4, <2>5, <2>8 DEF ScanEntry
  <2>9. ASSUME TakeEntry(t) \/ CountLive(t) \/ DialFails(t) \/ TakeNew(t) \/ AbortTask(t) PROVE Used'
    BY <2>2, <2>3, <2>9, Zenon DEF TakeEntry, CountLive, DialFails, TakeNew, AbortTask
  <2>10. ASSUME LockDial(t) \/ Dial(t) \/ Insert(t) PROVE Used'
    BY <2>3, <2>10, Zenon DEF LockDial, Dial, Insert
  <2>11. ASSUME dialer' = dialer, pc[t] \in {"leased", "send", "body", "end"} PROVE Used'
    BY <2>4, <2>6, <2>11
  <2>12. ASSUME CheckSender(t) \/ Respond(t) \/ EndBody(t) \/ DropState(t) PROVE Used'
    BY <2>11, <2>12, Zenon DEF CheckSender, Respond, EndBody, DropState, HoldGuard
  <2>13. ASSUME NEW unsent, SendFails(t, unsent) PROVE Used'
    BY <2>11, <2>13, Zenon DEF SendFails
  <2> QED
    BY <1>3, <2>7, <2>8, <2>9, <2>10, <2>12, <2>13, Zenon DEF TaskStep, AcquireStep, AttemptStep, PauseStep
<1>4. ASSUME NEW s \in Closers, CloserStep(s) PROVE Used'
  <2>1. dialer' = dialer /\ \A u \in Tasks \cup Closers : u # s => pc'[u] = pc[u]
    BY <1>2, <1>4, CloserMoves, Zenon
  <2>2. dialer # Nobody => dialer \in Tasks /\ dialer # s
    BY <1>1, PoolThreads
  <2> QED
    BY <2>1, <2>2, PoolThreads
<1>5. ASSUME NEW c \in Conns, PeerCloses(c) PROVE Used'
  BY <1>5 DEF PeerCloses, poolVars
<1>6. ASSUME UNCHANGED vars PROVE Used'
  BY <1>6 DEF vars, poolVars
<1> QED
  BY <1>3, <1>4, <1>5, <1>6, Steps, Zenon

(* The holder of the dial lock is inside acquire, so the lock comes back. *)
THEOREM DialLockComesBack == Spec => []DialLockInUse
<1> DEFINE Used == dialer # Nobody => pc[dialer] \in Dialling \cup {"scan", "take"}
<1>1. Init => Used
  BY DEF Init
<1>2. IInv /\ Used /\ [Next]_vars => Used'
  BY LockStep
<1>3. IInv /\ Used => DialLockInUse
  BY DEF DialLockInUse, IInv, Places
<1> QED
  BY <1>1, <1>2, <1>3, Inductive, PTL DEF Spec

(* An attempt is paid for by the budget, or is the last one. *)
LEMMA SpentStep == IInv /\ Spent /\ [Next]_vars => Spent'
<1> SUFFICES ASSUME IInv, Spent, [Next]_vars PROVE Spent'
  OBVIOUS
<1> DEFINE Last(u) == IF pc[u] \in Answered THEN 1 ELSE 0
           Paid(u) == reached'[u] + budget'[u] <= MaxRetries + Last(u)'
<1>1. /\ Typing /\ pc \in [Tasks \cup Closers -> TaskLabels \cup CloserLabels]
      /\ reached \in [Tasks -> Nat] /\ budget \in [Tasks -> 0 .. MaxRetries]
  BY DEF IInv, Typing, TypeOK
<1>2. ASSUME NEW u \in Tasks, reached'[u] = reached[u], budget'[u] = budget[u], pc[u] \in Answered => pc'[u] \in Answered
      PROVE Paid(u)
  <2>1. reached[u] + budget[u] <= MaxRetries + Last(u)
    BY DEF Spent
  <2>2. reached[u] \in Nat /\ budget[u] \in Nat /\ MaxRetries \in Nat
    BY <1>1, PoolBounds
  <2>3. Last(u) <= Last(u)'
    BY <1>2
  <2>4. Last(u) \in Nat /\ Last(u)' \in Nat
    OBVIOUS
  <2> HIDE DEF Last
  <2>5. MaxRetries + Last(u) <= MaxRetries + Last(u)'
    BY <2>2, <2>3, <2>4
  <2>6. reached[u] + budget[u] \in Nat /\ MaxRetries + Last(u) \in Nat /\ MaxRetries + Last(u)' \in Nat
    BY <2>2, <2>4
  <2>7. reached[u] + budget[u] <= MaxRetries + Last(u)'
    BY <2>1, <2>5, <2>6
  <2> QED
    BY <1>2, <2>7
<1>3. ASSUME UNCHANGED <<reached, budget>>, \A u \in Tasks : pc[u] \in Answered => pc'[u] \in Answered PROVE Spent'
  BY <1>2, <1>3, Zenon DEF Spent
<1>4. ASSUME NEW t \in Tasks, TaskStep(t) PROVE Spent'
  <2>1. \A u \in Tasks : u # t => pc'[u] = pc[u]
    BY <1>1, <1>4, TaskMoves
  <2>2. pc' \in [Tasks \cup Closers -> TaskLabels \cup CloserLabels]
    BY <1>1, <1>4, TaskMoves
  <2>3. ASSUME UNCHANGED <<reached, budget>>, pc[t] \notin Answered \/ UNCHANGED pc \/ Settle(t) \/ Go(t, "over")
        PROVE Spent'
    BY <1>1, <1>3, <2>1, <2>3 DEF Settle, Go, Answered
  <2>4. ASSUME Again(t), pc[t] \notin Answered, UNCHANGED reached, budget[t] > 0 PROVE Spent'
    <3>1. \A u \in Tasks : u # t => Paid(u)
      BY <1>1, <1>2, <2>1, <2>4 DEF Again
    <3>2. Paid(t)
      BY <1>1, <2>4, PoolBounds DEF Spent, Again, Go, Answered
    <3> QED
      BY <3>1, <3>2, Zenon DEF Spent
  <2> USE DEF reqVars
  <2>5. ASSUME AcquireStep(t) PROVE Spent'
    <3>1. UNCHANGED <<reached, budget>>
      BY <2>5, Zenon DEF AcquireStep, Acquire, ScanEntry, TakeEntry, LockDial, CountLive, Dial, DialFails, Insert, TakeNew
    <3>2. pc[t] \in AcquireLabels
      BY <2>5, Zenon DEF AcquireStep, Acquire, ScanEntry, TakeEntry, LockDial, CountLive, Dial, DialFails, Insert,
           TakeNew, AcquireLabels
    <3>3. pc[t] \notin Answered
      BY <3>2 DEF AcquireLabels, Answered
    <3> QED
      BY <2>3, <3>1, <3>3
  <2>6. ASSUME CheckSender(t) PROVE Spent'
    <3>1. pc[t] \notin Answered /\ UNCHANGED reached
      BY <2>6 DEF CheckSender, Answered
    <3> QED
      BY <2>3, <2>4, <2>6, <3>1, Zenon DEF CheckSender
  <2>7. ASSUME NEW unsent, SendFails(t, unsent) PROVE Spent'
    <3>1. pc[t] \notin Answered
      BY <2>7 DEF SendFails, Answered
    <3>2. CASE unsent
      BY <2>3, <2>4, <2>7, <3>1, <3>2, Zenon DEF SendFails, MayRetry
    <3>3. CASE ~unsent
      <4>1. reached' = [reached EXCEPT ![t] = @ + 1]
        BY <2>7, <3>3 DEF SendFails
      <4>2. ASSUME Again(t), budget[t] > 0 PROVE Paid(t)
        BY <1>1, <3>1, <4>1, <4>2, PoolBounds DEF Spent, Again, Go, Answered
      <4>3. ASSUME Settle(t), UNCHANGED budget PROVE Paid(t)
        BY <1>1, <3>1, <4>1, <4>3, PoolBounds DEF Spent, Settle, Go, Answered
      <4>4. Paid(t)
        BY <2>7, <4>2, <4>3, Zenon DEF SendFails, MayRetry
      <4>5. ASSUME NEW u \in Tasks, u # t PROVE Paid(u)
        <5>1. reached'[u] = reached[u] /\ budget'[u] = budget[u]
          BY <1>1, <2>7, <4>1, <4>5 DEF SendFails, Again
        <5> QED
          BY <1>2, <2>1, <4>5, <5>1
      <4> QED
        BY <4>4, <4>5, Zenon DEF Spent
    <3> QED
      BY <3>2, <3>3
  <2>8. ASSUME Respond(t) PROVE Spent'
    <3>1. pc[t] \notin Answered /\ pc'[t] \in Answered /\ reached' = [reached EXCEPT ![t] = @ + 1] /\ UNCHANGED budget
      BY <1>1, <2>8 DEF Respond, Answered, Go
    <3>2. Paid(t)
      BY <1>1, <3>1, PoolBounds DEF Spent
    <3>3. ASSUME NEW u \in Tasks, u # t PROVE Paid(u)
      BY <1>1, <1>2, <2>1, <3>1, <3>3
    <3> QED
      BY <3>2, <3>3, Zenon DEF Spent
  <2>9. ASSUME EndBody(t) \/ AbortTask(t) PROVE Spent'
    BY <2>3, <2>9, Zenon DEF EndBody, AbortTask
  <2>10. ASSUME PauseStep(t) PROVE Spent'
    BY <2>3, <2>10, Zenon DEF PauseStep, EnterPause, StoreGuard, LeavePause, ClearGuard, DropState, HoldGuard
  <2> QED
    BY <1>4, <2>5, <2>6, <2>7, <2>8, <2>9, <2>10, Zenon DEF TaskStep, AttemptStep
<1>5. ASSUME NEW s \in Closers, CloserStep(s) PROVE Spent'
  <2>1. UNCHANGED reqVars /\ \A u \in Tasks : pc'[u] = pc[u]
    BY <1>1, <1>5, CloserMoves, PoolThreads
  <2> QED
    BY <1>3, <2>1 DEF reqVars
<1>6. ASSUME NEW c \in Conns, PeerCloses(c) PROVE Spent'
  BY <1>3, <1>6 DEF PeerCloses, reqVars
<1>7. ASSUME UNCHANGED vars PROVE Spent'
  BY <1>3, <1>7 DEF vars, reqVars
<1> QED
  BY <1>4, <1>5, <1>6, <1>7, Steps, Zenon

(* attempt_loop and may_retry: whatever fails and however often, a request   *)
(* may have reached the peer max_retries + 1 times at most.                  *)
THEOREM RetriesEnd == Spec => []AttemptsBounded
<1>1. Init => Spent
  BY PoolBounds DEF Init, Spent, Answered
<1>2. IInv /\ Spent /\ [Next]_vars => Spent'
  BY SpentStep
<1>3. IInv /\ Spent => AttemptsBounded
  <2> SUFFICES ASSUME IInv, Spent, NEW t \in Tasks PROVE reached[t] <= MaxRetries + 1
    BY DEF AttemptsBounded
  <2>1. reached[t] \in Nat /\ budget[t] \in 0 .. MaxRetries
    BY DEF IInv, Typing, TypeOK
  <2> QED
    BY <2>1, PoolBounds DEF Spent
<1> QED
  BY <1>1, <1>2, <1>3, Inductive, PTL DEF Spec

(* The winner of the flag stays on its way until it has woken the others,    *)
(* and a loser goes to sleep only while the winner is there.                 *)
LEMMA ElectedStep == IInv /\ Elected /\ [Next]_vars => Elected'
<1> SUFFICES ASSUME IInv, Elected, [Next]_vars PROVE Elected'
  OBVIOUS
<1>1. /\ Typing /\ Ending /\ DOMAIN pc = Tasks \cup Closers
      /\ \A s \in Closers : pc[s] \in CloserLabels
  BY DEF IInv, Typing, TypeOK
<1>2. ASSUME UNCHANGED endVars, \A s \in Closers : pc'[s] = pc[s] PROVE Elected'
  <2>1. UNCHANGED <<shutting, complete, closed, woken>>
    BY <1>2 DEF endVars
  <2> QED
    BY <1>2, <2>1, Zenon DEF Elected
<1>3. ASSUME NEW t \in Tasks, TaskStep(t) PROVE Elected'
  <2>1. UNCHANGED endVars /\ \A s \in Closers : pc'[s] = pc[s]
    BY <1>1, <1>3, TaskMoves, PoolThreads
  <2> QED
    BY <1>2, <2>1
<1>4. ASSUME NEW s \in Closers, CloserStep(s) PROVE Elected'
  <2>1. \A u \in Closers : u # s => pc'[u] = pc[u]
    BY <1>1, <1>4, CloserMoves
  <2>2. pc[s] # "uncalled" => shutting
    BY <1>1 DEF Ending
  (* A step of the winner that leaves it the winner. *)
  <2>3. ASSUME NEW l \in Winning, Go(s, l), pc[s] \in Winning, UNCHANGED <<shutting, woken>>,
               closed', complete => complete', l = "notify" <=> complete'
        PROVE Elected'
    <3>1. pc'[s] = l
      BY <1>1, <2>3 DEF Go
    <3>2. \A u \in Closers : pc'[u] \in {"asleep", "returned"} => u # s /\ pc[u] = pc'[u]
      BY <2>1, <2>3, <3>1 DEF Winning
    <3>3. \A u \in Closers : pc'[u] \in {"notify", "returned"} => complete'
      BY <2>1, <2>3, <3>1, <3>2 DEF Elected
    <3>4. ~complete' => \E u \in Closers : pc'[u] \in Winning \ {"notify"}
      BY <2>3, <3>1
    <3> QED
      BY <2>3, <3>1, <3>2, <3>3, <3>4, Zenon DEF Elected
  (* A step of a loser, and of the one that has won and wakes the others.    *)
  <2>4. ASSUME NEW l, Go(s, l), pc[s] \notin Winning \ {"notify"}, UNCHANGED <<shutting, complete, closed>>,
               l \notin Winning, l = "returned" => complete,
               \A u \in Closers : pc'[u] = "asleep" => u \in woken' \/ \E v \in Closers : pc'[v] \in Winning
        PROVE Elected'
    <3>1. pc'[s] = l
      BY <1>1, <2>4 DEF Go
    <3>2. \A u \in Closers : pc[u] \in Winning \ {"notify"} => pc'[u] = pc[u]
      BY <2>1, <2>4
    <3>3. \A u \in Closers : pc'[u] \in Winning => pc'[u] = pc[u]
      BY <2>1, <2>4, <3>1
    <3>4. \A u \in Closers : pc'[u] \in {"notify", "returned"} => complete'
      BY <2>1, <2>4, <3>1 DEF Elected, Winning
    <3>5. shutting' /\ ~complete' => \E u \in Closers : pc'[u] \in Winning \ {"notify"}
      BY <2>4, <3>2, Zenon DEF Elected
    <3> QED
      BY <2>4, <3>3, <3>4, <3>5, Zenon DEF Elected
  (* Who sleeps on has been woken, or the winner is another and stays. *)
  <2>5. ASSUME pc[s] \notin Winning, \A u \in Closers : u # s /\ u \in woken => u \in woken'
        PROVE \A u \in Closers : u # s /\ pc'[u] = "asleep" => u \in woken' \/ \E v \in Closers : pc'[v] \in Winning
    BY <2>1, <2>5, Zenon DEF Elected
  <2> USE DEF endVars
  <2>6. CASE CallShutdown(s)
    <3>1. /\ pc[s] = "uncalled" /\ shutting' /\ UNCHANGED <<closed, complete, woken>>
          /\ Go(s, IF shutting THEN "look" ELSE "close")
      BY <2>6, Zenon DEF CallShutdown
    <3>2. pc[s] \notin Winning
      BY <3>1 DEF Winning
    <3>3. CASE shutting
      <4>1. Go(s, "look") /\ pc'[s] = "look"
        BY <1>1, <3>1, <3>3 DEF Go
      <4>2. \A u \in Closers : pc'[u] = "asleep" => u \in woken' \/ \E v \in Closers : pc'[v] \in Winning
        BY <2>5, <3>1, <3>2, <4>1
      <4> QED
        BY <2>4, <3>1, <3>2, <3>3, <4>1, <4>2 DEF Winning
    <3>4. CASE ~shutting
      <4>1. pc'[s] = "close" /\ \A u \in Closers : u # s => pc'[u] = "uncalled"
        BY <1>1, <2>1, <3>1, <3>4 DEF Go, Ending
      <4>2. ~complete
        BY <1>1, <3>4 DEF Ending
      <4> QED
        BY <3>1, <4>1, <4>2 DEF Elected, Winning
    <3> QED
      BY <3>3, <3>4
  <2>7. CASE LookComplete(s)
    <3>1. pc[s] \in {"look", "relook"} /\ UNCHANGED <<shutting, complete, closed, woken>>
      BY <2>7, Zenon DEF LookComplete
    <3>2. pc[s] \notin Winning /\ shutting
      BY <2>2, <3>1 DEF Winning
    <3>3. \A u \in Closers : u # s /\ pc'[u] = "asleep" => u \in woken' \/ \E v \in Closers : pc'[v] \in Winning
      BY <2>5, <3>1, <3>2
    <3>4. CASE complete
      <4>1. Go(s, "returned")
        BY <2>7, <3>4 DEF LookComplete
      <4>2. pc'[s] # "asleep"
        BY <1>1, <4>1 DEF Go
      <4> QED
        BY <2>4, <3>1, <3>2, <3>3, <3>4, <4>1, <4>2 DEF Winning
    <3>5. CASE ~complete
      <4>1. PICK u \in Closers : pc[u] \in Winning
        BY <3>2, <3>5 DEF Elected
      <4>2. pc'[u] \in Winning
        BY <2>1, <3>2, <4>1
      <4>3. PICK l \in {"register", "asleep"} : Go(s, l)
        BY <2>7, <3>5 DEF LookComplete
      <4> QED
        BY <2>4, <3>1, <3>2, <4>2, <4>3 DEF Winning
    <3> QED
      BY <3>4, <3>5
  <2>8. CASE Register(s) \/ WakeUp(s)
    <3>1. /\ pc[s] \in {"register", "asleep"} /\ UNCHANGED <<shutting, complete, closed>>
          /\ \A u \in Closers : u # s /\ u \in woken => u \in woken'
      BY <2>8, SMT DEF Register, WakeUp
    <3>2. PICK l \in {"relook", "look"} : Go(s, l)
      BY <2>8, Zenon DEF Register, WakeUp
    <3>3. pc[s] \notin Winning /\ pc'[s] # "asleep"
      BY <1>1, <3>1, <3>2 DEF Winning, Go
    <3>4. \A u \in Closers : pc'[u] = "asleep" => u \in woken' \/ \E v \in Closers : pc'[v] \in Winning
      BY <2>5, <3>1, <3>3
    <3> QED
      BY <2>4, <3>1, <3>2, <3>3, <3>4 DEF Winning
  <2>9. CASE CloseDoor(s)
    <3>1. pc[s] = "close" /\ Go(s, "collect") /\ closed' /\ UNCHANGED <<shutting, complete, woken>>
      BY <2>9, Zenon DEF CloseDoor
    <3>2. ~complete /\ pc[s] \in Winning
      BY <1>1, <3>1 DEF Ending, Winning
    <3> QED
      BY <2>3, <3>1, <3>2 DEF Winning
  <2>10. CASE CollectDrivers(s) \/ ClearConns(s) \/ JoinDriver(s)
    <3>1. pc[s] \in {"collect", "clear", "join"} /\ UNCHANGED <<shutting, complete, closed, woken>>
      BY <2>10, Zenon DEF CollectDrivers, ClearConns, JoinDriver
    <3>2. CASE UNCHANGED pc
      BY <3>1, <3>2, Zenon DEF Elected
    <3>3. CASE \E l \in {"clear", "join", "complete"} : Go(s, l)
      <4>1. PICK l \in {"clear", "join", "complete"} : Go(s, l)
        BY <3>3
      <4>2. ~complete /\ pc[s] \in Winning /\ closed
        BY <1>1, <3>1 DEF Ending, Winning, Elected
      <4> QED
        BY <2>3, <3>1, <4>1, <4>2 DEF Winning
    <3> QED
      BY <2>10, <3>2, <3>3, Zenon DEF CollectDrivers, ClearConns, JoinDriver
  <2>11. CASE SetComplete(s)
    <3>1. pc[s] = "complete" /\ Go(s, "notify") /\ complete' /\ UNCHANGED <<shutting, closed, woken>>
      BY <2>11, Zenon DEF SetComplete
    <3>2. pc[s] \in Winning /\ closed
      BY <3>1 DEF Winning, Elected
    <3> QED
      BY <2>3, <3>1, <3>2 DEF Winning
  <2>12. CASE NotifyWaiters(s)
    <3>1. /\ pc[s] = "notify" /\ Go(s, "returned") /\ UNCHANGED <<shutting, complete, closed>>
          /\ woken' = {u \in Closers : pc[u] \in {"relook", "asleep"}}
      BY <2>12, Zenon DEF NotifyWaiters
    <3>2. complete /\ pc'[s] = "returned"
      BY <1>1, <3>1 DEF Elected, Go
    <3>3. \A u \in Closers : pc'[u] = "asleep" => u \in woken'
      BY <2>1, <3>1, <3>2
    <3> QED
      BY <2>4, <3>1, <3>2, <3>3 DEF Winning
  <2> QED
    BY <1>4, <2>6, <2>7, <2>8, <2>9, <2>10, <2>11, <2>12, Zenon DEF CloserStep, ShutdownStep
<1>5. ASSUME NEW c \in Conns, PeerCloses(c) PROVE Elected'
  BY <1>2, <1>5 DEF PeerCloses
<1>6. ASSUME UNCHANGED vars PROVE Elected'
  BY <1>2, <1>6 DEF vars
<1> QED
  BY <1>3, <1>4, <1>5, <1>6, Steps, Zenon

(* Pool::shutdown's second look: a loser never sleeps through                *)
(* notify_waiters, and whoever returns leaves a pool that is closed and      *)
(* complete.                                                                 *)
THEOREM NoShutdownSleepsOn == Spec => []SleepersAreWoken
<1>1. Init => Elected
  BY PoolThreads DEF Init, Elected, Winning
<1>2. IInv /\ Elected /\ [Next]_vars => Elected'
  BY ElectedStep
<1>3. Elected => SleepersAreWoken
  BY DEF Elected, SleepersAreWoken
<1> QED
  BY <1>1, <1>2, <1>3, Inductive, PTL DEF Spec

LEMMA ClearedStays == IInv /\ Cleared /\ [Next]_vars => Cleared'
<1> SUFFICES ASSUME IInv, Cleared, [Next]_vars PROVE Cleared'
  OBVIOUS
<1>1. Typing /\ DOMAIN pc = Tasks \cup Closers
  BY DEF IInv, Typing, TypeOK
<1>2. ASSUME UNCHANGED endVars, \A s \in Closers : pc'[s] = pc[s] PROVE Cleared'
  BY <1>2, Zenon DEF Cleared, endVars
<1>3. ASSUME NEW t \in Tasks, TaskStep(t) PROVE Cleared'
  BY <1>1, <1>2, <1>3, TaskMoves, PoolThreads
<1>4. ASSUME NEW s \in Closers, CloserStep(s) PROVE Cleared'
  <2>1. \A u \in Closers : u # s => pc'[u] = pc[u]
    BY <1>1, <1>4, CloserMoves
  <2>2. complete => complete'
    BY <1>4, Zenon DEF CloserStep, ShutdownStep, CallShutdown, LookComplete, Register, WakeUp, CloseDoor,
         CollectDrivers, ClearConns, JoinDriver, SetComplete, NotifyWaiters, endVars
  <2>3. CASE pc[s] = "join"
    <3>1. JoinDriver(s)
      BY <1>4, <2>3 DEF CloserStep, ShutdownStep, CallShutdown, LookComplete, Register, WakeUp, CloseDoor,
           CollectDrivers, ClearConns, SetComplete, NotifyWaiters
    <3>2. pc'[s] \in {"join", "complete"}
      BY <1>1, <2>3, <3>1 DEF JoinDriver, Go
    <3> QED
      BY <3>2, Zenon DEF Cleared
  <2>4. CASE pc[s] = "complete"
    <3>1. SetComplete(s)
      BY <1>4, <2>4 DEF CloserStep, ShutdownStep, CallShutdown, LookComplete, Register, WakeUp, CloseDoor,
           CollectDrivers, ClearConns, JoinDriver, NotifyWaiters
    <3> QED
      BY <3>1, Zenon DEF SetComplete, Cleared
  <2>5. CASE pc[s] \notin {"join", "complete"}
    BY <2>1, <2>2, <2>5, Zenon DEF Cleared
  <2> QED
    BY <2>3, <2>4, <2>5
<1>5. ASSUME NEW c \in Conns, PeerCloses(c) PROVE Cleared'
  BY <1>2, <1>5 DEF PeerCloses
<1>6. ASSUME UNCHANGED vars PROVE Cleared'
  BY <1>2, <1>6 DEF vars
<1> QED
  BY <1>3, <1>4, <1>5, <1>6, Steps, Zenon

LEMMA ForgottenStep == IInv /\ NoConnForgotten /\ [Next]_vars => NoConnForgotten'
<1> SUFFICES ASSUME IInv, NoConnForgotten, [Next]_vars PROVE NoConnForgotten'
  OBVIOUS
<1>1. /\ Typing /\ Places /\ DOMAIN pc = Tasks \cup Closers
      /\ conns \in Seq(Conns) /\ dialled \in 0 .. MaxDials
  BY DEF IInv, Typing, TypeOK
<1>2. Cleared => Cleared'
  BY ClearedStays
<1>3. ASSUME UNCHANGED <<conns, dialled>>, \A t \in Tasks : pc[t] = "insert" => pc'[t] = "insert"
      PROVE NoConnForgotten'
  BY <1>2, <1>3, Zenon DEF NoConnForgotten, Listed
<1>4. ASSUME NEW t \in Tasks, TaskStep(t) PROVE NoConnForgotten'
  <2>1. \A u \in Tasks : u # t => pc'[u] = pc[u]
    BY <1>1, <1>4, TaskMoves
  <2> USE DEF poolVars
  <2>2. CASE Dial(t)
    <3>1. /\ pc[t] = "dial" /\ pc'[t] = "insert" /\ conns' = conns /\ dialled' = dialled + 1
      BY <1>1, <2>2 DEF Dial, Go
    <3>2. \A u \in Tasks : pc[u] # "insert"
      BY <1>1, <3>1 DEF Places, Dialling
    <3>3. ~Cleared' => \A c \in 1 .. dialled : Listed(c)'
      BY <1>2, <3>1, <3>2, Zenon DEF NoConnForgotten, Listed
    <3>4. \A c \in 1 .. dialled' : c \in 1 .. dialled \/ c = dialled'
      BY <1>1, <3>1
    <3> QED
      BY <3>1, <3>3, <3>4, Zenon DEF NoConnForgotten
  <2>3. CASE Insert(t)
    <3>1. conns' = Append(conns, dialled) /\ dialled' = dialled
      BY <2>3, Zenon DEF Insert
    <3>2. \A c : c = dialled \/ Listed(c) => Listed(c)'
      <4>1. Len(conns') = Len(conns) + 1 /\ conns'[Len(conns) + 1] = dialled /\ Len(conns) \in Nat
        BY <1>1, <3>1
      <4>2. \A i \in 1 .. Len(conns) : conns'[i] = conns[i]
        BY <1>1, <3>1
      <4> QED
        BY <4>1, <4>2 DEF Listed
    <3> QED
      BY <1>2, <3>1, <3>2, Zenon DEF NoConnForgotten
  <2>4. CASE ~Dial(t) /\ ~Insert(t)
    <3>1. UNCHANGED <<conns, dialled>>
      BY <1>4, <2>4, Zenon DEF TaskStep, AcquireStep, Acquire, ScanEntry, TakeEntry, LockDial, CountLive, DialFails,
           TakeNew, AttemptStep, CheckSender, SendFails, Respond, EndBody, AbortTask, PauseStep, EnterPause, StoreGuard,
           LeavePause, ClearGuard, DropState, HoldGuard
    <3>2. pc[t] = "insert" => UNCHANGED pc
      BY <1>4, <2>4 DEF TaskStep, AcquireStep, Acquire, ScanEntry, TakeEntry, LockDial, CountLive, DialFails,
           TakeNew, AttemptStep, CheckSender, SendFails, Respond, EndBody, AbortTask, PauseStep, EnterPause, StoreGuard,
           LeavePause, ClearGuard, DropState
    <3> QED
      BY <1>3, <2>1, <3>1, <3>2
  <2> QED
    BY <2>2, <2>3, <2>4
<1>5. ASSUME NEW s \in Closers, CloserStep(s) PROVE NoConnForgotten'
  <2>1. dialled' = dialled /\ \A u \in Tasks : pc'[u] = pc[u]
    BY <1>1, <1>5, CloserMoves, PoolThreads
  <2>2. CASE ClearConns(s)
    <3>1. pc'[s] = "join"
      BY <1>1, <2>2 DEF ClearConns, Go
    <3> QED
      BY <3>1, Zenon DEF NoConnForgotten, Cleared
  <2>3. CASE ~ClearConns(s)
    <3>1. conns' = conns
      BY <1>5, <2>3, Zenon DEF CloserStep, ShutdownStep, CallShutdown, LookComplete, Register, WakeUp, CloseDoor,
           CollectDrivers, JoinDriver, SetComplete, NotifyWaiters, poolVars
    <3> QED
      BY <1>3, <2>1, <3>1
  <2> QED
    BY <2>2, <2>3
<1>6. ASSUME NEW c \in Conns, PeerCloses(c) PROVE NoConnForgotten'
  BY <1>3, <1>6 DEF PeerCloses, poolVars
<1>7. ASSUME UNCHANGED vars PROVE NoConnForgotten'
  BY <1>3, <1>7 DEF vars, poolVars
<1> QED
  BY <1>4, <1>5, <1>6, <1>7, Steps, Zenon

(* acquire under the dial lock: an abort, a lost race for the sender or a    *)
(* dial that fails forgets no connection, so that what shutdown does not     *)
(* find in the map is at most the one that is being inserted.                *)
THEOREM DialsAreListed == Spec => []NoConnForgotten
<1>1. Init => NoConnForgotten
  BY DEF Init, NoConnForgotten
<1>2. IInv /\ NoConnForgotten /\ [Next]_vars => NoConnForgotten'
  BY ForgottenStep
<1> QED
  BY <1>1, <1>2, Inductive, PTL DEF Spec
=============================================================================
