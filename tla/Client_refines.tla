--------------------------- MODULE Client_refines ---------------------------
(* The bytes a client reserves, its typing, its executor, and the promise of *)
(* ClientContract, from the inductive invariant of Client_proofs.            *)
EXTENDS Client_proofs, FunctionTheorems
-----------------------------------------------------------------------------
(* The weight of a set of requests.                                          *)

LEMMA OneRequest ==
  ASSUME NEW s \in Senders
  PROVE /\ IsFiniteSet({s} \X (1 .. Cost[s]))
        /\ Cardinality({s} \X (1 .. Cost[s])) = Cost[s]
<1>1. Cost[s] \in Nat
  BY ClientBounds
<1>2. IsFiniteSet({s}) /\ Cardinality({s}) = 1
  BY FS_Singleton
<1>3. IsFiniteSet(1 .. Cost[s]) /\ Cardinality(1 .. Cost[s]) = Cost[s]
  <2>1. 1 \in Int /\ Cost[s] \in Int
    BY <1>1
  <2>2. /\ IsFiniteSet(1 .. Cost[s])
        /\ Cardinality(1 .. Cost[s]) = IF 1 > Cost[s] THEN 0 ELSE Cost[s] - 1 + 1
    BY <2>1, FS_Interval, Zenon
  <2> QED
    BY <1>1, <2>2
<1>4. IsFiniteSet({s} \X (1 .. Cost[s])) /\ Cardinality({s} \X (1 .. Cost[s])) = Cardinality({s}) * Cardinality(1 .. Cost[s])
  BY <1>2, <1>3, FS_Product, Zenon
<1>5. 1 * Cost[s] = Cost[s]
  BY <1>1
<1> QED
  BY <1>2, <1>3, <1>4, <1>5, Zenon

LEMMA ReservedFinite ==
  ASSUME NEW S \in SUBSET Senders
  PROVE IsFiniteSet(Reserved(S)) /\ Weight(S) \in Nat
<1> DEFINE B == {{s} \X (1 .. Cost[s]) : s \in S}
           f == [s \in S |-> {s} \X (1 .. Cost[s])]
<1>1. f \in Surjection(S, B)
  BY DEF Surjection
<1>2. IsFiniteSet(S)
  BY ClientThreads, FS_Subset
<1>3. IsFiniteSet(B)
  <2> HIDE DEF B, f
  <2> QED
    BY <1>1, <1>2, FS_Surjection
<1>4. \A b \in B : IsFiniteSet(b)
  BY OneRequest
<1>5. IsFiniteSet(UNION B)
  <2> HIDE DEF B
  <2> QED
    BY <1>3, <1>4, FS_UNION
<1> QED
  BY <1>5, FS_CardinalityType DEF Reserved, Weight

LEMMA WeightGains ==
  ASSUME NEW S \in SUBSET Senders, NEW T, NEW s \in Senders, s \notin S, T = S \cup {s}
  PROVE Weight(T) = Weight(S) + Cost[s]
<1> DEFINE A == Reserved(S)
           B == {s} \X (1 .. Cost[s])
<1>1. IsFiniteSet(A) /\ Cardinality(A) \in Nat
  BY ReservedFinite DEF Weight
<1>2. IsFiniteSet(B) /\ Cardinality(B) = Cost[s] /\ Cost[s] \in Nat
  BY OneRequest, ClientBounds
<1>3. Reserved(T) = A \cup B
  BY DEF Reserved
<1>4. A \cap B = {}
  BY DEF Reserved
<1>5. Cardinality(A \cup B) = Cardinality(A) + Cardinality(B) - Cardinality({})
  <2> HIDE DEF A, B
  <2> QED
    BY <1>1, <1>2, <1>4, FS_Union
<1>6. Cardinality({}) = 0
  BY FS_EmptySet
<1>7. Weight(T) = Cardinality(A \cup B) /\ Weight(S) = Cardinality(A)
  BY <1>3, Zenon DEF Weight
<1> HIDE DEF A, B
<1> QED
  BY <1>1, <1>2, <1>5, <1>6, <1>7

LEMMA WeightLoses ==
  ASSUME NEW S \in SUBSET Senders, NEW T, NEW s \in S, T = S \ {s}
  PROVE Weight(T) = Weight(S) - Cost[s]
<1>1. T \in SUBSET Senders /\ s \in Senders /\ s \notin T /\ S = T \cup {s}
  OBVIOUS
<1>2. Weight(S) = Weight(T) + Cost[s]
  BY <1>1, WeightGains
<1>3. Weight(T) \in Nat /\ Cost[s] \in Nat
  BY <1>1, ReservedFinite, ClientBounds
<1> QED
  BY <1>2, <1>3

LEMMA WeightShrinks ==
  ASSUME NEW S \in SUBSET Senders, NEW T \in SUBSET S
  PROVE Weight(T) \in Nat /\ Weight(T) <= Weight(S)
<1>1. Reserved(T) \subseteq Reserved(S)
  BY DEF Reserved
<1>2. IsFiniteSet(Reserved(S))
  BY ReservedFinite
<1> QED
  BY <1>1, <1>2, FS_Subset, ReservedFinite DEF Weight
-----------------------------------------------------------------------------
(* The bytes.                                                                *)

ByteCount == bytes = Weight(Weighed) /\ Weight(Admitted) <= MaxBytes

LEMMA Subsets ==
  /\ Weighed \in SUBSET Senders /\ Admitted \in SUBSET Weighed /\ Admitted \in SUBSET Passed
  /\ Weighed' \in SUBSET Senders /\ Admitted' \in SUBSET Weighed'
<1>1. Weighed \in SUBSET Senders /\ Admitted \in SUBSET Weighed
  BY DEF Weighed, Admitted
<1>2. Admitted \in SUBSET Passed
  BY DEF Passed, Admitted
<1>3. Weighed' \in SUBSET Senders /\ Admitted' \in SUBSET Weighed'
  BY DEF Weighed, Admitted
<1> QED
  BY <1>1, <1>2, <1>3

(* A send changes the two sets at its own request at most. *)
LEMMA SendWeighs ==
  ASSUME Local, NEW s \in Senders, CheckClosed(s) \/ SendStep(s)
  PROVE /\ \A q \in Senders : q # s => /\ q \in Weighed' <=> q \in Weighed
                                       /\ q \in Admitted' <=> q \in Admitted
        /\ s \in Weighed <=> pc[s] \in {"unweigh", "enter", "insert"}
        /\ s \in Weighed' <=> pc'[s] \in {"unweigh", "enter", "insert", "accepted"}
        /\ s \in Admitted <=> pc[s] \in {"enter", "insert"}
        /\ s \in Admitted' <=> pc'[s] \in {"enter", "insert", "accepted"}
        /\ s \notin done
<1>1. PICK l \in SenderLabels : Go(s, l)
  BY SendMoves
<1>2. \A t \in Threads : t # s => pc'[t] = pc[t]
  BY <1>1, Moves, Disjoint DEF Local
<1>3. UNCHANGED <<done, job>> /\ pc[s] # "accepted"
  BY SendMoves DEF execVars
<1>4. \A q, L : AtWork(q, L)' <=> AtWork(q, L)
  BY <1>2, <1>3, Disjoint, WorkersStill
<1>5. \A L : ~AtWork(s, L)
  BY <1>3, Disjoint DEF AtWork, Local, InHand
<1>6. s \notin done
  BY <1>3 DEF Local, Placed
<1>7. \A q \in Senders : q # s => pc'[q] = pc[q]
  BY <1>2, Disjoint
<1>8. \A q \in Senders : q # s => /\ q \in Weighed' <=> q \in Weighed
                                  /\ q \in Admitted' <=> q \in Admitted
  BY <1>3, <1>4, <1>7 DEF Weighed, Admitted
<1>9. /\ s \in Weighed <=> pc[s] \in {"unweigh", "enter", "insert"}
      /\ s \in Weighed' <=> pc'[s] \in {"unweigh", "enter", "insert", "accepted"}
  BY <1>3, <1>4, <1>5, <1>6 DEF Weighed
<1>10. /\ s \in Admitted <=> pc[s] \in {"enter", "insert"}
       /\ s \in Admitted' <=> pc'[s] \in {"enter", "insert", "accepted"}
  BY <1>3, <1>6 DEF Admitted
<1> QED
  BY <1>6, <1>8, <1>9, <1>10

(* Most steps leave the two sets alone. *)
Even == Weighed' = Weighed /\ Admitted' = Admitted /\ UNCHANGED <<bytes, done>>

LEMMA EvenStill ==
  ASSUME \A t \in Senders \cup Workers : pc'[t] = pc[t], UNCHANGED <<done, job, bytes>>
  PROVE Even
<1>1. \A q, L : AtWork(q, L)' <=> AtWork(q, L)
  BY WorkersStill
<1>2. Weighed' = Weighed
  BY <1>1 DEF Weighed
<1>3. Admitted' = Admitted
  BY DEF Admitted
<1> QED
  BY <1>2, <1>3 DEF Even

LEMMA EvenSend ==
  ASSUME Local, NEW s \in Senders, CheckClosed(s) \/ SendStep(s), ~ReserveBytes(s), ~UnreserveBytes(s)
  PROVE Even
<1>1. ASSUME NEW l, Go(s, l) PROVE pc'[s] = l
  BY <1>1, Moves, Disjoint DEF Local
<1>2. CheckClosed(s) \/ ReserveSlot(s) \/ UnreserveSlot(s) \/ Enter(s) \/ Insert(s)
  BY Zenon DEF SendStep
<1>3. UNCHANGED <<bytes, done>>
  BY <1>2, Zenon DEF CheckClosed, ReserveSlot, UnreserveSlot, Enter, Insert, limitVars, reqVars
<1>4. \/ pc[s] = "idle" /\ pc'[s] \in {"refused", "reserve"}
      \/ pc[s] = "reserve" /\ pc'[s] \in {"unreserve", "weigh"}
      \/ pc[s] = "unreserve" /\ pc'[s] = "refused"
      \/ pc[s] = "enter" /\ pc'[s] = "insert"
      \/ pc[s] = "insert" /\ pc'[s] = "accepted"
  BY <1>1, <1>2 DEF CheckClosed, ReserveSlot, UnreserveSlot, Enter, Insert
<1>5. /\ s \in Weighed' <=> s \in Weighed
      /\ s \in Admitted' <=> s \in Admitted
  <2>1. /\ s \in Weighed <=> pc[s] \in {"unweigh", "enter", "insert"}
        /\ s \in Weighed' <=> pc'[s] \in {"unweigh", "enter", "insert", "accepted"}
        /\ s \in Admitted <=> pc[s] \in {"enter", "insert"}
        /\ s \in Admitted' <=> pc'[s] \in {"enter", "insert", "accepted"}
    BY SendWeighs
  <2> QED
    BY <1>4, <2>1
<1>6. \A q \in Senders : /\ q \in Weighed' <=> q \in Weighed
                         /\ q \in Admitted' <=> q \in Admitted
  BY <1>5, SendWeighs
<1>7. Weighed' = Weighed /\ Admitted' = Admitted
  BY <1>6, Subsets
<1> QED
  BY <1>3, <1>7 DEF Even

LEMMA EvenWork ==
  ASSUME Local, NEW w \in Workers, WorkerStep(w), ~RunDone(w), ~ReleaseBytes(w)
  PROVE Even
<1>1. ASSUME NEW l, Go(w, l)
      PROVE /\ pc'[w] = l /\ \A s \in Senders : pc'[s] = pc[s]
            /\ \A v \in Workers : v # w => pc'[v] = pc[v]
  BY <1>1, Moves, Disjoint DEF Local
<1>2. \/ Idles(w) \/ Drops(w) \/ Keeps(w) \/ \E r \in ready : Pops(w, r)
      \/ ReleaseSlot(w) \/ RemoveRequest(w) \/ Leave(w)
  BY WorkerMoves
<1>3. UNCHANGED bytes
  BY Zenon DEF WorkerStep, CheckStopped, LockReady, PopReady, Doze, EndSlice, Requeue, ReleaseSlot, RemoveRequest, Leave, limitVars
<1>4. UNCHANGED done
  BY <1>2, Zenon DEF Idles, Drops, Keeps, Pops, ReleaseSlot, RemoveRequest, Leave, reqVars
<1>5. pc[w] # "release bytes" /\ \E l : l # "release bytes" /\ Go(w, l)
  BY <1>2 DEF Idles, Drops, Keeps, Pops, ReleaseSlot, RemoveRequest, Leave, Busy, Cleaning
<1>6. \A v \in Workers : v # w => job'[v] = job[v]
  BY <1>2 DEF Idles, Drops, Keeps, Pops, ReleaseSlot, RemoveRequest, Leave, execVars, Local, Typing
<1>7. PICK l : l # "release bytes" /\ Go(w, l)
  BY <1>5
<1>8. pc'[w] # "release bytes" /\ \A s \in Senders : pc'[s] = pc[s]
  BY <1>1, <1>7
<1>9. \A v \in Workers : v # w => job'[v] = job[v] /\ pc'[v] = pc[v]
  BY <1>1, <1>6, <1>7
<1>10. \A s \in Senders : AtWork(s, {"release bytes"})' <=> AtWork(s, {"release bytes"})
  BY <1>5, <1>8, <1>9, WorkFrame
<1>11. Weighed' = Weighed
  BY <1>4, <1>8, <1>10 DEF Weighed
<1>12. Admitted' = Admitted
  BY <1>4, <1>8 DEF Admitted
<1> QED
  BY <1>3, <1>4, <1>11, <1>12 DEF Even

(* The step that ends a request, and the one that gives its bytes back. *)
LEMMA DoneWeighs ==
  ASSUME Local, NEW w \in Workers, RunDone(w)
  PROVE /\ Weighed' = Weighed /\ UNCHANGED bytes
        /\ job[w] \in Admitted /\ Admitted' = Admitted \ {job[w]} /\ done' = done \cup {job[w]}
<1>1. /\ pc[w] = "run" /\ Go(w, "release bytes") /\ job[w] \notin done /\ done' = done \cup {job[w]}
      /\ UNCHANGED <<job, bytes>>
  BY DEF RunDone, execVars, limitVars
<1>2. PICK r \in Senders : job[w] = r /\ r \notin done /\ pc[r] = "accepted"
  <2>1. InHand(w) /\ job[w] \in Senders \cup {Nobody}
    BY DEF Local, Typing
  <2> QED
    BY <1>1, <2>1 DEF InHand, Busy
<1>3. /\ pc'[w] = "release bytes" /\ \A s \in Senders : pc'[s] = pc[s]
      /\ \A v \in Workers : v # w => pc'[v] = pc[v]
  BY <1>1, Moves, Disjoint DEF Local
<1>4. \A s \in Senders : s # r => (AtWork(s, {"release bytes"})' <=> AtWork(s, {"release bytes"}))
  BY <1>1, <1>2, <1>3, WorkFrame
<1>5. AtWork(r, {"release bytes"})'
  BY <1>1, <1>2, <1>3 DEF AtWork
<1>6. Weighed' = Weighed
  BY <1>1, <1>2, <1>3, <1>4, <1>5 DEF Weighed
<1>7. r \in Admitted /\ Admitted' = Admitted \ {r}
  BY <1>1, <1>2, <1>3 DEF Admitted
<1> QED
  BY <1>1, <1>2, <1>6, <1>7

LEMMA ReleaseWeighs ==
  ASSUME Local, NEW w \in Workers, ReleaseBytes(w)
  PROVE /\ job[w] \in Weighed /\ Weighed' = Weighed \ {job[w]} /\ bytes' = bytes - Cost[job[w]]
        /\ Admitted' = Admitted /\ UNCHANGED done
<1>1. /\ pc[w] = "release bytes" /\ Go(w, "release slot") /\ bytes' = bytes - Cost[job[w]]
      /\ UNCHANGED <<job, done>>
  BY DEF ReleaseBytes, execVars, reqVars
<1>2. InHand(w) /\ job[w] \in Senders \cup {Nobody}
  BY DEF Local, Typing
<1>3. PICK r \in Senders : job[w] = r /\ r \in done /\ pc[r] = "accepted"
  BY <1>1, <1>2 DEF InHand, Busy, Cleaning
<1>4. \A v \in Workers : job[v] = r /\ pc[v] \in Cleaning => v = w
  BY <1>1, <1>2, <1>3 DEF InHand, Cleaning
<1>5. /\ pc'[w] = "release slot" /\ \A s \in Senders : pc'[s] = pc[s]
      /\ \A v \in Workers : v # w => pc'[v] = pc[v]
  BY <1>1, Moves, Disjoint DEF Local
<1>6. \A s \in Senders : s # r => (AtWork(s, {"release bytes"})' <=> AtWork(s, {"release bytes"}))
  BY <1>1, <1>3, <1>5, WorkFrame
<1>7. AtWork(r, {"release bytes"})
  BY <1>1, <1>3 DEF AtWork
<1>8. ~AtWork(r, {"release bytes"})'
  BY <1>1, <1>4, <1>5 DEF AtWork, Cleaning
<1>9. r \in Weighed /\ Weighed' = Weighed \ {r}
  BY <1>1, <1>3, <1>5, <1>6, <1>7, <1>8 DEF Weighed
<1>10. Admitted' = Admitted
  BY <1>1, <1>5 DEF Admitted
<1> QED
  BY <1>1, <1>3, <1>9, <1>10

(* What a step may do to the bytes. *)
LEMMA ByteSteps ==
  ASSUME Local, [Next]_vars
  PROVE \/ Even
        \/ \E s \in Senders : ReserveBytes(s) \/ UnreserveBytes(s)
        \/ \E w \in Workers : RunDone(w) \/ ReleaseBytes(w)
<1>1. ASSUME NEW s \in Senders, Settling(s) PROVE Even
  <2>1. UNCHANGED <<pc, done, job>>
    BY <1>1, SettleMoves DEF Moved
  <2>2. UNCHANGED bytes
    BY <1>1, Zenon DEF Settling, Claim, Publish, Push, limitVars
  <2> QED
    BY <2>1, <2>2, EvenStill
<1>2. ASSUME NEW t \in Sweepers, Sweeping(t) PROVE Even
  <2>1. UNCHANGED <<done, job>> /\ \A u \in Senders \cup Workers : pc'[u] = pc[u]
    BY <1>2, SweepMoves, Moves, Disjoint DEF Moved, Local
  <2>2. UNCHANGED bytes
    BY <1>2, Zenon DEF Sweeping, CloseStep, CallClose, ListRequests, SweepRequest, PublishSwept, EndSweep, limitVars
  <2> QED
    BY <2>1, <2>2, EvenStill
<1>3. CASE FreeStep
  <2>1. UNCHANGED <<done, job>> /\ \A u \in Senders \cup Workers : pc'[u] = pc[u]
    BY <1>3, FreeMoves, Moves, Disjoint DEF Local
  <2>2. UNCHANGED bytes
    BY <1>3, Zenon DEF FreeStep, WaitZero, DropRuntime, StoreStopped, NotifyAll, JoinWorkers, limitVars
  <2> QED
    BY <2>1, <2>2, EvenStill
<1>4. CASE UNCHANGED vars
  BY <1>4, EvenStill DEF vars, limitVars, reqVars, execVars
<1> QED
  BY <1>1, <1>2, <1>3, <1>4, EvenSend, EvenWork, Steps

LEMMA ReserveWeighs ==
  ASSUME Local, NEW s \in Senders, ReserveBytes(s)
  PROVE /\ pc[s] = "weigh" /\ s \notin Weighed \cup done /\ Weighed' = Weighed \cup {s}
        /\ bytes' = bytes + Cost[s] /\ UNCHANGED done
        /\ IF bytes + Cost[s] > MaxBytes THEN Admitted' = Admitted ELSE Admitted' = Admitted \cup {s}
<1>1. SendStep(s)
  BY Zenon DEF SendStep
<1>2. /\ pc[s] = "weigh" /\ bytes' = bytes + Cost[s] /\ UNCHANGED done
      /\ Go(s, IF bytes + Cost[s] > MaxBytes THEN "unweigh" ELSE "enter")
  BY DEF ReserveBytes, reqVars
<1>3. pc'[s] = IF bytes + Cost[s] > MaxBytes THEN "unweigh" ELSE "enter"
  BY <1>2, Moves, Disjoint DEF Local
<1>4. /\ s \notin Weighed /\ s \in Weighed' /\ s \notin Admitted /\ s \notin done
      /\ s \in Admitted' <=> ~(bytes + Cost[s] > MaxBytes)
  BY <1>1, <1>2, <1>3, SendWeighs
<1>5. \A q \in Senders : q # s => /\ q \in Weighed' <=> q \in Weighed
                                  /\ q \in Admitted' <=> q \in Admitted
  BY <1>1, SendWeighs
<1>6. Weighed' = Weighed \cup {s}
  BY <1>4, <1>5, Subsets
<1>7. Admitted' = IF bytes + Cost[s] > MaxBytes THEN Admitted ELSE Admitted \cup {s}
  BY <1>4, <1>5, Subsets
<1> QED
  BY <1>2, <1>4, <1>6, <1>7

LEMMA UnreserveWeighs ==
  ASSUME Local, NEW s \in Senders, UnreserveBytes(s)
  PROVE /\ s \in Weighed /\ Weighed' = Weighed \ {s} /\ bytes' = bytes - Cost[s]
        /\ Admitted' = Admitted /\ UNCHANGED done
<1>1. SendStep(s)
  BY Zenon DEF SendStep
<1>2. pc[s] = "unweigh" /\ bytes' = bytes - Cost[s] /\ UNCHANGED done /\ Go(s, "unreserve")
  BY DEF UnreserveBytes, reqVars
<1>3. pc'[s] = "unreserve"
  BY <1>2, Moves, Disjoint DEF Local
<1>4. s \in Weighed /\ s \notin Weighed' /\ s \notin Admitted /\ s \notin Admitted'
  BY <1>1, <1>2, <1>3, SendWeighs
<1>5. \A q \in Senders : q # s => /\ q \in Weighed' <=> q \in Weighed
                                  /\ q \in Admitted' <=> q \in Admitted
  BY <1>1, SendWeighs
<1>6. Weighed' = Weighed \ {s} /\ Admitted' = Admitted
  BY <1>4, <1>5, Subsets
<1> QED
  BY <1>2, <1>4, <1>6

(* What is admitted when a send passes the second look still fits.           *)
LEMMA AdmissionFits ==
  ASSUME ByteCount, NEW s \in Senders, s \notin Weighed, ~(bytes + Cost[s] > MaxBytes)
  PROVE /\ s \notin Admitted /\ Weight(Admitted) + Cost[s] <= MaxBytes
        /\ Weight(Admitted \cup {s}) = Weight(Admitted) + Cost[s]
<1>1. s \notin Admitted /\ Admitted \in SUBSET Senders
  BY Subsets
<1>2. Weight(Admitted) \in Nat /\ Weight(Admitted) <= Weight(Weighed)
  BY Subsets, WeightShrinks
<1>3. Weight(Weighed) \in Nat /\ Cost[s] \in Nat /\ MaxBytes \in Nat
  BY Subsets, ReservedFinite, ClientBounds
<1>4. Weight(Admitted) + Cost[s] <= MaxBytes
  BY <1>2, <1>3 DEF ByteCount
<1> QED
  BY <1>1, <1>4, WeightGains

LEMMA ByteCountStep == ASSUME Local, ByteCount, [Next]_vars PROVE ByteCount'
<1>1. Weighed \in SUBSET Senders /\ Admitted \in SUBSET Senders
  BY Subsets
<1>2. bytes = Weight(Weighed) /\ Weight(Admitted) <= MaxBytes
  BY Zenon DEF ByteCount
<1>3. CASE Even
  BY <1>2, <1>3, Zenon DEF ByteCount, Even, Weight, Reserved
<1>4. ASSUME NEW s \in Senders, ReserveBytes(s) PROVE ByteCount'
  <2>1. /\ s \notin Weighed /\ Weighed' = Weighed \cup {s} /\ bytes' = bytes + Cost[s]
        /\ Admitted' = IF bytes + Cost[s] > MaxBytes THEN Admitted ELSE Admitted \cup {s}
    BY <1>4, ReserveWeighs
  <2>2. Weight(Weighed') = Weight(Weighed) + Cost[s]
    BY <1>1, <2>1, WeightGains
  <2>3. Weight(Admitted') <= MaxBytes
    BY <1>2, <2>1, AdmissionFits
  <2> QED
    BY <1>2, <2>1, <2>2, <2>3 DEF ByteCount, Weight, Reserved
<1>5. ASSUME NEW s \in Weighed, Weighed' = Weighed \ {s}, bytes' = bytes - Cost[s], Admitted' = Admitted
      PROVE ByteCount'
  <2>1. Weight(Weighed') = Weight(Weighed) - Cost[s]
    BY <1>1, <1>5, WeightLoses
  <2> QED
    BY <1>2, <1>5, <2>1 DEF ByteCount, Weight, Reserved
<1>6. ASSUME NEW w \in Workers, RunDone(w) PROVE ByteCount'
  <2>1. Weighed' = Weighed /\ UNCHANGED bytes /\ Admitted' \in SUBSET Admitted
    BY <1>6, DoneWeighs
  <2>2. Weight(Admitted') \in Nat /\ Weight(Admitted') <= Weight(Admitted) /\ Weight(Admitted) \in Nat
    BY <1>1, <2>1, WeightShrinks, ReservedFinite
  <2>3. Weight(Admitted') <= MaxBytes
    BY <1>2, <2>2, ClientBounds
  <2> QED
    BY <1>2, <2>1, <2>3 DEF ByteCount, Weight, Reserved
<1> QED
  BY <1>3, <1>4, <1>5, <1>6, ByteSteps, UnreserveWeighs, ReleaseWeighs
-----------------------------------------------------------------------------
(* The remaining types.                                                      *)

Rest ==
  /\ closed \in BOOLEAN /\ stopped \in BOOLEAN
  /\ running \subseteq Senders /\ ended \subseteq Senders /\ awake \subseteq Workers
  /\ mutex \in Workers \cup {Nobody} /\ sweep \in [Sweepers -> SUBSET Senders]
  /\ target \in [Sweepers -> Senders \cup {Nobody}]
  /\ \A t \in Sweepers : pc[t] = "publish" => target[t] # Nobody

LEMMA ScheduleTypes == ASSUME Rest, NEW r, Schedule(r) PROVE awake' \subseteq Workers /\ UNCHANGED <<mutex, stopped>>
BY DEF Rest, Schedule, Asleep

LEMMA RestSend ==
  ASSUME Local, Rest, NEW s \in Senders, CheckClosed(s) \/ SendStep(s)
  PROVE Rest'
<1>1. UNCHANGED <<closed, ended, stopped, awake, mutex, sweepVars>>
  BY Zenon DEF CheckClosed, SendStep, ReserveSlot, ReserveBytes, UnreserveBytes, UnreserveSlot, Enter, Insert, reqVars, execVars
<1>2. running' \in {running, running \cup {s}}
  BY Zenon DEF CheckClosed, SendStep, ReserveSlot, ReserveBytes, UnreserveBytes, UnreserveSlot, Enter, Insert, reqVars
<1>3. \A t \in Sweepers : pc'[t] = pc[t]
  BY SendMoves, Moves, Disjoint DEF Local
<1> QED
  BY <1>1, <1>2, <1>3 DEF Rest, sweepVars

LEMMA RestSettle ==
  ASSUME Rest, NEW s \in Senders, Settling(s)
  PROVE Rest'
<1>1. UNCHANGED <<closed, sweepVars, pc>>
  BY Zenon DEF Settling, Claim, Publish, Push
<1>2. running' \subseteq running /\ ended' \subseteq ended \cup {s}
  BY DEF Settling, Claim, Publish, Push, reqVars
<1>3. UNCHANGED execVars \/ Schedule(s)
  BY Zenon DEF Settling, Claim, Publish, Push
<1>4. awake' \subseteq Workers /\ UNCHANGED <<mutex, stopped>>
  BY <1>3, ScheduleTypes DEF Rest, execVars
<1> QED
  BY <1>1, <1>2, <1>4 DEF Rest, sweepVars

LEMMA RestSweep ==
  ASSUME Local, Rest, NEW t \in Sweepers, Sweeping(t)
  PROVE Rest'
<1>1. ASSUME NEW l, Go(t, l)
      PROVE pc'[t] = l /\ \A u \in Sweepers : u # t => pc'[u] = pc[u]
  BY <1>1, Moves, Disjoint DEF Local
<1>2. UNCHANGED <<stopped, awake, mutex>> /\ closed' \in {closed, TRUE}
  BY Zenon DEF Sweeping, CloseStep, CallClose, ListRequests, SweepRequest, PublishSwept, EndSweep, execVars
<1>3. CASE SweepRequest(t)
  <2>1. PICK r \in sweep[t] :
          /\ sweep' = [sweep EXCEPT ![t] = @ \ {r}]
          /\ \/ target' = [target EXCEPT ![t] = r] /\ Go(t, "publish")
             \/ UNCHANGED <<target, pc>>
    BY <1>3, Zenon DEF SweepRequest
  <2>2. running' \subseteq running /\ UNCHANGED <<closed, ended>>
    BY <1>3 DEF SweepRequest
  <2>3. r \in Senders /\ r # Nobody
    BY <2>1, Disjoint DEF Rest
  <2>4. sweep' \in [Sweepers -> SUBSET Senders]
    BY <2>1 DEF Rest
  <2>5. CASE target' = [target EXCEPT ![t] = r] /\ Go(t, "publish")
    BY <1>1, <1>2, <2>2, <2>3, <2>4, <2>5 DEF Rest
  <2>6. CASE UNCHANGED <<target, pc>>
    BY <1>2, <2>2, <2>4, <2>6 DEF Rest
  <2> QED
    BY <2>1, <2>5, <2>6
<1>4. CASE PublishSwept(t)
  <2>1. /\ pc[t] = "publish" /\ ended' = ended \cup {target[t]} /\ target' = [target EXCEPT ![t] = Nobody]
        /\ Go(t, "sweep") /\ UNCHANGED <<closed, running, sweep>>
    BY <1>4 DEF PublishSwept
  <2>2. target[t] \in Senders
    BY <2>1 DEF Rest
  <2>3. target' \in [Sweepers -> Senders \cup {Nobody}] /\ \A u \in Sweepers : u # t => target'[u] = target[u]
    BY <2>1 DEF Rest
  <2> QED
    BY <1>1, <1>2, <2>1, <2>2, <2>3 DEF Rest
<1>5. CASE CallClose(t) \/ ListRequests(t) \/ EndSweep(t)
  <2>1. /\ UNCHANGED <<running, ended, target>> /\ \E l : l # "publish" /\ Go(t, l)
        /\ sweep' \in {sweep, [sweep EXCEPT ![t] = requests]}
    BY <1>5 DEF CallClose, ListRequests, EndSweep, reqVars, sweepVars
  <2>2. \A u \in Sweepers : pc'[u] = "publish" => pc[u] = "publish"
    BY <1>1, <2>1
  <2>3. sweep' \in [Sweepers -> SUBSET Senders]
    BY <2>1 DEF Rest, Local, Typing
  <2> QED
    BY <1>2, <2>1, <2>2, <2>3 DEF Rest
<1> QED
  BY <1>3, <1>4, <1>5, Zenon DEF Sweeping, CloseStep

LEMMA RestFree == ASSUME Local, Rest, FreeStep PROVE Rest'
<1>1. UNCHANGED <<closed, running, ended, mutex, sweepVars>>
  BY Zenon DEF FreeStep, WaitZero, DropRuntime, StoreStopped, NotifyAll, JoinWorkers, reqVars, execVars
<1>2. stopped' \in {stopped, TRUE} /\ awake' \in {awake, awake \cup Asleep}
  BY Zenon DEF FreeStep, WaitZero, DropRuntime, StoreStopped, NotifyAll, JoinWorkers, execVars
<1>3. stopped' \in BOOLEAN
  BY <1>2, Zenon DEF Rest
<1>4. awake' \subseteq Workers
  BY <1>2 DEF Rest, Asleep
<1>5. \A t \in Sweepers : pc'[t] = "publish" => pc[t] = "publish"
  BY FreeMoves, Moves, Disjoint DEF Local
<1> QED
  BY <1>1, <1>3, <1>4, <1>5 DEF Rest, sweepVars

LEMMA RestWork ==
  ASSUME Local, Rest, NEW w \in Workers, WorkerStep(w)
  PROVE Rest'
<1> USE DEF CheckStopped, LockReady, PopReady, Doze, EndSlice, Requeue, Schedule, RunDone,
            ReleaseBytes, ReleaseSlot, RemoveRequest, Leave
<1>1. UNCHANGED <<closed, running, ended, stopped, sweepVars>>
  BY Zenon DEF WorkerStep, reqVars, execVars
<1>2. mutex' \in {mutex, w, Nobody}
  BY Zenon DEF WorkerStep, execVars
<1>3. awake' \subseteq Workers
  BY DEF WorkerStep, execVars, Rest, Asleep
<1>4. \A t \in Sweepers : pc'[t] = pc[t]
  BY WorkerGoes, Moves, Disjoint DEF Local
<1> QED
  BY <1>1, <1>2, <1>3, <1>4 DEF Rest, sweepVars

LEMMA RestStep == ASSUME Local, Rest, [Next]_vars PROVE Rest'
<1>1. CASE UNCHANGED vars
  BY <1>1 DEF vars, Rest, reqVars, execVars, sweepVars
<1> QED
  BY <1>1, RestSend, RestSettle, RestSweep, RestFree, RestWork, Steps
-----------------------------------------------------------------------------
(* The executor.  The lock of the ready queue is held by the worker that     *)
(* looks at it, up to its cv.wait, and who dozes off has seen it empty.      *)

Dispatch == \A w \in Workers :
  /\ pc[w] \in {"look", "doze"} => mutex = w
  /\ pc[w] = "doze" => ready = {}

LEMMA FreerMoves ==
  ASSUME Local, [Next]_vars
  PROVE (Waited' <=> Waited) \/ WaitZero
<1>1. ASSUME NEW t \in Sweepers, Sweeping(t) PROVE Waited' <=> Waited
  <2>1. CASE UNCHANGED pc \/ t # Freer
    BY <1>1, <2>1, SweepMoves, Moves, Disjoint DEF Local, Waited
  <2>2. CASE ~UNCHANGED pc /\ t = Freer
    <3>1. ~Waited
      BY <1>1, <2>2 DEF Sweeping, CallClose, CloseStep, ListRequests, SweepRequest, PublishSwept, EndSweep, Waited
    <3>2. ~Waited'
      BY <1>1, <2>2, SweepMoves, Moves, Disjoint DEF Local, Waited
    <3> QED
      BY <3>1, <3>2
  <2> QED
    BY <2>1, <2>2
<1>2. ASSUME FreeStep, ~WaitZero PROVE Waited' <=> Waited
  <2>1. Waited
    BY <1>2 DEF FreeStep, DropRuntime, StoreStopped, NotifyAll, JoinWorkers, Waited
  <2>2. Waited'
    BY <1>2, FreeMoves, Moves, Disjoint DEF Local, Waited
  <2> QED
    BY <2>1, <2>2
<1>3. ASSUME pc'[Freer] = pc[Freer] PROVE Waited' <=> Waited
  BY <1>3 DEF Waited
<1> QED
  BY <1>1, <1>2, <1>3, FreerStill

(* A push finds the lock free and wakes a sleeper, if there is one. *)
LEMMA PushesUnlocked ==
  ASSUME \/ \E s \in Senders : Settling(s)
         \/ \E t \in Sweepers : Sweeping(t)
  PROVE /\ UNCHANGED <<mutex, stopped>>
        /\ UNCHANGED <<ready, awake>> \/ \E r : Schedule(r)
<1>1. UNCHANGED execVars \/ \E r : Schedule(r)
  BY Zenon DEF Settling, Claim, Publish, Push, Sweeping, CloseStep, CallClose, ListRequests, SweepRequest, PublishSwept, EndSweep
<1> QED
  BY <1>1, Zenon DEF execVars, Schedule

LEMMA DispatchStill ==
  ASSUME Dispatch, \A w \in Workers : pc'[w] = pc[w], UNCHANGED mutex,
         mutex = Nobody \/ UNCHANGED ready
  PROVE Dispatch'
<1>1. \A w \in Workers : pc[w] = "doze" => mutex # Nobody
  BY ClientThreads DEF Dispatch
<1> QED
  BY <1>1 DEF Dispatch

LEMMA DispatchWork ==
  ASSUME Local, Dispatch, NEW w \in Workers, WorkerStep(w)
  PROVE Dispatch'
<1>1. ASSUME NEW l, Go(w, l)
      PROVE pc'[w] = l /\ \A v \in Workers : v # w => pc'[v] = pc[v]
  BY <1>1, Moves, Disjoint DEF Local
<1>2. w # Nobody /\ \A v \in Workers : v # Nobody /\ (pc[v] \in {"look", "doze"} => mutex = v)
  BY ClientThreads DEF Dispatch
<1>3. ready' \subseteq ready \/ mutex = Nobody
  <2>1. CASE Requeue(w)
    BY <2>1 DEF Requeue, Schedule
  <2>2. CASE ~Requeue(w)
    BY <2>2 DEF WorkerStep, CheckStopped, LockReady, PopReady, Doze, EndSlice, RunDone, ReleaseBytes, ReleaseSlot, RemoveRequest, Leave, execVars
  <2> QED
    BY <2>1, <2>2
<1>4. ASSUME NEW v \in Workers, v # w
      PROVE /\ pc'[v] \in {"look", "doze"} => mutex' = v
            /\ pc'[v] = "doze" => ready' = {}
  <2>1. pc'[v] = pc[v]
    BY <1>1, <1>4, WorkerGoes
  <2>2. mutex = v => mutex' = v
    <3>1. pc[w] \in {"look", "doze"} => mutex # v
      BY <1>2, <1>4
    <3>2. UNCHANGED mutex \/ pc[w] \in {"look", "doze"} \/ mutex = Nobody
      BY DEF WorkerStep, CheckStopped, LockReady, PopReady, Doze, EndSlice, Requeue, Schedule, RunDone, ReleaseBytes, ReleaseSlot, RemoveRequest, Leave, execVars
    <3> QED
      BY <1>2, <3>1, <3>2
  <2>3. pc[v] = "doze" => mutex # Nobody /\ ready = {}
    BY <1>2 DEF Dispatch
  <2> QED
    BY <1>2, <1>3, <2>1, <2>2, <2>3
<1>5. /\ pc'[w] \in {"look", "doze"} => mutex' = w
      /\ pc'[w] = "doze" => ready' = {}
  <2>1. CASE LockReady(w)
    <3>1. Go(w, "look") /\ mutex' = w
      BY <2>1, Zenon DEF LockReady
    <3>2. pc'[w] = "look"
      BY <1>1, <3>1
    <3> QED
      BY <3>1, <3>2
  <2>2. CASE PopReady(w)
    <3>1. \/ pc'[w] \in {"run", "exited"}
          \/ pc'[w] = "doze" /\ UNCHANGED <<mutex, ready>> /\ ready = {}
      BY <1>1, <2>2 DEF PopReady
    <3>2. mutex = w
      BY <1>2, <2>2 DEF PopReady
    <3> QED
      BY <3>1, <3>2
  <2>3. CASE ~LockReady(w) /\ ~PopReady(w)
    <3>1. \E l : l \notin {"look", "doze"} /\ Go(w, l)
      BY <2>3 DEF WorkerStep, CheckStopped, Doze, EndSlice, Requeue, RunDone, ReleaseBytes, ReleaseSlot, RemoveRequest, Leave
    <3>2. pc'[w] \notin {"look", "doze"}
      BY <1>1, <3>1
    <3> QED
      BY <3>2
  <2> QED
    BY <2>1, <2>2, <2>3
<1> QED
  BY <1>4, <1>5 DEF Dispatch

LEMMA DispatchStep == ASSUME Local, Dispatch, [Next]_vars PROVE Dispatch'
<1>1. ASSUME NEW s \in Senders, CheckClosed(s) \/ SendStep(s) PROVE Dispatch'
  <2>1. \A w \in Workers : pc'[w] = pc[w]
    BY <1>1, SendMoves, Moves, Disjoint DEF Local
  <2> QED
    BY <1>1, <2>1, SendMoves, DispatchStill DEF execVars
<1>2. ASSUME NEW s \in Senders, Settling(s) PROVE Dispatch'
  BY <1>2, SettleMoves, PushesUnlocked, DispatchStill DEF Schedule
<1>3. ASSUME NEW t \in Sweepers, Sweeping(t) PROVE Dispatch'
  <2>1. \A w \in Workers : pc'[w] = pc[w]
    BY <1>3, SweepMoves, Moves, Disjoint DEF Local
  <2> QED
    BY <1>3, <2>1, PushesUnlocked, DispatchStill DEF Schedule
<1>4. CASE FreeStep
  <2>1. \A w \in Workers : pc'[w] = pc[w]
    BY <1>4, FreeMoves, Moves, Disjoint DEF Local
  <2>2. UNCHANGED <<mutex, ready>>
    BY <1>4, Zenon DEF FreeStep, WaitZero, DropRuntime, StoreStopped, NotifyAll, JoinWorkers, execVars
  <2> QED
    BY <2>1, <2>2, DispatchStill
<1>5. CASE UNCHANGED vars
  BY <1>5, DispatchStill DEF vars, execVars
<1> QED
  BY <1>1, <1>2, <1>3, <1>4, <1>5, DispatchWork, Steps

(* Whoever watches the queue goes on watching it while no worker moves. *)
LEMMA WatchedStill ==
  ASSUME QueueIsWatched, \A w \in Workers : pc'[w] = pc[w], awake \subseteq awake', UNCHANGED ready,
         stopped => stopped'
  PROVE QueueIsWatched'
BY DEF QueueIsWatched, Asleep

LEMMA WatchedPush ==
  ASSUME NEW r, Schedule(r), \A w \in Workers : pc'[w] = pc[w]
  PROVE QueueIsWatched'
<1>1. CASE Asleep = {}
  <2>1. PICK w \in Workers : TRUE
    BY ClientThreads
  <2>2. w \notin Asleep'
    BY <1>1 DEF Schedule, Asleep
  <2> QED
    BY <2>2 DEF QueueIsWatched
<1>2. CASE Asleep # {}
  <2>1. PICK w \in Asleep : awake' = awake \cup {w}
    BY <1>2 DEF Schedule
  <2>2. w \in Workers /\ w \notin Asleep'
    BY <2>1 DEF Asleep
  <2> QED
    BY <2>2 DEF QueueIsWatched
<1> QED
  BY <1>1, <1>2

LEMMA WatchedWork ==
  ASSUME Local, Dispatch, NEW w \in Workers, WorkerStep(w)
  PROVE QueueIsWatched'
<1>1. CASE Doze(w)
  <2>1. ready' = {}
    BY <1>1 DEF Doze, Dispatch
  <2> QED
    BY <2>1 DEF QueueIsWatched
<1>2. CASE ~Doze(w)
  <2>1. \E l : l # "asleep" /\ Go(w, l)
    BY <1>2 DEF WorkerStep, CheckStopped, LockReady, PopReady, EndSlice, Requeue, RunDone, ReleaseBytes, ReleaseSlot, RemoveRequest, Leave
  <2>2. pc'[w] # "asleep"
    BY <2>1, Moves, Disjoint DEF Local
  <2> QED
    BY <2>2 DEF QueueIsWatched, Asleep
<1> QED
  BY <1>1, <1>2

LEMMA WatchedStep ==
  ASSUME Local, Dispatch, QueueIsWatched, [Next]_vars
  PROVE QueueIsWatched'
<1>1. ASSUME NEW s \in Senders, CheckClosed(s) \/ SendStep(s) PROVE QueueIsWatched'
  <2>1. \A w \in Workers : pc'[w] = pc[w]
    BY <1>1, SendMoves, Moves, Disjoint DEF Local
  <2> QED
    BY <1>1, <2>1, SendMoves, WatchedStill DEF execVars
<1>2. ASSUME NEW s \in Senders, Settling(s) PROVE QueueIsWatched'
  BY <1>2, SettleMoves, PushesUnlocked, WatchedStill, WatchedPush
<1>3. ASSUME NEW t \in Sweepers, Sweeping(t) PROVE QueueIsWatched'
  <2>1. \A w \in Workers : pc'[w] = pc[w]
    BY <1>3, SweepMoves, Moves, Disjoint DEF Local
  <2> QED
    BY <1>3, <2>1, PushesUnlocked, WatchedStill, WatchedPush
<1>4. CASE FreeStep
  <2>1. \A w \in Workers : pc'[w] = pc[w]
    BY <1>4, FreeMoves, Moves, Disjoint DEF Local
  <2>2. /\ UNCHANGED ready /\ awake' \in {awake, awake \cup Asleep}
        /\ stopped' \in {stopped, TRUE}
    BY <1>4, Zenon DEF FreeStep, WaitZero, DropRuntime, StoreStopped, NotifyAll, JoinWorkers, execVars
  <2>3. stopped => stopped'
    BY <2>2, Zenon
  <2>4. awake \subseteq awake'
    BY <2>2
  <2> QED
    BY <2>1, <2>2, <2>3, <2>4, WatchedStill, Zenon
<1>5. CASE UNCHANGED vars
  BY <1>5, WatchedStill DEF vars, execVars
<1> QED
  BY <1>1, <1>2, <1>3, <1>4, <1>5, WatchedWork, Steps
-----------------------------------------------------------------------------
(* The theorems.                                                             *)

Whole == IInv /\ Rest /\ ByteCount /\ Dispatch /\ QueueIsWatched

LEMMA WholeInit == Init => Whole
<1> SUFFICES ASSUME Init PROVE Whole
  OBVIOUS
<1>1. /\ \A s \in Senders : pc[s] = "idle"
      /\ \A w \in Workers : pc[w] = "loop" /\ job[w] = Nobody
      /\ \A t \in Sweepers : pc[t] = "idle"
  BY Disjoint DEF Init
<1>2. /\ running = {} /\ ended = {} /\ ready = {} /\ awake = {} /\ mutex = Nobody /\ closed = FALSE /\ stopped = FALSE
      /\ bytes = 0 /\ sweep = [t \in Sweepers |-> {}] /\ target = [t \in Sweepers |-> Nobody]
  BY Zenon DEF Init
<1>3. Rest
  BY <1>1, <1>2 DEF Rest
<1>4. QueueIsWatched /\ Dispatch
  BY <1>1, <1>2 DEF QueueIsWatched, Dispatch
<1>5. ByteCount
  <2>1. \A s : ~AtWork(s, {"release bytes"})
    BY <1>1 DEF AtWork
  <2>2. Weighed = {} /\ Admitted = {}
    BY <1>1, <2>1 DEF Weighed, Admitted
  <2>3. Reserved({}) = {}
    BY DEF Reserved
  <2>4. Weight({}) = 0
    BY <2>3, FS_EmptySet DEF Weight
  <2> QED
    BY <1>2, <2>2, <2>4, ClientBounds DEF ByteCount
<1> QED
  BY <1>3, <1>4, <1>5, Initially DEF Whole

LEMMA WholeStep == Whole /\ [Next]_vars => Whole'
<1> SUFFICES ASSUME Whole, [Next]_vars PROVE Whole'
  OBVIOUS
<1>1. IInv /\ Rest /\ ByteCount /\ Dispatch /\ QueueIsWatched
  BY Zenon DEF Whole
<1>2. Local
  BY <1>1, Zenon DEF IInv, Local
<1>3. IInv'
  BY <1>1, Inductive
<1>4. Rest' /\ ByteCount'
  BY <1>1, <1>2, RestStep, ByteCountStep
<1>5. Dispatch' /\ QueueIsWatched'
  BY <1>1, <1>2, DispatchStep, WatchedStep
<1> QED
  BY <1>3, <1>4, <1>5, Zenon DEF Whole

(* The fields of the client, of Limits and of the executor have their types, *)
(* and none of the three counters ever goes below zero.                      *)
THEOREM TypeCorrect == Spec => []TypeOK
<1>1. ASSUME Whole PROVE TypeOK
  <2>1. Typing /\ Rest
    BY <1>1, Zenon DEF Whole, IInv
  <2>2. inflight \in Nat /\ bridges \in Nat
    BY <1>1, Finite DEF Whole, IInv, Counts
  <2>3. bytes \in Nat
    BY <1>1, Subsets, ReservedFinite DEF Whole, ByteCount
  <2> QED
    BY <2>1, <2>2, <2>3, Zenon DEF TypeOK, Typing, Rest
<1>2. Whole => TypeOK
  BY <1>1
<1> QED
  BY <1>2, WholeInit, WholeStep, PTL DEF Spec

(* Both of Limits' counters are at every moment what the sends in progress   *)
(* and the unfinished requests hold: no exit path of try_reserve or of the   *)
(* Reservation's drop leaks or gives back twice.                             *)
THEOREM NothingLeaks == Spec => []ReservationsBalance
<1>1. Whole => ReservationsBalance
  BY Zenon DEF Whole, IInv, Counts, ByteCount, ReservationsBalance
<1> QED
  BY <1>1, WholeInit, WholeStep, PTL DEF Spec

(* However many sends race through try_reserve, the unfinished requests and  *)
(* the bytes reserved for them stay within max_inflight and max_bytes.       *)
THEOREM CeilingsKept == Spec => []CeilingsHold
<1>1. ASSUME Whole PROVE CeilingsHold
  <2>1. Cardinality(Passed) <= MaxInflight /\ Weight(Admitted) <= MaxBytes
    BY <1>1, Zenon DEF Whole, IInv, Counts, ByteCount
  <2>2. Cardinality(Admitted) \in Nat /\ Cardinality(Admitted) <= Cardinality(Passed) /\ Cardinality(Passed) \in Nat
    BY Subsets, Finite, Shrinks
  <2> QED
    BY <2>1, <2>2, ClientBounds DEF CeilingsHold
<1>2. Whole => CeilingsHold
  BY <1>1
<1> QED
  BY <1>2, WholeInit, WholeStep, PTL DEF Spec

(* What free waits for: past wait_zero every accepted request has had its    *)
(* OnDone and neither the map nor the counters hold anything of it, although *)
(* slices of finished requests may still run; past the join no worker is in  *)
(* a slice.  For any number of sends, workers and closes.                    *)
THEOREM FreeWaitsForEveryCallback == Spec => []FreeIsSafe
<1>1. ASSUME Whole PROVE FreeIsSafe
  <2>1. Local /\ Alone /\ Counts /\ Mapped /\ Quiet /\ Joined /\ ByteCount
    BY <1>1, Zenon DEF Whole, IInv, Local
  <2>2. ASSUME Waited
        PROVE (\A s \in Senders : pc[s] = "accepted" => s \in done) /\ requests = {} /\ inflight = 0 /\ bytes = 0
    <3>1. \A s \in Senders : (pc[s] = "accepted" => s \in done) /\ ~AtWork(s, Cleaning)
      BY <2>1, <2>2 DEF Quiet
    <3>2. \A s \in Senders : pc[s] \in {"idle", "refused", "accepted"}
      BY <2>1, <2>2 DEF Alone, Waited
    <3>3. \A s \in Senders : ~AtWork(s, Unmapped) /\ ~AtWork(s, Releasing) /\ ~AtWork(s, {"release bytes"})
      BY <3>1 DEF AtWork, Cleaning, Unmapped, Releasing
    <3>4. requests = {}
      BY <2>1, <3>1, <3>3 DEF Mapped, Local, Typing, Placed
    <3>5. Counted = {}
      BY <3>1, <3>2, <3>3 DEF Counted, Releasing
    <3>6. Weighed = {}
      BY <3>1, <3>2, <3>3 DEF Weighed
    <3>7. Weight({}) = 0
      BY FS_EmptySet DEF Weight, Reserved
    <3>8. inflight = 0
      BY <2>1, <3>5, FS_EmptySet DEF Counts
    <3> QED
      BY <2>1, <3>1, <3>4, <3>6, <3>7, <3>8 DEF ByteCount
  <2>3. ASSUME pc[Freer] = "freed" PROVE \A w \in Workers : job[w] = Nobody
    BY <2>1, <2>3 DEF Joined, Local, InHand, Busy, Cleaning
  <2> QED
    BY <2>2, <2>3 DEF FreeIsSafe
<1>2. Whole => FreeIsSafe
  BY <1>1
<1> QED
  BY <1>2, WholeInit, WholeStep, PTL DEF Spec

(* worker_loop loses no wakeup: until the shutdown, while a request is       *)
(* queued some worker is not waiting unnotified, for any number of workers.  *)
THEOREM NoWakeupLost == Spec => []QueueIsWatched
<1>1. Whole => QueueIsWatched
  BY Zenon DEF Whole
<1> QED
  BY <1>1, WholeInit, WholeStep, PTL DEF Spec
-----------------------------------------------------------------------------
(* The contract, step by step.                                               *)

(* The cardinality that ClientContract takes from FiniteSets is this one. *)
LEMMA SameCount == ASSUME NEW S PROVE Contract!Cardinality(S) = Cardinality(S)
BY Zenon DEF Contract!Cardinality, Cardinality

LEMMA ContractInit == Init => Contract!Init
<1> SUFFICES ASSUME Init PROVE Contract!Init
  OBVIOUS
<1>1. (\A s \in Senders : pc[s] = "idle") /\ pc[Freer] = "idle" /\ done = {}
  BY Disjoint DEF Init
<1>2. Admitted = {} /\ ~Waited
  BY <1>1 DEF Admitted, Waited
<1> QED
  BY <1>1, <1>2 DEF Contract!Init

(* A send that passes both looks is an Admit. *)
LEMMA ReserveAdmits ==
  ASSUME Whole, NEW s \in Senders, ReserveBytes(s), ~(bytes + Cost[s] > MaxBytes)
  PROVE Contract!Admit(s)
<1>1. Local /\ Alone /\ Counts /\ ByteCount
  BY Zenon DEF Whole, IInv, Local
<1>2. /\ pc[s] = "weigh" /\ s \notin Weighed \cup done
      /\ Admitted' = Admitted \cup {s} /\ UNCHANGED done
  BY <1>1, ReserveWeighs
<1>3. pc[Freer] = "idle" /\ pc'[Freer] = pc[Freer]
  <2>1. pc[Freer] = "idle"
    BY <1>1, <1>2 DEF Alone
  <2>2. SendStep(s)
    BY Zenon DEF SendStep
  <2> QED
    BY <1>1, <2>1, <2>2, SendMoves, Moves, Disjoint DEF Local
<1>4. s \notin Admitted /\ Weight(Admitted) + Cost[s] <= MaxBytes
  BY <1>1, <1>2, AdmissionFits
<1>5. Cardinality(Admitted) < MaxInflight
  <2>1. s \in Passed /\ Admitted \subseteq Passed \ {s}
    BY <1>2, <1>4, Subsets DEF Passed
  <2>2. IsFiniteSet(Passed \ {s}) /\ Cardinality(Passed \ {s}) = Cardinality(Passed) - 1
    BY <2>1, Finite, FS_RemoveElement
  <2>3. Cardinality(Admitted) \in Nat /\ Cardinality(Admitted) <= Cardinality(Passed) - 1
    BY <2>1, <2>2, Shrinks
  <2>4. Cardinality(Passed) \in Nat /\ Cardinality(Passed) <= MaxInflight
    BY <1>1, Finite DEF Counts
  <2> QED
    BY <2>3, <2>4, ClientBounds
<1>6. ~Waited
  BY <1>3 DEF Waited
<1>7. Waited' = Waited
  BY <1>3 DEF Waited
<1>8. /\ Contract!Cardinality(Admitted) < MaxInflight
      /\ Contract!Cardinality(Contract!Reserved(Admitted)) + Cost[s] <= MaxBytes
  BY <1>4, <1>5, SameCount, Zenon DEF Weight, Reserved, Contract!Reserved
<1>9. s \notin Admitted \cup done
  BY <1>2, <1>4
<1> QED
  BY <1>2, <1>6, <1>7, <1>8, <1>9, Zenon DEF Contract!Admit

LEMMA DoneIsOnDone ==
  ASSUME Whole, NEW w \in Workers, RunDone(w)
  PROVE \E r \in Senders : Contract!OnDone(r)
<1>1. Local
  BY Zenon DEF Whole, IInv, Local
<1>2. job[w] \in Admitted /\ Admitted' = Admitted \ {job[w]} /\ done' = done \cup {job[w]}
  BY <1>1, DoneWeighs
<1>3. pc'[Freer] = pc[Freer]
  BY <1>1, Moves, Disjoint DEF RunDone, Local
<1>4. job[w] \in Senders
  BY <1>2 DEF Admitted
<1>5. Waited' = Waited
  BY <1>3 DEF Waited
<1> QED
  BY <1>2, <1>4, <1>5 DEF Contract!OnDone

LEMMA WaitedIsFree ==
  ASSUME Whole, WaitZero
  PROVE Contract!Free
<1>1. Local /\ Alone /\ Counts
  BY Zenon DEF Whole, IInv, Local
<1>2. pc[Freer] = "wait zero" /\ bridges = 0 /\ Go(Freer, "drop") /\ UNCHANGED <<done, job>>
  BY DEF WaitZero, reqVars, execVars
<1>3. pc'[Freer] = "drop" /\ \A s \in Senders : pc'[s] = pc[s]
  BY <1>1, <1>2, Moves, Disjoint DEF Local
<1>4. Admitted = {}
  <2>1. \A s \in Senders : pc[s] \in {"idle", "refused", "accepted"}
    BY <1>1, <1>2 DEF Alone
  <2>2. \A s \in Senders : pc[s] = "accepted" => s \in done
    BY <1>1, <1>2, ZeroIsQuiet
  <2> QED
    BY <2>1, <2>2 DEF Admitted
<1>5. Admitted' = Admitted
  BY <1>2, <1>3 DEF Admitted
<1>6. ~Waited /\ Waited' = TRUE
  BY <1>2, <1>3 DEF Waited
<1> QED
  BY <1>2, <1>4, <1>5, <1>6 DEF Contract!Free

LEMMA ContractStep == Whole /\ [Next]_vars => [Contract!Next]_Contract!vars
<1> SUFFICES ASSUME Whole, [Next]_vars PROVE [Contract!Next]_Contract!vars
  OBVIOUS
<1>1. Local
  BY Zenon DEF Whole, IInv, Local
<1>2. CASE WaitZero
  BY <1>2, WaitedIsFree DEF Contract!Next
<1>3. ASSUME NEW s \in Senders, ReserveBytes(s), ~(bytes + Cost[s] > MaxBytes) PROVE Contract!Next
  BY <1>3, ReserveAdmits DEF Contract!Next
<1>4. ASSUME NEW w \in Workers, RunDone(w) PROVE Contract!Next
  BY <1>4, DoneIsOnDone DEF Contract!Next
<1>5. ASSUME Admitted' = Admitted, UNCHANGED done, ~WaitZero PROVE UNCHANGED Contract!vars
  <2>1. Waited' = Waited
    BY <1>1, <1>5, FreerMoves DEF Waited
  <2> QED
    BY <1>5, <2>1, Zenon DEF Contract!vars
<1>6. ASSUME NEW s \in Senders, ReserveBytes(s), bytes + Cost[s] > MaxBytes PROVE Admitted' = Admitted /\ UNCHANGED done
  BY <1>1, <1>6, ReserveWeighs
<1>7. \/ Admitted' = Admitted /\ UNCHANGED done
      \/ \E s \in Senders : ReserveBytes(s) /\ ~(bytes + Cost[s] > MaxBytes)
      \/ \E w \in Workers : RunDone(w)
  BY <1>1, <1>6, ByteSteps, UnreserveWeighs, ReleaseWeighs DEF Even
<1> QED
  BY <1>2, <1>3, <1>4, <1>5, <1>7, Zenon

(* The client implements ClientContract: a request is admitted only within   *)
(* both ceilings and before free has waited, each admitted request ends once *)
(* and only by its OnDone, and free passes its wait when none is open.       *)
THEOREM RefinesContract == Spec => ImplementsContract
BY ContractInit, ContractStep, WholeInit, WholeStep, PTL DEF Spec, ImplementsContract, Contract!Spec
=============================================================================
