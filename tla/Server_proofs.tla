---------------------------- MODULE Server_proofs ----------------------------
(* The safety properties of Server hold for every number of requests, every  *)
(* ceiling and every channel capacity.                                       *)
EXTENDS Server, FiniteSetTheorems, TLAPS

Early == {"new", "backlog", "handshake", "open"}
Submitting == {"check", "acquire", "reject", "count", "recheck"}
Unanswered == Submitting \cup {"handler", "begin", "suspended", "finish"}
Over == {"release", "unslot", "done"}

(* A connection that still waits has its delivery. *)
Delivered(r) ==
  /\ conn[r] = "await" => chan[r] # "none"
  /\ conn[r] = "callback" => slot[r] # "none" \/ chan[r] # "none"

(* One request in the engine: the registration is there exactly while        *)
(* handle() can still take a delivery, the slot only during the callback,    *)
(* and nothing is there before the callback.                                 *)
Registered(r) ==
  /\ r \in pending <=> conn[r] \in {"callback", "await"} /\ chan[r] = "none"
  /\ slot[r] # "none" => conn[r] = "callback"
  /\ r \in inline => conn[r] = "callback"
  /\ conn[r] \in Early => co[r] = "none"
  /\ co[r] = "none" => slot[r] = "none" /\ chan[r] = "none" /\ conn[r] \notin {"callback", "await"}

(* One request and its coroutine: until the coroutine answers nothing has    *)
(* been delivered, and only the client can have ended the connection; when   *)
(* it has answered, the delivery is there.                                   *)
Answers(r) ==
  /\ co[r] \in Submitting => r \in inline
  /\ co[r] \in Submitting \cup {"none", "begin"} => r \notin started
  /\ co[r] \in Unanswered /\ r \notin started =>
       slot[r] = "none" /\ chan[r] = "none" /\ conn[r] \in {"callback", "await", "gone"}
  /\ r \in started \/ co[r] \in Over => Delivered(r)
  /\ r \in refused => conn[r] = "gone" \/ r \in finished

(* One request and its responder. *)
Claims(r) ==
  /\ r \in streams => co[r] \in InHandler \cup {"finish"} /\ (co[r] = "begin" \/ Streaming(r))
  /\ co[r] \in {"send", "blocked"} => Streaming(r)

(* What start and stop have done, and what it means for the requests. *)
Listening ==
  /\ stop \in {"drain", "shutdown", "cancel", "join", "stopped"} => ~accepting
  /\ drained => ~accepting
  /\ ref <=> stop \in {"starting", "running", "drain", "shutdown", "cancel", "join"}
  /\ \A r \in Requests : conn[r] = "callback" => Serving

IInv ==
  /\ TypeOK /\ SlotsBalance /\ DrainIsQuiet /\ Listening
  /\ \A r \in Requests : Registered(r) /\ Answers(r) /\ Claims(r)
-----------------------------------------------------------------------------
(* The steps.                                                                *)

RequestStep(r) ==
  \/ Connect(r) \/ Accept(r) \/ Handshake(r) \/ RejectBody(r) \/ Arrive(r)
  \/ EngineStep(r) \/ PollFrame(r) \/ ClientGone(r) \/ SubmitStep(r) \/ HandlerStep(r)

ServerStep == StartStep \/ StopAccepting \/ StopStep

LEMMA Steps == [Next]_vars => (\E r \in Requests : RequestStep(r)) \/ ServerStep \/ UNCHANGED vars
BY Zenon DEF Next, RequestStep, ServerStep

(* A request's variables, as far as the invariant looks at them, are left    *)
(* alone.                                                                    *)
Same(q) ==
  /\ conn'[q] = conn[q] /\ slot'[q] = slot[q] /\ chan'[q] = chan[q] /\ co'[q] = co[q]
  /\ q \in pending' <=> q \in pending
  /\ q \in inline' <=> q \in inline
  /\ q \in streams' <=> q \in streams
  /\ q \in started' <=> q \in started
  /\ q \in finished' <=> q \in finished
  /\ q \in refused' <=> q \in refused

LEMMA Elsewhere ==
  ASSUME TypeOK, NEW r \in Requests, RequestStep(r), NEW q \in Requests, q # r
  PROVE Same(q)
<1>1. /\ q \in DOMAIN conn /\ q \in DOMAIN slot /\ q \in DOMAIN chan /\ q \in DOMAIN co
  BY DEF TypeOK
<1> USE <1>1 DEF Same, Go, Set, OnlyConn, Answer, Deliver, Complete, engineVars, streamVars, channelVars
<1>2. CASE Connect(r)
  BY <1>2 DEF Connect
<1>3. CASE Accept(r)
  BY <1>3 DEF Accept
<1>4. CASE Handshake(r)
  BY <1>4 DEF Handshake
<1>5. CASE RejectBody(r)
  BY <1>5 DEF RejectBody
<1>6. CASE Arrive(r)
  BY <1>6 DEF Arrive
<1>7. CASE CallbackReturns(r)
  BY <1>7 DEF CallbackReturns
<1>8. CASE ReceiveDelivery(r)
  BY <1>8 DEF ReceiveDelivery
<1>9. CASE PollFrame(r)
  BY <1>9 DEF PollFrame
<1>10. CASE ClientGone(r)
  BY <1>10 DEF ClientGone
<1>11. CASE CheckAccepting(r)
  BY <1>11 DEF CheckAccepting
<1>12. CASE AcquireSlot(r)
  BY <1>12 DEF AcquireSlot
<1>13. CASE Reject(r) \/ CatchThrow(r)
  BY <1>13 DEF Reject, CatchThrow
<1>14. CASE CountActive(r)
  BY <1>14 DEF CountActive
<1>15. CASE Recheck(r)
  BY <1>15 DEF Recheck
<1>16. CASE BeginDeliver(r)
  BY <1>16 DEF BeginDeliver
<1>17. CASE TrySend(r)
  BY <1>17 DEF TrySend
<1>18. CASE FinishRequest(r)
  BY <1>18 DEF FinishRequest
<1>19. CASE ReleaseActive(r)
  BY <1>19 DEF ReleaseActive
<1>20. CASE ReleaseSlot(r)
  BY <1>20 DEF ReleaseSlot
<1>21. CASE BeginClaim(r)
  BY <1>21 DEF BeginClaim
<1>22. CASE Write(r)
  BY <1>22 DEF Write
<1>23. CASE FinishChannel(r)
  BY <1>23 DEF FinishChannel
<1>24. CASE Suspend(r)
  BY <1>24 DEF Suspend
<1>25. CASE Resume(r)
  BY <1>25 DEF Resume
<1>26. CASE TimeOut(r)
  BY <1>26 DEF TimeOut
<1>27. CASE Return(r)
  BY <1>27 DEF Return
<1> QED
  BY <1>2, <1>3, <1>4, <1>5, <1>6, <1>7, <1>8, <1>9, <1>10, <1>11, <1>12, <1>13, <1>14, <1>15, <1>16, <1>17, <1>18, <1>19, <1>20, <1>21, <1>22, <1>23, <1>24, <1>25, <1>26, <1>27, Zenon DEF RequestStep, EngineStep, SubmitStep, HandlerStep

(* A step of a request keeps what is known of it. *)
LEMMA Here ==
  ASSUME TypeOK, NEW r \in Requests, Registered(r), Answers(r), Claims(r), RequestStep(r)
  PROVE Registered(r)' /\ Answers(r)' /\ Claims(r)'
<1>1. /\ r \in DOMAIN conn /\ r \in DOMAIN slot /\ r \in DOMAIN chan /\ r \in DOMAIN co
      /\ finished \subseteq started
  BY DEF TypeOK
<1> USE <1>1 DEF Registered, Answers, Claims, Delivered, Streaming, Early, Submitting, Unanswered, Over, InHandler,
    Go, Set, OnlyConn, Answer, Deliver, Complete, InSlot, Accepted, engineVars, streamVars, channelVars
<1>2. CASE Connect(r)
  BY <1>2 DEF Connect
<1>3. CASE Accept(r)
  BY <1>3 DEF Accept
<1>4. CASE Handshake(r)
  BY <1>4 DEF Handshake
<1>5. CASE RejectBody(r)
  BY <1>5 DEF RejectBody
<1>6. CASE Arrive(r)
  BY <1>6 DEF Arrive
<1>7. CASE CallbackReturns(r)
  BY <1>7 DEF CallbackReturns
<1>8. CASE ReceiveDelivery(r)
  BY <1>8 DEF ReceiveDelivery
<1>9. CASE PollFrame(r)
  BY <1>9 DEF PollFrame
<1>10. CASE ClientGone(r)
  BY <1>10 DEF ClientGone
<1>11. CASE CheckAccepting(r)
  BY <1>11 DEF CheckAccepting
<1>12. CASE AcquireSlot(r)
  BY <1>12 DEF AcquireSlot
<1>13. CASE Reject(r) \/ CatchThrow(r)
  BY <1>13 DEF Reject, CatchThrow
<1>14. CASE CountActive(r)
  BY <1>14 DEF CountActive
<1>15. CASE Recheck(r)
  BY <1>15 DEF Recheck
<1>16. CASE BeginDeliver(r)
  BY <1>16 DEF BeginDeliver
<1>17. CASE TrySend(r)
  BY <1>17 DEF TrySend
<1>18. CASE FinishRequest(r)
  BY <1>18 DEF FinishRequest
<1>19. CASE ReleaseActive(r)
  BY <1>19 DEF ReleaseActive
<1>20. CASE ReleaseSlot(r)
  BY <1>20 DEF ReleaseSlot
<1>21. CASE BeginClaim(r)
  BY <1>21 DEF BeginClaim
<1>22. CASE Write(r)
  BY <1>22 DEF Write
<1>23. CASE FinishChannel(r)
  BY <1>23 DEF FinishChannel
<1>24. CASE Suspend(r)
  BY <1>24 DEF Suspend
<1>25. CASE Resume(r)
  BY <1>25 DEF Resume
<1>26. CASE TimeOut(r)
  BY <1>26 DEF TimeOut
<1>27. CASE Return(r)
  BY <1>27 DEF Return
<1> QED
  BY <1>2, <1>3, <1>4, <1>5, <1>6, <1>7, <1>8, <1>9, <1>10, <1>11, <1>12, <1>13, <1>14, <1>15, <1>16, <1>17, <1>18, <1>19, <1>20, <1>21, <1>22, <1>23, <1>24, <1>25, <1>26, <1>27, Zenon DEF RequestStep, EngineStep, SubmitStep, HandlerStep

(* start and stop touch a request only where the runtime is dropped. *)
LEMMA AllHere ==
  ASSUME TypeOK, ServerStep, NEW r \in Requests, Registered(r), Answers(r), Claims(r)
  PROVE Registered(r)' /\ Answers(r)' /\ Claims(r)'
<1>1. CASE ServerStop
  <2>1. /\ conn'[r] = IF conn[r] \in Droppable THEN "gone" ELSE conn[r]
        /\ conn[r] # "callback" /\ pending' = {}
        /\ UNCHANGED <<slot, chan, co, inline, streams, started, finished, refused>>
    BY <1>1 DEF ServerStop, streamVars, channelVars
  <2> QED
    BY <2>1 DEF Registered, Answers, Claims, Delivered, Streaming, Droppable, Early, Submitting, Unanswered, Over, InHandler
<1>2. CASE ~ServerStop
  <2>1. UNCHANGED <<engineVars, streamVars, co, inline, channelVars, refused>>
    BY <1>2, Zenon DEF ServerStep, StartStep, StopStep, CreateRef, StartServer, StopAccepting, AwaitDrained, CancelAll, Dispose
  <2> QED
    BY <2>1 DEF Registered, Answers, Claims, Delivered, Streaming, engineVars, streamVars, channelVars
<1> QED
  BY <1>1, <1>2

LEMMA RequestsStep ==
  ASSUME TypeOK, [Next]_vars, \A r \in Requests : Registered(r) /\ Answers(r) /\ Claims(r)
  PROVE \A r \in Requests : Registered(r)' /\ Answers(r)' /\ Claims(r)'
<1> SUFFICES ASSUME NEW q \in Requests PROVE Registered(q)' /\ Answers(q)' /\ Claims(q)'
  OBVIOUS
<1>1. ASSUME NEW r \in Requests, RequestStep(r) PROVE Registered(q)' /\ Answers(q)' /\ Claims(q)'
  <2>1. CASE q = r
    BY <1>1, <2>1, Here
  <2>2. CASE q # r
    <3>1. Same(q)
      BY <1>1, <2>2, Elsewhere
    <3> QED
      BY <3>1 DEF Same, Registered, Answers, Claims, Delivered, Streaming
  <2> QED
    BY <2>1, <2>2
<1>2. CASE ServerStep
  BY <1>2, AllHere
<1>3. CASE UNCHANGED vars
  BY <1>3 DEF vars, engineVars, streamVars, channelVars, Registered, Answers, Claims, Delivered, Streaming
<1> QED
  BY <1>1, <1>2, <1>3, Steps
-----------------------------------------------------------------------------
(* start and stop.                                                           *)

(* A request enters its callback while the server serves, and only a request *)
(* that finds the gate open enters its handler.                              *)
LEMMA Enters ==
  ASSUME TypeOK, NEW r \in Requests, RequestStep(r)
  PROVE /\ UNCHANGED <<accepting, stopVars>>
        /\ conn'[r] = "callback" => conn[r] = "callback" \/ Serving
        /\ co'[r] \in InHandler => co[r] \in InHandler \/ accepting
<1>1. /\ r \in DOMAIN conn /\ r \in DOMAIN co
  BY DEF TypeOK
<1>2. UNCHANGED <<accepting, stopVars>>
  BY Zenon DEF RequestStep, EngineStep, SubmitStep, HandlerStep,
    Connect, Accept, Handshake, RejectBody, Arrive, CallbackReturns, ReceiveDelivery, PollFrame, ClientGone,
    CheckAccepting, AcquireSlot, Reject, CatchThrow, CountActive, Recheck, BeginDeliver, TrySend, FinishRequest, ReleaseActive,
    ReleaseSlot, BeginClaim, Write, FinishChannel, Suspend, Resume, TimeOut, Return, OnlyConn, gateVars
<1>3. conn'[r] = "callback" => conn[r] = "callback" \/ Serving
  <2>1. CASE Connect(r) \/ Accept(r) \/ Handshake(r) \/ RejectBody(r) \/ Arrive(r)
    BY <2>1, Zenon DEF Connect, Accept, Handshake, RejectBody, Arrive
  <2>2. CASE EngineStep(r) \/ PollFrame(r) \/ ClientGone(r)
    BY <1>1, <2>2 DEF EngineStep, CallbackReturns, ReceiveDelivery, PollFrame, ClientGone, Answer
  <2>3. CASE SubmitStep(r) \/ HandlerStep(r)
    <3>1. UNCHANGED conn
      BY <2>3, Zenon DEF SubmitStep, HandlerStep, CheckAccepting, AcquireSlot, Reject, CatchThrow, CountActive, Recheck, BeginDeliver, TrySend,
        FinishRequest, ReleaseActive, ReleaseSlot, BeginClaim, Write, FinishChannel, Suspend, Resume, TimeOut, Return,
        Complete, Deliver, engineVars
    <3> QED
      BY <3>1
  <2> QED
    BY <2>1, <2>2, <2>3, Zenon DEF RequestStep
<1>4. co'[r] \in InHandler => co[r] \in InHandler \/ accepting
  <2>1. CASE SubmitStep(r)
    BY <1>1, <2>1 DEF SubmitStep, CheckAccepting, AcquireSlot, Reject, CatchThrow, CountActive, Recheck, BeginDeliver, TrySend,
      FinishRequest, ReleaseActive, ReleaseSlot, Go, InHandler
  <2>2. CASE HandlerStep(r)
    BY <1>1, <2>2 DEF HandlerStep, BeginClaim, Write, FinishChannel, Suspend, Resume, TimeOut, Return, InHandler
  <2>3. CASE Arrive(r)
    BY <1>1, <2>3 DEF Arrive, Go, InHandler
  <2>4. CASE Connect(r) \/ Accept(r) \/ Handshake(r) \/ RejectBody(r) \/ EngineStep(r) \/ PollFrame(r) \/ ClientGone(r)
    <3>1. UNCHANGED co
      BY <2>4, Zenon DEF Connect, Accept, Handshake, RejectBody, EngineStep, CallbackReturns, ReceiveDelivery, PollFrame, ClientGone, OnlyConn
    <3> QED
      BY <3>1
  <2> QED
    BY <2>1, <2>2, <2>3, <2>4, Zenon DEF RequestStep
<1> QED
  BY <1>2, <1>3, <1>4
-----------------------------------------------------------------------------
(* Admission.                                                                *)

Active == Holding \ {"count", "unslot"}
In(L) == {r \in Requests : co[r] \in L}

LEMMA InFinite == \A L : IsFiniteSet(In(L)) /\ Cardinality(In(L)) \in Nat
BY ServerBounds, FS_Subset, FS_CardinalityType DEF In

LEMMA Stays ==
  ASSUME TypeOK, NEW L, NEW r \in Requests, NEW l, Go(r, l), co[r] \in L <=> l \in L
  PROVE In(L)' = In(L)
<1>1. \A q \in Requests : co'[q] = IF q = r THEN l ELSE co[q]
  BY DEF TypeOK, Go
<1> QED
  BY <1>1, Zenon DEF In

LEMMA Joins ==
  ASSUME TypeOK, NEW L, NEW r \in Requests, NEW l, Go(r, l), co[r] \notin L, l \in L
  PROVE Cardinality(In(L)') = Cardinality(In(L)) + 1
<1>1. \A q \in Requests : co'[q] = IF q = r THEN l ELSE co[q]
  BY DEF TypeOK, Go
<1>2. In(L)' = In(L) \cup {r} /\ r \notin In(L)
  BY <1>1 DEF In
<1>3. IsFiniteSet(In(L))
  BY InFinite
<1> QED
  BY <1>2, <1>3, FS_AddElement

LEMMA Leaves ==
  ASSUME TypeOK, NEW L, NEW r \in Requests, NEW l, Go(r, l), co[r] \in L, l \notin L
  PROVE Cardinality(In(L)') = Cardinality(In(L)) - 1 /\ Cardinality(In(L)) > 0
<1>1. \A q \in Requests : co'[q] = IF q = r THEN l ELSE co[q]
  BY DEF TypeOK, Go
<1>2. In(L)' = In(L) \ {r} /\ r \in In(L)
  BY <1>1 DEF In
<1>3. IsFiniteSet(In(L)) /\ Cardinality(In(L)) \in Nat
  BY InFinite
<1>4. Cardinality(In(L) \ {r}) = Cardinality(In(L)) - 1
  BY <1>2, <1>3, FS_RemoveElement
<1>5. Cardinality(In(L)) # 0
  BY <1>2, <1>3, FS_EmptySet
<1> QED
  BY <1>2, <1>3, <1>4, <1>5

Plain(r) ==
  \/ Arrive(r) \/ CheckAccepting(r) \/ Reject(r) \/ CatchThrow(r) \/ Recheck(r) \/ BeginClaim(r) \/ BeginDeliver(r)
  \/ Write(r) \/ TrySend(r) \/ Suspend(r) \/ Resume(r) \/ Return(r) \/ FinishRequest(r)

LEMMA BalanceStep ==
  ASSUME TypeOK, SlotsBalance, \A r \in Requests : Registered(r), [Next]_vars
  PROVE SlotsBalance' /\ active' \in Nat /\ slots' \in 0 .. MaxConcurrent
<1> DEFINE Goal == SlotsBalance' /\ active' \in Nat /\ slots' \in 0 .. MaxConcurrent
           h == Cardinality(In(Holding))
           a == Cardinality(In(Active))
<1> SUFFICES Goal
  OBVIOUS
<1>1. slots = MaxConcurrent - h /\ active = a
  BY Zenon DEF SlotsBalance, In, Active
<1>2. h \in Nat /\ a \in Nat /\ h' \in Nat /\ a' \in Nat
  <2>1. \A L : Cardinality(In(L)') \in Nat
    BY ServerBounds, FS_Subset, FS_CardinalityType DEF In
  <2> QED
    BY <2>1, InFinite
<1>3. active \in Nat /\ slots \in 0 .. MaxConcurrent
  BY Zenon DEF TypeOK
<1>4. slots' = MaxConcurrent - h' /\ active' = a' => SlotsBalance'
  BY Zenon DEF SlotsBalance, In, Active
<1> HIDE DEF h, a
<1>5. ASSUME h' = h, a' = a, UNCHANGED <<active, slots>> PROVE Goal
  BY <1>1, <1>3, <1>4, <1>5
<1>6. ASSUME UNCHANGED <<co, active, slots>> PROVE Goal
  <2>1. h' = h /\ a' = a
    BY <1>6 DEF h, a, In
  <2> QED
    BY <1>5, <1>6, <2>1
<1>7. ASSUME NEW r \in Requests, Plain(r) PROVE Goal
  <2>1. UNCHANGED <<active, slots>>
    BY <1>7, Zenon DEF Plain, Arrive, CheckAccepting, Reject, CatchThrow, Recheck, BeginClaim, BeginDeliver, Write, TrySend,
      Suspend, Resume, Return, FinishRequest, gateVars
  <2>2. PICK l : Go(r, l) /\ (co[r] \in Holding <=> l \in Holding) /\ (co[r] \in Active <=> l \in Active)
    <3>1. CASE Arrive(r)
      BY <3>1 DEF Arrive, Registered, Early, Holding, Active
    <3>2. CASE CheckAccepting(r) \/ Reject(r) \/ CatchThrow(r) \/ Recheck(r) \/ FinishRequest(r)
      BY <3>2 DEF CheckAccepting, Reject, CatchThrow, Recheck, FinishRequest, Holding, Active
    <3>3. CASE BeginClaim(r) \/ BeginDeliver(r) \/ Write(r) \/ TrySend(r)
      BY <3>3 DEF BeginClaim, BeginDeliver, Write, TrySend, Holding, Active
    <3>4. CASE Suspend(r) \/ Resume(r) \/ Return(r)
      BY <3>4 DEF Suspend, Resume, Return, Holding, Active
    <3> QED
      BY <1>7, <3>1, <3>2, <3>3, <3>4, Zenon DEF Plain
  <2>3. h' = h /\ a' = a
    BY <2>2, Stays DEF h, a
  <2> QED
    BY <1>5, <2>1, <2>3
<1>8. ASSUME NEW r \in Requests, AcquireSlot(r) PROVE Goal
  <2>1. CASE slots > 0 /\ slots' = slots - 1 /\ Go(r, "count") /\ UNCHANGED active
    <3>1. "count" \in Holding /\ "count" \notin Active /\ co[r] \notin Holding /\ co[r] \notin Active
      BY <1>8 DEF AcquireSlot, Holding, Active
    <3>2. h' = h + 1
      BY <2>1, <3>1, Joins DEF h
    <3>3. a' = a
      BY <2>1, <3>1, Stays DEF a
    <3> QED
      BY <1>1, <1>2, <1>3, <1>4, <2>1, <3>2, <3>3, ServerBounds
  <2>2. CASE Go(r, "reject") /\ UNCHANGED <<active, slots>>
    <3>1. "reject" \notin Holding /\ "reject" \notin Active /\ co[r] \notin Holding /\ co[r] \notin Active
      BY <1>8 DEF AcquireSlot, Holding, Active
    <3>2. h' = h /\ a' = a
      BY <2>2, <3>1, Stays DEF h, a
    <3> QED
      BY <1>5, <2>2, <3>2
  <2> QED
    BY <1>8, <2>1, <2>2, Zenon DEF AcquireSlot
<1>9. ASSUME NEW r \in Requests, CountActive(r) PROVE Goal
  <2>1. active' = active + 1 /\ UNCHANGED slots /\ Go(r, "recheck")
    BY <1>9 DEF CountActive
  <2>2. co[r] \in Holding /\ "recheck" \in Holding /\ co[r] \notin Active /\ "recheck" \in Active
    BY <1>9 DEF CountActive, Holding, Active
  <2>3. h' = h
    BY <2>1, <2>2, Stays DEF h
  <2>4. a' = a + 1
    BY <2>1, <2>2, Joins DEF a
  <2> QED
    BY <1>1, <1>2, <1>3, <1>4, <2>1, <2>3, <2>4
<1>10. ASSUME NEW r \in Requests, ReleaseActive(r) PROVE Goal
  <2>1. active' = active - 1 /\ UNCHANGED slots /\ Go(r, "unslot")
    BY <1>10 DEF ReleaseActive
  <2>2. co[r] \in Holding /\ "unslot" \in Holding /\ co[r] \in Active /\ "unslot" \notin Active
    BY <1>10 DEF ReleaseActive, Holding, Active
  <2>3. h' = h
    BY <2>1, <2>2, Stays DEF h
  <2>4. a' = a - 1 /\ a > 0
    BY <2>1, <2>2, Leaves DEF a
  <2> QED
    BY <1>1, <1>2, <1>3, <1>4, <2>1, <2>3, <2>4
<1>11. ASSUME NEW r \in Requests, ReleaseSlot(r) PROVE Goal
  <2>1. slots' = slots + 1 /\ UNCHANGED active /\ Go(r, "done")
    BY <1>11 DEF ReleaseSlot
  <2>2. co[r] \in Holding /\ "done" \notin Holding /\ co[r] \notin Active /\ "done" \notin Active
    BY <1>11 DEF ReleaseSlot, Holding, Active
  <2>3. h' = h - 1 /\ h > 0
    BY <2>1, <2>2, Leaves DEF h
  <2>4. a' = a
    BY <2>1, <2>2, Stays DEF a
  <2> QED
    BY <1>1, <1>2, <1>3, <1>4, <2>1, <2>3, <2>4, ServerBounds
<1>12. ASSUME NEW r \in Requests, RequestStep(r) PROVE Goal
  <2>1. CASE \/ Connect(r) \/ Accept(r) \/ Handshake(r) \/ RejectBody(r) \/ EngineStep(r) \/ PollFrame(r) \/ ClientGone(r)
             \/ FinishChannel(r) \/ TimeOut(r)
    <3>1. UNCHANGED <<co, active, slots>>
      BY <2>1, Zenon DEF Connect, Accept, Handshake, RejectBody, EngineStep, CallbackReturns, ReceiveDelivery, PollFrame, ClientGone,
        FinishChannel, TimeOut, OnlyConn, gateVars
    <3> QED
      BY <1>6, <3>1
  <2>2. CASE Plain(r)
    BY <1>7, <2>2
  <2> QED
    BY <1>8, <1>9, <1>10, <1>11, <1>12, <2>1, <2>2, Zenon DEF RequestStep, SubmitStep, HandlerStep, Plain
<1>13. CASE ServerStep \/ UNCHANGED vars
  <2>1. UNCHANGED <<co, active, slots>>
    BY <1>13, Zenon DEF vars, gateVars, ServerStep, StartStep, StopStep, CreateRef, StartServer, StopAccepting, AwaitDrained,
      ServerStop, CancelAll, Dispose
  <2> QED
    BY <1>6, <2>1
<1> QED
  BY <1>12, <1>13, Steps

LEMMA ListeningStep ==
  ASSUME TypeOK, SlotsBalance, DrainIsQuiet, Listening, [Next]_vars
  PROVE Listening' /\ DrainIsQuiet'
<1>1. ASSUME NEW r \in Requests, RequestStep(r) PROVE Listening' /\ DrainIsQuiet'
  <2>1. UNCHANGED <<accepting, stop, drained, ref>>
    BY <1>1, Enters DEF stopVars
  <2>2. \A q \in Requests : conn'[q] = "callback" => conn[q] = "callback" \/ Serving
    BY <1>1, Enters, Elsewhere DEF Same
  <2>3. \A q \in Requests : co'[q] \in InHandler => co[q] \in InHandler \/ accepting
    BY <1>1, Enters, Elsewhere DEF Same
  <2>4. Listening'
    BY <2>1, <2>2 DEF Listening, Serving
  <2>5. DrainIsQuiet'
    BY <2>1, <2>3 DEF Listening, DrainIsQuiet
  <2> QED
    BY <2>4, <2>5
<1>2. CASE CreateRef \/ StartServer \/ StopAccepting \/ CancelAll \/ Dispose
  <2>1. UNCHANGED <<conn, co, drained>>
    BY <1>2, Zenon DEF CreateRef, StartServer, StopAccepting, CancelAll, Dispose, engineVars
  <2>2. Listening'
    BY <1>2, <2>1 DEF CreateRef, StartServer, StopAccepting, CancelAll, Dispose, gateVars, Listening, Serving
  <2>3. DrainIsQuiet'
    BY <2>1, Zenon DEF DrainIsQuiet
  <2> QED
    BY <2>2, <2>3
<1>3. CASE AwaitDrained
  <2>1. stop = "drain" /\ stop' = "shutdown" /\ drained' = (active = 0) /\ UNCHANGED <<conn, co, accepting, ref>>
    BY <1>3, Zenon DEF AwaitDrained, engineVars, gateVars
  <2>2. Listening'
    BY <2>1 DEF Listening, Serving
  <2>3. ASSUME active = 0, NEW r \in Requests PROVE co[r] \notin InHandler
    <3>1. Cardinality(In(Active)) = 0 /\ IsFiniteSet(In(Active))
      BY <2>3, InFinite, Zenon DEF SlotsBalance, In, Active
    <3>2. In(Active) = {}
      BY <3>1, FS_EmptySet
    <3>3. InHandler \subseteq Active
      BY DEF InHandler, Active, Holding
    <3> QED
      BY <3>2, <3>3, Zenon DEF In
  <2>4. DrainIsQuiet'
    BY <2>1, <2>3 DEF DrainIsQuiet
  <2> QED
    BY <2>2, <2>4
<1>4. CASE ServerStop
  <2>1. /\ stop = "shutdown" /\ stop' = "cancel" /\ UNCHANGED <<co, accepting, drained, ref>>
        /\ \A r \in Requests : conn[r] # "callback" /\ conn'[r] \in {"gone", conn[r]}
    BY <1>4 DEF ServerStop, gateVars
  <2>2. Listening'
    BY <2>1 DEF Listening
  <2>3. DrainIsQuiet'
    BY <2>1, Zenon DEF DrainIsQuiet
  <2> QED
    BY <2>2, <2>3
<1>5. CASE UNCHANGED vars
  BY <1>5 DEF vars, engineVars, gateVars, stopVars, Listening, Serving, DrainIsQuiet
<1> QED
  BY <1>1, <1>2, <1>3, <1>4, <1>5, Steps, Zenon DEF ServerStep, StartStep, StopStep
-----------------------------------------------------------------------------
(* The types.                                                                *)

ConnLabels == Droppable \cup {"new", "callback", "answered", "gone"}
CoLabels == Holding \cup {"none", "check", "acquire", "reject", "done"}
Deliveries == {"none", "full", "stream"}

EngineTypes ==
  /\ conn \in [Requests -> ConnLabels] /\ pending \subseteq Requests
  /\ slot \in [Requests -> Deliveries] /\ chan \in [Requests -> Deliveries]
CoTypes ==
  /\ co \in [Requests -> CoLabels] /\ queued \in [Requests -> 0 .. Capacity]
SetTypes ==
  /\ streams \subseteq Requests /\ inline \subseteq Requests /\ started \subseteq Requests
  /\ finished \subseteq started /\ cancelled \subseteq Requests /\ refused \subseteq Requests
StopTypes ==
  /\ accepting \in BOOLEAN /\ drained \in BOOLEAN /\ ref \in BOOLEAN
  /\ stop \in {"off", "starting", "running", "drain", "shutdown", "cancel", "join", "stopped"}
GateTypes == active \in Nat /\ slots \in 0 .. MaxConcurrent

LEMMA TypeParts == TypeOK <=> EngineTypes /\ CoTypes /\ SetTypes /\ StopTypes /\ GateTypes
BY Zenon DEF TypeOK, EngineTypes, CoTypes, SetTypes, StopTypes, GateTypes, ConnLabels, CoLabels, Deliveries

LEMMA DeliverTypes ==
  ASSUME EngineTypes, NEW r \in Requests, NEW d \in Deliveries, Deliver(r, d)
  PROVE EngineTypes'
BY DEF EngineTypes, Deliver, Deliveries

LEMMA EngineTypesStep == ASSUME EngineTypes, [Next]_vars PROVE EngineTypes'
<1>1. ASSUME UNCHANGED engineVars PROVE EngineTypes'
  BY <1>1 DEF EngineTypes, engineVars
<1>2. ASSUME NEW r \in Requests, RequestStep(r) PROVE EngineTypes'
  <2>1. CASE Connect(r) \/ Accept(r) \/ Handshake(r) \/ RejectBody(r)
    <3>1. (\E l \in ConnLabels : Set(r, l)) /\ OnlyConn
      BY <2>1 DEF Connect, Accept, Handshake, RejectBody, ConnLabels, Droppable
    <3> QED
      BY <3>1 DEF EngineTypes, Set, OnlyConn
  <2>2. CASE Arrive(r)
    BY <2>2 DEF Arrive, Set, EngineTypes, ConnLabels
  <2>3. CASE CallbackReturns(r)
    BY <2>3 DEF CallbackReturns, Answer, EngineTypes, ConnLabels, Droppable, Deliveries
  <2>4. CASE ReceiveDelivery(r)
    BY <2>4 DEF ReceiveDelivery, Answer, EngineTypes, ConnLabels, Droppable, Deliveries
  <2>5. CASE PollFrame(r) \/ ClientGone(r)
    BY <2>5 DEF PollFrame, ClientGone, Answer, EngineTypes, ConnLabels
  <2>6. CASE Reject(r) \/ CatchThrow(r)
    BY <2>6, DeliverTypes DEF Reject, CatchThrow, Complete, Deliveries
  <2>7. CASE BeginDeliver(r)
    BY <2>7, DeliverTypes DEF BeginDeliver, Deliveries
  <2>8. CASE FinishRequest(r)
    <3>1. Deliver(r, "full") \/ UNCHANGED engineVars
      BY <2>8, Zenon DEF FinishRequest, Complete
    <3> QED
      BY <1>1, <3>1, DeliverTypes DEF Deliveries
  <2>9. CASE CheckAccepting(r) \/ AcquireSlot(r) \/ CountActive(r) \/ Recheck(r) \/ TrySend(r) \/ ReleaseActive(r) \/ ReleaseSlot(r)
    BY <1>1, <2>9, Zenon DEF CheckAccepting, AcquireSlot, CountActive, Recheck, TrySend, ReleaseActive, ReleaseSlot
  <2>10. CASE HandlerStep(r)
    BY <1>1, <2>10, Zenon DEF HandlerStep, BeginClaim, Write, FinishChannel, Suspend, Resume, TimeOut, Return
  <2> QED
    BY <1>2, <2>1, <2>2, <2>3, <2>4, <2>5, <2>6, <2>7, <2>8, <2>9, <2>10, Zenon DEF RequestStep, EngineStep, SubmitStep
<1>3. CASE ServerStep
  <2>1. CASE ServerStop
    BY <2>1 DEF ServerStop, EngineTypes, ConnLabels
  <2>2. CASE ~ServerStop
    BY <1>1, <1>3, <2>2, Zenon DEF ServerStep, StartStep, StopStep, CreateRef, StartServer, StopAccepting, AwaitDrained, CancelAll, Dispose
  <2> QED
    BY <2>1, <2>2
<1> QED
  BY <1>1, <1>2, <1>3, Steps, Zenon DEF vars

LEMMA CoTypesStep == ASSUME CoTypes, [Next]_vars PROVE CoTypes'
<1>1. ASSUME UNCHANGED <<co, queued>> PROVE CoTypes'
  BY <1>1 DEF CoTypes
<1>2. ASSUME NEW r \in Requests, NEW l \in CoLabels, Go(r, l), UNCHANGED queued PROVE CoTypes'
  BY <1>2 DEF CoTypes, Go
<1>3. ASSUME NEW r \in Requests, RequestStep(r) PROVE CoTypes'
  <2>1. CASE \/ Connect(r) \/ Accept(r) \/ Handshake(r) \/ RejectBody(r) \/ EngineStep(r) \/ ClientGone(r)
             \/ FinishChannel(r) \/ TimeOut(r)
    BY <1>1, <2>1, Zenon DEF Connect, Accept, Handshake, RejectBody, EngineStep, CallbackReturns, ReceiveDelivery, ClientGone,
      FinishChannel, TimeOut, OnlyConn, streamVars
  <2>2. CASE PollFrame(r)
    BY <2>2, ServerBounds DEF PollFrame, CoTypes
  <2>3. CASE TrySend(r)
    <3>1. co' \in [Requests -> CoLabels]
      BY <2>3 DEF TrySend, Go, CoTypes, CoLabels, Holding
    <3>2. queued' \in [Requests -> 0 .. Capacity]
      BY <2>3, ServerBounds DEF TrySend, CoTypes
    <3> QED
      BY <3>1, <3>2 DEF CoTypes
  <2>4. CASE \/ Arrive(r) \/ CheckAccepting(r) \/ AcquireSlot(r) \/ Reject(r) \/ CatchThrow(r) \/ CountActive(r) \/ Recheck(r)
             \/ BeginDeliver(r) \/ FinishRequest(r) \/ ReleaseActive(r) \/ ReleaseSlot(r)
    <3>1. UNCHANGED queued
      BY <2>4, Zenon DEF Arrive, CheckAccepting, AcquireSlot, Reject, CatchThrow, CountActive, Recheck, BeginDeliver, FinishRequest,
        ReleaseActive, ReleaseSlot, streamVars
    <3>2. \E l \in CoLabels : Go(r, l)
      BY <2>4 DEF Arrive, CheckAccepting, AcquireSlot, Reject, CatchThrow, CountActive, Recheck, BeginDeliver, FinishRequest,
        ReleaseActive, ReleaseSlot, CoLabels, Holding
    <3> QED
      BY <1>2, <3>1, <3>2
  <2>5. CASE BeginClaim(r) \/ Write(r) \/ Suspend(r) \/ Resume(r) \/ Return(r)
    <3>1. UNCHANGED queued
      BY <2>5, Zenon DEF BeginClaim, Write, Suspend, Resume, Return, streamVars
    <3>2. \E l \in CoLabels : Go(r, l)
      BY <2>5 DEF BeginClaim, Write, Suspend, Resume, Return, CoLabels, Holding
    <3> QED
      BY <1>2, <3>1, <3>2
  <2> QED
    BY <1>3, <2>1, <2>2, <2>3, <2>4, <2>5, Zenon DEF RequestStep, SubmitStep, HandlerStep
<1>4. CASE ServerStep \/ UNCHANGED vars
  BY <1>1, <1>4, Zenon DEF vars, streamVars, ServerStep, StartStep, StopStep, CreateRef, StartServer, StopAccepting, AwaitDrained,
    ServerStop, CancelAll, Dispose
<1> QED
  BY <1>3, <1>4, Steps

LEMMA SetTypesStep == ASSUME SetTypes, [Next]_vars PROVE SetTypes'
<1>1. ASSUME UNCHANGED <<streams, inline, started, finished, cancelled, refused>> PROVE SetTypes'
  BY <1>1 DEF SetTypes
<1>2. ASSUME NEW r \in Requests, RequestStep(r) PROVE SetTypes'
  <2>1. CASE \/ Connect(r) \/ Accept(r) \/ Handshake(r) \/ RejectBody(r) \/ EngineStep(r) \/ PollFrame(r) \/ ClientGone(r)
             \/ CheckAccepting(r) \/ AcquireSlot(r) \/ CountActive(r) \/ Recheck(r) \/ TrySend(r) \/ ReleaseActive(r)
             \/ Resume(r) \/ Return(r)
    BY <1>1, <2>1, Zenon DEF Connect, Accept, Handshake, RejectBody, EngineStep, CallbackReturns, ReceiveDelivery, PollFrame,
      ClientGone, CheckAccepting, AcquireSlot, CountActive, Recheck, TrySend, ReleaseActive, Resume, Return, OnlyConn,
      streamVars, channelVars
  <2>2. CASE Arrive(r) \/ Write(r) \/ Suspend(r) \/ ReleaseSlot(r) \/ TimeOut(r)
    BY <2>2 DEF Arrive, Write, Suspend, ReleaseSlot, TimeOut, SetTypes, streamVars, channelVars
  <2>3. CASE Reject(r) \/ CatchThrow(r)
    BY <2>3 DEF Reject, CatchThrow, Complete, SetTypes, streamVars, channelVars
  <2>4. CASE BeginClaim(r) \/ BeginDeliver(r)
    BY <2>4 DEF BeginClaim, BeginDeliver, SetTypes, channelVars
  <2>5. CASE FinishChannel(r)
    BY <2>5 DEF FinishChannel, Streaming, SetTypes
  <2>6. CASE FinishRequest(r)
    BY <2>6 DEF FinishRequest, Complete, Streaming, SetTypes
  <2> QED
    BY <1>2, <2>1, <2>2, <2>3, <2>4, <2>5, <2>6, Zenon DEF RequestStep, SubmitStep, HandlerStep
<1>3. CASE CancelAll
  BY <1>3 DEF CancelAll, SetTypes, streamVars, channelVars
<1>4. CASE (ServerStep /\ ~CancelAll) \/ UNCHANGED vars
  BY <1>1, <1>4, Zenon DEF vars, streamVars, channelVars, ServerStep, StartStep, StopStep, CreateRef, StartServer, StopAccepting,
    AwaitDrained, ServerStop, Dispose
<1> QED
  BY <1>2, <1>3, <1>4, Steps

LEMMA StopTypesStep == ASSUME TypeOK, [Next]_vars PROVE StopTypes'
<1>1. StopTypes
  BY TypeParts
<1>2. ASSUME UNCHANGED <<accepting, stopVars>> PROVE StopTypes'
  BY <1>1, <1>2 DEF StopTypes, stopVars
<1>3. CASE ServerStep
  BY <1>1, <1>3, Zenon DEF ServerStep, StartStep, StopStep, CreateRef, StartServer, StopAccepting, AwaitDrained,
    ServerStop, CancelAll, Dispose, StopTypes, gateVars
<1> QED
  BY <1>2, <1>3, Enters, Steps DEF vars, gateVars
-----------------------------------------------------------------------------
(* The theorem.                                                              *)

LEMMA Initially == Init => IInv
<1> SUFFICES ASSUME Init PROVE IInv
  OBVIOUS
<1>1. TypeOK
  <2>1. EngineTypes
    BY DEF Init, EngineTypes, ConnLabels, Deliveries
  <2>2. CoTypes
    BY ServerBounds DEF Init, CoTypes, CoLabels
  <2>3. SetTypes /\ StopTypes
    BY Zenon DEF Init, SetTypes, StopTypes
  <2>4. GateTypes
    BY ServerBounds DEF Init, GateTypes
  <2> QED
    BY <2>1, <2>2, <2>3, <2>4, TypeParts
<1>2. \A L : "none" \notin L => In(L) = {}
  BY DEF Init, In
<1>3. SlotsBalance
  <2>1. In(Holding) = {} /\ In(Active) = {}
    BY <1>2 DEF Holding, Active
  <2>2. slots = MaxConcurrent /\ active = 0 /\ Cardinality({}) = 0
    BY FS_EmptySet, Zenon DEF Init
  <2>3. slots = MaxConcurrent - Cardinality(In(Holding)) /\ active = Cardinality(In(Active))
    BY <2>1, <2>2, ServerBounds
  <2> QED
    BY <2>3, Zenon DEF SlotsBalance, In, Active
<1>4. DrainIsQuiet
  BY Zenon DEF Init, DrainIsQuiet
<1>5. Listening
  BY DEF Init, Listening
<1>6. ASSUME NEW r \in Requests PROVE Registered(r) /\ Answers(r) /\ Claims(r)
  BY DEF Init, Registered, Answers, Claims, Delivered, Submitting, Unanswered, Over
<1> QED
  BY <1>1, <1>3, <1>4, <1>5, <1>6 DEF IInv

LEMMA Inductive == IInv /\ [Next]_vars => IInv'
<1> SUFFICES ASSUME IInv, [Next]_vars PROVE IInv'
  OBVIOUS
<1>1. TypeOK /\ SlotsBalance /\ DrainIsQuiet /\ Listening
  BY Zenon DEF IInv
<1>2. \A r \in Requests : Registered(r) /\ Answers(r) /\ Claims(r)
  BY Zenon DEF IInv
<1>3. SlotsBalance' /\ GateTypes'
  BY <1>1, <1>2, BalanceStep DEF GateTypes
<1>4. Listening' /\ DrainIsQuiet'
  BY <1>1, ListeningStep
<1>5. TypeOK'
  <2>1. EngineTypes' /\ CoTypes' /\ SetTypes'
    BY <1>1, TypeParts, EngineTypesStep, CoTypesStep, SetTypesStep
  <2>2. StopTypes'
    BY <1>1, StopTypesStep
  <2>3. (EngineTypes /\ CoTypes /\ SetTypes /\ StopTypes /\ GateTypes => TypeOK)'
    BY TypeParts, PTL
  <2> QED
    BY <1>3, <2>1, <2>2, <2>3
<1>6. \A r \in Requests : Registered(r)' /\ Answers(r)' /\ Claims(r)'
  BY <1>1, <1>2, RequestsStep
<1> QED
  BY <1>3, <1>4, <1>5, <1>6, Zenon DEF IInv

LEMMA Safe == IInv =>
  /\ NobodyWaitsInVain /\ RefusedOnlyWhenOver /\ StreamsReleased /\ CallbackHasDispatcher
<1> SUFFICES ASSUME IInv PROVE /\ NobodyWaitsInVain /\ RefusedOnlyWhenOver /\ StreamsReleased /\ CallbackHasDispatcher
  OBVIOUS
<1>1. TypeOK /\ Listening /\ \A r \in Requests : Registered(r) /\ Answers(r) /\ Claims(r)
  BY Zenon DEF IInv
<1>2. NobodyWaitsInVain
  BY <1>1 DEF NobodyWaitsInVain, Answers, Claims, Delivered, SendersOf, Over, InHandler
<1>3. RefusedOnlyWhenOver
  BY <1>1 DEF RefusedOnlyWhenOver, Answers, TypeOK
<1>4. StreamsReleased
  BY <1>1 DEF StreamsReleased, Claims, TypeOK
<1>5. CallbackHasDispatcher
  BY <1>1 DEF CallbackHasDispatcher, Listening, Serving
<1> QED
  BY <1>2, <1>3, <1>4, <1>5

(* No connection of handle() waits for an answer that cannot come: when a    *)
(* coroutine is over the delivery is there, or the stream ends.              *)
THEOREM EveryRequestIsAnswered == Spec => []NobodyWaitsInVain
BY Initially, Inductive, Safe, PTL DEF Spec

(* deliver_response refuses an answer only when nobody is left to read it.   *)
THEOREM AnswersAreTaken == Spec => []RefusedOnlyWhenOver
BY Initially, Inductive, Safe, PTL DEF Spec

(* No way out of a handler leaves its responder in ACTIVE_STREAMS. *)
THEOREM RespondersAreReleased == Spec => []StreamsReleased
BY Initially, Inductive, Safe, PTL DEF Spec

(* A callback of the engine has the dispatcher it was started with. *)
THEOREM DispatcherOutlivesCallbacks == Spec => []CallbackHasDispatcher
BY Initially, Inductive, Safe, PTL DEF Spec

(* The registries, channels and counters keep their types; the slots stay    *)
(* between zero and maxConcurrentRequests.                                   *)
THEOREM TypeCorrect == Spec => []TypeOK
<1>1. IInv => TypeOK
  BY Zenon DEF IInv
<1> QED
  BY <1>1, Initially, Inductive, PTL DEF Spec

(* The slots and the active count of AsyncRequestDispatcher are what the     *)
(* coroutines hold, so that no more than maxConcurrentRequests run.          *)
THEOREM AdmissionBalances == Spec => []SlotsBalance
<1>1. IInv => SlotsBalance
  BY Zenon DEF IInv
<1> QED
  BY <1>1, Initially, Inductive, PTL DEF Spec

(* Once stop has seen no active request no handler runs or starts. *)
THEOREM DrainHolds == Spec => []DrainIsQuiet
<1>1. IInv => DrainIsQuiet
  BY Zenon DEF IInv
<1> QED
  BY <1>1, Initially, Inductive, PTL DEF Spec
-----------------------------------------------------------------------------
(* The callback's thread, the deliveries, and what stop leaves.              *)

(* Where a coroutine goes on by itself: not waiting for a client to read, or *)
(* for whatever a handler has suspended on.                                  *)
Running == Submitting \cup {"handler", "begin", "finish", "release", "unslot"}

(* Inside the callback a coroutine never waits, so the engine's worker,      *)
(* which polls every connection, comes back to the engine.                   *)
CallbackNeverBlocks == \A r \in inline : co[r] \in Running

(* Once hyper4k_server_stop has dropped the runtime no connection is served, *)
(* no responder is registered and no callback runs, and none comes later.    *)
Down == {"cancel", "join", "stopped"}
StopLeavesNothing == stop \in Down =>
  /\ pending = {} /\ inline = {}
  /\ \A r \in Requests : conn[r] \in {"new", "answered", "gone"}

LEMMA RunsOn ==
  ASSUME TypeOK, NEW r \in Requests, RequestStep(r), r \in inline => co[r] \in Running
  PROVE r \in inline' => co'[r] \in Running
<1>1. r \in DOMAIN co
  BY DEF TypeOK
<1> USE <1>1 DEF Running, Submitting, Go
<1>2. CASE Connect(r) \/ Accept(r) \/ Handshake(r) \/ RejectBody(r) \/ EngineStep(r) \/ PollFrame(r) \/ ClientGone(r)
  <2>1. UNCHANGED <<co, inline>>
    BY <1>2, Zenon DEF Connect, Accept, Handshake, RejectBody, EngineStep, CallbackReturns, ReceiveDelivery, PollFrame,
         ClientGone, OnlyConn
  <2> QED
    BY <2>1
<1>3. CASE Arrive(r)
  BY <1>3 DEF Arrive
<1>4. CASE SubmitStep(r)
  BY <1>4 DEF SubmitStep, CheckAccepting, AcquireSlot, Reject, CatchThrow, CountActive, Recheck, BeginDeliver, TrySend,
       FinishRequest, ReleaseActive, ReleaseSlot
<1>5. CASE HandlerStep(r)
  BY <1>5 DEF HandlerStep, BeginClaim, Write, FinishChannel, Suspend, Resume, TimeOut, Return
<1> QED
  BY <1>2, <1>3, <1>4, <1>5, Zenon DEF RequestStep

LEMMA NeverBlocksStep == TypeOK /\ CallbackNeverBlocks /\ [Next]_vars /\ TypeOK' => CallbackNeverBlocks'
<1> SUFFICES ASSUME TypeOK, CallbackNeverBlocks, [Next]_vars, TypeOK', NEW q \in Requests, q \in inline'
             PROVE co'[q] \in Running
  BY DEF CallbackNeverBlocks, TypeOK
<1>1. ASSUME NEW r \in Requests, RequestStep(r) PROVE co'[q] \in Running
  <2>1. CASE q = r
    BY <1>1, <2>1, RunsOn DEF CallbackNeverBlocks
  <2>2. CASE q # r
    <3>1. Same(q)
      BY <1>1, <2>2, Elsewhere
    <3> QED
      BY <3>1 DEF Same, CallbackNeverBlocks
  <2> QED
    BY <2>1, <2>2
<1>2. CASE ServerStep
  BY <1>2, Zenon DEF CallbackNeverBlocks, ServerStep, StartStep, StopStep, CreateRef, StartServer, StopAccepting,
       AwaitDrained, ServerStop, CancelAll, Dispose
<1>3. CASE UNCHANGED vars
  BY <1>3 DEF vars, CallbackNeverBlocks
<1> QED
  BY <1>1, <1>2, <1>3, Steps, Zenon

(* submit, respond and begin from inside the callback: none of them waits, a *)
(* write and a suspension leave the callback first.                          *)
THEOREM WorkersComeBack == Spec => []CallbackNeverBlocks
<1>1. Init => CallbackNeverBlocks
  BY DEF Init, CallbackNeverBlocks
<1>2. IInv => TypeOK
  BY Zenon DEF IInv
<1>3. TypeOK /\ CallbackNeverBlocks /\ [Next]_vars /\ TypeOK' => CallbackNeverBlocks'
  BY NeverBlocksStep
<1> QED
  BY <1>1, <1>2, <1>3, Initially, Inductive, PTL DEF Spec

(* deliver_response, take_sync_response and the oneshot channel: the first   *)
(* answer to a request is the one its client gets.                           *)
THEOREM NoAnswerIsReplaced == Spec => FirstAnswerCounts
<1>1. IInv /\ [Next]_vars => [\A r \in Requests : Kept(slot, r) /\ Kept(chan, r)]_vars
  <2> SUFFICES ASSUME IInv, Next, NEW q \in Requests PROVE Kept(slot, q) /\ Kept(chan, q)
    BY Zenon
  <2>1. TypeOK /\ Registered(q) /\ q \in DOMAIN slot /\ q \in DOMAIN chan /\ q \in DOMAIN conn
    BY DEF IInv, TypeOK
  <2>2. ASSUME UNCHANGED <<slot, chan>> PROVE Kept(slot, q) /\ Kept(chan, q)
    BY <2>2 DEF Kept
  <2>3. ASSUME NEW r \in Requests, RequestStep(r), q # r PROVE UNCHANGED <<slot[q], chan[q]>>
    BY <2>1, <2>3, Elsewhere DEF Same
  <2>4. ASSUME RequestStep(q) PROVE Kept(slot, q) /\ Kept(chan, q)
    <3>1. ASSUME NEW d, Deliver(q, d) PROVE Kept(slot, q) /\ Kept(chan, q)
      BY <2>1, <3>1 DEF Deliver, InSlot, Kept, Registered
    <3>2. CASE CallbackReturns(q)
      BY <2>1, <3>2 DEF CallbackReturns, Answer, Kept, Reply
    <3>3. CASE ReceiveDelivery(q)
      BY <2>1, <3>3 DEF ReceiveDelivery, Answer, Kept, Reply
    <3>4. CASE Connect(q) \/ Accept(q) \/ Handshake(q) \/ RejectBody(q) \/ Arrive(q) \/ PollFrame(q) \/ ClientGone(q)
      BY <2>2, <3>4, Zenon DEF Connect, Accept, Handshake, RejectBody, Arrive, PollFrame, ClientGone, OnlyConn
    <3>5. CASE SubmitStep(q)
      BY <2>2, <3>1, <3>5, Zenon DEF SubmitStep, CheckAccepting, AcquireSlot, Reject, CatchThrow, CountActive, Recheck, BeginDeliver,
           TrySend, FinishRequest, ReleaseActive, ReleaseSlot, Complete, engineVars
    <3>6. CASE HandlerStep(q)
      BY <2>2, <3>6, Zenon DEF HandlerStep, BeginClaim, Write, FinishChannel, Suspend, Resume, TimeOut, Return, engineVars
    <3> QED
      BY <2>4, <3>2, <3>3, <3>4, <3>5, <3>6, Zenon DEF RequestStep, EngineStep
  <2>5. ASSUME ServerStep PROVE UNCHANGED <<slot, chan>>
    BY <2>5, Zenon DEF ServerStep, StartStep, StopStep, CreateRef, StartServer, StopAccepting, AwaitDrained, ServerStop,
         CancelAll, Dispose, engineVars
  <2>6. ASSUME UNCHANGED <<slot[q], chan[q]>> PROVE Kept(slot, q) /\ Kept(chan, q)
    BY <2>6 DEF Kept
  <2>7. (\E r \in Requests : RequestStep(r)) \/ ServerStep
    BY Zenon DEF Next, RequestStep, ServerStep
  <2> QED
    BY <2>2, <2>3, <2>4, <2>5, <2>6, <2>7, Zenon
<1> QED
  BY <1>1, Initially, Inductive, PTL DEF Spec, FirstAnswerCounts

Quiet == stop \in Down => \A r \in Requests : conn[r] \in {"new", "answered", "gone"}

LEMMA QuietStep == TypeOK /\ Quiet /\ [Next]_vars => Quiet'
<1> SUFFICES ASSUME TypeOK, Quiet, [Next]_vars PROVE Quiet'
  OBVIOUS
<1>1. DOMAIN conn = Requests
  BY DEF TypeOK
<1>2. ASSUME NEW r \in Requests, RequestStep(r) PROVE Quiet'
  <2>1. stop' = stop
    BY <1>2, Enters DEF stopVars
  <2>2. ASSUME stop \in Down PROVE conn'[r] = conn[r]
    <3>1. ~Serving /\ conn[r] \in {"new", "answered", "gone"}
      BY <2>2 DEF Serving, Down, Quiet
    <3>2. SubmitStep(r) \/ HandlerStep(r)
      BY <1>2, <3>1 DEF RequestStep, Connect, Accept, Handshake, RejectBody, Arrive, EngineStep, CallbackReturns,
           ReceiveDelivery, PollFrame, ClientGone
    <3> QED
      BY <3>2, Zenon DEF SubmitStep, HandlerStep, CheckAccepting, AcquireSlot, Reject, CatchThrow, CountActive, Recheck, BeginDeliver,
           TrySend, FinishRequest, ReleaseActive, ReleaseSlot, BeginClaim, Write, FinishChannel, Suspend, Resume, TimeOut,
           Return, Complete, Deliver, engineVars
  <2>3. ASSUME NEW q \in Requests, q # r PROVE conn'[q] = conn[q]
    BY <1>2, <2>3, Elsewhere DEF Same
  <2> QED
    BY <2>1, <2>2, <2>3 DEF Quiet
<1>3. CASE ServerStop
  BY <1>1, <1>3 DEF ServerStop, Quiet, TypeOK, Droppable
<1>4. CASE CreateRef \/ StartServer \/ StopAccepting \/ AwaitDrained \/ CancelAll \/ Dispose
  <2>1. UNCHANGED conn /\ (stop' \in Down => stop \in Down)
    BY <1>4 DEF CreateRef, StartServer, StopAccepting, AwaitDrained, CancelAll, Dispose, Down, engineVars
  <2> QED
    BY <2>1, Zenon DEF Quiet
<1>5. CASE UNCHANGED vars
  BY <1>5, Zenon DEF vars, engineVars, stopVars, Quiet
<1> QED
  BY <1>2, <1>3, <1>4, <1>5, Steps, Zenon DEF ServerStep, StartStep, StopStep

(* hyper4k_server_stop drops the runtime with every task, and what is still  *)
(* running in Kotlin starts nothing in the engine again.                     *)
THEOREM StopIsFinal == Spec => []StopLeavesNothing
<1>1. Init => Quiet
  BY DEF Init, Quiet
<1>2. IInv => TypeOK
  BY Zenon DEF IInv
<1>3. TypeOK /\ Quiet /\ [Next]_vars => Quiet'
  BY QuietStep
<1>4. IInv /\ Quiet => StopLeavesNothing
  <2> SUFFICES ASSUME IInv, Quiet, stop \in Down PROVE StopLeavesNothing
    BY DEF StopLeavesNothing
  <2>1. pending \subseteq Requests /\ inline \subseteq Requests /\ \A r \in Requests : Registered(r)
    BY DEF IInv, TypeOK
  <2> QED
    BY <2>1 DEF StopLeavesNothing, Quiet, Registered
<1> QED
  BY <1>1, <1>2, <1>3, <1>4, Initially, Inductive, PTL DEF Spec
=============================================================================
