------------------------------- MODULE Stream -------------------------------
(* The consumer side of one response in Kotlin: onChunk and onDone on the    *)
(* engine's callback thread, Hyper4kResponseStream::next on the consumer's   *)
(* (Hyper4kClient.kt).  The engine is what next and onChunk see of it: one   *)
(* callback at a time, a PAUSE that takes effect after the callback has      *)
(* returned, and hyper4k_client_resume, one step here (Bridge has its steps). *)
EXTENDS Integers

CONSTANTS HighWater,  \* chunkHighWater
          Chunks      \* bound: chunks of the response

VARIABLES
  sent, settled,      \* chunks the engine has called back with; the response has ended
  worker, answer,     \* the callback thread; what onChunk returns
  inCallback, permit, parked,  \* RequestState of the bridge
  events, ended,      \* the channel: chunks in it; Done is in it
  queued, paused,     \* Kotlin RequestState
  counted,            \* onChunk's local `queued`
  reader, remaining   \* the consumer; next's local `remaining`

engineVars == <<sent, settled, worker, answer, inCallback, permit, parked>>
vars == <<engineVars, events, ended, queued, paused, counted, reader, remaining>>

Init ==
  /\ sent = 0 /\ settled = FALSE /\ worker = "idle" /\ answer = "CONTINUE"
  /\ inCallback = FALSE /\ permit = FALSE /\ parked = FALSE
  /\ events = 0 /\ ended = FALSE /\ queued = 0 /\ paused = 0
  /\ counted = 0 /\ reader = "receive" /\ remaining = 0
-----------------------------------------------------------------------------
(* The callback thread.                                                      *)

CallChunk ==
  /\ worker = "idle" /\ ~parked /\ sent < Chunks
  /\ sent' = sent + 1 /\ inCallback' = TRUE
  /\ worker' = "count"
  /\ UNCHANGED <<settled, answer, permit, parked, events, ended, queued, paused, counted, reader, remaining>>

CountChunk ==
  /\ worker = "count"
  /\ queued' = queued + 1 /\ counted' = queued + 1
  /\ worker' = "send"
  /\ UNCHANGED <<sent, settled, answer, inCallback, permit, parked, events, ended, paused, reader, remaining>>

SendChunk ==
  /\ worker = "send"
  /\ events' = events + 1
  /\ worker' = "mark"
  /\ UNCHANGED <<sent, settled, answer, inCallback, permit, parked, ended, queued, paused, counted, reader, remaining>>

MarkPaused ==
  /\ worker = "mark"
  /\ IF counted >= HighWater
     THEN paused' = 1 /\ answer' = "PAUSE"
     ELSE answer' = "CONTINUE" /\ UNCHANGED paused
  /\ worker' = "leave"
  /\ UNCHANGED <<sent, settled, inCallback, permit, parked, events, ended, queued, counted, reader, remaining>>

LeaveCallback ==
  /\ worker = "leave"
  /\ inCallback' = FALSE
  /\ worker' = "act"
  /\ UNCHANGED <<sent, settled, answer, permit, parked, events, ended, queued, paused, counted, reader, remaining>>

(* An early resume consumes the pause; otherwise the slot parks. *)
ActOnAnswer ==
  /\ worker = "act"
  /\ parked' = (answer = "PAUSE" /\ ~permit)
  /\ permit' = FALSE
  /\ worker' = "idle"
  /\ UNCHANGED <<sent, settled, answer, inCallback, events, ended, queued, paused, counted, reader, remaining>>

(* The network task has queued the last chunk and settles the request. *)
EndOfBody ==
  /\ ~settled
  /\ settled' = TRUE
  /\ UNCHANGED <<sent, worker, answer, inCallback, permit, parked, events, ended, queued, paused, counted, reader, remaining>>

OnDone ==
  /\ worker = "idle" /\ ~parked /\ settled /\ sent = Chunks /\ ~ended
  /\ ended' = TRUE
  /\ UNCHANGED <<engineVars, events, queued, paused, counted, reader, remaining>>
-----------------------------------------------------------------------------
(* The consumer: next, called again and again until it returns Done.         *)

Receive ==
  /\ reader = "receive"
  /\ \/ events > 0 /\ events' = events - 1 /\ reader' = "uncount"
     \/ events = 0 /\ ended /\ reader' = "done" /\ UNCHANGED events
  /\ UNCHANGED <<engineVars, ended, queued, paused, counted, remaining>>

Uncount ==
  /\ reader = "uncount"
  /\ queued' = queued - 1 /\ remaining' = queued - 1
  /\ reader' = "look"
  /\ UNCHANGED <<engineVars, events, ended, paused, counted>>

LookPaused ==
  /\ reader = "look"
  /\ reader' = IF paused = 1 /\ remaining <= HighWater \div 2 THEN "resume" ELSE "receive"
  /\ UNCHANGED <<engineVars, events, ended, queued, paused, counted, remaining>>

(* hyper4k_client_resume: OK when it unparks the slot or leaves a permit to  *)
(* the callback in progress, ALREADY_DONE when the response has ended;       *)
(* NOT_PAUSED is tried again.                                                *)
ResumeEngine ==
  /\ reader = "resume"
  /\ \/ parked /\ parked' = FALSE /\ reader' = "clear" /\ UNCHANGED permit
     \/ ~parked /\ inCallback /\ permit' = TRUE /\ reader' = "clear" /\ UNCHANGED parked
     \/ ~parked /\ ~inCallback /\ settled /\ reader' = "clear" /\ UNCHANGED <<parked, permit>>
  /\ UNCHANGED <<sent, settled, worker, answer, inCallback, events, ended, queued, paused, counted, remaining>>

ClearPaused ==
  /\ reader = "clear"
  /\ paused' = 0
  /\ reader' = "receive"
  /\ UNCHANGED <<engineVars, events, ended, queued, counted, remaining>>
-----------------------------------------------------------------------------
WorkerStep ==
  CallChunk \/ CountChunk \/ SendChunk \/ MarkPaused \/ LeaveCallback \/ ActOnAnswer \/ OnDone
ReaderStep == Receive \/ Uncount \/ LookPaused \/ ResumeEngine \/ ClearPaused

Next == EndOfBody \/ WorkerStep \/ ReaderStep

(* The peer sends the whole response, the executor runs the slot, and the    *)
(* consumer keeps calling next.                                              *)
FairSpec == Init /\ [][Next]_vars /\ WF_vars(EndOfBody) /\ WF_vars(WorkerStep) /\ WF_vars(ReaderStep)
-----------------------------------------------------------------------------
(* A consumer that keeps reading gets to the end of the response: next       *)
(* "calls resume once the consumer has caught up" (Hyper4kClient.kt).        *)
ReaderFinishes == <>(reader = "done")
=============================================================================
