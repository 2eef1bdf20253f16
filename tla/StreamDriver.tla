---------------------------- MODULE StreamDriver ----------------------------
(***************************************************************************)
(* runStream (core/streaming/driver.ts) pulling from an AsyncQueue         *)
(* (core/streaming/async-queue.ts): what wait, tail, prompt and the polite *)
(* stop of an agent run on.                                                *)
(*                                                                         *)
(* The source pushes events, numbered from 1 in the order of acceptance,   *)
(* and the loop hands them to a handler one at a time.  A handler may be   *)
(* asynchronous, so events, the end of the connection, both timers and the *)
(* cutoff signal come while one is in flight, while the loop is parked on  *)
(* next(), or while onStop is.  What a handler answers, and whether it     *)
(* throws, is left open.  A state is the number of the event it belongs    *)
(* to, the seed's 0.  Time is counted in ticks.                            *)
(*                                                                         *)
(* An operator whose name has an underscore is the operator named before   *)
(* it with a bug put in; no specification uses it (README, "Mutants").     *)
(***************************************************************************)
EXTENDS Naturals, Sequences

CONSTANTS
  MaxEvents,  \* bound on the events the source pushes
  Options,    \* the timers a caller may ask for
  None        \* undefined

Delay(d) == d = None \/ d \in Nat

ASSUME BoundAssumption == MaxEvents \in Nat
ASSUME NamesAssumption ==
  None \notin Nat \cup {"done", "closed", "timeout", "quiet", "abort", "handler"}
ASSUME OptionsAssumption ==
  \A o \in Options : o = [quiet |-> o.quiet, timeout |-> o.timeout]
                     /\ Delay(o.quiet) /\ Delay(o.timeout)

VARIABLES
  options,   \* quietMs and timeoutMs
  pushed,    \* pushedCount
  queue,     \* the accepted events that wait for next()
  closed,    \* AsyncQueue.closed
  pc,        \* where runStream is
  event,     \* the event whose handler is in flight
  lastState,
  cutoff,    \* sourceCutoff
  armed,     \* timersArmed
  quiet,     \* what is left of the quiet timer, None when it does not run
  timeout,   \* what is left of the timeout timer, None when it does not run
  aborted,   \* cutoffSignal.aborted
  stop,      \* onStop: not called, in flight, or how it ended
  outcome,   \* what runStream is about to return
  met,       \* the state a handler said to stop at
  ended,     \* what ended the source first
  silence    \* ticks since the last push, up to quietMs

queueVars == <<pushed, queue, closed>>
timerVars == <<armed, quiet, timeout>>
loopVars == <<pc, event, lastState, outcome, met>>
vars == <<options, queueVars, timerVars, loopVars, cutoff, aborted, stop,
          ended, silence>>

Settled == {"done", "failed"}

TypeOK ==
  /\ options \in Options
  /\ pushed \in 0 .. MaxEvents
  /\ queue \in Seq(1 .. MaxEvents)
  /\ closed \in BOOLEAN
  /\ pc \in Settled \cup {"subscribe", "seed", "next", "parked", "handle",
                          "drained", "finish", "ending"}
  /\ event \in 1 .. MaxEvents \cup {None}
  /\ lastState \in 0 .. MaxEvents
  /\ cutoff \in {None, "done", "timeout"}
  /\ armed \in BOOLEAN
  /\ quiet \in Nat \cup {None}
  /\ timeout \in Nat \cup {None}
  /\ aborted \in BOOLEAN
  /\ stop \in {"none", "running", "ok", "failed"}
  /\ outcome \in {"done", "closed", "timeout"}
                  \cup (IF pc \in {"finish", "ending", "done"} THEN {} ELSE {None})
  /\ met \in 0 .. MaxEvents \cup {None}
  /\ ended \in {None, "closed", "quiet", "timeout", "abort", "handler"}
  /\ silence \in Nat

Init ==
  /\ options \in Options
  /\ pushed = 0
  /\ queue = <<>>
  /\ closed = FALSE
  /\ pc = "subscribe"
  /\ event = None
  /\ lastState = 0
  /\ cutoff = None
  /\ armed = FALSE
  /\ quiet = None
  /\ timeout = None
  /\ aborted = FALSE
  /\ stop = "none"
  /\ outcome = None
  /\ met = None
  /\ ended = None
  /\ silence = 0

-----------------------------------------------------------------------------
(* The pieces of the code.                                                  *)

ClearTimers == quiet' = None /\ timeout' = None

\* beginStop calls onStop, unless it has.
BeginStop_Again == stop' = "running"
BeginStop == stop' = IF stop = "none" THEN "running" ELSE stop

\* AsyncQueue.close: no more values, those accepted stay.  The loop, if it is
\* parked, wakes up with nothing.
Close_KeepsWaiter(by) ==
  /\ closed' = TRUE
  /\ ended' = by
  /\ UNCHANGED pc
Close(by) ==
  /\ closed' = TRUE
  /\ ended' = by
  /\ pc' = IF pc = "parked" THEN "drained" ELSE pc

\* cancel of driver.ts: the timers and the queue.
Cancel ==
  /\ ClearTimers
  /\ closed' = TRUE
  /\ queue' = <<>>
  /\ ended' = IF closed THEN ended ELSE "handler"

\* establishSourceCutoff, of which only the first to end the source counts.
EstablishSourceCutoff_Anyway(result, by) ==
  /\ closed' = TRUE
  /\ ended' = IF closed THEN ended ELSE by
  /\ pc' = IF pc = "parked" THEN "drained" ELSE pc
  /\ cutoff' = result
  /\ BeginStop
EstablishSourceCutoff(result, by) ==
  IF closed
  THEN UNCHANGED <<closed, ended, pc, cutoff, stop>>
  ELSE /\ Close(by)
       /\ cutoff' = result
       /\ BeginStop

-----------------------------------------------------------------------------
(* The source.                                                              *)

ResetQuietTimer_WhenIdle ==
  quiet' = IF armed /\ cutoff = None /\ pc # "handle"
           THEN options.quiet ELSE quiet
ResetQuietTimer ==
  quiet' = IF armed /\ cutoff = None THEN options.quiet ELSE quiet

\* AsyncQueue.push, and the handler of onPush.  A push on a closed queue
\* changes nothing.
Push ==
  /\ ~closed
  /\ pushed < MaxEvents
  /\ pushed' = pushed + 1
  /\ IF pc = "parked"
     THEN pc' = "handle" /\ event' = pushed' /\ UNCHANGED queue
     ELSE queue' = Append(queue, pushed') /\ UNCHANGED <<pc, event>>
  /\ ResetQuietTimer
  /\ silence' = 0
  /\ UNCHANGED <<options, closed, armed, timeout, lastState, outcome, met,
                 cutoff, aborted, stop, ended>>

\* The socket closes, and the client closes the queue.
TransportCloses ==
  /\ ~closed
  /\ Close("closed")
  /\ UNCHANGED <<options, pushed, queue, timerVars, event, lastState, outcome,
                 met, cutoff, aborted, stop, silence>>

-----------------------------------------------------------------------------
(* Timers and the cutoff signal.                                            *)

Less(d) == IF d = None \/ d = 0 THEN d ELSE d - 1

Tick ==
  /\ quiet' = Less(quiet)
  /\ timeout' = Less(timeout)
  /\ silence' = IF options.quiet # None /\ silence < options.quiet
                THEN silence + 1 ELSE silence
  /\ UNCHANGED <<options, queueVars, armed, loopVars, cutoff, aborted, stop,
                 ended>>

\* The callback of a timer that is due.  One that did not cut the source off
\* first has no effect.
TimeoutFires ==
  /\ timeout = 0
  /\ EstablishSourceCutoff("timeout", "timeout")
  /\ timeout' = None
  /\ quiet' = IF closed THEN quiet ELSE None
  /\ UNCHANGED <<options, pushed, queue, armed, event, lastState, outcome, met,
                 aborted, silence>>

\* Timers of the same delay fire in the order of their registration.
QuietFires ==
  /\ quiet = 0
  /\ ~(timeout = 0 /\ options.timeout = options.quiet)
  /\ EstablishSourceCutoff("done", "quiet")
  /\ quiet' = None
  /\ timeout' = IF closed THEN timeout ELSE None
  /\ UNCHANGED <<options, pushed, queue, armed, event, lastState, outcome, met,
                 aborted, silence>>

\* The caller aborts cutoffSignal; before the timers are armed that is only
\* noted (SeedUnmet).
Abort ==
  /\ ~aborted
  /\ aborted' = TRUE
  /\ IF armed
     THEN /\ EstablishSourceCutoff("done", "abort")
          /\ IF closed THEN UNCHANGED <<quiet, timeout>> ELSE ClearTimers
     ELSE UNCHANGED <<closed, ended, pc, cutoff, stop, quiet, timeout>>
  /\ UNCHANGED <<options, pushed, queue, armed, event, lastState, outcome, met,
                 silence>>

-----------------------------------------------------------------------------
(* The loop.                                                                *)

Subscribed ==
  /\ pc = "subscribe"
  /\ pc' = "seed"
  /\ UNCHANGED <<options, queueVars, timerVars, event, lastState, outcome, met,
                 cutoff, aborted, stop, ended, silence>>

SubscribeFails ==
  /\ pc = "subscribe"
  /\ pc' = "failed"
  /\ UNCHANGED <<options, queueVars, timerVars, event, lastState, outcome, met,
                 cutoff, aborted, stop, ended, silence>>

\* A handler says that the condition holds at this state.
StopAt(state) ==
  /\ lastState' = state
  /\ met' = state
  /\ outcome' = "done"
  /\ pc' = "finish"
  /\ event' = None
  /\ Cancel
  /\ BeginStop
  /\ UNCHANGED <<options, pushed, armed, cutoff, aborted, silence>>

SeedMet == pc = "seed" /\ StopAt(0)

\* The timers are armed, the timeout first; a signal aborted by now cuts off.
SeedUnmet ==
  /\ pc = "seed"
  /\ pc' = "next"
  /\ armed' = TRUE
  /\ silence' = 0
  /\ IF aborted /\ ~closed
     THEN /\ closed' = TRUE
          /\ ended' = "abort"
          /\ cutoff' = "done"
          /\ ClearTimers
          /\ BeginStop
     ELSE /\ quiet' = options.quiet
          /\ timeout' = options.timeout
          /\ UNCHANGED <<closed, ended, cutoff, stop>>
  /\ UNCHANGED <<options, pushed, queue, event, lastState, outcome, met,
                 aborted>>

\* next(): a queued event, the end, or a wait.
NextEvent_Drops ==
  /\ pc = "next"
  /\ IF closed THEN pc' = "drained" /\ queue' = <<>> /\ UNCHANGED event
     ELSE IF queue # <<>>
     THEN pc' = "handle" /\ event' = Head(queue) /\ queue' = Tail(queue)
     ELSE pc' = "parked" /\ UNCHANGED <<queue, event>>
  /\ UNCHANGED <<options, pushed, closed, timerVars, lastState, outcome, met,
                 cutoff, aborted, stop, ended, silence>>
NextEvent ==
  /\ pc = "next"
  /\ IF queue # <<>>
     THEN pc' = "handle" /\ event' = Head(queue) /\ queue' = Tail(queue)
     ELSE /\ pc' = IF closed THEN "drained" ELSE "parked"
          /\ UNCHANGED <<queue, event>>
  /\ UNCHANGED <<options, pushed, closed, timerVars, lastState, outcome, met,
                 cutoff, aborted, stop, ended, silence>>

\* onEvent answers.
EventMet == pc = "handle" /\ StopAt(event)

EventUnmet ==
  /\ pc = "handle"
  /\ pc' = "next"
  /\ lastState' = event
  /\ event' = None
  /\ UNCHANGED <<options, queueVars, timerVars, outcome, met, cutoff, aborted,
                 stop, ended, silence>>

\* onSeed or onEvent throws.
HandlerFails_KeepsTimers ==
  /\ pc \in {"seed", "handle"}
  /\ pc' = "failed"
  /\ closed' = TRUE
  /\ queue' = <<>>
  /\ ended' = IF closed THEN ended ELSE "handler"
  /\ UNCHANGED <<options, pushed, timerVars, event, lastState, outcome, met,
                 cutoff, aborted, stop, silence>>
HandlerFails ==
  /\ pc \in {"seed", "handle"}
  /\ pc' = "failed"
  /\ Cancel
  /\ UNCHANGED <<options, pushed, armed, event, lastState, outcome, met,
                 cutoff, aborted, stop, silence>>

\* The queue has ended: finish(sourceCutoff ?? "closed").
Drained ==
  /\ pc = "drained"
  /\ pc' = "finish"
  /\ outcome' = IF cutoff = None THEN "closed" ELSE cutoff
  /\ ClearTimers
  /\ UNCHANGED <<options, queueVars, armed, event, lastState, met, cutoff,
                 aborted, stop, ended, silence>>

\* onStop settles.  Its failure cancels what is left to drain.
StopSettles ==
  /\ stop = "running"
  /\ \/ stop' = "ok" /\ UNCHANGED queue
     \/ stop' = "failed" /\ queue' = <<>>
  /\ UNCHANGED <<options, pushed, closed, timerVars, loopVars, cutoff, aborted,
                 ended, silence>>

\* finish: onStop first, then onEnd.
FinishAfterStop_Early ==
  /\ pc = "finish"
  /\ pc' = IF stop = "failed" THEN "failed" ELSE "ending"
  /\ UNCHANGED <<options, queueVars, timerVars, event, lastState, outcome, met,
                 cutoff, aborted, stop, ended, silence>>
FinishAfterStop ==
  /\ pc = "finish"
  /\ stop # "running"
  /\ pc' = IF stop = "failed" THEN "failed" ELSE "ending"
  /\ UNCHANGED <<options, queueVars, timerVars, event, lastState, outcome, met,
                 cutoff, aborted, stop, ended, silence>>

\* onEnd settles, and with it runStream.
EndSettles ==
  /\ pc = "ending"
  /\ pc' \in Settled
  /\ UNCHANGED <<options, queueVars, timerVars, event, lastState, outcome, met,
                 cutoff, aborted, stop, ended, silence>>

-----------------------------------------------------------------------------
LoopStep ==
  \/ Subscribed \/ SubscribeFails \/ SeedMet \/ SeedUnmet \/ NextEvent
  \/ EventMet \/ EventUnmet \/ HandlerFails \/ Drained \/ FinishAfterStop
  \/ EndSettles

Next ==
  \/ Push \/ TransportCloses \/ Tick \/ TimeoutFires \/ QuietFires \/ Abort
  \/ LoopStep \/ StopSettles

Spec == Init /\ [][Next]_vars

\* Time passes, timers that are due fire, and hooks settle: what they wait for
\* is an answer of pi's, or the end of its connection.
Fairness ==
  /\ WF_vars(Tick) /\ WF_vars(TimeoutFires) /\ WF_vars(QuietFires)
  /\ WF_vars(LoopStep) /\ WF_vars(StopSettles)

FairSpec == Spec /\ Fairness

-----------------------------------------------------------------------------
(* Safety.                                                                  *)

\* A stream that returns has handled every event accepted before its source
\* ended, or stopped at the first that met the condition; the state it returns
\* is that of the last event handled.
NothingLost ==
  pc = "done" => lastState = IF met = None THEN pushed ELSE met

\* What ended the source first decides the outcome, whatever else happens
\* while the rest is drained; only a handler's own stop overrides it.
FirstEndWins ==
  pc = "done" =>
    outcome = IF met # None THEN "done"
              ELSE IF ended \in {"quiet", "abort"} THEN "done" ELSE ended

\* onEnd flushes the output only when onStop has succeeded, and a stream that
\* the closing of the socket ended has no onStop.
StopBeforeEnd ==
  pc \in {"ending", "done"} =>
    stop = IF outcome = "closed" THEN "none" ELSE "ok"

\* onStop is called once, although a cutoff and a satisfying event that is
\* drained after it both stop the stream.
StopOnce == [][stop' # stop => stop \notin {"ok", "failed"}]_vars

\* A stream that is over leaves no timer behind to keep the process alive, on
\* whichever path it ended (the comments on clearTimeout in the code).
TimersCleared ==
  pc \in {"finish", "ending"} \cup Settled => quiet = None /\ timeout = None

\* The quiet timer ends a stream only after quietMs without a push, also when
\* the pushes came while a handler was in flight.
QuietMeansSilence ==
  [][ended' = "quiet" /\ ended # "quiet" => silence >= options.quiet]_vars

\* There is never a waiter left parked in front of undelivered values, or of
\* the end (AsyncQueue.end).
NeverParkedInVain == pc = "parked" => queue = <<>> /\ ~closed

-----------------------------------------------------------------------------
(* Liveness.                                                                *)

\* A stream whose source has ended returns or fails, and so does one with a
\* timer: the source ends, or falls silent, or time runs out.
StreamEnds ==
  /\ closed ~> pc \in Settled
  /\ armed /\ options # [quiet |-> None, timeout |-> None] ~> pc \in Settled
=============================================================================
