------------------------ MODULE StreamDriverProofs -------------------------
(***************************************************************************)
(* However events, the two timers, the cutoff signal, the end of the       *)
(* connection and failing hooks interleave, and for any number of events   *)
(* and any delays: what StreamDriver returns is right.  Four invariants,   *)
(* each inductive over the ones before it, about types, about the end of   *)
(* the source, about the timers, and about the events accepted.            *)
(***************************************************************************)
EXTENDS StreamDriver, SequenceTheorems, TLAPS

Running == {"subscribe", "seed", "next", "parked", "handle"}
Finishing == {"finish", "ending", "done"}

-----------------------------------------------------------------------------
(* Type correctness.                                                        *)

\* A handler that is in flight has an event.
Handling == pc = "handle" => event # None

TypeInv == TypeOK /\ Handling

LEMMA InitType == Init => TypeInv
<1> SUFFICES ASSUME Init PROVE TypeInv
  OBVIOUS
<1>1. pushed \in 0 .. MaxEvents /\ lastState \in 0 .. MaxEvents
  BY BoundAssumption DEF Init
<1>2. queue \in Seq(1 .. MaxEvents)
  BY EmptySeq DEF Init
<1>3. QED
  BY <1>1, <1>2 DEF Init, TypeInv, TypeOK, Handling, Settled

LEMMA OptionTypes ==
  ASSUME TypeOK
  PROVE  /\ options.quiet \in Nat \cup {None}
         /\ options.timeout \in Nat \cup {None}
  BY OptionsAssumption DEF TypeOK, Delay

LEMMA NextType == TypeInv /\ [Next]_vars => TypeInv'
<1> SUFFICES ASSUME TypeInv, [Next]_vars PROVE TypeInv'
  OBVIOUS
<1> USE BoundAssumption, NamesAssumption, OptionTypes
       DEF TypeInv, TypeOK, Handling, Settled
<1>1. CASE UNCHANGED vars
  BY <1>1 DEF vars, queueVars, timerVars, loopVars
<1>2. CASE Push
  <2>1. pushed' \in 1 .. MaxEvents
    BY <1>2 DEF Push
  <2>2. queue' \in Seq(1 .. MaxEvents)
    <3>1. Append(queue, pushed') \in Seq(1 .. MaxEvents)
      BY <2>1, AppendProperties
    <3>2. QED
      BY <1>2, <3>1 DEF Push
  <2>3. QED
    BY <1>2, <2>1, <2>2 DEF Push, ResetQuietTimer
<1>3. CASE TransportCloses
  BY <1>3 DEF TransportCloses, Close, timerVars
<1>4. CASE Tick
  BY <1>4 DEF Tick, Less, queueVars, loopVars
<1>5. CASE TimeoutFires
  <2>1. CASE closed
    BY <1>5, <2>1 DEF TimeoutFires, EstablishSourceCutoff
  <2>2. CASE ~closed
    BY <1>5, <2>2 DEF TimeoutFires, EstablishSourceCutoff, Close, BeginStop
  <2>3. QED
    BY <2>1, <2>2
<1>6. CASE QuietFires
  <2>1. CASE closed
    BY <1>6, <2>1 DEF QuietFires, EstablishSourceCutoff
  <2>2. CASE ~closed
    BY <1>6, <2>2 DEF QuietFires, EstablishSourceCutoff, Close, BeginStop
  <2>3. QED
    BY <2>1, <2>2
<1>7. CASE Abort
  <2>1. CASE closed \/ ~armed
    BY <1>7, <2>1 DEF Abort, EstablishSourceCutoff
  <2>2. CASE ~closed /\ armed
    <3>1. /\ pc' = IF pc = "parked" THEN "drained" ELSE pc
          /\ stop' = IF stop = "none" THEN "running" ELSE stop
          /\ closed' = TRUE /\ ended' = "abort" /\ cutoff' = "done"
          /\ quiet' = None /\ timeout' = None /\ aborted' = TRUE
          /\ UNCHANGED <<options, pushed, queue, armed, event, lastState,
                         outcome, met, silence>>
      BY <1>7, <2>2
         DEF Abort, EstablishSourceCutoff, Close, BeginStop, ClearTimers
    <3>2. QED
      BY <3>1
  <2>3. QED
    BY <2>1, <2>2
<1>8. CASE Subscribed
  BY <1>8 DEF Subscribed, queueVars, timerVars
<1>9. CASE SubscribeFails
  BY <1>9 DEF SubscribeFails, queueVars, timerVars
<1>10. CASE SeedMet
  BY <1>10, EmptySeq DEF SeedMet, StopAt, Cancel, ClearTimers, BeginStop
<1>11. CASE SeedUnmet
  <2>1. CASE aborted /\ ~closed
    BY <1>11, <2>1 DEF SeedUnmet, ClearTimers, BeginStop
  <2>2. CASE ~(aborted /\ ~closed)
    BY <1>11, <2>2 DEF SeedUnmet
  <2>3. QED
    BY <2>1, <2>2
<1>12. CASE NextEvent
  <2>1. queue # <<>> => Head(queue) \in 1 .. MaxEvents
                        /\ Tail(queue) \in Seq(1 .. MaxEvents)
    BY HeadTailProperties
  <2>2. CASE queue # <<>>
    <3>1. /\ pc' = "handle" /\ event' \in 1 .. MaxEvents
          /\ queue' \in Seq(1 .. MaxEvents)
      BY <1>12, <2>1, <2>2 DEF NextEvent
    <3>2. QED
      BY <1>12, <3>1 DEF NextEvent, timerVars
  <2>3. CASE queue = <<>>
    BY <1>12, <2>3 DEF NextEvent, timerVars
  <2>4. QED
    BY <2>2, <2>3
<1>13. CASE EventMet
  BY <1>13, EmptySeq DEF EventMet, StopAt, Cancel, ClearTimers, BeginStop
<1>14. CASE EventUnmet
  BY <1>14 DEF EventUnmet, queueVars, timerVars
<1>15. CASE HandlerFails
  BY <1>15, EmptySeq DEF HandlerFails, Cancel, ClearTimers
<1>16. CASE Drained
  BY <1>16 DEF Drained, ClearTimers, queueVars
<1>17. CASE FinishAfterStop
  BY <1>17 DEF FinishAfterStop, queueVars, timerVars
<1>18. CASE EndSettles
  BY <1>18 DEF EndSettles, queueVars, timerVars
<1>19. CASE StopSettles
  <2>1. queue' \in Seq(1 .. MaxEvents)
    BY <1>19, EmptySeq DEF StopSettles
  <2>2. stop' \in {"ok", "failed"}
    BY <1>19 DEF StopSettles
  <2>3. QED
    BY <1>19, <2>1, <2>2 DEF StopSettles, timerVars, loopVars
<1>20. QED
  BY <1>1, <1>2, <1>3, <1>4, <1>5, <1>6, <1>7, <1>8, <1>9, <1>10, <1>11,
     <1>12, <1>13, <1>14, <1>15, <1>16, <1>17, <1>18, <1>19
     DEF Next, LoopStep

\* Every variable has its type in every reachable state.
THEOREM TypeCorrect == Spec => []TypeOK
<1>1. TypeInv => TypeOK
  BY DEF TypeInv
<1>2. QED
  BY <1>1, InitType, NextType, PTL DEF Spec

-----------------------------------------------------------------------------
(* The end of the source: closed, cutoff, stop and ended change together,   *)
(* and only once; a stop that a handler asks for may join them.             *)

Ended ==
  /\ closed <=> ended # None
  /\ cutoff = IF ended \in {"quiet", "abort"} THEN "done"
              ELSE IF ended = "timeout" THEN "timeout" ELSE None
  /\ stop = "none" <=> cutoff = None /\ met = None
  /\ met # None => closed

Loop ==
  /\ pc = "parked" => queue = <<>> /\ ~closed
  /\ pc \in {"drained"} \cup Finishing => closed
  /\ pc \in Running \cup {"drained"} => met = None
  /\ pc \in Running /\ closed => ended # "handler"
  /\ pc \in {"subscribe", "seed"} => ~armed
  /\ pc = "failed" => closed \/ ~armed
  /\ pc \in {"drained"} \cup Finishing /\ met = None => ended # "handler"
  /\ pc \in Finishing =>
       outcome = IF met # None THEN "done"
                 ELSE IF cutoff = None THEN "closed" ELSE cutoff
  /\ pc \in {"ending", "done"} => stop \in {"none", "ok"}

EndInv == TypeInv /\ Ended /\ Loop

LEMMA NextEnded == EndInv /\ TypeInv' /\ [Next]_vars => Ended' /\ Loop'
<1> SUFFICES ASSUME EndInv, TypeInv', [Next]_vars PROVE Ended' /\ Loop'
  OBVIOUS
<1> USE NamesAssumption, OptionTypes
       DEF EndInv, Ended, Loop, TypeInv, TypeOK, Handling, Running, Finishing,
           Settled, queueVars, timerVars, loopVars
<1>1. CASE UNCHANGED vars
  BY <1>1 DEF vars
<1>2. CASE Push
  BY <1>2 DEF Push, ResetQuietTimer
<1>3. CASE TransportCloses
  BY <1>3 DEF TransportCloses, Close
<1>4. CASE Tick
  BY <1>4 DEF Tick
<1>5. CASE TimeoutFires
  BY <1>5 DEF TimeoutFires, EstablishSourceCutoff, Close, BeginStop
<1>6. CASE QuietFires
  BY <1>6 DEF QuietFires, EstablishSourceCutoff, Close, BeginStop
<1>7. CASE Abort
  BY <1>7 DEF Abort, EstablishSourceCutoff, Close, BeginStop, ClearTimers
<1>8. CASE Subscribed
  BY <1>8 DEF Subscribed
<1>9. CASE SubscribeFails
  BY <1>9 DEF SubscribeFails
<1>10. CASE SeedMet
  BY <1>10 DEF SeedMet, StopAt, Cancel, ClearTimers, BeginStop
<1>11. CASE SeedUnmet
  BY <1>11 DEF SeedUnmet, ClearTimers, BeginStop
<1>12. CASE NextEvent
  BY <1>12 DEF NextEvent
<1>13. CASE EventMet
  BY <1>13 DEF EventMet, StopAt, Cancel, ClearTimers, BeginStop
<1>14. CASE EventUnmet
  BY <1>14 DEF EventUnmet
<1>15. CASE HandlerFails
  BY <1>15 DEF HandlerFails, Cancel, ClearTimers
<1>16. CASE Drained
  BY <1>16 DEF Drained, ClearTimers
<1>17. CASE FinishAfterStop
  BY <1>17 DEF FinishAfterStop
<1>18. CASE EndSettles
  BY <1>18 DEF EndSettles
<1>19. CASE StopSettles
  BY <1>19 DEF StopSettles
<1>20. QED
  BY <1>1, <1>2, <1>3, <1>4, <1>5, <1>6, <1>7, <1>8, <1>9, <1>10, <1>11, <1>12, <1>13, <1>14, <1>15, <1>16, <1>17, <1>18, <1>19
     DEF Next, LoopStep

-----------------------------------------------------------------------------
(* The timers run while they are armed, and the quiet timer's remainder and *)
(* the silence so far make up its delay.                                    *)

Clocks ==
  /\ ~armed => quiet = None /\ timeout = None
  /\ pc \in Finishing \cup {"failed"} => quiet = None /\ timeout = None
  /\ quiet # None => options.quiet # None /\ silence + quiet >= options.quiet

LEMMA NextClocks == EndInv /\ Clocks /\ TypeInv' /\ [Next]_vars => Clocks'
<1> SUFFICES ASSUME EndInv /\ Clocks, TypeInv', [Next]_vars PROVE Clocks'
  OBVIOUS
<1> USE NamesAssumption, OptionTypes
       DEF EndInv, Ended, Loop, Clocks, Less, TypeInv, TypeOK, Handling, Running, Finishing,
           Settled, queueVars, timerVars, loopVars
<1>1. CASE UNCHANGED vars
  BY <1>1 DEF vars
<1>2. CASE Push
  <2>1. cutoff = None /\ ~closed
    BY <1>2 DEF Push
  <2>2. quiet' = IF armed THEN options.quiet ELSE quiet
    BY <1>2, <2>1 DEF Push, ResetQuietTimer
  <2>3. /\ silence' = 0
        /\ pc' = IF pc = "parked" THEN "handle" ELSE pc
        /\ UNCHANGED <<options, armed, timeout>>
    BY <1>2 DEF Push
  <2>4. ~armed' => quiet' = None /\ timeout' = None
    BY <2>2, <2>3
  <2>5. pc' \in Finishing \cup {"failed"} => quiet' = None /\ timeout' = None
    <3>1. SUFFICES ASSUME pc = "failed" PROVE quiet' = None /\ timeout' = None
      BY <2>1, <2>3
    <3>2. QED
      BY <3>1, <2>1, <2>2, <2>3
  <2>6. QED
    BY <2>2, <2>3, <2>4, <2>5
<1>3. CASE TransportCloses
  BY <1>3 DEF TransportCloses, Close
<1>4. CASE Tick
  BY <1>4 DEF Tick
<1>5. CASE TimeoutFires
  BY <1>5 DEF TimeoutFires, EstablishSourceCutoff, Close, BeginStop
<1>6. CASE QuietFires
  BY <1>6 DEF QuietFires, EstablishSourceCutoff, Close, BeginStop
<1>7. CASE Abort
  BY <1>7 DEF Abort, EstablishSourceCutoff, Close, BeginStop, ClearTimers
<1>8. CASE Subscribed
  BY <1>8 DEF Subscribed
<1>9. CASE SubscribeFails
  BY <1>9 DEF SubscribeFails
<1>10. CASE SeedMet
  BY <1>10 DEF SeedMet, StopAt, Cancel, ClearTimers, BeginStop
<1>11. CASE SeedUnmet
  BY <1>11 DEF SeedUnmet, ClearTimers, BeginStop
<1>12. CASE NextEvent
  BY <1>12 DEF NextEvent
<1>13. CASE EventMet
  BY <1>13 DEF EventMet, StopAt, Cancel, ClearTimers, BeginStop
<1>14. CASE EventUnmet
  BY <1>14 DEF EventUnmet
<1>15. CASE HandlerFails
  BY <1>15 DEF HandlerFails, Cancel, ClearTimers
<1>16. CASE Drained
  BY <1>16 DEF Drained, ClearTimers
<1>17. CASE FinishAfterStop
  BY <1>17 DEF FinishAfterStop
<1>18. CASE EndSettles
  BY <1>18 DEF EndSettles
<1>19. CASE StopSettles
  BY <1>19 DEF StopSettles
<1>20. QED
  BY <1>1, <1>2, <1>3, <1>4, <1>5, <1>6, <1>7, <1>8, <1>9, <1>10, <1>11, <1>12, <1>13, <1>14, <1>15, <1>16, <1>17, <1>18, <1>19
     DEF Next, LoopStep

-----------------------------------------------------------------------------
(* The events accepted: while the source is drained, the queue holds those  *)
(* that follow the last one taken, in order, up to the last one pushed.     *)

Taken == IF pc = "handle" THEN event ELSE lastState

Accepted ==
  /\ pc \in Running /\ stop # "failed" =>
       /\ pushed = Taken + Len(queue)
       /\ \A i \in 1 .. Len(queue) : queue[i] = Taken + i
  /\ pc = "drained" /\ stop # "failed" => lastState = pushed
  /\ pc \in Finishing /\ stop # "failed" =>
       lastState = IF met = None THEN pushed ELSE met

LEMMA NextAccepted == EndInv /\ Accepted /\ TypeInv' /\ [Next]_vars => Accepted'
<1> SUFFICES ASSUME EndInv /\ Accepted, TypeInv', [Next]_vars PROVE Accepted'
  OBVIOUS
<1> USE NamesAssumption, OptionTypes
       DEF EndInv, Ended, Loop, Taken, Accepted, TypeInv, TypeOK, Handling, Running, Finishing,
           Settled, queueVars, timerVars, loopVars
<1>1. CASE UNCHANGED vars
  BY <1>1 DEF vars
<1>2. CASE Push
  <2>1. ~closed /\ stop = "none" /\ pc \in Running \cup {"failed"}
    BY <1>2 DEF Push
  <2>2. CASE pc = "parked"
    <3>1. /\ pc' = "handle" /\ event' = pushed + 1 /\ queue' = queue
          /\ queue = <<>> /\ pushed' = pushed + 1
      BY <1>2, <2>2 DEF Push
    <3>2. QED
      BY <3>1
  <2>3. CASE pc # "parked"
    <3>1. /\ queue' = Append(queue, pushed + 1) /\ pushed' = pushed + 1
          /\ UNCHANGED <<pc, event, lastState, stop>>
      BY <1>2, <2>3 DEF Push
    <3>2. /\ Len(queue') = Len(queue) + 1
          /\ \A i \in 1 .. Len(queue) : queue'[i] = queue[i]
          /\ queue'[Len(queue) + 1] = pushed + 1
      BY <3>1, AppendProperties
    <3>3. Taken' = Taken
      BY <3>1
    <3>4. CASE pc \in Running
      <4>1. /\ pushed = Taken + Len(queue)
            /\ \A i \in 1 .. Len(queue) : queue[i] = Taken + i
        BY <2>1, <3>4
      <4>2. Taken \in Nat /\ Len(queue) \in Nat
        BY <2>3, LenProperties
      <4> HIDE DEF Taken
      <4>3. pushed' = Taken' + Len(queue')
        BY <3>1, <3>2, <3>3, <4>1, <4>2
      <4>4. \A i \in 1 .. Len(queue') : queue'[i] = Taken' + i
        <5>1. SUFFICES ASSUME NEW i \in 1 .. Len(queue) + 1
                       PROVE  queue'[i] = Taken + i
          BY <3>2, <3>3
        <5>2. CASE i \in 1 .. Len(queue)
          BY <3>2, <4>1, <5>2
        <5>3. CASE i = Len(queue) + 1
          BY <3>2, <4>1, <4>2, <5>3
        <5>4. QED
          BY <4>2, <5>1, <5>2, <5>3
      <4>5. QED
        BY <2>1, <3>1, <3>4, <4>3, <4>4
    <3>5. CASE pc = "failed"
      BY <3>1, <3>5
    <3>6. QED
      BY <2>1, <3>4, <3>5
  <2>4. QED
    BY <2>2, <2>3
<1>3. CASE TransportCloses
  BY <1>3 DEF TransportCloses, Close
<1>4. CASE Tick
  BY <1>4 DEF Tick
<1>5. CASE TimeoutFires
  BY <1>5 DEF TimeoutFires, EstablishSourceCutoff, Close, BeginStop
<1>6. CASE QuietFires
  BY <1>6 DEF QuietFires, EstablishSourceCutoff, Close, BeginStop
<1>7. CASE Abort
  BY <1>7 DEF Abort, EstablishSourceCutoff, Close, BeginStop, ClearTimers
<1>8. CASE Subscribed
  BY <1>8 DEF Subscribed
<1>9. CASE SubscribeFails
  BY <1>9 DEF SubscribeFails
<1>10. CASE SeedMet
  BY <1>10 DEF SeedMet, StopAt, Cancel, ClearTimers, BeginStop
<1>11. CASE SeedUnmet
  BY <1>11 DEF SeedUnmet, ClearTimers, BeginStop
<1>12. CASE NextEvent
  <2>1. CASE queue # <<>>
    <3>1. /\ pc = "next" /\ pc' = "handle" /\ event' = Head(queue)
          /\ queue' = Tail(queue) /\ UNCHANGED <<pushed, lastState, stop>>
      BY <1>12, <2>1 DEF NextEvent
    <3>2. /\ Len(queue) \in Nat \ {0} /\ Len(queue') = Len(queue) - 1
          /\ Head(queue) = queue[1]
          /\ \A i \in 1 .. Len(queue') : queue'[i] = queue[i + 1]
      BY <2>1, <3>1, HeadTailProperties
    <3>3. QED
      BY <3>1, <3>2
  <2>2. CASE queue = <<>>
    BY <1>12, <2>2 DEF NextEvent
  <2>3. QED
    BY <2>1, <2>2
<1>13. CASE EventMet
  BY <1>13 DEF EventMet, StopAt, Cancel, ClearTimers, BeginStop
<1>14. CASE EventUnmet
  BY <1>14 DEF EventUnmet
<1>15. CASE HandlerFails
  BY <1>15 DEF HandlerFails, Cancel, ClearTimers
<1>16. CASE Drained
  BY <1>16 DEF Drained, ClearTimers
<1>17. CASE FinishAfterStop
  BY <1>17 DEF FinishAfterStop
<1>18. CASE EndSettles
  BY <1>18 DEF EndSettles
<1>19. CASE StopSettles
  BY <1>19 DEF StopSettles
<1>20. QED
  BY <1>1, <1>2, <1>3, <1>4, <1>5, <1>6, <1>7, <1>8, <1>9, <1>10, <1>11, <1>12, <1>13, <1>14, <1>15, <1>16, <1>17, <1>18, <1>19
     DEF Next, LoopStep

-----------------------------------------------------------------------------
(* The theorems.                                                            *)

LEMMA EndInvariant == Spec => []EndInv
<1>1. Init => EndInv
  BY InitType, NamesAssumption
     DEF Init, EndInv, Ended, Loop, Running, Finishing
<1>2. EndInv /\ [Next]_vars => EndInv'
  BY NextType, NextEnded DEF EndInv
<1>3. QED
  BY <1>1, <1>2, PTL DEF Spec

LEMMA ClocksInvariant == Spec => [](EndInv /\ Clocks)
<1>1. Init => Clocks
  BY DEF Init, Clocks
<1>2. EndInv /\ EndInv' /\ Clocks /\ [Next]_vars => Clocks'
  BY NextClocks DEF EndInv
<1>3. QED
  BY <1>1, <1>2, EndInvariant, PTL DEF Spec

LEMMA AcceptedInvariant == Spec => [](EndInv /\ Accepted)
<1>1. Init => Accepted
  BY DEF Init, Accepted, Taken, Running, Finishing
<1>2. EndInv /\ EndInv' /\ Accepted /\ [Next]_vars => Accepted'
  BY NextAccepted DEF EndInv
<1>3. QED
  BY <1>1, <1>2, EndInvariant, PTL DEF Spec

\* A stream that returns has handled every event accepted before its source
\* ended, or stopped at the first that met the condition (runStream's loop).
THEOREM NothingIsLost == Spec => []NothingLost
<1>1. EndInv /\ Accepted => NothingLost
  BY DEF EndInv, Loop, Accepted, NothingLost, Finishing
<1>2. QED
  BY <1>1, AcceptedInvariant, PTL

\* The outcome is that of the first of the timers, the signal and the socket
\* to end the source, or the condition's (establishSourceCutoff).
THEOREM FirstEndDecides == Spec => []FirstEndWins
<1>1. EndInv => FirstEndWins
  BY NamesAssumption
     DEF EndInv, Ended, Loop, TypeInv, TypeOK, FirstEndWins, Finishing
<1>2. QED
  BY <1>1, EndInvariant, PTL

\* onEnd runs only after onStop has succeeded, or where there is none (finish).
THEOREM StopIsBeforeEnd == Spec => []StopBeforeEnd
<1>1. EndInv => StopBeforeEnd
  BY NamesAssumption
     DEF EndInv, Ended, Loop, TypeInv, TypeOK, StopBeforeEnd, Finishing
<1>2. QED
  BY <1>1, EndInvariant, PTL

\* No timer outlives its stream, on any path (clearTimers).
THEOREM TimersAreCleared == Spec => []TimersCleared
<1>1. Clocks => TimersCleared
  BY DEF Clocks, TimersCleared, Finishing, Settled
<1>2. QED
  BY <1>1, ClocksInvariant, PTL

\* The loop is never parked in front of a value or of the end (AsyncQueue).
THEOREM NeverIsParkedInVain == Spec => []NeverParkedInVain
<1>1. EndInv => NeverParkedInVain
  BY DEF EndInv, Loop, NeverParkedInVain
<1>2. QED
  BY <1>1, EndInvariant, PTL

\* The quiet timer ends a stream only after quietMs without a push, whatever
\* the delay and wherever the pushes came (resetQuietTimer).
THEOREM QuietIsSilence == Spec => QuietMeansSilence
<1> DEFINE Quiet == ended' = "quiet" /\ ended # "quiet"
                      => silence >= options.quiet
<1>1. EndInv /\ Clocks /\ [Next]_vars => [Quiet]_vars
  <2> SUFFICES ASSUME EndInv, Clocks, Next, ended' = "quiet", ended # "quiet"
               PROVE  silence >= options.quiet
    BY DEF vars
  <2>1. QuietFires
    BY DEF Next, LoopStep, Push, TransportCloses, Close, Tick, TimeoutFires,
           EstablishSourceCutoff, Abort, Subscribed, SubscribeFails, SeedMet,
           StopAt, Cancel, SeedUnmet, NextEvent, EventMet, EventUnmet,
           HandlerFails, Drained, FinishAfterStop, EndSettles, StopSettles,
           queueVars, loopVars
  <2>2. quiet = 0
    BY <2>1 DEF QuietFires
  <2>3. options.quiet \in Nat /\ silence \in Nat
    BY <2>2, OptionTypes, NamesAssumption DEF EndInv, TypeInv, TypeOK, Clocks
  <2>4. QED
    BY <2>2, <2>3, NamesAssumption DEF Clocks
<1>2. QED
  BY <1>1, ClocksInvariant, PTL DEF Spec, QuietMeansSilence

\* onStop is called at most once and settles once, however many of the timers,
\* the signal and the handlers stop the stream (beginStop).
THEOREM StopsOnce == Spec => StopOnce
<1> DEFINE Once == stop' # stop => stop \notin {"ok", "failed"}
<1>1. [Next]_vars => Once
  <2> SUFFICES ASSUME [Next]_vars, stop' # stop PROVE stop \notin {"ok", "failed"}
    OBVIOUS
  <2> USE DEF BeginStop, EstablishSourceCutoff
  <2>1. CASE StopSettles
    BY <2>1 DEF StopSettles
  <2>2. CASE TimeoutFires \/ QuietFires \/ Abort
    BY <2>2 DEF TimeoutFires, QuietFires, Abort
  <2>3. CASE SeedMet \/ SeedUnmet \/ EventMet
    BY <2>3 DEF SeedMet, SeedUnmet, EventMet, StopAt
  <2>4. CASE \/ Push \/ TransportCloses \/ Tick \/ Subscribed \/ SubscribeFails
             \/ NextEvent \/ EventUnmet \/ HandlerFails \/ Drained
             \/ FinishAfterStop \/ EndSettles \/ UNCHANGED vars
    BY <2>4
       DEF Push, TransportCloses, Tick, Subscribed, SubscribeFails, NextEvent,
           EventUnmet, HandlerFails, Drained, FinishAfterStop, EndSettles, vars
  <2>5. QED
    BY <2>1, <2>2, <2>3, <2>4 DEF Next, LoopStep
<1>2. QED
  BY <1>1, PTL DEF Spec, StopOnce
=============================================================================
