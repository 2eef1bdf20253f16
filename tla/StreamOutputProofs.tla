------------------------- MODULE StreamOutputProofs -------------------------
(***************************************************************************)
(* The output of StreamModes is one stream.  In the modes of messages and  *)
(* events that is so because records keep their order in the socket and in *)
(* the queue, and the history's answer is one of them; in the entries mode *)
(* because every drain goes on from the cursor, or from the start of a     *)
(* later session.                                                          *)
(***************************************************************************)
EXTENDS StreamModesProofs

-----------------------------------------------------------------------------
(* The way to a subscription.                                               *)

Before == {"connect", "hello", "history", "leaf"}

\* The first session_changed is on its way until the state is there.
SeedComes ==
  /\ link = "hello" => /\ chan # <<>>
                       /\ chan[1].type = "hello" =>
                            Len(chan) >= 2 /\ chan[2].type = "session_changed"
  /\ link = "up" /\ state = None => chan # <<>> /\ chan[1].type = "session_changed"

Setup ==
  /\ pc = "connect" => link = "none" /\ state = None /\ seed = None /\ chan = <<>>
  /\ link = "none" => pc \in {"connect", "failed"} /\ prompt = "none"
  /\ link = "hello" => pc = "hello"
  /\ pc \in Before => events = "none" /\ queue = <<>>
  /\ prompt # "none" => IsPrompt
  /\ events = "open" => link # "closed"

PromptDone == prompt \in {"ok", "failed"} => Answered("prompt")

LEMMA InitSetup == Init => SeedComes /\ Setup
<1>1. SUFFICES ASSUME Init PROVE SeedComes /\ Setup
  OBVIOUS
<1>2. /\ chan = <<>> /\ link = "none" /\ state = None /\ seed = None
      /\ pc = "connect" /\ prompt = "none" /\ events = "none" /\ queue = <<>>
  BY <1>1 DEF Init, ClientInit
<1>3. QED
  BY <1>2 DEF SeedComes, Setup

LEMMA ConnectSends ==
  ASSUME Connect
  PROVE  /\ link' = "hello" /\ UNCHANGED <<state, seed, queue, events, asked, reply>>
         /\ \/ server = "foreign" /\ Len(chan') = 1 /\ chan'[1] = Event("other")
            \/ /\ Len(chan') = 2 /\ chan'[1] = Event("hello")
               /\ chan'[2] = [Event("session_changed") EXCEPT !.state = PiState]
<1> DEFINE first == [Event("session_changed") EXCEPT !.state = PiState]
           hello == Event("hello")
<1>1. link' = "hello" /\ UNCHANGED <<state, seed, queue, events, asked, reply>>
  BY DEF Connect
<1>2. (server = "foreign" /\ chan' = <<Event("other")>>) \/ chan' = <<hello, first>>
  BY DEF Connect
<1> HIDE DEF hello, first
<1>3. QED
  BY <1>1, <1>2 DEF hello, first

LEMMA ReceiveState ==
  ASSUME TypeInv, Receive
  PROVE  /\ link = "hello" /\ link' # "closed" => chan[1].type = "hello" /\ link' = "up"
         /\ link = "hello" => UNCHANGED <<state, seed, queue, reply>>
         /\ link # "hello" => link' = link
         /\ state # None => state' # None
         /\ link # "hello" /\ state = None => queue' = queue
         /\ link # "hello" /\ chan[1].type = "session_changed" => state' # None
<1>1. Arrives
  BY ReceiveArrives
<1>2. \A s \in States : s # None
  BY NoneAssumption
<1>3. CASE link = "hello"
  BY <1>1, <1>3 DEF Receive, Arrives
<1>4. CASE link # "hello"
  <2>1. DispatchLine(chan[1]) /\ link' = link
    BY <1>1, <1>4 DEF Receive, Arrives
  <2>2. CASE chan[1].type = "response"
    BY <1>4, <2>1, <2>2 DEF DispatchLine
  <2>3. CASE chan[1].type # "response" /\ state = None
    BY <1>1, <1>2, <1>4, <2>1, <2>3 DEF DispatchLine, Arrives, Carries
  <2>4. CASE chan[1].type # "response" /\ state # None
    <3>1. chan[1] \in Events /\ state \in States
      BY <1>1, <2>4 DEF Arrives, Responses, TypeInv, ClientType
    <3>2. state' = NextSessionState(state, chan[1]) /\ state' \in States
      BY <1>1, <2>1, <2>4, <3>1, NextSessionStateType DEF DispatchLine, Arrives
    <3>3. QED
      BY <1>2, <1>4, <2>1, <2>4, <3>2
  <2>5. QED
    BY <2>2, <2>3, <2>4
<1>5. QED
  BY <1>3, <1>4

LEMMA NextSeedComes ==
  ASSUME TypeInv, Order, SeedComes, [Next]_vars
  PROVE  SeedComes'
<1>1. Len(chan) \in Nat /\ (chan # <<>> => 1 \in 1 .. Len(chan))
  BY SentTail, LenProperties DEF TypeInv, ClientType, Sent
<1>2. CASE PiStep
  <2>1. Sends /\ UNCHANGED <<link, state>>
    BY <1>2, PiStepShape DEF Changes, CommandKeeps
  <2>2. chan # <<>> => chan' # <<>>
    <3>1. chan' = <<>> => Len(chan') = 0
      BY EmptySeq
    <3>2. QED
      BY <1>1, <2>1, <3>1 DEF Sends
  <2>3. \A i \in 1 .. Len(chan) : chan'[i] = chan[i]
    BY <2>1 DEF Sends
  <2>4. QED
    BY <1>1, <2>1, <2>2, <2>3 DEF SeedComes, Sends
<1>3. CASE Deliver
  <2>1. Receive
    BY <1>3 DEF Deliver
  <2>2. Arrives
    BY <2>1, ReceiveArrives
  <2>3. chan' = <<>> => Len(chan') = 0
    BY EmptySeq
  <2>4. link' # "hello"
    BY <2>1 DEF Receive
  <2>5. ASSUME link' = "up", state' = None
        PROVE  link = "hello" /\ chan[1].type = "hello"
    BY <2>1, <2>2, <2>5, ReceiveState DEF SeedComes, Arrives, TypeInv, ClientType, Receive
  <2>6. QED
    BY <2>2, <2>3, <2>4, <2>5 DEF SeedComes, Arrives
<1>4. CASE Connecting
  <2>1. CASE ConnectRefused
    BY <2>1 DEF ConnectRefused, SeedComes
  <2>2. CASE Connect
    <3>1. chan' = <<>> => Len(chan') = 0
      BY EmptySeq
    <3>2. QED
      BY <2>2, <3>1, ConnectSends DEF SeedComes, Event
  <2>3. QED
    BY <1>4, <2>1, <2>2 DEF Connecting
<1>5. CASE SocketClosed
  BY <1>5 DEF SocketClosed, SeedComes
<1>6. CASE UNCHANGED <<link, chan, state>>
  BY <1>6 DEF SeedComes
<1>7. QED
  BY <1>2, <1>3, <1>4, <1>5, <1>6, CommandSteps

\* pi does nothing that shows before a client connects.
LEMMA PiAtConnect ==
  ASSUME TypeInv, Order, OnceInv, Setup, PiStep, pc = "connect"
  PROVE  UNCHANGED <<log, starts, phase, turns, chan, asked, mark, from>>
<1>1. asked = {}
  <2>1. asked \subseteq [id : Requests, since : Nat \cup {None}]
    BY DEF TypeInv, ClientType
  <2>2. \A id \in Requests : ~AskedFor(id)
    BY DEF OnceInv, Waits, InFlight, Order, Late, Requests
  <2>3. QED
    BY <2>1, <2>2 DEF AskedFor
<1>2. ~PiWorks /\ ~PiReplies /\ ~PiTakesPrompt
  BY <1>1 DEF PiWorks, PiReplies, PiAnswers, PiTakesPrompt, PiAnswersPrompt
<1>3. PiMay
  BY <1>2 DEF PiStep
<1>4. server = "absent"
  BY <1>3 DEF PiMay
<1>5. QED
  BY <1>3, <1>4 DEF PiMay, PiBinds, PiAppends, PiRetries, PiSwitchesSession, PiExits, PiQueues,
                    MayWork, Writes, ghosts

LEMMA NextSetup ==
  ASSUME TypeInv, Order, OnceInv, Setup, [Next]_vars
  PROVE  Setup'
<1> USE DEF Setup, Before, loopVars, modeVars, outVars, piVars, clientVars, ghosts
<1>1. CASE PiStep
  <2>1. /\ Changes /\ Sends /\ UNCHANGED <<pc, cmd, prompt, link, state, seed, events, queue, reply>>
    BY <1>1, PiStepShape DEF Changes, CommandKeeps
  <2>2. pc = "connect" => chan' = chan
    BY <1>1, PiAtConnect
  <2>3. QED
    BY <2>1, <2>2 DEF IsPrompt
<1>2. CASE Deliver
  <2>1. Receive /\ UNCHANGED <<pc, cmd, prompt, events>>
    BY <1>2 DEF Deliver, Receive
  <2>2. pc # "connect"
    BY <2>1 DEF Receive, Connected
  <2>3. link' \in {"up", "closed"} /\ (events = "open" => link' # "closed")
    BY <2>1 DEF Receive, Connected, TypeInv, ClientType
  <2>4. events # "open" => queue' = queue
    BY <2>1 DEF Receive, DispatchLine
  <2>5. pc \in Before => queue' = queue
    BY <2>4
  <2>6. QED
    BY <2>1, <2>2, <2>3, <2>5 DEF IsPrompt
<1>3. CASE Connecting \/ GiveUpConnecting
  BY <1>3 DEF Connecting, ConnectRefused, Connect, GiveUpConnecting, Fail, IsPrompt, Order, Late
<1>4. CASE HelloRead
  <2>1. pc = "hello" /\ link # "hello" /\ link # "none" /\ cmd' = cmd
    BY <1>4 DEF HelloRead, Fail
  <2>2. link' = link /\ queue' = queue
    BY <1>4 DEF HelloRead, Fail, ClientKeeps, SubscribeTo
  <2>3. \/ pc' \in {"seed", "now"} /\ (events' = "open" => link # "closed")
        \/ pc' \in {"history", "leaf", "failed"} /\ events' = events
    BY <1>4 DEF HelloRead, Fail, SubscribeTo, Subscribe
  <2>4. prompt' = prompt \/ IsPrompt
    BY <1>4 DEF HelloRead, Fail, SubscribeTo
  <2>5. QED
    BY <2>1, <2>2, <2>3, <2>4 DEF IsPrompt
<1>5. CASE HistoryAnswered \/ LeafAnswered
  <2>1. pc \in {"history", "leaf"} /\ cmd' = cmd
    BY <1>5 DEF HistoryAnswered, LeafAnswered, Fail
  <2>2. link' = link /\ queue' = queue
    BY <1>5 DEF HistoryAnswered, LeafAnswered, Fail, ClientKeeps, SubscribeTo
  <2>3. pc' \in {"seed", "now", "done", "failed"}
    BY <1>5 DEF HistoryAnswered, LeafAnswered, Fail, SubscribeTo
  <2>4. prompt' = prompt \/ IsPrompt
    BY <1>5 DEF HistoryAnswered, LeafAnswered, Fail, SubscribeTo
  <2>5. events' = "open" => link # "closed"
    BY <1>5 DEF HistoryAnswered, LeafAnswered, Fail, SubscribeTo, Subscribe
  <2>6. QED
    BY <2>1, <2>2, <2>3, <2>4, <2>5 DEF IsPrompt
<1>6. CASE NowSubscribed \/ NowCursor
  BY <1>6 DEF NowSubscribed, NowCursor, Fail, ClientKeeps, IsPrompt, Order, Late
<1>7. CASE HandleSeed \/ HandleEvent \/ DrainForEvent \/ Drained
  <2>1. pc \in {"seed", "next", "drain"} /\ UNCHANGED <<cmd, link, prompt>>
    BY <1>7 DEF HandleSeed, HandleEvent, DrainForEvent, Drained, Fail, StopAt, Proceed
  <2>2. pc' \notin Before
    BY <1>7 DEF HandleSeed, HandleEvent, DrainForEvent, Drained, Fail, StopAt, Proceed
  <2>3. events' = events \/ events' = "closed"
    BY <1>7 DEF HandleSeed, HandleEvent, DrainForEvent, Drained, Fail, StopAt, Proceed
  <2>4. QED
    BY <2>1, <2>2, <2>3 DEF IsPrompt
<1>8. CASE SourceEnded \/ FinishAfterStop \/ Return \/ PromptAnswered \/ TimerFires \/ PiClosesSocket
  <2>1. UNCHANGED <<cmd, state, seed, queue>> /\ pc # "connect"
    BY <1>8 DEF SourceEnded, FinishAfterStop, Return, Fail, PromptAnswered, TimerFires, PiClosesSocket,
                EstablishSourceCutoff, SocketClosed, BeginStop, Ask, Order, Late, Connected
  <2>2. pc' = pc \/ pc' \in {"stop", "end", "done", "failed"}
    BY <1>8 DEF SourceEnded, FinishAfterStop, Return, Fail, PromptAnswered, TimerFires, PiClosesSocket
  <2>3. pc' # pc => pc \in {"next", "stop", "end"}
    BY <1>8 DEF SourceEnded, FinishAfterStop, Return, Fail, PromptAnswered, TimerFires, PiClosesSocket
  <2>4. prompt' = prompt \/ prompt = "sent"
    BY <1>8 DEF SourceEnded, FinishAfterStop, Return, Fail, PromptAnswered, TimerFires, PiClosesSocket
  <2>5. \/ link' = link /\ (events' = events \/ (events' = "closed" /\ pc \in Late))
        \/ link' = "closed" /\ link # "none" /\ events' = IF events = "none" THEN "none" ELSE "closed"
    <3>1. CASE SourceEnded \/ FinishAfterStop \/ Return
      BY <3>1 DEF SourceEnded, FinishAfterStop, Return, Fail
    <3>2. CASE PromptAnswered
      BY <3>2 DEF PromptAnswered, EstablishSourceCutoff, SocketClosed, Order, Late
    <3>3. CASE TimerFires
      BY <3>3 DEF TimerFires, EstablishSourceCutoff, Order
    <3>4. CASE PiClosesSocket
      BY <3>4 DEF PiClosesSocket, SocketClosed, Connected
    <3>5. QED
      BY <1>8, <3>1, <3>2, <3>3, <3>4
  <2>6. QED
    BY <2>1, <2>2, <2>3, <2>4, <2>5 DEF IsPrompt, Late
<1>9. CASE UNCHANGED vars
  BY <1>9 DEF vars, IsPrompt
<1>10. QED
  BY <1>1, <1>2, <1>3, <1>4, <1>5, <1>6, <1>7, <1>8, <1>9 DEF Next, PiStep, Coroutine

LEMMA NextPromptDone ==
  ASSUME TypeInv, Order, OnceInv, PromptDone, [Next]_vars
  PROVE  PromptDone'
<1>1. /\ "prompt" \in Requests /\ Failure # None /\ \A r \in Responses : r # None
      /\ prompt # "none" => ~AskedBy("prompt")
  BY FailureType, NoneAssumption DEF Requests, AskedBy, Order, Late
<1>2. Answered("prompt") /\ prompt # "none" => Answered("prompt")'
  BY <1>1, ReplySteps DEF Answered
<1>3. CASE prompt' = prompt
  BY <1>2, <1>3 DEF PromptDone
<1>4. CASE prompt' # prompt
  <2>1. CASE PiStep
    BY <1>4, <2>1, PiStepShape DEF Changes, CommandKeeps
  <2>2. CASE PromptAnswered
    BY <1>2, <2>2 DEF PromptAnswered, PromptDone
  <2>3. CASE SubscribeTo
    BY <1>4, <2>3 DEF SubscribeTo, PromptDone
  <2>4. CASE ~PiStep /\ ~PromptAnswered /\ ~SubscribeTo
    BY <1>4, <2>4
       DEF Next, PiStep, Coroutine, Deliver, PiClosesSocket, Connecting, GiveUpConnecting,
           HelloRead, HistoryAnswered, LeafAnswered, NowSubscribed, NowCursor, HandleSeed,
           HandleEvent, DrainForEvent, Drained, SourceEnded, FinishAfterStop, Return, Fail,
           TimerFires, vars
  <2>5. QED
    BY <2>1, <2>2, <2>3, <2>4
<1>5. QED
  BY <1>3, <1>4

\* What a step of the command or of its socket may do.
LEMMA CommandMoves ==
  ASSUME TypeInv, Order, Setup, [Next]_vars, ~PiStep
  PROVE  /\ UNCHANGED <<server, log, starts, phase, turns, mark, from>>
         /\ pc' \in Before => pc \in Before
         /\ pc' = "connect" => pc = "connect"
         /\ pc = "connect" => Connecting \/ pc' = "failed" \/ UNCHANGED vars
         /\ due' = due \/ Connecting \/ (SubscribeTo /\ pc \in Before /\ pc' = "seed")
         /\ ~Deliver /\ ~Connecting =>
              /\ chan' \in {chan, <<>>} /\ state' = state /\ seed' \in {seed, state, None}
              /\ queue' \in {queue, <<>>} \/ (queue # <<>> /\ queue' = Tail(queue))
              /\ pc' = "drain" => \/ pc = "drain" /\ event' = event
                                  \/ queue # <<>> /\ event' = Head(queue)
<1> USE DEF Before, loopVars, modeVars, outVars, piVars, clientVars, ghosts
<1>1. CASE Deliver
  BY <1>1 DEF Deliver, Receive, Connected, Setup
<1>2. CASE Connecting
  BY <1>2 DEF Connecting
<1>3. CASE GiveUpConnecting \/ UNCHANGED vars
  BY <1>3 DEF GiveUpConnecting, Fail, vars
<1>4. CASE HelloRead
  <2>1. /\ UNCHANGED <<server, log, starts, phase, turns, mark, from, chan, state, queue, event>>
        /\ pc = "hello"
    BY <1>4 DEF HelloRead, Fail, ClientKeeps, SubscribeTo
  <2>2. pc' \notin {"connect", "drain"} /\ seed' \in {seed, state}
    BY <1>4 DEF HelloRead, Fail, SubscribeTo, Subscribe
  <2>3. due' = due \/ (SubscribeTo /\ pc' = "seed")
    BY <1>4 DEF HelloRead, Fail, SubscribeTo
  <2>4. QED
    BY <2>1, <2>2, <2>3
<1>5. CASE HistoryAnswered \/ LeafAnswered
  <2>1. /\ UNCHANGED <<server, log, starts, phase, turns, mark, from, chan, state, queue, event>>
        /\ pc \in {"history", "leaf"}
    BY <1>5 DEF HistoryAnswered, LeafAnswered, Fail, ClientKeeps, SubscribeTo
  <2>2. pc' \in {"seed", "now", "done", "failed"} /\ seed' \in {seed, state}
    BY <1>5 DEF HistoryAnswered, LeafAnswered, Fail, SubscribeTo, Subscribe
  <2>3. due' = due \/ (SubscribeTo /\ pc' = "seed")
    BY <1>5 DEF HistoryAnswered, LeafAnswered, Fail, SubscribeTo
  <2>4. QED
    BY <2>1, <2>2, <2>3
<1>6. CASE NowSubscribed \/ NowCursor
  BY <1>6 DEF NowSubscribed, NowCursor, Fail, ClientKeeps
<1>7. CASE HandleSeed \/ HandleEvent
  BY <1>7 DEF HandleSeed, HandleEvent, Fail, StopAt, Proceed
<1>8. CASE DrainForEvent \/ Drained
  BY <1>8 DEF DrainForEvent, Drained, StopAt, Proceed
<1>9. CASE SourceEnded \/ FinishAfterStop \/ Return \/ PromptAnswered \/ TimerFires \/ PiClosesSocket
  <2>1. /\ UNCHANGED <<server, log, starts, phase, turns, mark, from, due, state, seed, queue, event>>
        /\ chan' \in {chan, <<>>}
    BY <1>9 DEF SourceEnded, FinishAfterStop, Return, Fail, PromptAnswered, TimerFires, PiClosesSocket,
                EstablishSourceCutoff, SocketClosed, BeginStop, Ask
  <2>2. pc' = pc \/ pc' \in {"stop", "end", "done", "failed"}
    BY <1>9 DEF SourceEnded, FinishAfterStop, Return, Fail, PromptAnswered, TimerFires, PiClosesSocket
  <2>3. pc # "connect"
    BY <1>9 DEF SourceEnded, FinishAfterStop, Return, PromptAnswered, TimerFires, PiClosesSocket,
                Connected, Order, Late, Setup
  <2>4. QED
    BY <2>1, <2>2, <2>3
<1>10. QED
  BY <1>1, <1>2, <1>3, <1>4, <1>5, <1>6, <1>7, <1>8, <1>9 DEF Next, PiStep, Coroutine

\* Where the records on their way come from, and the events in the queue.
FirstRecord(record) ==
  \/ record.type \in {"hello", "other"}
  \/ record.type = "session_changed" /\ record.state = PiState

LEMMA RecordSteps ==
  ASSUME TypeInv, Order, [Next]_vars, NEW i \in 1 .. Len(chan')
  PROVE  \/ \E j \in 1 .. Len(chan) : chan'[i] = chan[j]
         \/ PiStep /\ i \in Len(chan) + 1 .. Len(chan') /\ IsNew(chan'[i])
         \/ Connecting /\ FirstRecord(chan'[i])
<1>1. CASE PiStep
  <2>1. Sends /\ Len(chan) \in Nat
    BY <1>1, PiStepShape, LenProperties DEF TypeInv, ClientType, Sent
  <2>2. QED
    BY <1>1, <2>1 DEF Sends
<1>2. CASE Deliver
  BY <1>2, ReceiveArrives DEF Deliver, Arrives
<1>3. CASE Connecting /\ chan' # chan
  <2>1. Connect
    BY <1>3 DEF Connecting, ConnectRefused
  <2>2. Len(chan') = 1 \/ Len(chan') = 2
    BY <2>1, ConnectSends
  <2>3. i = 1 \/ (i = 2 /\ Len(chan') = 2)
    <3>1. \A n \in {1, 2}, k \in Nat : k \in 1 .. n => k = 1 \/ (k = 2 /\ n = 2)
      OBVIOUS
    <3>2. Len(chan') \in {1, 2} /\ i \in Nat
      BY <2>2
    <3>3. QED
      BY <3>1, <3>2
  <2>4. QED
    BY <1>3, <2>1, <2>3, ConnectSends DEF FirstRecord, Event
<1>4. CASE SocketClosed
  BY <1>4, EmptySeq DEF SocketClosed
<1>5. CASE chan' = chan
  BY <1>5
<1>6. QED
  BY <1>1, <1>2, <1>3, <1>4, <1>5, CommandSteps

\* The event that arrives is queued once a seed has been read.
LEMMA ReceiveQueues ==
  ASSUME TypeInv, Receive
  PROVE  \/ queue' = queue
         \/ /\ link # "hello" /\ chan[1].type # "response" /\ chan[1] \in Events
            /\ state # None /\ events = "open"
            /\ state' = NextSessionState(state, chan[1])
            /\ Len(queue) \in Nat /\ Len(queue') = Len(queue) + 1
            /\ queue'[Len(queue')].event = chan[1] /\ queue'[Len(queue')].state = state'
            /\ \A i \in 1 .. Len(queue) : queue'[i] = queue[i]
<1>1. Arrives
  BY ReceiveArrives
<1>2. CASE link = "hello" \/ chan[1].type = "response" \/ state = None \/ events # "open"
  BY <1>1, <1>2 DEF Receive, DispatchLine, Arrives
<1>3. CASE link # "hello" /\ chan[1].type # "response" /\ state # None /\ events = "open"
  <2> DEFINE item == [event |-> chan[1], state |-> state']
  <2>1. queue' = Append(queue, item) /\ state' = NextSessionState(state, chan[1])
    BY <1>1, <1>3 DEF Receive, DispatchLine, Arrives
  <2>2. item.event = chan[1] /\ item.state = state' /\ chan[1] \in Events
    BY <1>1, <1>3 DEF Arrives, Responses
  <2> HIDE DEF item
  <2>3. queue \in Seq(Queued \cup {item})
    BY SeqMonotonic DEF TypeInv, ClientType
  <2>4. /\ Len(queue) \in Nat /\ Len(queue') = Len(queue) + 1 /\ queue'[Len(queue) + 1] = item
        /\ \A i \in 1 .. Len(queue) : queue'[i] = queue[i]
    BY <2>1, <2>3, LenProperties, AppendProperties
  <2>5. QED
    BY <1>3, <2>1, <2>2, <2>4
<1>4. QED
  BY <1>2, <1>3

LEMMA QueueSteps ==
  ASSUME TypeInv, Order, Setup, [Next]_vars
  PROVE  /\ \A i \in 1 .. Len(queue') :
              \/ \E j \in 1 .. Len(queue) : queue'[i] = queue[j]
              \/ /\ Deliver /\ queue'[i].event = chan[1] /\ 1 \in 1 .. Len(chan)
                 /\ i = Len(queue') /\ Len(queue') = Len(queue) + 1
         /\ pc' = "drain" => \/ pc = "drain" /\ event' = event
                             \/ \E j \in 1 .. Len(queue) : event' = queue[j]
<1>1. CASE PiStep \/ Connecting
  <2>1. UNCHANGED <<queue, event>> /\ (pc' = "drain" => pc = "drain")
    BY <1>1, PiStepShape DEF Changes, CommandKeeps, loopVars, Connecting, ConnectRefused, Connect
  <2>2. QED
    BY <2>1
<1>2. CASE Deliver
  <2>1. Receive /\ UNCHANGED <<pc, event>>
    BY <1>2 DEF Deliver, loopVars
  <2>2. 1 \in 1 .. Len(chan)
    BY <2>1, ReceiveArrives DEF Arrives
  <2>3. QED
    BY <1>2, <2>1, <2>2, ReceiveQueues
<1>3. CASE ~PiStep /\ ~Connecting /\ ~Deliver
  <2>1. /\ queue' \in {queue, <<>>} \/ (queue # <<>> /\ queue' = Tail(queue))
        /\ pc' = "drain" => \/ pc = "drain" /\ event' = event
                            \/ queue # <<>> /\ event' = Head(queue)
    BY <1>3, CommandMoves
  <2>2. queue # <<>> => Head(queue) = queue[1] /\ 1 \in 1 .. Len(queue)
    BY QueueTail DEF TypeInv
  <2>3. CASE queue' = <<>>
    BY <2>1, <2>2, <2>3, EmptySeq
  <2>4. CASE queue' = queue
    BY <2>1, <2>2, <2>4
  <2>5. CASE queue # <<>> /\ queue' = Tail(queue)
    <3>1. /\ Len(queue) \in Nat /\ Len(queue') = Len(queue) - 1
          /\ \A i \in 1 .. Len(queue') : queue'[i] = queue[i + 1]
      BY <2>5, QueueTail, LenProperties DEF TypeInv, ClientType
    <3>2. \A i \in 1 .. Len(queue') : i + 1 \in 1 .. Len(queue)
      BY <3>1
    <3>3. QED
      BY <2>1, <2>2, <3>1, <3>2
  <2>6. QED
    BY <2>1, <2>3, <2>4, <2>5
<1>4. QED
  BY <1>1, <1>2, <1>3

-----------------------------------------------------------------------------
(* The turns that are awaited.                                              *)

Awaiting == due # None /\ turns < due

Awaited ==
  /\ due # None => due <= turns + 1
  /\ ~IsPrompt /\ pc \notin {"connect", "failed"} => due # None
  /\ pc = "connect" => due = None /\ mark = None /\ (IsPrompt => phase = "idle")
  /\ IsPrompt /\ pc \in Before => ~Awaiting /\ mark = None
  /\ mark # None => mark <= Len(log) /\ ~Awaiting
  /\ from # None => /\ prompt # "none" /\ due # None /\ from <= Len(log)
                    /\ mark = None => turns < due

\* pi has accepted the prompt, to an idle agent, which starts a turn for it.
LEMMA FromSteps ==
  ASSUME TypeInv, Once, PiStep, from' # from
  PROVE  /\ AskedFor("prompt") /\ ~AskedFor("prompt")' /\ phase = "idle"
         /\ from' = Len(log) /\ due # None /\ due = turns + 1
         /\ UNCHANGED <<log, starts, turns, mark, reply>>
         /\ \A i \in 1 .. Len(chan') : Answering(i, "prompt")' => ~chan'[i].handled
         /\ \A i \in Len(chan) + 1 .. Len(chan') : chan'[i].type \in {"queue_update", "response"}
<1>1. PiTakesPrompt
  BY DEF PiStep, PiWorks, PiMay, PiReplies, ghosts
<1>2. PICK how \in {"refused", "handled", "accepted"} :
        /\ PiAnswersPrompt(how)
        /\ from' = IF how = "accepted" /\ phase = "idle" /\ due # None /\ due = turns + 1
                   THEN Len(log) ELSE from
  BY <1>1 DEF PiTakesPrompt
<1>3. /\ how = "accepted" /\ phase = "idle" /\ due # None /\ due = turns + 1 /\ from' = Len(log)
      /\ UNCHANGED <<log, starts, turns, mark, reply>>
  BY <1>1, <1>2 DEF PiTakesPrompt, PiAnswersPrompt, CommandKeeps
<1> DEFINE told == [Response("prompt", TRUE) EXCEPT !.handled = FALSE]
           update == Event("queue_update")
<1>4. PICK request \in asked :
        /\ request.id = "prompt" /\ asked' = asked \ {request}
        /\ chan' = (IF phase' # phase THEN Append(chan, update) ELSE chan) \o <<told>>
  BY <1>2, <1>3 DEF PiAnswersPrompt
<1>5. /\ told.type = "response" /\ ~told.handled /\ told \in Responses
      /\ update.type = "queue_update" /\ update \in Events
  BY PlainEvent DEF Response, Responses, Requests, Event, EventTypes
<1> HIDE DEF told, update
<1>6. chan \in Seq(Events \cup Responses) /\ Len(chan) \in Nat
  BY LenProperties DEF TypeInv, ClientType, Sent
<1> DEFINE half == IF phase' # phase THEN Append(chan, update) ELSE chan
<1>7. /\ half \in Seq(Events \cup Responses) /\ Len(half) \in Nat
      /\ \A i \in 1 .. Len(half) :
           (i \in 1 .. Len(chan) /\ half[i] = chan[i]) \/ (i = Len(chan) + 1 /\ half[i] = update)
  <2>1. /\ Len(Append(chan, update)) = Len(chan) + 1
        /\ Append(chan, update) \in Seq(Events \cup Responses)
        /\ \A i \in 1 .. Len(chan) : Append(chan, update)[i] = chan[i]
        /\ Append(chan, update)[Len(chan) + 1] = update
    BY <1>5, <1>6, AppendProperties
  <2>2. QED
    BY <1>6, <2>1
<1>8. chan' = half \o <<told>>
  BY <1>4
<1> HIDE DEF half
<1>9. \A i \in 1 .. Len(chan') :
        \/ i \in 1 .. Len(chan) /\ chan'[i] = chan[i]
        \/ i \notin 1 .. Len(chan) /\ chan'[i] \in {update, told}
  <2>1. chan' = Append(half, told)
    BY <1>5, <1>7, <1>8, AppendIsConcat
  <2>2. /\ Len(chan') = Len(half) + 1 /\ chan'[Len(half) + 1] = told
        /\ \A i \in 1 .. Len(half) : chan'[i] = half[i]
    BY <1>5, <1>7, <2>1, AppendProperties
  <2>3. Len(chan) <= Len(half)
    BY <1>6, <1>7, AppendProperties DEF half
  <2>4. QED
    BY <1>6, <1>7, <2>2, <2>3
<1>10. AskedFor("prompt") /\ ~AskedFor("prompt")'
  BY <1>4 DEF Once, AskedFor, Requests
<1>11. \A i \in 1 .. Len(chan') : Answering(i, "prompt")' => ~chan'[i].handled
  BY <1>5, <1>9, <1>10 DEF Answering, Once, Requests
<1>12. QED
  BY <1>3, <1>5, <1>6, <1>9, <1>10, <1>11

LEMMA NextAwaited ==
  ASSUME TypeInv, Bounded, Order, OnceInv, Setup, Awaited, [Next]_vars
  PROVE  Awaited'
<1>1. /\ turns \in Nat /\ turns' \in Nat /\ Len(log) \in Nat /\ Len(log') \in Nat
      /\ None \notin Nat /\ due \in Nat \cup {None}
  <2>1. TypeInv'
    BY NextType
  <2>2. turns' \in Nat /\ Len(log') \in Nat
    BY <2>1, LenProperties DEF TypeInv, PiType
  <2>3. QED
    BY <2>2, LogLength, NoneAssumption DEF TypeInv, PiType, GhostType
<1>2. CASE PiStep
  <2>1. Changes
    BY <1>2, PiStepShape
  <2>2. UNCHANGED <<pc, cmd, prompt, due>> /\ turns <= turns' /\ Len(log) <= Len(log')
    BY <1>1, <2>1 DEF Changes, CommandKeeps
  <2>3. mark' = mark \/ (turns' = due /\ turns' = turns + 1 /\ mark' = Len(log) /\ log' = log)
    BY <1>1, <2>1 DEF Changes
  <2>4. from' = from \/ /\ prompt # "none" /\ from' = Len(log) /\ due # None /\ due = turns + 1
                        /\ UNCHANGED <<log, turns, mark>>
    BY <1>2, FromSteps DEF OnceInv, Waits, InFlight
  <2>5. pc = "connect" => UNCHANGED <<phase, mark>>
    BY <1>2, PiAtConnect
  <2>6. Awaiting' => Awaiting
    BY <1>1, <2>2 DEF Awaiting
  <2>7. mark' # None => mark' <= Len(log') /\ ~Awaiting'
    BY <1>1, <2>2, <2>3, <2>6 DEF Awaited, Awaiting, TypeInv, GhostType
  <2>8. from' # None => /\ prompt' # "none" /\ due' # None /\ from' <= Len(log')
                        /\ mark' = None => turns' < due'
    <3>1. CASE from' # from
      BY <1>1, <2>2, <2>4, <3>1
    <3>2. CASE from' = from
      <4>1. SUFFICES ASSUME from # None
                     PROVE  /\ prompt # "none" /\ due # None /\ from <= Len(log')
                            /\ mark' = None => turns' < due
        BY <2>2, <3>2
      <4>2. from \in Nat /\ prompt # "none" /\ due # None /\ from <= Len(log)
            /\ (mark = None => turns < due)
        BY <4>1 DEF Awaited, TypeInv, GhostType
      <4>3. mark' = None => turns' < due
        <5>1. SUFFICES ASSUME mark' = None PROVE turns' < due
          OBVIOUS
        <5>2. mark = None
          BY <1>1, <2>3, <5>1
        <5>3. turns' = turns \/ (turns' = turns + 1 /\ turns' # due)
          BY <1>1, <2>1, <5>1 DEF Changes
        <5>4. QED
          BY <1>1, <4>2, <5>2, <5>3
      <4>4. QED
        BY <1>1, <2>2, <4>2, <4>3
    <3>3. QED
      BY <3>1, <3>2
  <2>9. IsPrompt /\ pc \in Before => ~Awaiting' /\ mark' = None
    BY <1>1, <2>2, <2>3, <2>6 DEF Awaited, Awaiting
  <2>10. due' # None => due' <= turns' + 1
    <3>1. SUFFICES ASSUME due # None PROVE due <= turns' + 1
      BY <2>2
    <3>2. \A d, t, u \in Nat : d <= t + 1 /\ t <= u => d <= u + 1
      OBVIOUS
    <3>3. due \in Nat /\ due <= turns + 1 /\ turns <= turns'
      BY <1>1, <2>2, <3>1 DEF Awaited
    <3>4. QED
      BY <1>1, <3>2, <3>3
  <2>11. /\ ~IsPrompt' /\ pc' \notin {"connect", "failed"} => due' # None
         /\ pc' = "connect" => due' = None /\ mark' = None /\ (IsPrompt' => phase' = "idle")
         /\ IsPrompt' /\ pc' \in Before => ~Awaiting' /\ mark' = None
    BY <2>2, <2>5, <2>9 DEF Awaited, IsPrompt
  <2>12. QED
    BY <2>7, <2>8, <2>10, <2>11 DEF Awaited
<1>3. CASE ~PiStep
  <2>1. /\ UNCHANGED <<server, log, starts, phase, turns, mark, from>>
        /\ pc' \in Before => pc \in Before
        /\ pc' = "connect" => pc = "connect"
        /\ pc = "connect" => Connecting \/ pc' = "failed" \/ UNCHANGED vars
        /\ due' = due \/ Connecting \/ (SubscribeTo /\ pc \in Before /\ pc' = "seed")
    BY <1>3, CommandMoves
  <2>2. cmd' = cmd /\ (pc = "failed" => pc' = "failed")
    BY StaysLate
  <2>3. prompt # "none" => prompt' # "none"
    <3>1. CASE PromptAnswered \/ SubscribeTo
      BY <3>1 DEF PromptAnswered, SubscribeTo
    <3>2. CASE ~PromptAnswered /\ ~SubscribeTo
      BY <1>3, <3>2
         DEF Next, PiStep, Coroutine, Deliver, PiClosesSocket, Connecting, GiveUpConnecting,
             HelloRead, HistoryAnswered, LeafAnswered, NowSubscribed, NowCursor, HandleSeed,
             HandleEvent, DrainForEvent, Drained, SourceEnded, FinishAfterStop, Return, Fail,
             TimerFires, vars
    <3>3. QED
      BY <3>1, <3>2
  <2>4. CASE due' = due
    <3>1. pc = "connect" /\ pc' # "connect" => pc' = "failed" \/ due' # None
      <4>1. CASE Connecting
        BY <1>1, <4>1 DEF Connecting
      <4>2. QED
        BY <2>1, <4>1 DEF vars
    <3>2. ~IsPrompt /\ pc' \notin {"connect", "failed"} => due' # None
      BY <2>1, <2>2, <2>4, <3>1 DEF Awaited
    <3>3. UNCHANGED <<Awaiting, Len(log)>>
      BY <2>1, <2>4 DEF Awaiting
    <3>4. QED
      BY <2>1, <2>2, <2>3, <2>4, <3>2, <3>3 DEF Awaited, IsPrompt, Before
  <2>5. CASE due' # due /\ Connecting
    <3>1. /\ pc = "connect" /\ pc' = "hello" /\ prompt' = prompt
          /\ due' = turns + IF phase \in {"queued", "running"} THEN 1 ELSE 0
      BY <2>5 DEF Connecting
    <3>2. /\ prompt = "none" /\ mark = None /\ (IsPrompt => phase = "idle") /\ from = None
      BY <3>1 DEF Awaited, Setup, Order, Late
    <3>3. due' \in Nat /\ turns <= due' /\ due' <= turns + 1 /\ (IsPrompt => due' = turns)
      BY <1>1, <3>1, <3>2
    <3>4. IsPrompt => ~Awaiting'
      BY <1>1, <2>1, <3>3 DEF Awaiting
    <3>5. QED
      BY <1>1, <2>1, <2>2, <3>1, <3>2, <3>3, <3>4 DEF Awaited, IsPrompt
  <2>6. CASE due' # due /\ SubscribeTo /\ pc \in Before /\ pc' = "seed"
    <3>1. IsPrompt /\ due' \in {turns + 1, None} /\ prompt = "none"
      BY <2>6 DEF SubscribeTo, Order, Late, Before
    <3>2. mark = None /\ from = None
      BY <2>6, <3>1 DEF Awaited
    <3>3. QED
      BY <1>1, <2>1, <2>2, <2>6, <3>1, <3>2 DEF Awaited, IsPrompt, Before
  <2>7. QED
    BY <2>1, <2>4, <2>5, <2>6
<1>4. QED
  BY <1>2, <1>3

\* No record of its end is anywhere before it has ended,
NoEndYet ==
  Awaiting =>
    /\ \A i \in 1 .. Len(chan) : ~IsTurnEnd(chan[i])
    /\ \A i \in 1 .. Len(queue) : ~IsTurnEnd(queue[i].event)
    /\ pc = "drain" => ~IsTurnEnd(event.event)

\* nor does a state say that pi is idle.
Busy ==
  ~IsPrompt /\ Awaiting =>
    /\ phase \in {"queued", "running"}
    /\ \A i \in 1 .. Len(chan) :
         /\ chan[i].type # "agent_settled"
         /\ chan[i].type = "session_changed" => ~IsIdle(chan[i].state)
    /\ state # None => ~IsIdle(state)
    /\ seed # None => ~IsIdle(seed)

LEMMA AwaitingSteps ==
  ASSUME TypeInv, Bounded, Order, Setup, Awaited, [Next]_vars, Awaiting'
  PROVE  /\ turns' = turns /\ turns \in Nat /\ due' \in Nat /\ turns < due'
         /\ \/ Awaiting
            \/ /\ Connect /\ Connecting /\ pc = "connect"
               /\ due' = turns + IF phase \in {"queued", "running"} THEN 1 ELSE 0
            \/ /\ SubscribeTo /\ pc \in Before /\ IsPrompt /\ ~Deliver /\ ~Connecting /\ ~PiStep
               /\ \A i \in 1 .. Len(chan) : chan[i].type # "agent_end"
<1>1. turns \in Nat /\ turns' \in Nat /\ due' # None /\ turns' < due'
  <2>1. TypeInv'
    BY NextType
  <2>2. turns' \in Nat
    BY <2>1 DEF TypeInv, PiType
  <2>3. QED
    BY <2>2 DEF TypeInv, PiType, Awaiting
<1>2. due' \in Nat
  <2>1. TypeInv'
    BY NextType
  <2>2. due' \in Nat \cup {None}
    BY <2>1 DEF TypeInv, GhostType
  <2>3. QED
    BY <1>1, <2>2
<1>3. \A d, t, u \in Nat : d <= t + 1 /\ u < d /\ (u = t \/ u = t + 1) => u = t
  OBVIOUS
<1>4. CASE due' = due
  <2>1. due <= turns + 1
    BY <1>1, <1>4 DEF Awaited
  <2>2. turns' = turns \/ turns' = turns + 1
    BY CommandMoves, PiStepShape DEF Changes
  <2>3. turns' = turns
    BY <1>1, <1>2, <1>3, <1>4, <2>1, <2>2
  <2>4. QED
    BY <1>1, <1>2, <1>4, <2>3 DEF Awaiting
<1>5. CASE due' # due
  <2>1. ~PiStep /\ UNCHANGED turns /\ (Connecting \/ (SubscribeTo /\ pc \in Before /\ pc' = "seed"))
    BY <1>5, CommandMoves, PiStepShape DEF Changes
  <2>2. CASE Connecting
    <3>1. /\ Connect /\ pc = "connect"
          /\ due' = turns + IF phase \in {"queued", "running"} THEN 1 ELSE 0
      BY <1>5, <2>2 DEF Connecting
    <3>2. QED
      BY <1>1, <1>2, <2>1, <2>2, <3>1
  <2>3. CASE ~Connecting
    <3>1. SubscribeTo /\ pc \in Before /\ pc' = "seed"
      BY <2>1, <2>3
    <3>2. IsPrompt /\ \A i \in 1 .. Len(chan) : chan[i].type # "agent_end"
      BY <1>1, <1>5, <3>1 DEF SubscribeTo
    <3>3. ~Deliver
      BY <1>5 DEF Deliver
    <3>4. QED
      BY <1>1, <1>2, <2>1, <2>3, <3>1, <3>2, <3>3
  <2>4. QED
    BY <2>2, <2>3
<1>6. QED
  BY <1>4, <1>5

LEMMA NextNoEndYet ==
  ASSUME TypeInv, Bounded, Order, Setup, Awaited, NoEndYet, [Next]_vars
  PROVE  NoEndYet'
<1>1. SUFFICES ASSUME Awaiting'
               PROVE  /\ \A i \in 1 .. Len(chan') : ~IsTurnEnd(chan'[i])
                      /\ \A i \in 1 .. Len(queue') : ~IsTurnEnd(queue'[i].event)
                      /\ pc' = "drain" => ~IsTurnEnd(event'.event)
  BY DEF NoEndYet, IsTurnEnd
<1>2. turns' = turns /\ turns \in Nat
  BY <1>1, AwaitingSteps
<1>3. CASE Awaiting
  <2>1. /\ \A i \in 1 .. Len(chan) : ~IsTurnEnd(chan[i])
        /\ \A i \in 1 .. Len(queue) : ~IsTurnEnd(queue[i].event)
        /\ pc = "drain" => ~IsTurnEnd(event.event)
    BY <1>3 DEF NoEndYet
  <2>2. ASSUME NEW i \in 1 .. Len(chan')
        PROVE  ~IsTurnEnd(chan'[i])
    <3>1. PiStep /\ IsNew(chan'[i]) => ~IsTurnEnd(chan'[i])
      BY <1>2 DEF IsNew, IsTurnEnd
    <3>2. FirstRecord(chan'[i]) => ~IsTurnEnd(chan'[i])
      BY DEF FirstRecord, IsTurnEnd
    <3>3. QED
      BY <2>1, <3>1, <3>2, RecordSteps
  <2>3. QED
    BY <2>1, <2>2, QueueSteps
<1>4. CASE Connect /\ Connecting /\ pc = "connect"
  <2>1. queue' = queue /\ queue = <<>> /\ pc' # "drain"
    BY <1>4 DEF Connecting, Connect, ConnectRefused, Setup, Before
  <2>2. ASSUME NEW i \in 1 .. Len(chan')
        PROVE  ~IsTurnEnd(chan'[i])
    <3>1. chan = <<>> /\ ~PiStep
      <4>1. ~PiStep
        BY <1>4, PiStepShape DEF Connecting, Connect, Changes, CommandKeeps, Setup
      <4>2. QED
        BY <1>4, <4>1 DEF Setup
    <3>2. FirstRecord(chan'[i])
      BY <3>1, RecordSteps, EmptySeq
    <3>3. QED
      BY <3>2 DEF FirstRecord, IsTurnEnd
  <2>3. QED
    BY <2>1, <2>2, EmptySeq
<1>5. CASE /\ SubscribeTo /\ pc \in Before /\ ~Deliver /\ ~Connecting /\ ~PiStep
           /\ \A i \in 1 .. Len(chan) : chan[i].type # "agent_end"
  <2>1. queue = <<>>
    BY <1>5 DEF Setup, Before
  <2>2. chan' = chan /\ queue' = queue /\ pc' # "drain"
    BY <1>5 DEF SubscribeTo, ClientKeeps
  <2>3. QED
    BY <1>5, <2>1, <2>2, EmptySeq DEF IsTurnEnd
<1>6. QED
  BY <1>1, <1>3, <1>4, <1>5, AwaitingSteps

LEMMA NextBusy ==
  ASSUME TypeInv, Bounded, Order, Setup, Awaited, Busy, [Next]_vars
  PROVE  Busy'
<1> DEFINE Shown(record) ==
             /\ record.type # "agent_settled"
             /\ record.type = "session_changed" => ~IsIdle(record.state)
<1>1. SUFFICES ASSUME ~IsPrompt, Awaiting'
               PROVE  /\ phase' \in {"queued", "running"}
                      /\ \A i \in 1 .. Len(chan') : Shown(chan'[i])
                      /\ state' # None => ~IsIdle(state')
                      /\ seed' # None => ~IsIdle(seed')
  <2>1. cmd' = cmd
    BY StaysLate
  <2>2. QED
    BY <2>1 DEF Busy, IsIdle, IsPrompt
<1>2. turns' = turns
  BY <1>1, AwaitingSteps
<1>3. CASE Connect /\ Connecting /\ due' = turns + IF phase \in {"queued", "running"} THEN 1 ELSE 0
  <2>1. /\ UNCHANGED <<phase, state, seed>> /\ state = None /\ seed = None /\ chan = <<>>
        /\ pc = "connect" /\ pc' = "hello"
    BY <1>3, ConnectSends DEF Connecting, piVars, Setup, ConnectRefused, Connect
  <2>2. phase \in {"queued", "running"}
    <3>1. turns < due' /\ turns \in Nat
      BY <1>1, AwaitingSteps
    <3>2. QED
      BY <1>3, <3>1
  <2>3. ~IsIdle(PiState)
    <3>1. phase = "queued" => PiState.pending = 1
      BY DEF PiState
    <3>2. phase = "running" => PiState.streaming
      BY DEF PiState
    <3>3. QED
      BY <2>2, <3>1, <3>2 DEF IsIdle
  <2>4. ~PiStep
    BY <2>1, PiStepShape DEF Changes, CommandKeeps
  <2>5. \A i \in 1 .. Len(chan') : FirstRecord(chan'[i])
    BY <2>1, <2>4, RecordSteps, EmptySeq
  <2>6. QED
    BY <2>1, <2>2, <2>3, <2>5 DEF FirstRecord
<1>4. CASE Awaiting
  <2>1. /\ phase \in {"queued", "running"}
        /\ \A i \in 1 .. Len(chan) : Shown(chan[i])
        /\ state # None => ~IsIdle(state)
        /\ seed # None => ~IsIdle(seed)
    BY <1>1, <1>4 DEF Busy
  <2>2. CASE PiStep
    <3>1. Changes
      BY <2>2, PiStepShape
    <3>2. UNCHANGED <<state, seed>> /\ phase' \in {"queued", "running"}
      BY <1>2, <2>1, <3>1 DEF Changes, CommandKeeps
    <3>3. ASSUME NEW i \in 1 .. Len(chan')
          PROVE  Shown(chan'[i])
      <4>1. IsNew(chan'[i]) => Shown(chan'[i])
        BY <2>1 DEF IsNew
      <4>2. ~Connecting
        BY <1>4 DEF Connecting, Awaited, Awaiting
      <4>3. QED
        BY <2>1, <4>1, <4>2, RecordSteps
    <3>4. QED
      BY <2>1, <3>2, <3>3
  <2>3. CASE Deliver
    <3>1. Receive /\ UNCHANGED phase
      BY <2>3 DEF Deliver, piVars
    <3>2. Arrives
      BY <3>1, ReceiveArrives
    <3>3. Shown(chan[1])
      BY <2>1, <3>2 DEF Arrives
    <3>4. /\ state' # None => ~IsIdle(state')
          /\ seed' \in {seed, state', None}
      <4>1. CASE link = "hello" \/ chan[1].type = "response"
        BY <2>1, <3>1, <3>2, <4>1 DEF Receive, DispatchLine, Arrives
      <4>2. CASE link # "hello" /\ chan[1].type # "response" /\ state = None
        BY <3>1, <3>2, <3>3, <4>2 DEF Receive, DispatchLine, Arrives
      <4>3. CASE link # "hello" /\ chan[1].type # "response" /\ state # None
        <5>1. state' = NextSessionState(state, chan[1]) /\ seed' = seed
          BY <3>1, <3>2, <4>3 DEF Receive, DispatchLine, Arrives
        <5>2. state \in States /\ ~IsIdle(state)
          BY <2>1, <4>3 DEF TypeInv, ClientType
        <5>3. \/ state' = state
              \/ chan[1].type = "session_changed" /\ state' = chan[1].state
              \/ state' = [state EXCEPT !.pending = 1]
              \/ state' = [state EXCEPT !.streaming = TRUE, !.pending = 0]
          BY <3>3, <5>1 DEF NextSessionState
        <5>4. ~IsIdle([state EXCEPT !.pending = 1])
          BY <5>2 DEF States, IsIdle
        <5>5. ~IsIdle([state EXCEPT !.streaming = TRUE, !.pending = 0])
          BY <5>2 DEF States, IsIdle
        <5>6. ~IsIdle(state')
          BY <3>3, <5>2, <5>3, <5>4, <5>5
        <5>7. QED
          BY <5>1, <5>6
      <4>4. QED
        BY <4>1, <4>2, <4>3
    <3>5. \A i \in 1 .. Len(chan') : Shown(chan'[i])
      BY <2>1, <3>2 DEF Arrives
    <3>6. QED
      BY <2>1, <3>1, <3>4, <3>5
  <2>4. CASE ~PiStep /\ ~Deliver
    <3>1. ~Connecting
      BY <1>4 DEF Connecting, Awaited, Awaiting
    <3>2. /\ chan' \in {chan, <<>>} /\ state' = state /\ seed' \in {seed, state, None}
          /\ phase' = phase
      BY <2>4, <3>1, CommandMoves
    <3>3. QED
      BY <2>1, <3>2, EmptySeq
  <2>5. QED
    BY <2>2, <2>3, <2>4
<1>5. QED
  BY <1>1, <1>3, <1>4, AwaitingSteps

\* A prompt that has been accepted is not one that was handled.
NotHandled ==
  from # None =>
    /\ ~AskedFor("prompt")
    /\ \A i \in 1 .. Len(chan) : Answering(i, "prompt") => ~chan[i].handled
    /\ reply["prompt"] # None => ~reply["prompt"].handled

WasHandled == prompt = "ok" /\ reply["prompt"].handled
Concluded ==
  cmd.until = "turn-end" =>
    /\ cutoff = "done" => WasHandled
    /\ outcome = "done" => ~Awaiting \/ WasHandled


LEMMA AskedSteps ==
  ASSUME TypeInv, Order, [Next]_vars, NEW id, AskedFor(id)'
  PROVE  AskedFor(id) \/ AskedBy(id)
<1>1. CASE PiStep
  BY <1>1, PiStepShape DEF Changes, AskedFor
<1>2. CASE Deliver
  BY <1>2 DEF Deliver, Receive, AskedFor
<1>3. CASE Connecting
  BY <1>3 DEF Connecting, ConnectRefused, Connect, AskedFor
<1>4. CASE SocketClosed
  BY <1>4 DEF SocketClosed, AskedFor
<1>5. CASE Requesting
  <2>1. CASE UNCHANGED asked
    BY <2>1 DEF AskedFor
  <2>2. CASE ~UNCHANGED asked
    <3>1. PICK new \in Requests, since \in Nat \cup {None} : Ask(new, since) /\ AskedBy(new)
      BY <1>5, <2>2 DEF Requesting, Asking
    <3>2. asked' = asked \cup {[id |-> new, since |-> since]}
      BY <2>2, <3>1 DEF Ask
    <3>3. AskedFor(id) \/ id = new
      BY <3>2 DEF AskedFor
    <3>4. QED
      BY <3>1, <3>3
  <2>3. QED
    BY <2>1, <2>2
<1>6. QED
  BY <1>1, <1>2, <1>3, <1>4, <1>5, CommandSteps

LEMMA NextNotHandled ==
  ASSUME TypeInv, Order, OnceInv, Setup, Awaited, NotHandled, [Next]_vars
  PROVE  NotHandled'
<1>1. "prompt" \in Requests /\ ~Failure.handled
  BY DEF Requests, Failure, Response
<1>2. CASE from' # from
  <2>1. PiStep
    BY <1>2, CommandMoves
  <2>2. QED
    BY <1>1, <1>2, <2>1, FromSteps DEF OnceInv, Once, InFlight, NotHandled
<1>3. CASE from' = from /\ from # None
  <2>1. /\ ~AskedFor("prompt")
        /\ \A i \in 1 .. Len(chan) : Answering(i, "prompt") => ~chan[i].handled
        /\ reply["prompt"] # None => ~reply["prompt"].handled
    BY <1>3 DEF NotHandled
  <2>2. ~AskedBy("prompt")
    BY <1>3 DEF Awaited, Order, Late, AskedBy
  <2>3. ~AskedFor("prompt")'
    BY <2>1, <2>2, AskedSteps
  <2>4. ASSUME NEW i \in 1 .. Len(chan'), Answering(i, "prompt")'
        PROVE  ~chan'[i].handled
    <3>1. ~IsNew(chan'[i])
      BY <2>1, <2>4 DEF IsNew, Answering, AskedFor
    <3>2. PICK j \in 1 .. Len(chan) : chan'[i] = chan[j]
      BY <1>1, <2>4, <3>1, AnswerSteps
    <3>3. QED
      BY <2>1, <2>4, <3>2 DEF Answering
  <2>5. reply'["prompt"] # None => ~reply'["prompt"].handled
    BY <1>1, <2>1, <2>2, ReplySteps
  <2>6. QED
    BY <2>3, <2>4, <2>5 DEF NotHandled
<1>4. QED
  BY <1>2, <1>3 DEF NotHandled

LEMMA HandledStays ==
  ASSUME TypeInv, Order, OnceInv, [Next]_vars, WasHandled
  PROVE  WasHandled'
<1>1. "prompt" \in Requests /\ ~InFlight("prompt") /\ ~AskedBy("prompt")
  BY DEF WasHandled, Requests, OnceInv, Waits, AskedBy, Order, Late
<1>2. reply'["prompt"] = reply["prompt"]
  BY <1>1, ReplySteps DEF InFlight
<1>3. prompt' = prompt
  <2>1. CASE PiStep
    BY <2>1, PiStepShape DEF Changes, CommandKeeps
  <2>2. CASE PromptAnswered
    BY <2>2 DEF PromptAnswered, WasHandled
  <2>3. CASE HelloRead \/ HistoryAnswered \/ LeafAnswered
    BY <2>3 DEF HelloRead, HistoryAnswered, LeafAnswered, WasHandled, Order, Late
  <2>4. CASE ~PiStep /\ ~PromptAnswered /\ ~HelloRead /\ ~HistoryAnswered /\ ~LeafAnswered
    BY <2>4
       DEF Next, PiStep, Coroutine, Deliver, PiClosesSocket, Connecting, GiveUpConnecting,
           NowSubscribed, NowCursor, HandleSeed, HandleEvent, DrainForEvent, Drained,
           SourceEnded, FinishAfterStop, Return, Fail, TimerFires, vars
  <2>5. QED
    BY <2>1, <2>2, <2>3, <2>4
<1>4. QED
  BY <1>2, <1>3 DEF WasHandled

\* How runStream comes to its outcome.
LEMMA OutcomeSteps ==
  ASSUME TypeInv, Order, [Next]_vars
  PROVE  /\ cutoff' = "done" => \/ cutoff = "done"
                                \/ PromptAnswered /\ WasHandled'
                                \/ cmd.until = "no-activity"
         /\ outcome' = "done" =>
              \/ outcome = "done"
              \/ SourceEnded /\ cutoff = "done"
              \/ HandleSeed /\ ~IsPrompt /\ UntilMetAtSeed(seed) /\ seed # None
              \/ HandleEvent /\ queue # <<>> /\ UntilMetByEvent(Head(queue).event, Head(queue).state)
              \/ Drained /\ pc = "drain" /\ UntilMetByEvent(event.event, event.state)
<1> USE DEF loopVars
<1>1. CASE PiStep
  BY <1>1, PiStepShape DEF Changes, CommandKeeps
<1>2. CASE Deliver \/ UNCHANGED vars \/ PiClosesSocket
  BY <1>2 DEF Deliver, vars, PiClosesSocket
<1>3. CASE Connecting \/ GiveUpConnecting \/ HelloRead
  BY <1>3 DEF Connecting, GiveUpConnecting, HelloRead, Fail
<1>4. CASE HistoryAnswered \/ LeafAnswered \/ NowSubscribed \/ NowCursor
  BY <1>4 DEF HistoryAnswered, LeafAnswered, NowSubscribed, NowCursor, Fail
<1>5. CASE HandleSeed
  BY <1>5 DEF HandleSeed, Fail, StopAt, Proceed
<1>6. CASE HandleEvent
  BY <1>6 DEF HandleEvent, StopAt, Proceed
<1>7. CASE Drained
  BY <1>7 DEF Drained, StopAt, Proceed
<1>8. CASE DrainForEvent
  BY <1>8 DEF DrainForEvent
<1>9. CASE SourceEnded \/ FinishAfterStop \/ Return
  BY <1>9, NoneAssumption DEF SourceEnded, FinishAfterStop, Return, Fail
<1>10. CASE TimerFires
  BY <1>10 DEF TimerFires, EstablishSourceCutoff
<1>11. CASE PromptAnswered
  <2>1. outcome' = outcome
    BY <1>11 DEF PromptAnswered
  <2>2. CASE cutoff' = cutoff
    BY <2>1, <2>2
  <2>3. CASE cutoff' # cutoff
    <3>1. reply["prompt"].ok /\ reply["prompt"].handled /\ EstablishSourceCutoff("done") /\ prompt' = "ok"
      BY <1>11, <2>3 DEF PromptAnswered
    <3>2. reply'["prompt"] = reply["prompt"]
      BY <3>1 DEF EstablishSourceCutoff, BeginStop, Ask, TypeInv, ClientType, Requests
    <3>3. QED
      BY <1>11, <2>1, <3>1, <3>2 DEF WasHandled
  <2>4. QED
    BY <2>2, <2>3
<1>12. QED
  BY <1>1, <1>2, <1>3, <1>4, <1>5, <1>6, <1>7, <1>8, <1>9, <1>10, <1>11
     DEF Next, PiStep, Coroutine

LEMMA NextConcluded ==
  ASSUME TypeInv, Bounded, Order, OnceInv, Setup, Awaited, NoEndYet, Busy, Concluded, [Next]_vars
  PROVE  Concluded'
<1>1. cmd' = cmd
  BY StaysLate
<1>2. SUFFICES ASSUME cmd.until = "turn-end"
               PROVE  /\ cutoff' = "done" => WasHandled'
                      /\ outcome' = "done" => ~Awaiting' \/ WasHandled'
  BY <1>1 DEF Concluded
<1>3. /\ cutoff = "done" => WasHandled
      /\ outcome = "done" => ~Awaiting \/ WasHandled
  BY <1>2 DEF Concluded
<1>4. cutoff' = "done" => WasHandled'
  BY <1>2, <1>3, OutcomeSteps, HandledStays
<1>5. ASSUME outcome' = "done", Awaiting'
      PROVE  WasHandled'
  <2>1. CASE WasHandled
    BY <2>1, HandledStays
  <2>2. CASE ~WasHandled
    <3>1. CASE outcome = "done"
      <4>1. pc \in Late
        BY <3>1 DEF Order
      <4>2. Awaiting
        BY <1>5, <4>1, AwaitingSteps DEF Late, Before
      <4>3. QED
        BY <1>3, <2>2, <3>1, <4>2
    <3>2. CASE SourceEnded /\ cutoff = "done"
      BY <1>3, <2>2, <3>2
    <3>3. CASE ~(outcome = "done") /\ ~(SourceEnded /\ cutoff = "done")
      <4>1. pc \in {"seed", "next", "drain"}
        BY <1>5, <3>3, OutcomeSteps DEF HandleSeed, HandleEvent
      <4>2. Awaiting
        BY <1>5, <4>1, AwaitingSteps DEF Before
      <4>3. CASE HandleSeed /\ ~IsPrompt /\ UntilMetAtSeed(seed) /\ seed # None
        BY <4>2, <4>3 DEF Busy, UntilMetAtSeed
      <4>4. CASE HandleEvent /\ queue # <<>> /\ UntilMetByEvent(Head(queue).event, Head(queue).state)
        <5>1. IsTurnEnd(Head(queue).event)
          BY <1>2, <4>4 DEF UntilMetByEvent
        <5>2. Head(queue) = queue[1] /\ 1 \in 1 .. Len(queue)
          BY <4>4, QueueTail DEF TypeInv
        <5>3. QED
          BY <4>2, <5>1, <5>2 DEF NoEndYet
      <4>5. CASE Drained /\ pc = "drain" /\ UntilMetByEvent(event.event, event.state)
        <5>1. IsTurnEnd(event.event)
          BY <1>2, <4>5 DEF UntilMetByEvent
        <5>2. QED
          BY <4>2, <4>5, <5>1 DEF NoEndYet
      <4>6. QED
        BY <1>5, <3>3, <4>3, <4>4, <4>5, OutcomeSteps
    <3>4. QED
      BY <3>1, <3>2, <3>3
  <2>3. QED
    BY <2>1, <2>2
<1>6. QED
  BY <1>4, <1>5

-----------------------------------------------------------------------------
(* What a prompt prints of the turn it starts.                              *)

SaysIn(records, n, k) ==
  \E i \in 1 .. n : records[i].type = "message_end" /\ records[i].entry = k
QueuedIn(n, k) ==
  \E i \in 1 .. n : queue[i].event.type = "message_end" /\ queue[i].event.entry = k

\* What is printed stays printed, and what is printed next.
LEMMA ConcatWritten ==
  ASSUME TypeInv, NEW items \in Seq(Nat), out' = out \o items
  PROVE  /\ Written \subseteq Written'
         /\ \A i \in 1 .. Len(items) : items[i] # 0 => items[i] \in Written'
<1>1. out \in Seq(Nat) /\ Len(out) \in Nat /\ Len(items) \in Nat
  BY LenProperties DEF TypeInv, ModeType
<1>2. /\ Len(out') = Len(out) + Len(items)
      /\ \A i \in 1 .. Len(out) + Len(items) :
           out'[i] = IF i <= Len(out) THEN out[i] ELSE items[i - Len(out)]
  BY <1>1, ConcatProperties
<1>3. \A i \in 1 .. Len(out) : i \in 1 .. Len(out') /\ out'[i] = out[i]
  BY <1>1, <1>2
<1>4. ASSUME NEW i \in 1 .. Len(items)
      PROVE  Len(out) + i \in 1 .. Len(out') /\ out'[Len(out) + i] = items[i]
  BY <1>1, <1>2
<1>5. QED
  BY <1>3, <1>4 DEF Written

LEMMA HeadWritten ==
  ASSUME TypeInv, HandleEvent, HasCursor
  PROVE  /\ Written \subseteq Written' /\ queue # <<>> /\ 1 \in 1 .. Len(queue)
         /\ Head(queue) = queue[1]
         /\ queue[1].event.type = "message_end" => queue[1].event.entry \in Written'
<1> DEFINE e == queue[1].event
<1>1. queue # <<>> /\ out' = out \o Record(Head(queue).event)
  BY DEF HandleEvent
<1>2. /\ 1 \in 1 .. Len(queue) /\ queue[1] \in Queued /\ Carries(e) /\ Head(queue) = queue[1]
  BY <1>1, QueueTail DEF TypeInv
<1>3. e \in Events
  BY <1>2 DEF Queued
<1> HIDE DEF e
<1>4. \/ Record(e) = <<>> \/ Record(e) = <<0>>
      \/ (Record(e) = <<e.entry>> /\ e.entry \in Nat)
  BY <1>2, <1>3, RecordKinds
<1>5. Record(e) \in Seq(Nat)
  <2>1. \A n \in Nat : <<n>> \in Seq(Nat)
    OBVIOUS
  <2>2. <<>> \in Seq(Nat) /\ 0 \in Nat
    OBVIOUS
  <2>3. QED
    BY <1>4, <2>1, <2>2
<1>6. out' = out \o Record(e)
  BY <1>1, <1>2 DEF e
<1>7. /\ Written \subseteq Written'
      /\ \A i \in 1 .. Len(Record(e)) : Record(e)[i] # 0 => Record(e)[i] \in Written'
  BY <1>5, <1>6, ConcatWritten
<1>8. ASSUME e.type = "message_end" PROVE e.entry \in Written'
  <2>1. Record(e) = <<e.entry>>
    BY <1>8 DEF Record
  <2>2. e.entry \in Nat \ {0}
    BY <1>2, <1>8 DEF Carries
  <2>3. 1 \in 1 .. Len(Record(e)) /\ Record(e)[1] = e.entry
    BY <2>1
  <2>4. QED
    BY <1>7, <2>2, <2>3
<1>9. QED
  BY <1>1, <1>2, <1>7, <1>8 DEF e

LEMMA DrainWritten ==
  ASSUME TypeInv, Bounded, Drained, reply["drain"].ok,
         NEW S, S = reply["drain"].entries
  PROVE  /\ Written \subseteq Written' /\ S \subseteq Written' /\ S \subseteq 1 .. Len(log)
         /\ S # {} => cursor' \in S /\ \A n \in S : n <= cursor'
         /\ S = {} => cursor' = cursor
<1>1. /\ out' = out \o InOrder(S) /\ cursor' = LastOf(InOrder(S), cursor)
      /\ Answered("drain") /\ "drain" \in Requests
  BY DEF Drained, Requests
<1>2. S \subseteq 1 .. Len(log) /\ Len(log) \in Nat /\ 1 .. Len(log) \subseteq Nat \ {0}
  BY <1>1, LogLength DEF Answered, Bounded
<1>3. InOrder(S) \in Seq(S) /\ Listing(InOrder(S), S)
  BY <1>2, InOrderLists
<1>4. InOrder(S) \in Seq(Nat)
  BY <1>2, <1>3, SeqMonotonic
<1>5. /\ Written \subseteq Written'
      /\ \A i \in 1 .. Len(InOrder(S)) : InOrder(S)[i] # 0 => InOrder(S)[i] \in Written'
  BY <1>1, <1>4, ConcatWritten
<1>6. ASSUME NEW n \in S PROVE n \in Written'
  <2>1. PICK i \in 1 .. Len(InOrder(S)) : InOrder(S)[i] = n
    BY <1>3 DEF Listing
  <2>2. n # 0
    BY <1>2
  <2>3. QED
    BY <1>5, <2>1, <2>2
<1>7. QED
  BY <1>1, <1>2, <1>5, <1>6, InOrderLast

LEMMA WrittenSteps ==
  ASSUME TypeInv, Bounded, Order, [Next]_vars, pc \in Late \cup {"seed"}
  PROVE  Written \subseteq Written'
<1>1. CASE UNCHANGED out
  BY <1>1 DEF Written
<1>2. CASE HandleEvent
  BY <1>1, <1>2, HeadWritten DEF HandleEvent
<1>3. CASE Drained
  BY <1>1, <1>3, DrainWritten DEF Drained
<1>4. CASE ~UNCHANGED out /\ ~HandleEvent /\ ~Drained
  <2>1. ~PiStep
    BY <1>4, PiStepShape DEF Changes, CommandKeeps, outVars
  <2>2. QED
    BY <1>4, <2>1
       DEF Next, PiStep, Coroutine, Deliver, PiClosesSocket, Connecting, GiveUpConnecting,
           HelloRead, HistoryAnswered, LeafAnswered, NowSubscribed, NowCursor, HandleSeed,
           DrainForEvent, SourceEnded, FinishAfterStop, Return, Fail, FinalCursor,
           PromptAnswered, TimerFires, vars, outVars, Late
<1>5. QED
  BY <1>1, <1>2, <1>3, <1>4

\* Its messages are on their way ahead of its end.
OnTheWay ==
  ~Entries /\ from # None =>
    /\ events = "open" =>
         /\ \A k \in Messages(from + 1 .. IF mark = None THEN Len(log) ELSE mark) :
              k \in Written \/ QueuedIn(Len(queue), k) \/ SaysIn(chan, Len(chan), k)
         /\ \A i \in 1 .. Len(chan) : IsTurnEnd(chan[i]) =>
              \A k \in Messages(from + 1 .. mark) :
                k \in Written \/ QueuedIn(Len(queue), k) \/ SaysIn(chan, i - 1, k)
    /\ \A i \in 1 .. Len(queue) : IsTurnEnd(queue[i].event) =>
         \A k \in Messages(from + 1 .. mark) : k \in Written \/ QueuedIn(i - 1, k)


\* Once a prompt has been accepted its connection stands and its queue is open.
LEMMA AcceptedAt ==
  ASSUME TypeInv, Order, Setup, Awaited, from # None, [Next]_vars
  PROVE  /\ pc \in Late \cup {"seed"} /\ IsPrompt /\ (Entries \/ HasCursor)
         /\ link \notin {"none", "hello"} /\ (events = "open" => Connected)
         /\ events' = "open" => events = "open"
         /\ ~Awaiting => mark # None
<1>1. prompt # "none" /\ due # None /\ (mark = None => turns < due)
  BY DEF Awaited
<1>2. pc \in Late \cup {"seed"} /\ IsPrompt /\ link \notin {"none", "hello"}
  BY <1>1 DEF Order, Setup, Late
<1>3. Entries \/ HasCursor
  BY <1>2, CommandsAssumption DEF TypeInv, ModeType, IsPrompt, Entries, HasCursor
<1>4. events = "open" => Connected
  BY <1>2 DEF Setup, Connected, TypeInv, ClientType
<1>5. events' = "open" => events = "open"
  <2>1. CASE PiStep
    BY <2>1, PiStepShape DEF Changes, CommandKeeps
  <2>2. CASE Deliver \/ HandleSeed \/ HandleEvent \/ DrainForEvent \/ Drained
    BY <2>2 DEF Deliver, Receive, HandleSeed, HandleEvent, DrainForEvent, Drained, StopAt, Proceed,
                clientVars
  <2>3. CASE PromptAnswered \/ TimerFires \/ PiClosesSocket
    BY <2>3 DEF PromptAnswered, TimerFires, PiClosesSocket, SocketClosed, EstablishSourceCutoff,
                clientVars
  <2>4. CASE SourceEnded \/ FinishAfterStop \/ Return \/ UNCHANGED vars
    BY <2>4 DEF SourceEnded, FinishAfterStop, Return, vars, clientVars
  <2>5. QED
    BY <1>2, <2>1, <2>2, <2>3, <2>4
       DEF Next, PiStep, Coroutine, Connecting, GiveUpConnecting, HelloRead, HistoryAnswered,
           LeafAnswered, NowSubscribed, NowCursor, Late
<1>6. QED
  BY <1>1, <1>2, <1>3, <1>4, <1>5 DEF Awaiting

\* The end of its turn is set when it comes, and stays.
LEMMA MarkSteps ==
  ASSUME TypeInv, Bounded, Order, Setup, Awaited, [Next]_vars, from # None, from' = from,
         NEW k \in Nat
  PROVE  /\ k \in Messages(from + 1 .. mark)' /\ mark # None =>
              mark' = mark /\ k \in Messages(from + 1 .. mark)
         /\ mark' # None /\ k \in Messages(from + 1 .. mark)' =>
              k \in Messages(from + 1 .. IF mark = None THEN Len(log) ELSE mark)
         /\ mark' = None => mark = None
<1>1. /\ Len(log) \in Nat /\ from \in Nat /\ mark \in Nat \cup {None} /\ None \notin Nat
      /\ mark # None => mark <= Len(log) /\ ~Awaiting
      /\ due # None /\ (mark = None => turns < due)
  BY LogLength, NoneAssumption DEF TypeInv, GhostType, Awaited
<1>2. \A n \in 1 .. Len(log) : log'[n] = log[n]
  <2>1. CASE PiStep
    BY <2>1, PiStepShape DEF Changes
  <2>2. CASE ~PiStep
    BY <2>2, CommandMoves
  <2>3. QED
    BY <2>1, <2>2
<1>3. mark' = mark \/ (mark = None /\ mark' = Len(log))
  <2>1. CASE PiStep
    <3>1. mark' = mark \/ (turns' = due /\ turns' = turns + 1 /\ mark' = Len(log))
      BY <2>1, PiStepShape DEF Changes
    <3>2. turns' = due /\ turns' = turns + 1 => Awaiting
      BY <1>1 DEF Awaiting, TypeInv, PiType
    <3>3. QED
      BY <1>1, <3>1, <3>2
  <2>2. CASE ~PiStep
    BY <2>2, CommandMoves
  <2>3. QED
    BY <2>1, <2>2
<1>4. ASSUME NEW n \in Nat, n <= Len(log), k \in from + 1 .. n
      PROVE  k \in 1 .. Len(log) /\ log'[k] = log[k]
  BY <1>1, <1>2, <1>4
<1>5. CASE mark # None
  BY <1>1, <1>3, <1>4, <1>5 DEF Messages
<1>6. CASE mark = None
  BY <1>1, <1>3, <1>4, <1>6 DEF Messages
<1>7. QED
  BY <1>5, <1>6

LEMMA PiStepOnTheWay ==
  ASSUME TypeInv, Bounded, Order, OnceInv, Setup, Awaited, NoEndYet, OnTheWay, PiStep,
         ~Entries, from # None, from' = from
  PROVE  OnTheWay'
<1>1. Sends /\ Changes
  BY PiStepShape
<1>2. /\ UNCHANGED <<queue, events, cmd, pc, Written>>
      /\ Len(chan) \in Nat /\ Len(chan') \in Nat /\ Len(log) \in Nat
  BY <1>1, LogLength, LenProperties DEF Changes, CommandKeeps, outVars, Written, Sends, TypeInv,
     ClientType, Sent
<1>3. /\ events = "open" => Connected
      /\ ~Awaiting => mark # None
  BY AcceptedAt, PiStep DEF Next, PiStep
<1>4. [Next]_vars
  BY DEF Next, PiStep
<1>5. NoEndYet' /\ Awaited' /\ TypeInv'
  BY <1>4, NextNoEndYet, NextAwaited, NextType
<1>6. ~Awaiting' => mark' # None
  BY <1>5 DEF Awaited, Awaiting
<1>7. ASSUME NEW n \in Nat, NEW m \in Nat, n <= Len(chan), n <= m, NEW k, SaysIn(chan, n, k)
      PROVE  SaysIn(chan', m, k)
  BY <1>1, <1>2, <1>7 DEF SaysIn, Sends
<1>8. ASSUME NEW k \in Nat, events = "open",
             k \in Messages(from + 1 .. IF mark = None THEN Len(log) ELSE mark)
      PROVE  k \in Written \/ QueuedIn(Len(queue), k) \/ SaysIn(chan, Len(chan), k)
  BY <1>8 DEF OnTheWay
<1>9. ASSUME events = "open", NEW k \in Messages(from + 1 .. IF mark = None THEN Len(log) ELSE mark)'
      PROVE  k \in Written \/ QueuedIn(Len(queue), k) \/ SaysIn(chan', Len(chan'), k)
  <2>1. k \in Nat /\ Len(log') \in Nat
    <3>1. from \in Nat /\ Len(log') \in Nat /\ mark' \in Nat \cup {None}
      BY <1>5, LenProperties DEF TypeInv, GhostType, PiType
    <3>2. QED
      BY <3>1 DEF Messages
  <2>2. CASE k \in Messages(from + 1 .. IF mark = None THEN Len(log) ELSE mark)
    BY <1>1, <1>2, <1>7, <1>8, <1>9, <2>1, <2>2 DEF Sends
  <2>3. CASE k \notin Messages(from + 1 .. IF mark = None THEN Len(log) ELSE mark)
    <3>1. mark' = None /\ mark = None
      BY <1>4, <2>1, <2>3, MarkSteps
    <3>2. k \in from + 1 .. Len(log') /\ log'[k] = "message"
      BY <3>1 DEF Messages
    <3>3. \A n \in 1 .. Len(log) : log'[n] = log[n]
      BY <1>1 DEF Changes
    <3>4. from \in Nat
      BY DEF TypeInv, GhostType
    <3>5. k \notin 1 .. Len(log)
      BY <1>2, <2>3, <3>1, <3>2, <3>3, <3>4 DEF Messages
    <3>6. log' # log /\ k = Len(log')
      BY <1>1, <1>2, <2>1, <3>2, <3>4, <3>5 DEF Changes
    <3>7. PICK i \in Len(chan) + 1 .. Len(chan') :
            chan'[i].type \in {"message_end", "unknown"} /\ chan'[i].entry = Len(log')
      BY <1>1, <1>3, <1>9, <3>6 DEF Changes
    <3>8. chan'[i].type = "message_end"
      BY <1>1, <3>2, <3>6, <3>7 DEF Sends, IsNew
    <3>9. i \in 1 .. Len(chan')
      BY <1>2, <3>7
    <3>10. QED
      BY <3>6, <3>7, <3>8, <3>9 DEF SaysIn
  <2>4. QED
    BY <2>2, <2>3
<1>10. ASSUME events = "open", NEW i \in 1 .. Len(chan'), IsTurnEnd(chan'[i]),
              NEW k \in Messages(from + 1 .. mark)'
       PROVE  k \in Written \/ QueuedIn(Len(queue), k) \/ SaysIn(chan', i - 1, k)
  <2>1. mark' # None
    BY <1>5, <1>6, <1>10 DEF NoEndYet, IsTurnEnd
  <2>2. k \in Nat
    <3>1. from \in Nat /\ mark' \in Nat
      BY <1>5, <2>1 DEF TypeInv, GhostType
    <3>2. QED
      BY <3>1 DEF Messages
  <2>3. k \in Messages(from + 1 .. IF mark = None THEN Len(log) ELSE mark)
    BY <1>4, <1>10, <2>1, <2>2, MarkSteps
  <2>4. CASE i \in 1 .. Len(chan)
    <3>1. chan'[i] = chan[i]
      BY <1>1, <2>4 DEF Sends
    <3>2. mark # None /\ IsTurnEnd(chan[i])
      BY <1>3, <1>10, <2>4, <3>1 DEF NoEndYet
    <3>3. k \in Messages(from + 1 .. mark)
      BY <2>3, <3>2
    <3>4. k \in Written \/ QueuedIn(Len(queue), k) \/ SaysIn(chan, i - 1, k)
      BY <1>10, <2>4, <3>2, <3>3 DEF OnTheWay
    <3>5. i - 1 \in Nat /\ i - 1 <= Len(chan)
      BY <1>2, <2>4
    <3>6. QED
      BY <1>7, <3>4, <3>5
  <2>5. CASE i \notin 1 .. Len(chan)
    <3>1. Len(chan) <= i - 1 /\ i - 1 \in Nat
      BY <1>2, <2>5
    <3>2. QED
      BY <1>2, <1>7, <1>8, <1>10, <2>2, <2>3, <3>1
  <2>6. QED
    BY <2>4, <2>5
<1>11. ASSUME NEW i \in 1 .. Len(queue), IsTurnEnd(queue[i].event),
              NEW k \in Messages(from + 1 .. mark)'
       PROVE  k \in Written \/ QueuedIn(i - 1, k)
  <2>1. mark # None
    BY <1>3, <1>11 DEF NoEndYet
  <2>2. k \in Nat
    <3>1. mark' # None
      BY <1>4, <2>1, MarkSteps, 0 \in Nat
    <3>2. from \in Nat /\ mark' \in Nat
      BY <1>5, <3>1 DEF TypeInv, GhostType
    <3>3. QED
      BY <3>2 DEF Messages
  <2>3. k \in Messages(from + 1 .. mark)
    BY <1>4, <1>11, <2>1, <2>2, MarkSteps
  <2>4. QED
    BY <1>11, <2>3 DEF OnTheWay
<1>12. QED
  BY <1>2, <1>9, <1>10, <1>11 DEF OnTheWay, QueuedIn, SaysIn, IsTurnEnd

LEMMA DeliverOnTheWay ==
  ASSUME TypeInv, Bounded, Order, Setup, SeedComes, Awaited, OnTheWay, Deliver, [Next]_vars,
         ~Entries, from # None
  PROVE  OnTheWay'
<1>1. Receive /\ UNCHANGED <<log, cmd, from, mark, out, events, Written>>
  BY DEF Deliver, Receive, piVars, outVars, Written
<1>2. Arrives
  BY <1>1, ReceiveArrives
<1>3. link \notin {"none", "hello"} /\ Len(queue) \in Nat
  BY AcceptedAt, LenProperties DEF TypeInv, ClientType
<1>4. state = None => chan[1].type = "session_changed"
  BY <1>1, <1>3 DEF SeedComes, Receive, Connected, TypeInv, ClientType
<1>5. CASE queue' = queue
  <2>1. events = "open" => chan[1].type \in {"response", "session_changed"}
    <3>1. SUFFICES ASSUME events = "open", chan[1].type # "response", state # None PROVE FALSE
      BY <1>4
    <3>2. queue' = Append(queue, [event |-> chan[1], state |-> state'])
      BY <1>1, <1>2, <1>3, <3>1 DEF Receive, DispatchLine, Arrives
    <3>3. chan[1] \in Events /\ state' \in States
      <4>1. chan[1] \in Events /\ state \in States
        BY <1>2, <3>1 DEF Arrives, Responses, TypeInv, ClientType
      <4>2. state' = NextSessionState(state, chan[1])
        BY <1>1, <1>2, <1>3, <3>1 DEF Receive, DispatchLine, Arrives
      <4>3. QED
        BY <1>2, <4>1, <4>2, NextSessionStateType DEF Arrives
    <3>4. Len(queue') = Len(queue) + 1
      BY <3>2, <3>3, AppendProperties DEF TypeInv, ClientType, Queued
    <3>5. QED
      BY <1>3, <1>5, <3>4
  <2>2. ASSUME events = "open", NEW n \in 0 .. Len(chan), NEW k, SaysIn(chan, n, k)
        PROVE  SaysIn(chan', n - 1, k)
    <3>1. PICK i \in 1 .. n : chan[i].type = "message_end" /\ chan[i].entry = k
      BY <2>2 DEF SaysIn
    <3>2. i # 1
      BY <2>1, <2>2, <3>1
    <3>3. i - 1 \in 1 .. n - 1 /\ i - 1 \in 1 .. Len(chan')
      BY <1>2, <3>1, <3>2 DEF Arrives
    <3>4. chan'[i - 1] = chan[i]
      <4>1. chan'[i - 1] = chan[(i - 1) + 1]
        BY <1>2, <3>3 DEF Arrives
      <4>2. (i - 1) + 1 = i
        BY <3>1
      <4>3. QED
        BY <4>1, <4>2
    <3>5. QED
      BY <3>1, <3>3, <3>4 DEF SaysIn
  <2>3. ASSUME events = "open",
               NEW k \in Messages(from + 1 .. IF mark = None THEN Len(log) ELSE mark)
        PROVE  k \in Written \/ QueuedIn(Len(queue), k) \/ SaysIn(chan', Len(chan'), k)
    <3>1. k \in Written \/ QueuedIn(Len(queue), k) \/ SaysIn(chan, Len(chan), k)
      BY <2>3 DEF OnTheWay
    <3>2. Len(chan') = Len(chan) - 1 /\ Len(chan) \in 0 .. Len(chan)
      BY <1>2 DEF Arrives
    <3>3. QED
      BY <2>2, <2>3, <3>1, <3>2
  <2>4. ASSUME events = "open", NEW i \in 1 .. Len(chan'), IsTurnEnd(chan'[i]),
               NEW k \in Messages(from + 1 .. mark)
        PROVE  k \in Written \/ QueuedIn(Len(queue), k) \/ SaysIn(chan', i - 1, k)
    <3>1. i + 1 \in 1 .. Len(chan) /\ chan'[i] = chan[i + 1] /\ i \in 0 .. Len(chan)
      BY <1>2 DEF Arrives
    <3>2. (i + 1) - 1 = i
      OBVIOUS
    <3>3. k \in Written \/ QueuedIn(Len(queue), k) \/ SaysIn(chan, (i + 1) - 1, k)
      BY <2>4, <3>1 DEF OnTheWay
    <3>4. QED
      BY <2>2, <2>4, <3>1, <3>2, <3>3
  <2>5. QED
    BY <1>1, <1>5, <2>3, <2>4 DEF OnTheWay, SaysIn, QueuedIn, IsTurnEnd, Messages, Entries
<1>6. CASE queue' # queue
  <2>1. /\ events = "open" /\ Len(queue') = Len(queue) + 1
        /\ queue'[Len(queue')].event = chan[1]
        /\ \A i \in 1 .. Len(queue) : queue'[i] = queue[i]
    BY <1>1, <1>6, ReceiveQueues
  <2>2. ASSUME NEW n \in 0 .. Len(queue), NEW k, QueuedIn(n, k)
        PROVE  QueuedIn(n, k)'
    BY <1>3, <2>1, <2>2 DEF QueuedIn
  <2>4. ASSUME NEW n \in 0 .. Len(queue), NEW k, QueuedIn(n, k)
        PROVE  QueuedIn(Len(queue), k)'
    BY <1>3, <2>1, <2>4 DEF QueuedIn
  <2>5. ASSUME NEW n \in 0 .. Len(chan), NEW k, SaysIn(chan, n, k)
        PROVE  SaysIn(chan', n - 1, k) \/ QueuedIn(Len(queue), k)'
    <3>1. PICK i \in 1 .. n : chan[i].type = "message_end" /\ chan[i].entry = k
      BY <2>5 DEF SaysIn
    <3>2. CASE i = 1
      <4>1. Len(queue') \in 1 .. Len(queue')
        BY <1>3, <2>1
      <4>2. QED
        BY <2>1, <3>1, <3>2, <4>1 DEF QueuedIn
    <3>3. CASE i # 1
      <4>1. i - 1 \in 1 .. n - 1 /\ i - 1 \in 1 .. Len(chan')
        BY <1>2, <3>1, <3>3 DEF Arrives
      <4>2. chan'[i - 1] = chan[(i - 1) + 1]
        BY <1>2, <4>1 DEF Arrives
      <4>3. (i - 1) + 1 = i
        BY <3>1
      <4>4. QED
        BY <3>1, <4>1, <4>2, <4>3 DEF SaysIn
    <3>4. QED
      BY <3>2, <3>3
  <2>6. ASSUME NEW k \in Messages(from + 1 .. IF mark = None THEN Len(log) ELSE mark)
        PROVE  k \in Written \/ QueuedIn(Len(queue), k)' \/ SaysIn(chan', Len(chan'), k)
    <3>1. k \in Written \/ QueuedIn(Len(queue), k) \/ SaysIn(chan, Len(chan), k)
      BY <2>1, <2>6 DEF OnTheWay
    <3>2. /\ Len(chan') = Len(chan) - 1 /\ Len(chan) \in 0 .. Len(chan)
          /\ Len(queue) \in 0 .. Len(queue)
      BY <1>2, <1>3 DEF Arrives
    <3>3. QED
      BY <2>4, <2>5, <3>1, <3>2
  <2>7. ASSUME NEW i \in 1 .. Len(chan'), IsTurnEnd(chan'[i]),
               NEW k \in Messages(from + 1 .. mark)
        PROVE  k \in Written \/ QueuedIn(Len(queue), k)' \/ SaysIn(chan', i - 1, k)
    <3>1. /\ i + 1 \in 1 .. Len(chan) /\ chan'[i] = chan[i + 1] /\ i \in 0 .. Len(chan)
          /\ Len(queue) \in 0 .. Len(queue)
      BY <1>2, <1>3 DEF Arrives
    <3>2. (i + 1) - 1 = i
      OBVIOUS
    <3>3. k \in Written \/ QueuedIn(Len(queue), k) \/ SaysIn(chan, (i + 1) - 1, k)
      BY <2>1, <2>7, <3>1 DEF OnTheWay
    <3>4. QED
      BY <2>4, <2>5, <3>1, <3>2, <3>3
  <2>8. ASSUME NEW i \in 1 .. Len(queue'), IsTurnEnd(queue'[i].event),
               NEW k \in Messages(from + 1 .. mark)
        PROVE  k \in Written \/ QueuedIn(i - 1, k)'
    <3>1. CASE i \in 1 .. Len(queue)
      <4>1. k \in Written \/ QueuedIn(i - 1, k)
        BY <2>1, <2>8, <3>1 DEF OnTheWay
      <4>2. i - 1 \in 0 .. Len(queue)
        BY <1>3, <3>1
      <4>3. QED
        BY <2>2, <4>1, <4>2
    <3>2. CASE i \notin 1 .. Len(queue)
      <4>1. i = Len(queue') /\ i - 1 = Len(queue) /\ i - 1 \in 0 .. Len(queue)
        BY <1>3, <2>1, <3>2
      <4>2. IsTurnEnd(chan[1]) /\ 1 \in 1 .. Len(chan)
        BY <1>2, <2>1, <2>8, <4>1 DEF Arrives
      <4>3. k \in Written \/ QueuedIn(Len(queue), k) \/ SaysIn(chan, 1 - 1, k)
        BY <2>1, <2>8, <4>2 DEF OnTheWay
      <4>4. ~SaysIn(chan, 1 - 1, k)
        BY DEF SaysIn
      <4>5. QED
        BY <2>2, <4>1, <4>3, <4>4
    <3>3. QED
      BY <3>1, <3>2
  <2>9. QED
    BY <1>1, <2>6, <2>7, <2>8 DEF OnTheWay, SaysIn, QueuedIn, IsTurnEnd, Messages, Entries
<1>7. QED
  BY <1>5, <1>6

LEMMA HandleEventOnTheWay ==
  ASSUME TypeInv, Bounded, Order, Setup, Awaited, OnTheWay, HandleEvent, [Next]_vars,
         ~Entries, from # None
  PROVE  OnTheWay'
<1>1. UNCHANGED <<log, cmd, from, mark, chan>>
  BY DEF HandleEvent, piVars, StopAt, Proceed, ghosts
<1>2. HasCursor /\ Len(queue) \in Nat
  BY AcceptedAt, LenProperties DEF TypeInv, ClientType
<1>3. /\ Written \subseteq Written' /\ queue # <<>> /\ 1 \in 1 .. Len(queue)
      /\ queue[1].event.type = "message_end" => queue[1].event.entry \in Written'
  BY <1>2, HeadWritten
<1>4. CASE queue' = Tail(queue)
  <2>1. events' = "open" => events = "open"
    BY AcceptedAt
  <2>2. Len(queue') = Len(queue) - 1 /\ \A i \in 1 .. Len(queue') : queue'[i] = queue[i + 1]
    BY <1>3, <1>4, QueueTail DEF TypeInv
  <2>3. ASSUME NEW n \in 0 .. Len(queue), NEW k, k \in Written \/ QueuedIn(n, k)
        PROVE  k \in Written' \/ QueuedIn(n - 1, k)'
    <3>1. SUFFICES ASSUME QueuedIn(n, k) PROVE k \in Written' \/ QueuedIn(n - 1, k)'
      BY <1>3, <2>3
    <3>2. PICK i \in 1 .. n : queue[i].event.type = "message_end" /\ queue[i].event.entry = k
      BY <3>1 DEF QueuedIn
    <3>3. CASE i = 1
      BY <1>3, <3>2, <3>3
    <3>4. CASE i # 1
      <4>1. i - 1 \in 1 .. n - 1 /\ i - 1 \in 1 .. Len(queue')
        BY <1>2, <2>2, <3>2, <3>4
      <4>2. queue'[i - 1] = queue[(i - 1) + 1]
        BY <2>2, <4>1
      <4>3. (i - 1) + 1 = i
        BY <3>2
      <4>4. QED
        BY <3>2, <4>1, <4>2, <4>3 DEF QueuedIn
    <3>5. QED
      BY <3>3, <3>4
  <2>4. ASSUME NEW k, k \in Written \/ QueuedIn(Len(queue), k)
        PROVE  k \in Written' \/ QueuedIn(Len(queue), k)'
    <3>1. Len(queue) \in 0 .. Len(queue) /\ Len(queue) - 1 = Len(queue')
      BY <1>2, <2>2
    <3>2. QED
      BY <2>3, <2>4, <3>1
  <2>5. ASSUME NEW i \in 1 .. Len(queue'), IsTurnEnd(queue'[i].event),
               NEW k \in Messages(from + 1 .. mark)
        PROVE  k \in Written' \/ QueuedIn(i - 1, k)'
    <3>1. i + 1 \in 1 .. Len(queue) /\ queue'[i] = queue[i + 1] /\ i \in 0 .. Len(queue)
      BY <1>2, <2>2
    <3>2. (i + 1) - 1 = i
      OBVIOUS
    <3>3. k \in Written \/ QueuedIn((i + 1) - 1, k)
      BY <2>5, <3>1 DEF OnTheWay
    <3>4. QED
      BY <2>3, <3>1, <3>2, <3>3
  <2>6. QED
    BY <1>1, <2>1, <2>4, <2>5 DEF OnTheWay, SaysIn, IsTurnEnd, Messages, Entries
<1>5. CASE queue' = <<>> /\ events' = "closed"
  BY <1>1, <1>5, EmptySeq DEF OnTheWay
<1>6. QED
  BY <1>4, <1>5 DEF HandleEvent, StopAt, Proceed

LEMMA OtherOnTheWay ==
  ASSUME TypeInv, Bounded, Order, Setup, Awaited, OnTheWay, [Next]_vars,
         ~PiStep, ~Deliver, ~HandleEvent, ~Entries, from # None
  PROVE  OnTheWay'
<1>1. /\ pc \in Late \cup {"seed"} /\ Written \subseteq Written' /\ cmd' = cmd
      /\ events' = "open" => events = "open"
  BY AcceptedAt, WrittenSteps, StaysLate
<1>2. UNCHANGED <<log, from, mark>>
  BY CommandMoves
<1>3. UNCHANGED <<queue, chan>> \/ (events' # "open" /\ queue' \in {queue, <<>>})
  <2>1. CASE HandleSeed
    BY <2>1 DEF HandleSeed, Fail, clientVars, StopAt, Proceed
  <2>2. CASE SourceEnded \/ FinishAfterStop \/ Return \/ UNCHANGED vars
    BY <2>2 DEF SourceEnded, FinishAfterStop, Return, vars, clientVars
  <2>3. CASE PromptAnswered
    BY <2>3 DEF PromptAnswered, SocketClosed, EstablishSourceCutoff, clientVars
  <2>4. CASE TimerFires
    BY <2>4 DEF TimerFires
  <2>5. CASE PiClosesSocket
    BY <2>5 DEF PiClosesSocket, SocketClosed
  <2>6. CASE DrainForEvent \/ Drained
    BY <2>6 DEF DrainForEvent, Drained, TypeInv, ModeType
  <2>7. QED
    BY <1>1, <2>1, <2>2, <2>3, <2>4, <2>5, <2>6
       DEF Next, PiStep, Coroutine, Connecting, GiveUpConnecting, HelloRead, HistoryAnswered,
           LeafAnswered, NowSubscribed, NowCursor, Late
<1>4. CASE UNCHANGED <<queue, chan>>
  <2>1. ASSUME NEW n, NEW k
        PROVE  (QueuedIn(n, k)' <=> QueuedIn(n, k)) /\ (SaysIn(chan, n, k)' <=> SaysIn(chan, n, k))
    BY <1>4 DEF QueuedIn, SaysIn
  <2>2. QED
    BY <1>1, <1>2, <1>4 DEF OnTheWay, QueuedIn, SaysIn, IsTurnEnd, Messages, Entries
<1>5. CASE events' # "open" /\ queue' \in {queue, <<>>}
  BY <1>1, <1>2, <1>5, EmptySeq DEF OnTheWay, QueuedIn, IsTurnEnd, Messages, Entries
<1>6. QED
  BY <1>3, <1>4, <1>5

LEMMA NextOnTheWay ==
  ASSUME TypeInv, Bounded, Order, OnceInv, Setup, SeedComes, Awaited, NoEndYet, OnTheWay,
         [Next]_vars
  PROVE  OnTheWay'
<1>1. SUFFICES ASSUME ~Entries, from' # None PROVE OnTheWay'
  <2>1. cmd' = cmd
    BY StaysLate
  <2>2. QED
    BY <1>1, <2>1 DEF OnTheWay, Entries
<1>2. CASE from' # from
  <2>1. PiStep
    BY <1>2, CommandMoves
  <2>2. /\ UNCHANGED <<log, turns, mark, due>> /\ from' = Len(log) /\ due # None /\ due = turns + 1
    BY <1>2, <2>1, FromSteps, PiStepShape DEF OnceInv, Changes
  <2>3. turns \in Nat /\ Len(log) \in Nat
    BY LogLength DEF TypeInv, PiType
  <2>4. Awaiting /\ Awaiting'
    BY <2>2, <2>3 DEF Awaiting
  <2>5. mark = None
    BY <2>4 DEF Awaited
  <2>6. NoEndYet'
    BY NextNoEndYet
  <2>7. Messages(from + 1 .. IF mark = None THEN Len(log) ELSE mark)' = {}
    BY <2>2, <2>3, <2>5 DEF Messages
  <2>8. QED
    BY <2>4, <2>6, <2>7 DEF OnTheWay, NoEndYet, IsTurnEnd
<1>3. CASE from' = from
  BY <1>1, <1>3, PiStepOnTheWay, DeliverOnTheWay, HandleEventOnTheWay, OtherOnTheWay
<1>4. QED
  BY <1>2, <1>3

\* In one session, a drain returns what comes after the cursor up to some point
\* of the log, and when it was asked at the end of a turn, up to there at least.
Drains(answer) ==
  answer.ok =>
    \E length \in 0 .. Len(log) :
      /\ answer.entries = {n \in 1 .. length : cursor = None \/ n > cursor}
      /\ from # None /\ IsTurnEnd(event.event) => mark <= length

CursorInLog == IsPrompt /\ Entries /\ cursor # None => cursor <= Len(log)

DrainInv ==
  IsPrompt /\ Entries /\ Len(starts) = 1 =>
    /\ starts[1] = 0
    /\ from # None /\ cursor # None => \A k \in from + 1 .. cursor : k \in Written
    /\ pc = "drain" =>
         /\ \A q \in asked : q.id = "drain" => q.since = cursor
         /\ \A i \in 1 .. Len(chan) : Answering(i, "drain") => Drains(chan[i])
         /\ reply["drain"] # None => Drains(reply["drain"])

LEMMA CursorMoves ==
  ASSUME TypeInv, [Next]_vars
  PROVE  /\ cursor' = cursor \/ HistoryAnswered \/ LeafAnswered \/ DrainForEvent \/ Drained
         /\ pc' = "drain" => DrainForEvent \/ (pc = "drain" /\ event' = event)
<1> USE DEF Coroutine
<1>1. CASE PiStep
  BY <1>1 DEF PiStep, PiWorks, PiMay, PiReplies, PiTakesPrompt, CommandKeeps, loopVars, modeVars
<1>2. CASE Connecting \/ GiveUpConnecting \/ HelloRead
  BY <1>2 DEF Connecting, GiveUpConnecting, HelloRead, SubscribeTo, Fail, loopVars, modeVars
<1>3. CASE HistoryAnswered \/ LeafAnswered \/ DrainForEvent
  BY <1>3 DEF HistoryAnswered, LeafAnswered, SubscribeTo, Fail
<1>4. CASE NowSubscribed \/ NowCursor \/ SourceEnded \/ FinishAfterStop \/ Return
  BY <1>4 DEF NowSubscribed, NowCursor, SourceEnded, FinishAfterStop, Return, Fail, loopVars,
              modeVars
<1>5. CASE HandleSeed \/ HandleEvent \/ Drained
  BY <1>5 DEF HandleSeed, HandleEvent, Drained, StopAt, Proceed, Fail, loopVars, modeVars
<1>6. CASE PromptAnswered \/ TimerFires \/ Deliver \/ PiClosesSocket
  BY <1>6 DEF PromptAnswered, TimerFires, Deliver, PiClosesSocket, loopVars, modeVars
<1>7. CASE UNCHANGED vars
  BY <1>7 DEF vars, loopVars, modeVars
<1>8. QED
  BY <1>1, <1>2, <1>3, <1>4, <1>5, <1>6, <1>7 DEF Next, PiStep

LEMMA LogGrows ==
  ASSUME TypeInv, Order, Setup, [Next]_vars
  PROVE  Len(log) \in Nat /\ Len(log') \in Nat /\ Len(log) <= Len(log')
<1>1. CASE PiStep
  BY <1>1, PiStepShape, LogLength DEF Changes
<1>2. CASE ~PiStep
  BY <1>2, CommandMoves, LogLength
<1>3. QED
  BY <1>1, <1>2

LEMMA NextCursorInLog ==
  ASSUME TypeInv, Bounded, Order, Setup, CursorInLog, [Next]_vars
  PROVE  CursorInLog'
<1>1. Len(log) \in Nat /\ Len(log') \in Nat /\ Len(log) <= Len(log')
  BY LogGrows
<1>2. cmd' = cmd /\ cursor \in Nat \cup {None} /\ \A n \in 1 .. Len(log) : n <= Len(log)
  BY StaysLate DEF TypeInv, ModeType
<1>3. SUFFICES ASSUME IsPrompt, Entries, cursor' # None PROVE cursor' <= Len(log')
  BY <1>2 DEF CursorInLog, IsPrompt, Entries
<1>4. cursor' \in 1 .. Len(log) \/ cursor' = cursor
  <2>1. CASE HistoryAnswered
    <3>1. CASE cursor' = cursor
      BY <3>1
    <3>2. CASE cursor' # cursor
      <4>1. Answered("history") /\ cursor' = LastOf(LimitedTail(InOrder(reply["history"].entries)), cursor)
        BY <1>3, <2>1, <3>2 DEF HistoryAnswered, Fail, modeVars
      <4>2. DEFINE S == reply["history"].entries
      <4>3. S \subseteq 1 .. Len(log) /\ EndOf(LimitedTail(InOrder(S)), S, cursor)
        BY <4>1, HistoryItems DEF Requests
      <4> HIDE DEF S
      <4>4. QED
        BY <4>1, <4>3 DEF EndOf, S
    <3>3. QED
      BY <3>1, <3>2
  <2>2. CASE LeafAnswered
    <3>1. CASE cursor' = cursor
      BY <3>1
    <3>2. CASE cursor' # cursor
      <4>1. Answered("history") /\ cursor' = LastOf(InOrder(reply["history"].entries), None)
        BY <2>2, <3>2 DEF LeafAnswered, Fail, modeVars
      <4>2. reply["history"].entries \subseteq 1 .. Len(log)
        BY <4>1 DEF Bounded, Answered, Requests
      <4>3. QED
        BY <1>1, <1>3, <4>1, <4>2, InOrderLast
    <3>3. QED
      BY <3>1, <3>2
  <2>3. CASE DrainForEvent
    BY <1>3, <2>3 DEF DrainForEvent, CursorFor
  <2>4. CASE Drained
    BY <2>4, DrainWritten DEF Drained
  <2>5. QED
    BY <2>1, <2>2, <2>3, <2>4, CursorMoves
<1>5. QED
  BY <1>1, <1>2, <1>3, <1>4 DEF CursorInLog

\* What an answer holds is not outdated by what pi goes on to do.
LEMMA DrainsStays ==
  ASSUME TypeInv, Bounded, Order, OnceInv, Setup, Awaited, NoEndYet, PiStep, pc = "drain",
         NEW answer, Drains(answer)
  PROVE  Drains(answer)'
<1>1. [Next]_vars
  BY DEF Next, PiStep
<1>2. UNCHANGED <<cursor, event>> /\ Changes
  BY PiStepShape DEF Changes, CommandKeeps, loopVars, modeVars
<1>3. Len(log) \in Nat /\ Len(log') \in Nat /\ Len(log) <= Len(log') /\ turns \in Nat
  BY <1>1, LogGrows DEF TypeInv, PiType
<1>4. IsTurnEnd(event.event) => UNCHANGED <<from, mark>>
  <2>1. SUFFICES ASSUME IsTurnEnd(event.event) PROVE UNCHANGED <<from, mark>>
    OBVIOUS
  <2>2. ~Awaiting
    BY <2>1 DEF NoEndYet
  <2>3. from' = from
    BY <1>3, <2>2, FromSteps DEF Awaiting, OnceInv
  <2>4. mark' = mark
    BY <1>2, <1>3, <2>2 DEF Changes, Awaiting
  <2>5. QED
    BY <2>3, <2>4
<1>5. SUFFICES ASSUME answer.ok PROVE Drains(answer)'
  BY DEF Drains
<1>6. PICK length \in 0 .. Len(log) :
        /\ answer.entries = {n \in 1 .. length : cursor = None \/ n > cursor}
        /\ from # None /\ IsTurnEnd(event.event) => mark <= length
  BY <1>5 DEF Drains
<1>7. length \in 0 .. Len(log')
  BY <1>3
<1>8. QED
  BY <1>2, <1>4, <1>6, <1>7 DEF Drains, IsTurnEnd

LEMMA AnswerDrains ==
  ASSUME TypeInv, Bounded, Order, OnceInv, Setup, Awaited, NoEndYet, PiStep,
         pc = "drain", Len(starts) = 1, starts[1] = 0,
         NEW q \in asked, q.id = "drain", q.since = cursor, asked' = asked \ {q},
         NEW answer, answer = Answer(q)
  PROVE  Drains(answer)'
<1>1. [Next]_vars
  BY DEF Next, PiStep
<1>2. UNCHANGED <<cursor, event, pc>> /\ Changes
  BY PiStepShape DEF Changes, CommandKeeps, loopVars, modeVars
<1>3. log' = log /\ Len(log) \in Nat
  BY <1>2, LogLength DEF Changes
<1>4. answer.entries = {n \in 1 .. Len(log) : cursor = None \/ n > cursor}
  <2>1. answer.entries = After(cursor)
    BY DEF Answer, Response
  <2>2. Base = 0
    BY DEF Base
  <2>3. After(cursor) = {n \in 1 .. Len(log) : cursor = None \/ n > cursor}
    BY <1>3, <2>2 DEF After
  <2>4. QED
    BY <2>1, <2>3
<1>5. from' # None /\ IsTurnEnd(event'.event) => mark' <= Len(log)
  <2>1. SUFFICES ASSUME from' # None, IsTurnEnd(event'.event) PROVE mark' <= Len(log)
    OBVIOUS
  <2>2. Awaited' /\ NoEndYet'
    BY <1>1, NextAwaited, NextNoEndYet
  <2>3. ~Awaiting'
    BY <1>2, <2>1, <2>2 DEF NoEndYet, IsTurnEnd
  <2>4. mark' # None
    BY <2>1, <2>2, <2>3 DEF Awaited, Awaiting
  <2>5. QED
    BY <1>3, <2>2, <2>4 DEF Awaited
<1>6. Len(log') \in 0 .. Len(log')
  BY <1>3
<1>7. QED
  BY <1>2, <1>3, <1>4, <1>5, <1>6 DEF Drains, IsTurnEnd

LEMMA PiStepDrainInv ==
  ASSUME TypeInv, Bounded, Order, OnceInv, Setup, Awaited, NoEndYet, CursorInLog, DrainInv,
         PiStep
  PROVE  DrainInv'
<1>1. Sends /\ Changes /\ [Next]_vars
  BY PiStepShape DEF Next, PiStep
<1>2. UNCHANGED <<cursor, event, pc, out, cmd, reply>>
  BY <1>1 DEF Changes, CommandKeeps, loopVars, modeVars, outVars
<1>3. SUFFICES ASSUME IsPrompt, Entries, Len(starts') = 1 PROVE DrainInv'
  BY <1>2 DEF DrainInv, IsPrompt, Entries
<1>4. starts' = starts
  <2>1. starts' # starts => Len(starts') = Len(starts) + 1 /\ Len(starts) \in Nat \ {0}
    BY <1>1, AppendProperties, LogLength, LenProperties DEF Changes, Starts, TypeInv, PiType
  <2>2. QED
    BY <1>3, <2>1
<1>5. /\ starts[1] = 0
      /\ from # None /\ cursor # None => \A k \in from + 1 .. cursor : k \in Written
      /\ pc = "drain" =>
           /\ \A q \in asked : q.id = "drain" => q.since = cursor
           /\ \A i \in 1 .. Len(chan) : Answering(i, "drain") => Drains(chan[i])
           /\ reply["drain"] # None => Drains(reply["drain"])
  BY <1>3, <1>4, <1>2 DEF DrainInv, IsPrompt, Entries
<1>6. Len(log) \in Nat /\ cursor \in Nat \cup {None}
  BY LogLength DEF TypeInv, ModeType
<1>7. from' # None /\ cursor # None => \A k \in from' + 1 .. cursor : k \in Written
  <2>1. CASE from' = from
    BY <1>5, <2>1
  <2>2. CASE from' # from
    <3>1. from' = Len(log)
      BY <2>2, FromSteps DEF OnceInv
    <3>2. cursor # None => cursor <= Len(log)
      BY <1>3, <1>2 DEF CursorInLog, IsPrompt, Entries
    <3>3. QED
      BY <1>6, <3>1, <3>2
  <2>3. QED
    BY <2>1, <2>2
<1>8. ASSUME pc = "drain"
      PROVE  /\ \A q \in asked' : q.id = "drain" => q.since = cursor
             /\ \A i \in 1 .. Len(chan') : Answering(i, "drain")' => Drains(chan[i])'
             /\ reply["drain"] # None => Drains(reply["drain"])'
  <2>1. \A q \in asked' : q.id = "drain" => q.since = cursor
    BY <1>1, <1>5, <1>8 DEF Changes
  <2>2. ASSUME NEW answer, Drains(answer)
        PROVE  Drains(answer)'
    BY <1>8, <2>2, DrainsStays
  <2>3. ASSUME NEW i \in 1 .. Len(chan'), Answering(i, "drain")',
               NEW answer, answer = chan'[i]
        PROVE  Drains(answer)'
    <3>1. CASE i \in 1 .. Len(chan)
      <4>1. chan[i] = answer
        BY <1>1, <2>3, <3>1 DEF Sends
      <4>2. Drains(answer)
        BY <1>5, <1>8, <2>3, <3>1, <4>1 DEF Answering
      <4>3. QED
        BY <2>2, <4>2
    <3>2. CASE i \in Len(chan) + 1 .. Len(chan')
      <4>1. IsNew(answer)
        BY <1>1, <2>3, <3>2 DEF Sends
      <4>2. answer.type = "response" /\ answer.to = "drain"
        BY <2>3 DEF Answering
      <4>3. PICK q \in asked : asked' = asked \ {q} /\ q.id = "drain" /\ answer = Answer(q)
        BY <4>1, <4>2 DEF IsNew
      <4>4. q.since = cursor
        BY <1>5, <1>8, <4>3
      <4>5. QED
        BY <1>3, <1>4, <1>5, <1>8, <4>3, <4>4, AnswerDrains
    <3>3. QED
      BY <1>1, <2>3, <3>1, <3>2, SentTail, LenProperties DEF Sends, TypeInv, ClientType, Sent
  <2>4. ASSUME NEW answer, answer = reply["drain"], answer # None
        PROVE  Drains(answer)'
    BY <1>5, <1>8, <2>2, <2>4
  <2>5. QED
    BY <1>2, <2>1, <2>3, <2>4 DEF Drains
<1>9. Written' = Written /\ pc' = pc /\ asked' \subseteq asked
  BY <1>1, <1>2 DEF Written, Changes
<1>10. starts'[1] = 0 /\ cursor' = cursor
  BY <1>2, <1>4, <1>5
<1>11. QED
  BY <1>2, <1>7, <1>8, <1>9, <1>10 DEF DrainInv

\* An answer that drains leaves nothing of the turn behind.
LEMMA DrainedWrites ==
  ASSUME TypeInv, Bounded, CursorInLog, DrainInv, Drained, reply["drain"].ok,
         IsPrompt, Entries, Len(starts) = 1, from # None
  PROVE  /\ cursor' # None => \A k \in from + 1 .. cursor' : k \in Written'
         /\ IsTurnEnd(event.event) => \A k \in Nat : from < k /\ k <= mark => k \in Written'
<1> DEFINE S == reply["drain"].entries
<1>1. pc = "drain" /\ Answered("drain") /\ from \in Nat /\ cursor \in Nat \cup {None}
  BY DEF Drained, TypeInv, GhostType, ModeType
<1>2. /\ Written \subseteq Written' /\ S \subseteq Written' /\ S \subseteq 1 .. Len(log)
      /\ S # {} => cursor' \in S /\ \A n \in S : n <= cursor'
      /\ S = {} => cursor' = cursor
  BY DrainWritten
<1>3. Drains(reply["drain"])
  BY <1>1 DEF DrainInv, Answered
<1>4. PICK length \in 0 .. Len(log) :
        /\ S = {n \in 1 .. length : cursor = None \/ n > cursor}
        /\ IsTurnEnd(event.event) => mark <= length
  BY <1>3 DEF Drains
<1> HIDE DEF S
<1>5. ASSUME NEW k \in Nat, from < k, k <= length
      PROVE  k \in Written'
  <2>1. CASE cursor = None \/ k > cursor
    BY <1>1, <1>2, <1>4, <1>5, <2>1
  <2>2. CASE cursor # None /\ ~(k > cursor)
    <3>1. k \in from + 1 .. cursor
      BY <1>1, <1>5, <2>2
    <3>2. QED
      BY <1>1, <1>2, <2>2, <3>1 DEF DrainInv
  <2>3. QED
    BY <2>1, <2>2
<1>6. ASSUME cursor' # None, NEW k \in from + 1 .. cursor'
      PROVE  k \in Written'
  <2>1. CASE S = {}
    BY <1>2, <1>6, <2>1 DEF DrainInv
  <2>2. CASE S # {}
    <3>1. cursor' \in 1 .. length
      BY <1>2, <1>4, <2>2
    <3>2. k \in Nat /\ from < k /\ k <= length
      BY <1>1, <1>4, <1>6, <3>1
    <3>3. QED
      BY <1>5, <3>2
  <2>3. QED
    BY <2>1, <2>2
<1>7. ASSUME IsTurnEnd(event.event), NEW k \in Nat, from < k, k <= mark
      PROVE  k \in Written'
  <2>1. mark \in Nat \cup {None}
    BY DEF TypeInv, GhostType
  <2>2. QED
    BY <1>4, <1>5, <1>7, <2>1
<1>8. QED
  BY <1>6, <1>7

LEMMA DrainForEventDrainInv ==
  ASSUME TypeInv, OnceInv, DrainInv, DrainForEvent
  PROVE  DrainInv'
<1>1. /\ UNCHANGED <<cmd, starts, from, out, chan, log, mark>>
      /\ cursor' \in {None, cursor} /\ Ask("drain", cursor')
      /\ pc = "next"
  BY DEF DrainForEvent, piVars, outVars, ghosts, CursorFor
<1>2. ~InFlight("drain")
  BY <1>1 DEF OnceInv, Waits
<1>3. \A q \in asked' : q.id = "drain" => q.since = cursor'
  BY <1>1, <1>2 DEF Ask, InFlight, AskedFor
<1>4. \A i \in 1 .. Len(chan') : ~Answering(i, "drain")'
  BY <1>1, <1>2 DEF InFlight, Answering
<1>5. reply'["drain"] # None => ~reply'["drain"].ok
  <2>1. "drain" \in DOMAIN reply /\ ~Failure.ok
    BY DEF TypeInv, ClientType, Requests, Failure, Response
  <2>2. reply'["drain"] \in {Failure, None}
    BY <1>1, <2>1 DEF Ask
  <2>3. QED
    BY <2>1, <2>2
<1>6. Written' = Written
  BY <1>1 DEF Written
<1>7. ASSUME reply'["drain"] # None
      PROVE  Drains(reply["drain"])'
  BY <1>5, <1>7 DEF Drains
<1>8. QED
  BY <1>1, <1>3, <1>4, <1>6, <1>7 DEF DrainInv, IsPrompt, Entries

LEMMA OtherDrainInv ==
  ASSUME TypeInv, Bounded, Order, OnceInv, Setup, Awaited, CursorInLog, DrainInv, [Next]_vars,
         ~PiStep, ~DrainForEvent
  PROVE  DrainInv'
<1>1. cmd' = cmd /\ UNCHANGED <<log, starts, mark, from>>
  BY StaysLate, CommandMoves
<1>2. SUFFICES ASSUME IsPrompt, Entries, Len(starts) = 1 PROVE DrainInv'
  BY <1>1 DEF DrainInv, IsPrompt, Entries
<1>3. starts'[1] = 0
  BY <1>1, <1>2 DEF DrainInv
<1>4. ASSUME from # None, cursor' # None
      PROVE  \A k \in from + 1 .. cursor' : k \in Written'
  <2>1. pc \in Late \cup {"seed"} /\ Written \subseteq Written'
    BY <1>4, AcceptedAt, WrittenSteps
  <2>2. CASE cursor' = cursor
    BY <1>2, <1>4, <2>1, <2>2 DEF DrainInv
  <2>3. CASE cursor' # cursor
    <3>1. Drained /\ reply["drain"].ok
      BY <2>1, <2>3, CursorMoves DEF HistoryAnswered, LeafAnswered, Late, Drained
    <3>2. QED
      BY <1>2, <1>4, <3>1, DrainedWrites
  <2>4. QED
    BY <2>2, <2>3
<1>5. ASSUME pc' = "drain"
      PROVE  /\ \A q \in asked' : q.id = "drain" => q.since = cursor'
             /\ \A i \in 1 .. Len(chan') : Answering(i, "drain")' => Drains(chan[i])'
             /\ reply'["drain"] # None => Drains(reply["drain"])'
  <2>1. pc = "drain" /\ event' = event
    BY <1>5, CursorMoves
  <2>2. cursor' = cursor
    BY <1>5, <2>1, CursorMoves DEF HistoryAnswered, LeafAnswered, Drained, StopAt, Proceed
  <2>3. ASSUME NEW answer, Drains(answer)
        PROVE  Drains(answer)'
    BY <1>1, <2>1, <2>2, <2>3 DEF Drains, IsTurnEnd
  <2>4. \A q \in asked' : q.id = "drain" => q \in asked
    <3>1. CASE Deliver \/ Connecting \/ SocketClosed
      BY <2>1, <3>1 DEF Deliver, Receive, Connecting, SocketClosed
    <3>2. CASE Requesting
      BY <2>1, <3>2 DEF Requesting, Asking, Ask, AskedBy
    <3>3. QED
      BY <3>1, <3>2, CommandSteps
  <2>5. ASSUME NEW i \in 1 .. Len(chan'), Answering(i, "drain")', NEW answer, answer = chan'[i]
        PROVE  Drains(answer)'
    <3>1. ~Connecting
      BY <2>1 DEF Connecting
    <3>2. PICK j \in 1 .. Len(chan) : chan'[i] = chan[j]
      BY <2>5, <3>1, AnswerSteps
    <3>3. Drains(answer)
      BY <1>2, <2>1, <2>5, <3>2 DEF DrainInv, Answering
    <3>4. QED
      BY <2>3, <3>3
  <2>6. ASSUME NEW answer, answer = reply'["drain"], answer # None
        PROVE  Drains(answer)'
    <3>1. CASE answer = Failure
      BY <3>1 DEF Drains, Failure, Response
    <3>2. CASE answer = reply["drain"]
      BY <1>2, <2>1, <2>3, <2>6, <3>2 DEF DrainInv
    <3>3. CASE Answering(1, "drain") /\ 1 \in 1 .. Len(chan) /\ answer = chan[1]
      BY <1>2, <2>1, <2>3, <3>3 DEF DrainInv
    <3>4. QED
      BY <2>6, <3>1, <3>2, <3>3, ReplySteps DEF Requests
  <2>7. QED
    BY <1>1, <2>1, <2>2, <2>4, <2>5, <2>6, <1>2 DEF Drains, DrainInv
<1>6. QED
  BY <1>1, <1>3, <1>4, <1>5 DEF DrainInv

LEMMA NextDrainInv ==
  ASSUME TypeInv, Bounded, Order, OnceInv, Setup, Awaited, NoEndYet, CursorInLog, DrainInv,
         [Next]_vars
  PROVE  DrainInv'
BY PiStepDrainInv, DrainForEventDrainInv, OtherDrainInv

\* When the command is done, the turn it waited for has been printed.
Told ==
  cmd.until = "turn-end" /\ outcome = "done" /\ from # None /\ (Entries => Len(starts) = 1) =>
    Due(from + 1 .. mark) \subseteq Written

LEMMA StartsOne ==
  ASSUME TypeInv, Order, Setup, [Next]_vars, Len(starts') = 1
  PROVE  Len(starts) = 1
<1>1. CASE PiStep
  <2>1. starts' = starts \/ starts' = Append(starts, Len(log))
    BY <1>1, PiStepShape DEF Changes, Starts
  <2>2. starts \in Seq(Nat) /\ Len(starts) \in Nat \ {0} /\ Len(log) \in Nat
    BY LogLength, LenProperties DEF TypeInv, PiType
  <2>3. Len(Append(starts, Len(log))) = Len(starts) + 1
    BY <2>2, AppendProperties
  <2>4. QED
    BY <2>1, <2>2, <2>3
<1>2. CASE ~PiStep
  BY <1>2, CommandMoves
<1>3. QED
  BY <1>1, <1>2

\* Nothing that comes after the end changes what was awaited.
LEMMA ToldStays ==
  ASSUME TypeInv, Bounded, Order, OnceInv, Setup, PromptDone, Awaited, NotHandled, Concluded,
         Told, [Next]_vars,
         cmd.until = "turn-end", outcome = "done", from' # None, Entries => Len(starts) = 1
  PROVE  Due(from + 1 .. mark)' \subseteq Written'
<1>1. from' = from
  <2>1. SUFFICES ASSUME from' # from PROVE FALSE
    OBVIOUS
  <2>2. PiStep
    BY <2>1, CommandMoves
  <2>3. AskedFor("prompt") /\ due # None /\ due = turns + 1
    BY <2>1, <2>2, FromSteps DEF OnceInv
  <2>4. prompt = "sent"
    BY <2>3 DEF OnceInv, Waits, InFlight
  <2>5. Awaiting
    BY <2>3 DEF Awaiting, TypeInv, PiType
  <2>6. QED
    BY <2>4, <2>5 DEF Concluded, WasHandled
<1>2. ~WasHandled
  BY <1>1 DEF NotHandled, PromptDone, WasHandled, Answered
<1>3. ~Awaiting
  BY <1>2 DEF Concluded
<1>4. mark # None /\ pc \in Late \cup {"seed"} /\ Written \subseteq Written'
  BY <1>1, <1>3, AcceptedAt, WrittenSteps
<1>5. cmd' = cmd /\ from \in Nat /\ mark \in Nat /\ Len(log) \in Nat /\ Len(log') \in Nat
  BY <1>1, <1>4, StaysLate, LogGrows DEF TypeInv, GhostType
<1>6. Due(from + 1 .. mark) \subseteq Written
  BY <1>1 DEF Told
<1>7. CASE Entries
  <2>1. mark' = mark
    <3>1. CASE PiStep
      BY <1>3, <1>5, <3>1, PiStepShape DEF Changes, Awaiting, TypeInv, PiType, GhostType
    <3>2. CASE ~PiStep
      BY <3>2, CommandMoves
    <3>3. QED
      BY <3>1, <3>2
  <2>2. QED
    BY <1>1, <1>4, <1>5, <1>6, <1>7, <2>1 DEF Due, Entries
<1>8. CASE ~Entries
  <2>1. ASSUME NEW k \in Messages(from + 1 .. mark)'
        PROVE  k \in Messages(from + 1 .. mark)
    <3>1. k \in from' + 1 .. mark'
      BY <2>1 DEF Messages
    <3>2. from' + 1 \in Nat
      BY <1>1, <1>5
    <3>3. k \in Nat
      BY <3>1, <3>2
    <3>4. QED
      BY <1>1, <1>4, <2>1, <3>3, MarkSteps
  <2>2. QED
    BY <1>4, <1>5, <1>6, <1>8, <2>1 DEF Due, Entries
<1>9. QED
  BY <1>7, <1>8

LEMMA NextTold ==
  ASSUME TypeInv, Bounded, Order, OnceInv, Setup, PromptDone, Awaited, NoEndYet, NotHandled,
         Concluded, OnTheWay, CursorInLog, DrainInv, Told, [Next]_vars
  PROVE  Told'
<1>1. cmd' = cmd
  BY StaysLate
<1>2. SUFFICES ASSUME cmd.until = "turn-end", outcome' = "done", from' # None,
                      Entries => Len(starts') = 1
               PROVE  Due(from + 1 .. mark)' \subseteq Written'
  BY <1>1 DEF Told, Entries
<1>3. Entries => Len(starts) = 1
  BY <1>2, StartsOne
<1>4. CASE outcome = "done"
  BY <1>2, <1>3, <1>4, ToldStays
<1>5. CASE outcome # "done"
  <2>1. ~PiStep
    BY <1>2, <1>5, PiStepShape DEF Changes, CommandKeeps, loopVars
  <2>2. from' = from /\ UNCHANGED <<log, mark>>
    BY <2>1, CommandMoves
  <2>3. IsPrompt /\ (Entries \/ HasCursor) /\ (~Awaiting => mark # None)
    BY <1>2, <2>2, AcceptedAt
  <2>4. ~WasHandled
    BY <1>2, <2>2 DEF NotHandled, PromptDone, WasHandled, Answered
  <2>5. from \in Nat /\ mark \in Nat \cup {None} /\ Len(log) \in Nat
    BY <1>2, <2>2, LogLength DEF TypeInv, GhostType
  <2>6. CASE HandleEvent /\ queue # <<>> /\ UntilMetByEvent(Head(queue).event, Head(queue).state)
    <3>1. /\ Written \subseteq Written' /\ 1 \in 1 .. Len(queue) /\ Head(queue) = queue[1]
          /\ ~Entries
      BY <2>3, <2>6, HeadWritten DEF HandleEvent
    <3>2. IsTurnEnd(queue[1].event)
      BY <1>2, <2>6, <3>1 DEF UntilMetByEvent
    <3>3. \A k \in Messages(from + 1 .. mark) : k \in Written \/ QueuedIn(1 - 1, k)
      BY <1>2, <2>2, <3>1, <3>2 DEF OnTheWay
    <3>4. \A k : ~QueuedIn(1 - 1, k)
      BY DEF QueuedIn
    <3>5. QED
      BY <1>1, <2>2, <3>1, <3>3, <3>4 DEF Due, Entries, Messages
  <2>7. CASE Drained /\ pc = "drain" /\ UntilMetByEvent(event.event, event.state)
    <3>1. Entries /\ reply["drain"].ok /\ IsTurnEnd(event.event)
      BY <1>2, <2>7 DEF Drained, UntilMetByEvent, TypeInv, ModeType
    <3>2. \A k \in Nat : from < k /\ k <= mark => k \in Written'
      BY <1>2, <1>3, <2>2, <2>3, <2>7, <3>1, DrainedWrites
    <3>3. ~Awaiting
      BY <2>7, <3>1 DEF NoEndYet
    <3>4. mark \in Nat
      BY <2>3, <2>5, <3>3
    <3>5. \A k \in from + 1 .. mark : k \in Nat /\ from < k /\ k <= mark
      BY <2>5, <3>4
    <3>6. QED
      BY <1>1, <2>2, <3>1, <3>2, <3>5 DEF Due, Entries
  <2>8. ~(SourceEnded /\ cutoff = "done") /\ ~(HandleSeed /\ ~IsPrompt)
    BY <1>2, <2>3, <2>4 DEF Concluded
  <2>9. QED
    BY <1>2, <1>5, <2>6, <2>7, <2>8, OutcomeSteps
<1>6. QED
  BY <1>4, <1>5

-----------------------------------------------------------------------------
(* The invariant.                                                           *)

TurnInv ==
  /\ Setup /\ SeedComes /\ PromptDone
  /\ Awaited /\ NoEndYet /\ Busy /\ NotHandled /\ Concluded
  /\ OnTheWay /\ CursorInLog /\ DrainInv /\ Told

LEMMA InitTurn == Init => TurnInv
<1>1. SUFFICES ASSUME Init PROVE TurnInv
  OBVIOUS
<1>2. Setup /\ SeedComes
  BY <1>1, InitSetup
<1>3. /\ chan = <<>> /\ queue = <<>> /\ pc = "connect" /\ prompt = "none" /\ starts = <<0>>
      /\ due = None /\ mark = None /\ from = None /\ cutoff = None /\ outcome = None
      /\ cursor = cmd.since /\ cmd \in Commands /\ (IsPrompt => phase = "idle")
  BY <1>1 DEF Init, PiInit, ClientInit
<1>4. ~Awaiting
  BY <1>3 DEF Awaiting
<1>5. Awaited /\ PromptDone /\ NoEndYet /\ Busy /\ NotHandled
  BY <1>3, <1>4 DEF Awaited, PromptDone, NoEndYet, Busy, NotHandled, Before
<1>6. Concluded /\ Told
  BY <1>3, NoneAssumption DEF Concluded, Told
<1>7. OnTheWay
  BY <1>3 DEF OnTheWay
<1>8. CursorInLog
  BY <1>3, CommandsAssumption DEF CursorInLog, IsPrompt
<1>9. DrainInv
  BY <1>3 DEF DrainInv
<1>10. QED
  BY <1>2, <1>5, <1>6, <1>7, <1>8, <1>9 DEF TurnInv

LEMMA NextTurn ==
  ASSUME ConnectionInv, TurnInv, [Next]_vars
  PROVE  TurnInv'
<1> USE DEF ConnectionInv, TurnInv
<1>1. Setup' /\ SeedComes' /\ PromptDone'
  BY NextSetup, NextSeedComes, NextPromptDone
<1>2. Awaited' /\ NoEndYet' /\ Busy' /\ NotHandled' /\ Concluded'
  BY NextAwaited, NextNoEndYet, NextBusy, NextNotHandled, NextConcluded
<1>3. OnTheWay' /\ CursorInLog' /\ DrainInv' /\ Told'
  BY NextOnTheWay, NextCursorInLog, NextDrainInv, NextTold
<1>4. QED
  BY <1>1, <1>2, <1>3

LEMMA TurnInvTells == ConnectionInv /\ TurnInv => TurnAwaited
<1>1. SUFFICES ASSUME ConnectionInv, TurnInv,
                      pc = "done", outcome = "done", cmd.until = "turn-end"
               PROVE  /\ \/ due # None /\ turns >= due
                         \/ IsPrompt /\ (due = None \/ reply["prompt"].handled)
                      /\ from # None /\ (Entries => Len(starts) = 1) =>
                           Due(from + 1 .. mark) \subseteq Written
  BY DEF TurnAwaited
<1>2. turns \in Nat /\ due \in Nat \cup {None}
  BY <1>1 DEF ConnectionInv, TypeInv, PiType, GhostType
<1>3. ~Awaiting \/ WasHandled
  BY <1>1 DEF TurnInv, Concluded
<1>4. CASE ~Awaiting
  BY <1>1, <1>2, <1>4 DEF Awaiting, TurnInv, Awaited, Told
<1>5. CASE WasHandled
  BY <1>1, <1>5 DEF WasHandled, TurnInv, Setup, Told
<1>6. QED
  BY <1>3, <1>4, <1>5

\* A command that waits for the end of a turn is done when the turn has ended
\* that was running when it connected or that its prompt started, or when its
\* prompt was handled without one; and a prompt has then printed all that its
\* mode shows of the turn: every message, or in one session every entry
\* (runStream, streamPrompt, until.ts).
THEOREM TurnIsAwaited == Spec => []TurnAwaited
<1>1. Init => TurnInv
  BY InitTurn
<1>2. ConnectionInv /\ TurnInv /\ [Next]_vars => TurnInv'
  BY NextTurn
<1>3. ConnectionInv /\ TurnInv => TurnAwaited
  BY TurnInvTells
<1>4. QED
  BY <1>1, <1>2, <1>3, Connection, PTL DEF Spec

-----------------------------------------------------------------------------
(* The entries on their way to the command.                                 *)

IsEntry(record) == record.type \in {"message_end", "unknown"}
ComesAfter(i, k) == \E j \in i + 1 .. Len(chan) : IsEntry(chan[j]) /\ chan[j].entry = k
Coming(k) == ComesAfter(0, k)
Waiting(k) == \E j \in 1 .. Len(queue) : IsEntry(queue[j].event) /\ queue[j].event.entry = k
LogEntries == 1 .. Len(log)

\* What is on its way is the end of the log, in its order.
ChanInv ==
  /\ \A i, j \in 1 .. Len(chan) :
       i < j /\ IsEntry(chan[i]) /\ IsEntry(chan[j]) => chan[i].entry < chan[j].entry
  /\ \A i \in 1 .. Len(chan) : IsEntry(chan[i]) =>
       (chan[i].type = "message_end" <=> log[chan[i].entry] = "message")
  /\ Connected => \A m, k \in LogEntries : m < k /\ Coming(m) => Coming(k)

\* What is queued comes before it without a gap.
QueueInv ==
  /\ link = "none" => events = "none"
  /\ \A i, j \in 1 .. Len(queue) :
       i < j /\ IsEntry(queue[i].event) /\ IsEntry(queue[j].event) =>
         queue[i].event.entry < queue[j].event.entry
  /\ \A i \in 1 .. Len(queue) : IsEntry(queue[i].event) =>
       (queue[i].event.type = "message_end" <=> log[queue[i].event.entry] = "message")
  /\ \A m, k \in LogEntries : Waiting(m) /\ Coming(k) => m < k
  /\ events = "open" =>
       \A m, k \in LogEntries : m < k /\ Waiting(m) => Waiting(k) \/ Coming(k)
  /\ \A m, k, n \in LogEntries : m < k /\ k < n /\ Waiting(m) /\ Waiting(n) => Waiting(k)

\* Sessions are announced in their order.
IsSwitch(record) == record.type = "session_changed"
Known(i, s) ==
  \/ state # None /\ s <= state.session
  \/ \E j \in 1 .. i - 1 : IsSwitch(chan[j]) /\ s <= chan[j].state.session

StartsInv ==
  /\ starts[1] = 0
  /\ \A s, t \in 1 .. Len(starts) : s <= t => starts[s] <= starts[t]
  /\ \A s \in 1 .. Len(starts) : starts[s] <= Len(log)

SessionInv ==
  /\ \A i \in 1 .. Len(chan) : IsSwitch(chan[i]) =>
       /\ chan[i].state.session <= Len(starts)
       /\ state # None => state.session <= chan[i].state.session
       /\ \A j \in 1 .. Len(chan) : i < j /\ IsSwitch(chan[j]) =>
            chan[i].state.session <= chan[j].state.session
  /\ state # None => state.session <= Len(starts)
  /\ link = "up" \/ (link = "hello" /\ chan[1].type = "hello") =>
       Known(Len(chan) + 1, Len(starts))
  /\ seed # None => state # None /\ seed.session <= state.session
  /\ \A i \in 1 .. Len(queue) :
       /\ state # None /\ queue[i].state.session <= state.session
       /\ seed # None => seed.session <= queue[i].state.session
       /\ \A j \in 1 .. Len(queue) : i < j =>
            queue[i].state.session <= queue[j].state.session
  /\ Entries /\ pc \in {"next", "drain"} =>
       /\ lastSession \in 1 .. Len(starts) /\ state # None /\ lastSession <= state.session
       /\ \A i \in 1 .. Len(queue) : lastSession <= queue[i].state.session

\* S is what the log held when the answer at chan[i] was given: it is followed
\* there by what came later; i is 0 when the answer has arrived.
Follows(i, S) ==
  /\ \A m \in S, k \in LogEntries : ComesAfter(i, k) => m < k
  /\ \A m, n \in S, k \in LogEntries : m < k /\ k < n => k \in S
  /\ Connected =>
       \A m \in S, k \in LogEntries : m < k => k \in S \/ ComesAfter(i, k) \/ k \in missed
  /\ \A n \in S, s \in 1 .. Len(starts) : n > starts[s] => Known(i, s)

HistoryInv ==
  pc = "history" =>
    /\ \A i \in 1 .. Len(chan) : Answering(i, "history") => Follows(i, chan[i].entries)
    /\ reply["history"] # None => Follows(0, reply["history"].entries)

-----------------------------------------------------------------------------
(* The modes of messages and events.                                        *)

Increasing(items) ==
  \A i, j \in 1 .. Len(items) : i < j /\ items[i] # 0 /\ items[j] # 0 => items[i] < items[j]

OutputInv ==
  /\ pc \in Before => out = <<>>
  /\ pc = "history" => IsTail
  /\ ~Entries /\ ~HasCursor => out = <<>>
  /\ HasCursor =>
       /\ Increasing(out)
       /\ \A n \in Written, k \in LogEntries : Waiting(k) \/ Coming(k) => n < k
       /\ events = "open" =>
            \A m \in Written, k \in LogEntries : m < k /\ log[k] = "message" =>
              k \in Written \cup missed \/ Waiting(k) \/ Coming(k)
       /\ \A m \in Written, k, n \in LogEntries :
            m < k /\ k < n /\ (n \in Written \/ Waiting(n)) /\ log[k] = "message" =>
              k \in Written \cup missed \/ Waiting(k)

-----------------------------------------------------------------------------
(* The entries mode.                                                        *)

\* What a drain is given: the log after the cursor, or a session of it that is
\* not before the one the drain is for.
GoesOn(answer) ==
  answer.ok =>
    \E first \in 0 .. Len(log), length \in 0 .. Len(log) :
      /\ answer.entries = first + 1 .. length
      /\ \A n \in Written : n <= length
      /\ IF cursor # None THEN first = cursor
         ELSE \E s \in lastSession .. Len(starts) : first = starts[s]

EntriesOut ==
  Entries =>
    /\ \A i, j \in 1 .. Len(out) : i < j => out[i] < out[j] \/ out[i] \in early
    /\ \A m, n \in Written, k \in LogEntries :
         m < k /\ k < n /\ SameSession({m, k, n}) => k \in Written

EntriesPlace ==
  Entries =>
    /\ pc \in {"seed", "next", "drain"} /\ cursor # None =>
         /\ cursor \in Written \/ Written = {}
         /\ \A n \in Written \ early : n <= cursor
    /\ pc = "seed" =>
         /\ cursor = None => Written = {}
         /\ \A n \in Written, s \in 1 .. Len(starts) : n > starts[s] =>
              seed # None /\ s <= seed.session
    /\ pc \in {"next", "drain"} =>
         /\ cursor = None => \A n \in Written \ early : n <= starts[lastSession]
         /\ \A n \in Written \ early, s \in 1 .. Len(starts) : n > starts[s] => s <= lastSession

EntriesAsked ==
  Entries /\ pc = "drain" =>
    /\ \A q \in asked : q.id = "drain" => q.since = cursor
    /\ \A i \in 1 .. Len(chan) : Answering(i, "drain") => GoesOn(chan[i])
    /\ reply["drain"] # None => GoesOn(reply["drain"])

EntriesInv == EntriesOut /\ EntriesPlace /\ EntriesAsked

\* Nothing is asked through a socket that is closed.
ClosedInv == link = "closed" => asked = {}

StreamInv ==
  /\ ChanInv /\ QueueInv
  /\ StartsInv /\ SessionInv
  /\ ClosedInv /\ HistoryInv
  /\ OutputInv /\ EntriesInv

-----------------------------------------------------------------------------
(* The socket.                                                              *)

LEMMA ChanTypes ==
  ASSUME TypeInv, Bounded
  PROVE  /\ Len(chan) \in Nat /\ Len(queue) \in Nat /\ Len(log) \in Nat
         /\ \A i \in 1 .. Len(chan) :
              /\ chan[i] \in Events \cup Responses /\ Carries(chan[i])
              /\ IsEntry(chan[i]) => chan[i].entry \in LogEntries
         /\ \A i \in 1 .. Len(queue) :
              /\ queue[i] \in Queued /\ Carries(queue[i].event)
              /\ IsEntry(queue[i].event) => queue[i].event.entry \in LogEntries
<1>1. /\ Len(chan) \in Nat /\ Len(queue) \in Nat /\ Len(log) \in Nat
      /\ \A i \in 1 .. Len(chan) : chan[i] \in Events \cup Responses /\ Carries(chan[i])
      /\ \A i \in 1 .. Len(queue) : queue[i] \in Queued /\ Carries(queue[i].event)
  BY LenProperties, ElementOfSeq, LogLength DEF TypeInv, ClientType, Sent
<1>2. ASSUME NEW record, Carries(record), InLog(record, Len(log)), IsEntry(record)
      PROVE  record.entry \in LogEntries
  BY <1>1, <1>2, NoneAssumption DEF Carries, InLog, IsEntry, LogEntries
<1>3. QED
  BY <1>1, <1>2 DEF Bounded

\* A record of an entry is sent when the entry is appended, and then only.
LEMMA PiSendsEntries ==
  ASSUME TypeInv, Bounded, PiStep, NEW i \in 0 .. Len(chan), NEW k
  PROVE  /\ ComesAfter(i, k) => ComesAfter(i, k)'
         /\ ComesAfter(i, k)' => \/ ComesAfter(i, k)
                                 \/ log' # log /\ Len(log') = Len(log) + 1 /\ k = Len(log')
         /\ Connected /\ log' # log /\ k = Len(log') => ComesAfter(i, k)'
<1>1. Sends /\ Changes
  BY PiStepShape
<1>2. Len(chan) \in Nat /\ Len(chan') \in Nat /\ Len(chan) <= Len(chan') /\ Len(log) \in Nat
  BY <1>1, ChanTypes DEF Sends
<1>3. ASSUME ComesAfter(i, k)
      PROVE  ComesAfter(i, k)'
  BY <1>1, <1>2, <1>3 DEF ComesAfter, Sends, IsEntry
<1>4. ASSUME ComesAfter(i, k)', ~ComesAfter(i, k)
      PROVE  log' # log /\ Len(log') = Len(log) + 1 /\ k = Len(log')
  <2>1. PICK j \in i + 1 .. Len(chan') : IsEntry(chan'[j]) /\ chan'[j].entry = k
    BY <1>4 DEF ComesAfter, IsEntry
  <2>2. j \in Len(chan) + 1 .. Len(chan')
    BY <1>1, <1>2, <1>4, <2>1 DEF ComesAfter, Sends
  <2>3. IsNew(chan'[j])
    BY <1>1, <2>2 DEF Sends
  <2>4. Len(log') = Len(log) + 1 /\ k = Len(log')
    BY <2>1, <2>3 DEF IsNew, IsEntry
  <2>5. QED
    BY <1>2, <2>4
<1>5. ASSUME Connected, log' # log, k = Len(log')
      PROVE  ComesAfter(i, k)'
  <2>1. PICK j \in Len(chan) + 1 .. Len(chan') :
          chan'[j].type \in {"message_end", "unknown"} /\ chan'[j].entry = Len(log')
    BY <1>1, <1>5 DEF Changes
  <2>2. Len(log') = Len(log) + 1 /\ j \in i + 1 .. Len(chan')
    BY <1>1, <1>2, <1>5, <2>1 DEF Changes
  <2>3. QED
    BY <1>5, <2>1, <2>2 DEF ComesAfter, IsEntry
<1>6. QED
  BY <1>3, <1>4, <1>5

\* The records of the entries move up, and the first is delivered.
LEMMA DeliversEntries ==
  ASSUME TypeInv, Deliver, NEW i \in 0 .. Len(chan'), NEW k
  PROVE  /\ ComesAfter(i, k)' <=> ComesAfter(i + 1, k)
         /\ Coming(k) <=> ComesAfter(1, k) \/ (IsEntry(chan[1]) /\ chan[1].entry = k)
<1>1. Arrives
  BY ReceiveArrives DEF Deliver
<1>2. Len(chan) \in Nat /\ Len(chan) >= 1 /\ Len(chan') = Len(chan) - 1
  BY <1>1 DEF Arrives
<1>3. ASSUME ComesAfter(i, k)'
      PROVE  ComesAfter(i + 1, k)
  <2>1. PICK j \in i + 1 .. Len(chan') : IsEntry(chan'[j]) /\ chan'[j].entry = k
    BY <1>3 DEF ComesAfter, IsEntry
  <2>2. chan'[j] = chan[j + 1] /\ j + 1 \in (i + 1) + 1 .. Len(chan)
    BY <1>1, <1>2, <2>1 DEF Arrives
  <2>3. QED
    BY <2>1, <2>2 DEF ComesAfter
<1>4. ASSUME ComesAfter(i + 1, k)
      PROVE  ComesAfter(i, k)'
  <2>1. PICK j \in (i + 1) + 1 .. Len(chan) : IsEntry(chan[j]) /\ chan[j].entry = k
    BY <1>4 DEF ComesAfter
  <2>2. j - 1 \in i + 1 .. Len(chan') /\ j - 1 \in 1 .. Len(chan')
    BY <1>2, <2>1
  <2>3. chan'[j - 1] = chan[(j - 1) + 1] /\ (j - 1) + 1 = j
    BY <1>1, <2>1, <2>2 DEF Arrives
  <2>4. QED
    BY <2>1, <2>2, <2>3 DEF ComesAfter, IsEntry
<1>5. Coming(k) <=> ComesAfter(1, k) \/ (IsEntry(chan[1]) /\ chan[1].entry = k)
  <2>1. 0 + 1 .. Len(chan) = (1 + 1 .. Len(chan)) \cup {1}
    BY <1>2
  <2>2. QED
    BY <2>1 DEF Coming, ComesAfter
<1>6. QED
  BY <1>3, <1>4, <1>5

LEMMA ConnectSendsNoEntry ==
  ASSUME Connect, NEW i \in 1 .. Len(chan')
  PROVE  ~IsEntry(chan'[i])
BY ConnectSends DEF IsEntry, Event

LEMMA PiStepOnly ==
  ASSUME [Next]_vars, ~PiStep
  PROVE  UNCHANGED <<server, log, starts, phase, turns>>
BY DEF Next, PiStep, Coroutine, Connecting, GiveUpConnecting, HelloRead, HistoryAnswered,
       LeafAnswered, NowSubscribed, NowCursor, HandleSeed, HandleEvent, DrainForEvent, Drained,
       SourceEnded, FinishAfterStop, Return, PromptAnswered, TimerFires, Deliver, PiClosesSocket,
       piVars, vars

LEMMA NextChanInv ==
  ASSUME TypeInv, Bounded, Order, ChanInv, [Next]_vars
  PROVE  ChanInv'
<1>1. Len(chan) \in Nat /\ Len(log) \in Nat
  BY ChanTypes
<1>2. CASE PiStep
  <2>1. Sends /\ Changes /\ link' = link
    BY <1>2, PiStepShape DEF Changes, CommandKeeps
  <2>2. Len(chan') \in Nat /\ Len(chan) <= Len(chan') /\ Len(log') \in {Len(log), Len(log) + 1}
    BY <2>1 DEF Sends, Changes
  <2>3. ASSUME NEW i \in Len(chan) + 1 .. Len(chan'), IsEntry(chan'[i])
        PROVE  /\ Len(log') = Len(log) + 1 /\ chan'[i].entry = Len(log')
               /\ chan'[i].type = "message_end" <=> log'[chan'[i].entry] = "message"
    BY <2>1, <2>3 DEF Sends, IsNew, IsEntry
  <2>4. ASSUME NEW i \in 1 .. Len(chan'), NEW j \in 1 .. Len(chan'), i < j,
               IsEntry(chan'[i]), IsEntry(chan'[j])
        PROVE  chan'[i].entry < chan'[j].entry
    <3>1. CASE j \in 1 .. Len(chan)
      <4>1. i \in 1 .. Len(chan)
        BY <1>1, <2>4, <3>1
      <4>2. QED
        BY <2>1, <2>4, <3>1, <4>1 DEF ChanInv, Sends
    <3>2. CASE j \in Len(chan) + 1 .. Len(chan')
      <4>1. i \notin Len(chan) + 1 .. Len(chan')
        BY <2>1, <2>4, <3>2 DEF Sends, IsEntry
      <4>2. i \in 1 .. Len(chan) /\ chan'[i] = chan[i]
        BY <1>1, <2>1, <2>2, <2>4, <4>1 DEF Sends
      <4>3. chan[i].entry \in 1 .. Len(log)
        BY <2>4, <4>2, ChanTypes DEF LogEntries
      <4>4. QED
        BY <1>1, <2>3, <2>4, <3>2, <4>2, <4>3
    <3>3. QED
      BY <1>1, <2>2, <2>4, <3>1, <3>2
  <2>5. ASSUME NEW i \in 1 .. Len(chan'), IsEntry(chan'[i])
        PROVE  chan'[i].type = "message_end" <=> log'[chan'[i].entry] = "message"
    <3>1. CASE i \in 1 .. Len(chan)
      <4>1. chan'[i] = chan[i] /\ chan[i].entry \in 1 .. Len(log)
        BY <2>1, <2>5, <3>1, ChanTypes DEF Sends, LogEntries
      <4>2. log'[chan[i].entry] = log[chan[i].entry]
        BY <2>1, <4>1 DEF Changes
      <4>3. QED
        BY <2>5, <3>1, <4>1, <4>2 DEF ChanInv
    <3>2. CASE i \in Len(chan) + 1 .. Len(chan')
      BY <2>3, <2>5, <3>2
    <3>3. QED
      BY <1>1, <2>2, <2>5, <3>1, <3>2
  <2>6. ASSUME Connected, NEW m \in 1 .. Len(log'), NEW k \in 1 .. Len(log'), m < k, Coming(m)'
        PROVE  Coming(k)'
    <3>1. 0 \in 0 .. Len(chan)
      BY <1>1
    <3>2. CASE log' # log /\ k = Len(log')
      BY <1>2, <2>6, <3>1, <3>2, PiSendsEntries DEF Coming
    <3>3. CASE ~(log' # log /\ k = Len(log'))
      <4>1. m \in LogEntries /\ k \in LogEntries /\ ~(log' # log /\ m = Len(log'))
        BY <1>1, <2>1, <2>6, <3>3 DEF LogEntries, Changes
      <4>2. Coming(m)
        BY <1>2, <2>6, <3>1, <4>1, PiSendsEntries DEF Coming
      <4>3. Coming(k)
        BY <2>6, <4>1, <4>2 DEF ChanInv
      <4>4. QED
        BY <1>2, <3>1, <4>3, PiSendsEntries DEF Coming
    <3>4. QED
      BY <3>2, <3>3
  <2>7. QED
    BY <2>1, <2>4, <2>5, <2>6 DEF ChanInv, Connected, LogEntries, IsEntry
<1>3. CASE Deliver
  <2>1. Arrives /\ log' = log /\ link' \in {link, "up", "closed"} /\ Connected
    BY <1>3, ReceiveArrives DEF Deliver, Receive, piVars
  <2>2. \A i \in 1 .. Len(chan') : chan'[i] = chan[i + 1] /\ i + 1 \in 1 .. Len(chan)
    BY <2>1 DEF Arrives
  <2>3. ASSUME NEW m \in LogEntries, NEW k \in LogEntries, m < k, Coming(m)'
        PROVE  Coming(k)'
    <3>1. 0 \in 0 .. Len(chan') /\ Len(chan') = Len(chan) - 1 /\ 1 \in 1 .. Len(chan)
      BY <1>1, <2>1 DEF Arrives
    <3>2. ComesAfter(1, m) /\ Coming(m)
      BY <1>3, <2>3, <3>1, DeliversEntries DEF Coming
    <3>3. Coming(k)
      BY <2>1, <2>3, <3>2 DEF ChanInv
    <3>4. ~(IsEntry(chan[1]) /\ chan[1].entry = k)
      <4>1. PICK j \in 1 + 1 .. Len(chan) : IsEntry(chan[j]) /\ chan[j].entry = m
        BY <3>2 DEF ComesAfter
      <4>2. IsEntry(chan[1]) => chan[1].entry < m
        BY <1>1, <3>1, <4>1 DEF ChanInv
      <4>3. QED
        BY <1>1, <2>3, <4>2 DEF LogEntries
    <3>5. QED
      BY <1>3, <3>1, <3>3, <3>4, DeliversEntries DEF Coming
  <2>4. ASSUME NEW i \in 1 .. Len(chan'), NEW j \in 1 .. Len(chan'), i < j,
               IsEntry(chan'[i]), IsEntry(chan'[j])
        PROVE  chan'[i].entry < chan'[j].entry
    BY <1>1, <2>2, <2>4, SMTT(30) DEF ChanInv
  <2>5. QED
    BY <2>1, <2>2, <2>3, <2>4 DEF ChanInv, LogEntries, IsEntry
<1>4. CASE Connecting
  <2>1. (UNCHANGED <<log, chan>> /\ (Connected' => Connected)) \/ Connect
    BY <1>4 DEF Connecting, ConnectRefused, piVars, Connected
  <2>2. CASE Connect
    BY <2>2, ConnectSendsNoEntry DEF ChanInv, Coming, ComesAfter, IsEntry
  <2>3. CASE UNCHANGED <<log, chan>> /\ (Connected' => Connected)
    BY <2>3 DEF ChanInv, Coming, ComesAfter, LogEntries, IsEntry
  <2>4. QED
    BY <2>1, <2>2, <2>3
<1>5. CASE SocketClosed
  BY <1>5, EmptySeq DEF SocketClosed, ChanInv, Connected
<1>6. CASE UNCHANGED <<link, chan, state>> /\ ~PiStep
  <2>1. log' = log
    BY <1>6, PiStepOnly
  <2>2. QED
    BY <1>6, <2>1 DEF ChanInv, Coming, ComesAfter, LogEntries, IsEntry, Connected
<1>7. QED
  BY <1>2, <1>3, <1>4, <1>5, <1>6, CommandSteps

-----------------------------------------------------------------------------
(* The queue.                                                               *)

\* A queue is opened once, when it is empty, over a socket that is not closed.
LEMMA EventsSteps ==
  ASSUME TypeInv, Order, Setup, [Next]_vars
  PROVE  /\ events' = "open" =>
              \/ events = "open"
              \/ /\ HelloRead \/ HistoryAnswered \/ LeafAnswered
                 /\ events = "none" /\ queue = <<>> /\ link # "closed" /\ seed' = state
                 /\ UNCHANGED <<queue, link, chan, state>>
         /\ link = "none" => events' = events
<1> USE DEF Coroutine
<1>1. CASE PiStep
  BY <1>1 DEF PiStep, PiWorks, PiMay, PiReplies, PiTakesPrompt, CommandKeeps
<1>2. CASE Connecting \/ GiveUpConnecting
  BY <1>2 DEF Connecting, GiveUpConnecting, clientVars, ConnectRefused, Connect
<1>3. CASE HelloRead \/ HistoryAnswered \/ LeafAnswered
  <2>1. pc \in Before /\ pc # "connect"
    BY <1>3 DEF HelloRead, HistoryAnswered, LeafAnswered, Before
  <2>2. events = "none" /\ queue = <<>> /\ link # "none"
    BY <2>1 DEF Setup, Before
  <2>3. events' = "open" => link # "closed" /\ seed' = state /\ ClientKeeps
    BY <1>3, <2>2 DEF HelloRead, HistoryAnswered, LeafAnswered, SubscribeTo, Subscribe,
                      clientVars
  <2>4. QED
    BY <1>3, <2>2, <2>3 DEF ClientKeeps
<1>4. CASE NowSubscribed \/ NowCursor \/ SourceEnded \/ FinishAfterStop \/ Return
  <2>1. CASE NowSubscribed
    BY <2>1 DEF NowSubscribed, clientVars, Setup
  <2>2. CASE NowCursor \/ SourceEnded \/ FinishAfterStop \/ Return
    BY <2>2 DEF NowCursor, SourceEnded, FinishAfterStop, Return, clientVars
  <2>3. QED
    BY <1>4, <2>1, <2>2
<1>5. CASE HandleSeed \/ HandleEvent \/ DrainForEvent \/ Drained
  BY <1>5 DEF HandleSeed, HandleEvent, DrainForEvent, Drained, StopAt, Proceed, clientVars, Setup,
              Before
<1>6. CASE PromptAnswered \/ TimerFires
  BY <1>6 DEF PromptAnswered, TimerFires, EstablishSourceCutoff, SocketClosed, clientVars, Setup,
              Over, Before
<1>7. CASE Deliver \/ PiClosesSocket
  BY <1>7 DEF Deliver, PiClosesSocket, Receive, SocketClosed, Connected
<1>8. CASE UNCHANGED vars
  BY <1>8 DEF vars, clientVars
<1>9. QED
  BY <1>1, <1>2, <1>3, <1>4, <1>5, <1>6, <1>7, <1>8 DEF Next, PiStep

LEMMA OpenIsConnected ==
  ASSUME TypeInv, Setup, QueueInv, events = "open"
  PROVE  Connected /\ link = "up"
BY DEF TypeInv, ClientType, Setup, QueueInv, Connected, Before

\* While the queue is open no record of an entry is dropped.
LEMMA EntryIsQueued ==
  ASSUME TypeInv, Setup, SeedComes, QueueInv, Deliver, events = "open", IsEntry(chan[1])
  PROVE  /\ Len(queue') = Len(queue) + 1 /\ queue'[Len(queue')].event = chan[1]
         /\ \A i \in 1 .. Len(queue) : queue'[i] = queue[i]
<1>1. Receive /\ Arrives /\ link = "up" /\ Len(queue) \in Nat
  BY ReceiveArrives, OpenIsConnected, LenProperties DEF Deliver, TypeInv, ClientType
<1>2. state # None /\ chan[1].type # "response" /\ Head(chan) = chan[1]
  BY <1>1 DEF SeedComes, IsEntry, Arrives
<1>3. DispatchLine(chan[1])
  BY <1>1, <1>2 DEF Receive
<1>4. queue' = Append(queue, [event |-> chan[1], state |-> state'])
  BY <1>2, <1>3 DEF DispatchLine
<1>5. chan[1] \in Events /\ state' \in States
  BY <1>1, <1>2, <1>3, NextSessionStateType
     DEF Arrives, Responses, DispatchLine, TypeInv, ClientType
<1>6. [event |-> chan[1], state |-> state'] \in Queued
  BY <1>5 DEF Queued
<1>7. queue \in Seq(Queued)
  BY DEF TypeInv, ClientType
<1>8. QED
  BY <1>1, <1>4, <1>6, <1>7, AppendProperties

\* The queue is what it was, without its head, empty, or with the first record.
LEMMA WaitingSteps ==
  ASSUME TypeInv, Bounded, Order, Setup, SeedComes, QueueInv, ChanInv, [Next]_vars, NEW k
  PROVE  /\ Waiting(k)' => \/ Waiting(k)
                           \/ /\ Deliver /\ events = "open" /\ IsEntry(chan[1])
                              /\ k = chan[1].entry
         /\ Waiting(k) => \/ Waiting(k)'
                          \/ queue' = <<>>
                          \/ /\ queue # <<>> /\ queue' = Tail(queue) /\ k = queue[1].event.entry
                             /\ IsEntry(queue[1].event) /\ ~Deliver
         /\ Deliver /\ events = "open" /\ IsEntry(chan[1]) /\ k = chan[1].entry => Waiting(k)'
<1>1. Len(queue) \in Nat
  BY ChanTypes
<1>2. CASE (PiStep \/ Connecting) /\ ~Deliver
  <2>1. queue' = queue
    BY <1>2, PiStepShape DEF Changes, CommandKeeps, Connecting, ConnectRefused, Connect
  <2>2. QED
    BY <1>2, <2>1 DEF Waiting, IsEntry
<1>3. CASE Deliver
  <2>1. Receive /\ 1 \in 1 .. Len(chan)
    BY <1>3, ReceiveArrives DEF Deliver, Arrives
  <2>2. CASE queue' = queue
    <3>1. ~(events = "open" /\ IsEntry(chan[1]))
      BY <1>1, <1>3, <2>2, EntryIsQueued
    <3>2. QED
      BY <2>2, <3>1 DEF Waiting, IsEntry
  <2>3. CASE /\ events = "open" /\ Len(queue') = Len(queue) + 1
             /\ queue'[Len(queue')].event = chan[1]
             /\ \A i \in 1 .. Len(queue) : queue'[i] = queue[i]
    <3>1. 1 .. Len(queue') = (1 .. Len(queue)) \cup {Len(queue')}
      BY <1>1, <2>3
    <3>2. Waiting(k)' <=> Waiting(k) \/ (IsEntry(chan[1]) /\ chan[1].entry = k)
      BY <2>3, <3>1 DEF Waiting, IsEntry
    <3>3. QED
      BY <1>3, <2>3, <3>2
  <2>4. QED
    BY <2>1, <2>2, <2>3, ReceiveQueues
<1>4. CASE ~PiStep /\ ~Connecting /\ ~Deliver
  <2>1. queue' \in {queue, <<>>} \/ (queue # <<>> /\ queue' = Tail(queue))
    BY <1>4, CommandMoves
  <2>2. CASE queue' = queue
    BY <1>4, <2>2 DEF Waiting, IsEntry
  <2>3. CASE queue' = <<>>
    BY <1>4, <2>3, EmptySeq DEF Waiting, IsEntry
  <2>4. CASE queue # <<>> /\ queue' = Tail(queue)
    <3>1. /\ Len(queue') = Len(queue) - 1 /\ 1 \in 1 .. Len(queue)
          /\ \A i \in 1 .. Len(queue') : queue'[i] = queue[i + 1]
      BY <2>4, QueueTail DEF TypeInv
    <3>2. Waiting(k)' => Waiting(k)
      BY <1>1, <3>1 DEF Waiting, IsEntry
    <3>3. ASSUME Waiting(k), ~Waiting(k)'
          PROVE  IsEntry(queue[1].event) /\ k = queue[1].event.entry
      <4>1. PICK j \in 1 .. Len(queue) : IsEntry(queue[j].event) /\ queue[j].event.entry = k
        BY <3>3 DEF Waiting
      <4>2. CASE j = 1
        BY <4>1, <4>2
      <4>3. CASE j # 1
        <5>1. j - 1 \in 1 .. Len(queue') /\ (j - 1) + 1 = j
          BY <1>1, <3>1, <4>3
        <5>2. queue'[j - 1] = queue[j]
          BY <3>1, <5>1
        <5>3. QED
          BY <3>3, <4>1, <5>1, <5>2 DEF Waiting, IsEntry
      <4>4. QED
        BY <4>2, <4>3
    <3>4. QED
      BY <1>4, <2>4, <3>2, <3>3
  <2>5. QED
    BY <2>1, <2>2, <2>3, <2>4
<1>5. QED
  BY <1>2, <1>3, <1>4

LEMMA ComingSteps ==
  ASSUME TypeInv, Bounded, Order, Setup, ChanInv, [Next]_vars, NEW k
  PROVE  /\ Coming(k)' => \/ Coming(k)
                          \/ PiStep /\ log' # log /\ Len(log') = Len(log) + 1 /\ k = Len(log')
         /\ Coming(k) => \/ Coming(k)'
                         \/ Deliver /\ IsEntry(chan[1]) /\ k = chan[1].entry
                         \/ SocketClosed
         /\ PiStep /\ Connected /\ log' # log /\ k = Len(log') => Coming(k)'
         /\ Deliver /\ IsEntry(chan[1]) => /\ Coming(chan[1].entry)
                                           /\ Coming(k)' => chan[1].entry < k
<1>1. Len(chan) \in Nat /\ 0 \in 0 .. Len(chan)
  BY ChanTypes
<1>2. CASE PiStep /\ ~Deliver
  BY <1>1, <1>2, PiSendsEntries DEF Coming
<1>3. CASE Deliver
  <2>1. 1 \in 1 .. Len(chan) /\ Len(chan') = Len(chan) - 1
    BY <1>3, ReceiveArrives DEF Deliver, Arrives
  <2>2. 0 \in 0 .. Len(chan') /\ ~PiStep
    <3>1. PiStep => Len(chan) <= Len(chan')
      BY PiStepShape DEF Sends
    <3>2. QED
      BY <1>1, <2>1, <3>1
  <2>3. Coming(k)' <=> ComesAfter(1, k)
    BY <1>3, <2>2, DeliversEntries DEF Coming
  <2>4. Coming(k) <=> ComesAfter(1, k) \/ (IsEntry(chan[1]) /\ chan[1].entry = k)
    BY <1>3, <2>2, DeliversEntries
  <2>5. IsEntry(chan[1]) => Coming(chan[1].entry)
    BY <2>1 DEF Coming, ComesAfter
  <2>6. ASSUME IsEntry(chan[1]), ComesAfter(1, k)
        PROVE  chan[1].entry < k
    <3>1. PICK j \in 1 + 1 .. Len(chan) : IsEntry(chan[j]) /\ chan[j].entry = k
      BY <2>6 DEF ComesAfter
    <3>2. QED
      BY <1>1, <2>1, <2>6, <3>1 DEF ChanInv
  <2>7. QED
    BY <1>3, <2>2, <2>3, <2>4, <2>5, <2>6
<1>4. CASE ~PiStep /\ ~Deliver
  <2>1. CASE Connecting
    <3>1. CASE chan' = chan
      BY <1>4, <3>1 DEF Coming, ComesAfter, IsEntry
    <3>2. CASE Connect
      <4>1. pc = "connect"
        BY <2>1 DEF Connecting
      <4>2. ~Coming(k)
        BY <4>1, EmptySeq DEF Setup, Coming, ComesAfter
      <4>3. ~Coming(k)'
        BY <3>2, ConnectSendsNoEntry DEF Coming, ComesAfter, IsEntry
      <4>4. QED
        BY <1>4, <4>2, <4>3
    <3>3. QED
      BY <2>1, <3>1, <3>2 DEF Connecting, ConnectRefused
  <2>2. CASE SocketClosed
    BY <1>4, <2>2, EmptySeq DEF SocketClosed, Coming, ComesAfter
  <2>3. CASE chan' = chan
    BY <1>4, <2>3 DEF Coming, ComesAfter, IsEntry
  <2>4. QED
    BY <1>4, <2>1, <2>2, <2>3, CommandSteps
<1>5. QED
  BY <1>2, <1>3, <1>4

LEMMA DeliverWaits ==
  ASSUME TypeInv, Bounded, Deliver, NEW k, Waiting(k)
  PROVE  Waiting(k)'
<1>1. PICK j \in 1 .. Len(queue) : IsEntry(queue[j].event) /\ queue[j].event.entry = k
  BY DEF Waiting
<1>2. j \in 1 .. Len(queue') /\ queue'[j] = queue[j]
  BY <1>1, ReceiveQueues, ChanTypes DEF Deliver
<1>3. QED
  BY <1>1, <1>2 DEF Waiting, IsEntry

\* What is left in the queue comes after what is taken.
LEMMA RestIsLater ==
  ASSUME TypeInv, Bounded, QueueInv, queue # <<>>, queue' = Tail(queue),
         IsEntry(queue[1].event), NEW m, Waiting(m)'
  PROVE  queue[1].event.entry < m
<1>1. /\ Len(queue') = Len(queue) - 1 /\ 1 \in 1 .. Len(queue) /\ Len(queue) \in Nat
      /\ \A i \in 1 .. Len(queue') : queue'[i] = queue[i + 1]
  BY QueueTail, ChanTypes DEF TypeInv
<1>2. PICK j \in 1 .. Len(queue') : IsEntry(queue'[j].event) /\ queue'[j].event.entry = m
  BY DEF Waiting, IsEntry
<1>3. queue'[j] = queue[j + 1] /\ j + 1 \in 1 .. Len(queue) /\ 1 < j + 1
  BY <1>1, <1>2
<1>4. QED
  BY <1>1, <1>2, <1>3 DEF QueueInv

LEMMA NextQueueOrder ==
  ASSUME TypeInv, Bounded, Order, Setup, SeedComes, ChanInv, QueueInv, [Next]_vars
  PROVE  /\ \A i, j \in 1 .. Len(queue') :
              i < j /\ IsEntry(queue'[i].event) /\ IsEntry(queue'[j].event) =>
                queue'[i].event.entry < queue'[j].event.entry
         /\ \A i \in 1 .. Len(queue') : IsEntry(queue'[i].event) =>
              (queue'[i].event.type = "message_end" <=> log'[queue'[i].event.entry] = "message")
<1>1. Len(queue) \in Nat /\ Len(log) \in Nat /\ Len(chan) \in Nat
  BY ChanTypes
<1>2. \A n \in LogEntries : log'[n] = log[n]
  <2>1. CASE PiStep
    BY <2>1, PiStepShape DEF Changes, LogEntries
  <2>2. CASE ~PiStep
    BY <2>2, PiStepOnly
  <2>3. QED
    BY <2>1, <2>2
<1>3. CASE queue' = queue
  BY <1>2, <1>3, ChanTypes DEF QueueInv
<1>4. CASE queue' = <<>>
  BY <1>4, EmptySeq
<1>5. CASE queue # <<>> /\ queue' = Tail(queue)
  <2>1. \A i \in 1 .. Len(queue') : queue'[i] = queue[i + 1] /\ i + 1 \in 1 .. Len(queue)
    BY <1>1, <1>5, QueueTail DEF TypeInv
  <2>2. ASSUME NEW i \in 1 .. Len(queue'), NEW j \in 1 .. Len(queue'), i < j,
               IsEntry(queue'[i].event), IsEntry(queue'[j].event)
        PROVE  queue'[i].event.entry < queue'[j].event.entry
    <3>1. i + 1 \in 1 .. Len(queue) /\ j + 1 \in 1 .. Len(queue) /\ i + 1 < j + 1
      BY <2>1, <2>2
    <3>2. QED
      BY <2>1, <2>2, <3>1 DEF QueueInv
  <2>3. QED
    BY <1>2, <2>1, <2>2, ChanTypes, SMTT(30) DEF QueueInv
<1>6. CASE /\ Deliver /\ chan[1].type # "response" /\ events = "open"
           /\ Len(queue') = Len(queue) + 1 /\ queue'[Len(queue')].event = chan[1]
           /\ \A i \in 1 .. Len(queue) : queue'[i] = queue[i]
  <2>1. 1 \in 1 .. Len(chan) /\ (IsEntry(chan[1]) => chan[1].entry \in LogEntries)
    BY <1>1, <1>6, ReceiveArrives, ChanTypes DEF Deliver, Arrives
  <2>2. \A i \in 1 .. Len(queue') : i \in 1 .. Len(queue) \/ i = Len(queue')
    BY <1>1, <1>6
  <2>3. ASSUME NEW i \in 1 .. Len(queue'), NEW j \in 1 .. Len(queue'), i < j,
               IsEntry(queue'[i].event), IsEntry(queue'[j].event)
        PROVE  queue'[i].event.entry < queue'[j].event.entry
    <3>1. i \in 1 .. Len(queue)
      BY <1>1, <1>6, <2>3
    <3>2. CASE j \in 1 .. Len(queue)
      BY <1>6, <2>3, <3>1, <3>2 DEF QueueInv
    <3>3. CASE j = Len(queue')
      <4>1. Coming(chan[1].entry) /\ chan[1].entry \in LogEntries
        BY <1>6, <2>1, <2>3, <3>3, ComingSteps
      <4>2. Waiting(queue[i].event.entry) /\ queue[i].event.entry \in LogEntries
        BY <1>6, <2>3, <3>1, ChanTypes DEF Waiting
      <4>3. queue[i].event.entry < chan[1].entry
        BY <4>1, <4>2 DEF QueueInv
      <4>4. QED
        BY <1>6, <3>1, <3>3, <4>3
    <3>4. QED
      BY <2>2, <3>2, <3>3
  <2>4. ASSUME NEW i \in 1 .. Len(queue'), IsEntry(queue'[i].event)
        PROVE  queue'[i].event.type = "message_end" <=>
                 log'[queue'[i].event.entry] = "message"
    <3>1. CASE i \in 1 .. Len(queue)
      BY <1>2, <1>6, <2>4, <3>1, ChanTypes DEF QueueInv
    <3>2. CASE i = Len(queue')
      BY <1>2, <1>6, <2>1, <2>4, <3>2 DEF ChanInv
    <3>3. QED
      BY <2>2, <3>1, <3>2
  <2>5. QED
    BY <2>3, <2>4
<1>7. QED
  <2>1. CASE Deliver
    BY <1>3, <1>6, <2>1, ReceiveQueues DEF Deliver
  <2>2. CASE Connecting \/ PiStep
    BY <1>3, <2>2, PiStepShape DEF Changes, CommandKeeps, Connecting, ConnectRefused, Connect
  <2>3. CASE ~Deliver /\ ~Connecting /\ ~PiStep
    BY <1>3, <1>4, <1>5, <2>3, CommandMoves
  <2>4. QED
    BY <2>1, <2>2, <2>3

\* What waits goes on waiting, in front of what is asked about, if any does.
LEMMA WaitsOn ==
  ASSUME TypeInv, Bounded, Order, Setup, SeedComes, ChanInv, QueueInv, [Next]_vars,
         NEW m, NEW k \in Nat, Waiting(m)', NEW i \in Nat, i = m, i < k, Waiting(k)
  PROVE  Waiting(k)'
<1>1. queue' # <<>>
  BY EmptySeq DEF Waiting
<1>2. ASSUME queue # <<>>, queue' = Tail(queue), IsEntry(queue[1].event),
             k = queue[1].event.entry
      PROVE  FALSE
  BY <1>2, RestIsLater
<1>3. QED
  BY <1>1, <1>2, WaitingSteps

LEMMA InTheLog ==
  ASSUME TypeInv, Bounded, NEW k, Waiting(k) \/ Coming(k)
  PROVE  k \in LogEntries
<1>1. Len(chan) \in Nat
  BY ChanTypes
<1>2. 0 + 1 .. Len(chan) = 1 .. Len(chan)
  OBVIOUS
<1>3. QED
  BY <1>2, ChanTypes DEF Waiting, Coming, ComesAfter

LEMMA NextLog ==
  ASSUME TypeInv, Order, Setup, [Next]_vars
  PROVE  /\ Len(log) \in Nat /\ Len(log') \in Nat /\ LogEntries \subseteq LogEntries'
         /\ ~PiStep => log' = log
         /\ \A n \in LogEntries : log'[n] = log[n]
         /\ \A k \in LogEntries' : \/ k \in LogEntries
                                   \/ /\ PiStep /\ log' # log
                                      /\ k = Len(log') /\ Len(log') = Len(log) + 1
<1>1. CASE PiStep
  BY <1>1, PiStepShape, LogLength DEF Changes, LogEntries
<1>2. CASE ~PiStep
  BY <1>2, PiStepOnly, LogLength DEF LogEntries
<1>3. QED
  BY <1>1, <1>2

LEMMA NextQueueInv ==
  ASSUME TypeInv, Bounded, Order, Setup, SeedComes, ChanInv, QueueInv, [Next]_vars
  PROVE  QueueInv'
<1>1. /\ Len(log) \in Nat /\ Len(log') \in Nat /\ LogEntries \subseteq LogEntries'
      /\ \A k \in LogEntries' : \/ k \in LogEntries
                                \/ /\ PiStep /\ log' # log
                                   /\ k = Len(log') /\ Len(log') = Len(log) + 1
  BY NextLog
<1>2. link' = "none" => events' = "none"
  <2>1. link' = "none" => link = "none"
    BY CommandSteps, PiStepShape
       DEF Changes, CommandKeeps, Deliver, Receive, Connecting, ConnectRefused, Connect,
           SocketClosed
  <2>2. QED
    BY <2>1, EventsSteps DEF QueueInv
<1>3. ASSUME NEW m \in LogEntries', NEW k \in LogEntries', Waiting(m)', Coming(k)'
      PROVE  m < k
  <2>1. CASE Waiting(m)
    <3>1. m \in LogEntries
      BY <2>1, InTheLog
    <3>2. CASE Coming(k)
      BY <2>1, <3>1, <3>2, InTheLog DEF QueueInv
    <3>3. CASE Len(log') = Len(log) + 1 /\ k = Len(log')
      BY <1>1, <3>1, <3>3 DEF LogEntries
    <3>4. QED
      BY <1>3, <3>2, <3>3, ComingSteps
  <2>2. CASE Deliver /\ events = "open" /\ IsEntry(chan[1]) /\ m = chan[1].entry
    BY <1>3, <2>2, ComingSteps
  <2>3. QED
    BY <1>3, <2>1, <2>2, WaitingSteps
<1>4. ASSUME events' = "open", NEW m \in LogEntries', NEW k \in LogEntries', m < k, Waiting(m)'
      PROVE  Waiting(k)' \/ Coming(k)'
  <2>1. m \in Nat /\ k \in Nat
    BY <1>1 DEF LogEntries
  <2>2. events = "open"
    BY <1>4, EmptySeq, EventsSteps DEF Waiting
  <2>3. Connected /\ link = "up"
    BY <2>2, OpenIsConnected
  <2>4. ~SocketClosed
    BY <1>4 DEF SocketClosed
  <2>5. CASE k \in LogEntries /\ (Waiting(k) \/ Coming(k))
    <3>1. CASE Waiting(k)
      BY <1>4, <2>1, <3>1, WaitsOn
    <3>2. CASE Coming(k)
      BY <2>2, <2>4, <3>2, ComingSteps, WaitingSteps
    <3>3. QED
      BY <2>5, <3>1, <3>2
  <2>6. CASE k \notin LogEntries
    BY <1>1, <2>3, <2>6, ComingSteps
  <2>7. CASE k \in LogEntries /\ ~Waiting(k) /\ ~Coming(k)
    <3>1. CASE Waiting(m)
      BY <1>4, <2>2, <2>7, <3>1, InTheLog DEF QueueInv
    <3>2. CASE Deliver /\ IsEntry(chan[1]) /\ m = chan[1].entry
      <4>1. Coming(m)
        BY <3>2, ComingSteps
      <4>2. QED
        BY <1>4, <2>3, <2>7, <4>1, InTheLog DEF ChanInv
    <3>3. QED
      BY <1>4, <3>1, <3>2, WaitingSteps
  <2>8. QED
    BY <2>5, <2>6, <2>7
<1>5. ASSUME NEW m \in LogEntries', NEW k \in LogEntries', NEW n \in LogEntries',
             m < k, k < n, Waiting(m)', Waiting(n)'
      PROVE  Waiting(k)'
  <2>1. m \in Nat /\ k \in Nat /\ n \in Nat
    BY <1>1 DEF LogEntries
  <2>2. ASSUME Waiting(k)
        PROVE  Waiting(k)'
    BY <1>5, <2>1, <2>2, WaitsOn
  <2>3. CASE Waiting(m) /\ Waiting(n)
    <3>1. m \in LogEntries /\ n \in LogEntries
      BY <2>3, InTheLog
    <3>2. k \in LogEntries
      BY <1>1, <1>5, <2>1, <3>1 DEF LogEntries
    <3>3. QED
      BY <1>5, <2>2, <2>3, <3>1, <3>2 DEF QueueInv
  <2>4. CASE Waiting(m) /\ Deliver /\ events = "open" /\ IsEntry(chan[1]) /\ n = chan[1].entry
    <3>1. Coming(n) /\ m \in LogEntries /\ n \in LogEntries
      BY <2>4, ComingSteps, InTheLog
    <3>2. k \in LogEntries
      BY <1>1, <1>5, <2>1, <3>1 DEF LogEntries
    <3>3. Waiting(k) \/ Coming(k)
      BY <1>5, <2>4, <3>1, <3>2 DEF QueueInv
    <3>4. ~SocketClosed
      BY <2>4, OpenIsConnected DEF SocketClosed, Deliver, Receive
    <3>5. ~Coming(k)
      BY <1>5, <2>1, <2>4, <3>4, ComingSteps
    <3>6. QED
      BY <2>2, <3>3, <3>5
  <2>5. CASE Deliver /\ IsEntry(chan[1]) /\ m = chan[1].entry
    <3>1. Coming(m) /\ m \in LogEntries
      BY <2>5, ComingSteps, InTheLog
    <3>2. CASE Waiting(n)
      <4>1. n \in LogEntries /\ n < m
        BY <3>1, <3>2, InTheLog DEF QueueInv
      <4>2. QED
        BY <1>5, <2>1, <4>1
    <3>3. CASE n = chan[1].entry
      BY <1>5, <2>1, <2>5, <3>3
    <3>4. QED
      BY <1>5, <3>2, <3>3, WaitingSteps
  <2>6. QED
    BY <1>5, <2>3, <2>4, <2>5, WaitingSteps
<1>6. QED
  BY <1>2, <1>3, <1>4, <1>5, NextQueueOrder DEF QueueInv, IsEntry

-----------------------------------------------------------------------------
(* The sessions.                                                            *)

LEMMA NextStarts ==
  ASSUME TypeInv, Order, Setup, [Next]_vars
  PROVE  /\ starts \in Seq(Nat) /\ Len(starts) \in Nat \ {0} /\ Len(starts') \in Nat \ {0}
         /\ Len(starts) <= Len(starts')
         /\ \A s \in 1 .. Len(starts) : starts'[s] = starts[s] /\ starts[s] \in Nat
         /\ starts' # starts =>
              /\ PiStep /\ log' = log
              /\ Len(starts') = Len(starts) + 1 /\ starts'[Len(starts')] = Len(log)
<1>1. starts \in Seq(Nat) /\ Len(starts) \in Nat \ {0} /\ Len(log) \in Nat
  BY LenProperties, LogLength DEF TypeInv, PiType
<1>2. \A s \in 1 .. Len(starts) : starts[s] \in Nat
  BY <1>1, ElementOfSeq
<1>3. starts' # starts => PiStep
  BY PiStepOnly
<1>4. ASSUME PiStep, starts' # starts
      PROVE  starts' = Append(starts, Len(log)) /\ log' = log
  BY <1>4, PiStepShape DEF Changes, Starts
<1>5. QED
  BY <1>1, <1>2, <1>3, <1>4, AppendProperties

LEMMA NextStartsInv ==
  ASSUME TypeInv, Order, Setup, StartsInv, [Next]_vars
  PROVE  StartsInv'
<1>1. /\ Len(log) \in Nat /\ Len(log') \in Nat /\ Len(log) <= Len(log')
      /\ Len(starts) \in Nat \ {0} /\ 1 \in 1 .. Len(starts)
  BY LogGrows, NextStarts
<1>2. CASE starts' = starts
  <2>1. \A s \in 1 .. Len(starts) : starts[s] \in Nat
    BY NextStarts
  <2>2. QED
    BY <1>1, <1>2, <2>1 DEF StartsInv
<1>3. CASE starts' # starts
  <2>1. /\ Len(starts') = Len(starts) + 1 /\ starts'[Len(starts')] = Len(log) /\ log' = log
        /\ \A s \in 1 .. Len(starts) : starts'[s] = starts[s] /\ starts[s] \in Nat
    BY <1>3, NextStarts
  <2>2. \A s \in 1 .. Len(starts') : s \in 1 .. Len(starts) \/ s = Len(starts')
    BY <1>1, <2>1
  <2>3. \A s \in 1 .. Len(starts') : starts'[s] <= Len(log')
    BY <1>1, <2>1, <2>2 DEF StartsInv
  <2>4. ASSUME NEW s \in 1 .. Len(starts'), NEW t \in 1 .. Len(starts'), s <= t
        PROVE  starts'[s] <= starts'[t]
    BY <1>1, <2>1, <2>2, <2>3, <2>4 DEF StartsInv
  <2>5. QED
    BY <1>1, <2>1, <2>3, <2>4 DEF StartsInv
<1>4. QED
  BY <1>2, <1>3

\* The session of the state changes with a session_changed, and forward.
LEMMA DeliverSession ==
  ASSUME TypeInv, SessionInv, Deliver
  PROVE  /\ state # None => state' # None /\ state.session <= state'.session
         /\ state' # None =>
              \/ state # None /\ state'.session = state.session
              \/ /\ IsSwitch(chan[1]) /\ chan[1].state # None
                 /\ state'.session = chan[1].state.session
         /\ IsSwitch(chan[1]) /\ link # "hello" => state' # None /\ state' = chan[1].state
<1>1. Receive /\ Arrives /\ ClientType'
  BY ReceiveArrives, ReceiveType DEF Deliver, TypeInv
<1>2. \A s \in States : s # None /\ s.session \in Nat
  BY NoneAssumption DEF States
<1>3. IsSwitch(chan[1]) => chan[1].state \in States
  BY <1>1 DEF Arrives, IsSwitch, Carries
<1>4. CASE link = "hello" \/ chan[1].type = "response"
  BY <1>1, <1>2, <1>4 DEF Receive, Arrives, DispatchLine, IsSwitch, TypeInv, ClientType
<1>5. CASE link # "hello" /\ chan[1].type # "response" /\ state = None
  BY <1>1, <1>2, <1>3, <1>5 DEF Receive, Arrives, DispatchLine, IsSwitch
<1>6. CASE link # "hello" /\ chan[1].type # "response" /\ state # None
  <2>1. state' = NextSessionState(state, chan[1]) /\ state \in States
    BY <1>1, <1>6 DEF Receive, Arrives, DispatchLine, TypeInv, ClientType
  <2>2. state' \in States
    <3>1. chan[1] \in Events
      BY <1>1, <1>6 DEF Arrives, Responses
    <3>2. QED
      BY <1>1, <2>1, <3>1, NextSessionStateType DEF Arrives
  <2>3. CASE IsSwitch(chan[1])
    <3>1. state' = chan[1].state
      BY <2>1, <2>3 DEF NextSessionState, IsSwitch
    <3>2. state.session <= chan[1].state.session
      BY <1>1, <1>6, <2>3 DEF SessionInv, Arrives
    <3>3. QED
      BY <1>2, <1>3, <2>1, <2>2, <2>3, <3>1, <3>2
  <2>4. CASE ~IsSwitch(chan[1])
    <3>1. state'.session = state.session
      BY <2>1, <2>4 DEF NextSessionState, IsSwitch, States
    <3>2. QED
      BY <1>2, <2>1, <2>2, <2>4, <3>1
  <2>5. QED
    BY <2>3, <2>4
<1>7. QED
  BY <1>4, <1>5, <1>6

\* Once announced, a session remains so.
LEMMA NextKnown ==
  ASSUME TypeInv, Bounded, [Next]_vars, NEW i \in Nat, NEW s \in Nat, Known(i, s)
  PROVE  /\ PiStep /\ i <= Len(chan) + 1 => Known(i, s)'
         /\ UNCHANGED <<chan, state>> => Known(i, s)'
         /\ i = 0 /\ state' = state => Known(i, s)'
<1>1. Len(chan) \in Nat
  BY ChanTypes
<1>2. ASSUME PiStep, i <= Len(chan) + 1
      PROVE  Known(i, s)'
  <2>1. Sends /\ state' = state
    BY <1>2, PiStepShape DEF Changes, CommandKeeps
  <2>2. \A j \in 1 .. i - 1 : chan'[j] = chan[j]
    BY <1>1, <1>2, <2>1 DEF Sends
  <2>3. QED
    BY <2>1, <2>2 DEF Known, IsSwitch
<1>3. ASSUME UNCHANGED <<chan, state>>
      PROVE  Known(i, s)'
  BY <1>3 DEF Known, IsSwitch
<1>4. ASSUME i = 0, state' = state
      PROVE  Known(i, s)'
  BY <1>4 DEF Known, IsSwitch
<1>5. QED
  BY <1>2, <1>3, <1>4

LEMMA DeliverKnown ==
  ASSUME TypeInv, SessionInv, Deliver, NEW i \in Nat, i <= Len(chan), NEW s \in Nat,
         Known(i + 1, s), link # "hello" \/ chan[1].type = "hello"
  PROVE  Known(i, s)'
<1>1. Arrives /\ ClientType' /\ Len(chan) \in Nat
  BY ReceiveArrives, ReceiveType DEF Deliver, TypeInv, Arrives
<1>2. \A r \in States : r.session \in Nat
  BY DEF States
<1>3. CASE state # None /\ s <= state.session
  <2>1. state' # None /\ state.session <= state'.session
    BY <1>3, DeliverSession
  <2>2. state \in States /\ state' \in States
    BY <1>1, <1>3, <2>1 DEF TypeInv, ClientType
  <2>3. s <= state'.session
    BY <1>2, <1>3, <2>1, <2>2
  <2>4. QED
    BY <2>1, <2>3 DEF Known
<1>4. ASSUME NEW j \in 1 .. i, IsSwitch(chan[j]), s <= chan[j].state.session
      PROVE  Known(i, s)'
  <2>1. CASE j = 1
    <3>1. state' # None /\ state' = chan[1].state
      BY <1>4, <2>1, DeliverSession DEF IsSwitch
    <3>2. QED
      BY <1>4, <2>1, <3>1 DEF Known
  <2>2. CASE j # 1
    <3>1. j - 1 \in 1 .. i - 1 /\ j - 1 \in 1 .. Len(chan') /\ (j - 1) + 1 = j
      BY <1>1, <2>2 DEF Arrives
    <3>2. chan'[j - 1] = chan[j]
      BY <1>1, <3>1 DEF Arrives
    <3>3. QED
      BY <1>4, <3>1, <3>2 DEF Known, IsSwitch
  <2>3. QED
    BY <2>1, <2>2
<1>5. (i + 1) - 1 = i
  OBVIOUS
<1>6. QED
  BY <1>3, <1>4, <1>5 DEF Known

\* Parts of SessionInv.
Announced ==
  /\ \A i \in 1 .. Len(chan) : IsSwitch(chan[i]) =>
       /\ chan[i].state.session <= Len(starts)
       /\ state # None => state.session <= chan[i].state.session
       /\ \A j \in 1 .. Len(chan) : i < j /\ IsSwitch(chan[j]) =>
            chan[i].state.session <= chan[j].state.session
  /\ state # None => state.session <= Len(starts)
  /\ link = "up" \/ (link = "hello" /\ chan[1].type = "hello") =>
       Known(Len(chan) + 1, Len(starts))

LEMMA PiStepAnnounced ==
  ASSUME TypeInv, Bounded, Order, Setup, SeedComes, SessionInv, [Next]_vars, PiStep
  PROVE  Announced'
<1>1. Sends /\ Changes /\ state' = state /\ link' = link
  BY PiStepShape DEF Changes, CommandKeeps
<1>2. /\ Len(chan) \in Nat /\ Len(chan') \in Nat /\ Len(chan) <= Len(chan')
      /\ Len(starts) \in Nat \ {0} /\ Len(starts') \in Nat /\ Len(starts) <= Len(starts')
  BY <1>1, ChanTypes, NextStarts DEF Sends
<1>3. /\ state # None => state.session \in Nat
      /\ \A i \in 1 .. Len(chan) : IsSwitch(chan[i]) => chan[i].state.session \in Nat
  BY ChanTypes DEF TypeInv, ClientType, States, Carries, IsSwitch
<1>4. ASSUME NEW i \in Len(chan) + 1 .. Len(chan'), IsSwitch(chan'[i])
      PROVE  chan'[i].state.session = Len(starts) + 1 /\ Len(starts') = Len(starts) + 1
  <2>1. Starts /\ chan'[i].state = [PiState EXCEPT !.session = @ + 1]
    BY <1>1, <1>4 DEF Sends, IsNew, IsSwitch
  <2>2. QED
    BY <2>1, NextStarts, <1>2, AppendProperties, LogLength DEF PiState, Starts, TypeInv, PiType
<1>5. \A i \in 1 .. Len(chan') : \/ i \in 1 .. Len(chan) /\ chan'[i] = chan[i]
                                 \/ i \in Len(chan) + 1 .. Len(chan')
  BY <1>1, <1>2 DEF Sends
<1>6. ASSUME NEW i \in 1 .. Len(chan'), IsSwitch(chan'[i])
      PROVE  /\ chan'[i].state.session <= Len(starts')
             /\ state' # None => state'.session <= chan'[i].state.session
  BY <1>1, <1>2, <1>3, <1>4, <1>5, <1>6 DEF SessionInv
<1>7. ASSUME NEW i \in 1 .. Len(chan'), NEW j \in 1 .. Len(chan'), i < j,
             IsSwitch(chan'[i]), IsSwitch(chan'[j])
      PROVE  chan'[i].state.session <= chan'[j].state.session
  BY <1>1, <1>2, <1>3, <1>4, <1>5, <1>7 DEF SessionInv
<1>8. state' # None => state'.session <= Len(starts')
  BY <1>1, <1>2, <1>3 DEF SessionInv
<1>9. ASSUME link' = "up" \/ (link' = "hello" /\ chan'[1].type = "hello")
      PROVE  Known(Len(chan) + 1, Len(starts))'
  <2>1. link = "up" \/ (link = "hello" /\ chan[1].type = "hello")
    <3>1. link = "hello" => 1 \in 1 .. Len(chan)
      BY <1>2, EmptySeq DEF SeedComes, TypeInv, ClientType, Sent
    <3>2. QED
      BY <1>1, <1>9, <3>1 DEF Sends
  <2>2. CASE starts' = starts
    <3>1. PICK i \in Nat, s \in Nat : i = Len(chan) + 1 /\ s = Len(starts)
      BY <1>2
    <3>2. Known(i, s)'
      BY <1>2, <2>1, <3>1, NextKnown DEF SessionInv
    <3>3. i - 1 <= Len(chan')
      BY <1>2, <3>1
    <3>4. QED
      BY <1>2, <2>2, <3>1, <3>2, <3>3 DEF Known, IsSwitch
  <2>3. CASE starts' # starts
    <3>1. PICK j \in Len(chan) + 1 .. Len(chan') : chan'[j].type = "session_changed"
      BY <1>1, <2>1, <2>3 DEF Changes, Connected
    <3>2. IsSwitch(chan'[j]) /\ Len(starts') <= chan'[j].state.session
      BY <1>2, <1>4, <3>1 DEF IsSwitch
    <3>3. j \in 1 .. (Len(chan') + 1) - 1
      BY <1>2
    <3>4. QED
      BY <3>2, <3>3 DEF Known, IsSwitch
  <2>4. QED
    BY <2>2, <2>3
<1>10. QED
  BY <1>6, <1>7, <1>8, <1>9 DEF Announced, IsSwitch

LEMMA DeliverAnnounced ==
  ASSUME TypeInv, Bounded, Order, Setup, SeedComes, SessionInv, [Next]_vars, Deliver
  PROVE  Announced'
<1>1. /\ Arrives /\ Receive /\ starts' = starts /\ ClientType' /\ Len(chan) \in Nat
      /\ Len(starts) \in Nat
  BY ReceiveArrives, ReceiveType, LenProperties
     DEF Deliver, piVars, Arrives, TypeInv, PiType
<1>2. \A i \in 1 .. Len(chan') : chan'[i] = chan[i + 1] /\ i + 1 \in 1 .. Len(chan) /\ 1 < i + 1
  BY <1>1 DEF Arrives
<1>3. \A r \in States : r.session \in Nat
  BY DEF States
<1>4. /\ state # None => state.session \in Nat
      /\ state' # None => state'.session \in Nat
      /\ \A i \in 1 .. Len(chan) : IsSwitch(chan[i]) => chan[i].state.session \in Nat
  BY <1>1, <1>3, ChanTypes DEF TypeInv, ClientType, Carries, IsSwitch
<1>5. ASSUME NEW i \in 1 .. Len(chan'), IsSwitch(chan'[i])
      PROVE  /\ chan'[i].state.session <= Len(starts')
             /\ state' # None => state'.session <= chan'[i].state.session
             /\ \A j \in 1 .. Len(chan') : i < j /\ IsSwitch(chan'[j]) =>
                  chan'[i].state.session <= chan'[j].state.session
  <2>1. IsSwitch(chan[i + 1]) /\ i + 1 \in 1 .. Len(chan) /\ chan'[i] = chan[i + 1]
    BY <1>2, <1>5
  <2>2. chan'[i].state.session <= Len(starts')
    BY <1>1, <2>1 DEF SessionInv
  <2>3. state' # None => state'.session <= chan'[i].state.session
    <3>1. CASE state # None /\ state'.session = state.session
      BY <2>1, <3>1 DEF SessionInv
    <3>2. CASE IsSwitch(chan[1]) /\ state'.session = chan[1].state.session
      BY <1>1, <1>2, <2>1, <3>2 DEF SessionInv, Arrives
    <3>3. QED
      BY <3>1, <3>2, DeliverSession
  <2>4. ASSUME NEW j \in 1 .. Len(chan'), i < j, IsSwitch(chan'[j])
        PROVE  chan'[i].state.session <= chan'[j].state.session
    <3>1. j + 1 \in 1 .. Len(chan) /\ chan'[j] = chan[j + 1] /\ i + 1 < j + 1
      BY <1>1, <1>2, <2>4
    <3>2. QED
      BY <2>1, <2>4, <3>1 DEF SessionInv
  <2>5. QED
    BY <2>2, <2>3, <2>4
<1>6. state' # None => state'.session <= Len(starts')
  <2>1. CASE state # None /\ state'.session = state.session
    BY <1>1, <2>1 DEF SessionInv
  <2>2. CASE IsSwitch(chan[1]) /\ state'.session = chan[1].state.session
    BY <1>1, <2>2 DEF SessionInv, Arrives
  <2>3. QED
    BY <2>1, <2>2, DeliverSession
<1>7. ASSUME link' = "up" \/ (link' = "hello" /\ chan'[1].type = "hello")
      PROVE  Known(Len(chan) + 1, Len(starts))'
  <2>1. link = "up" \/ (link = "hello" /\ chan[1].type = "hello")
    BY <1>1, <1>7, ReceiveState DEF Receive, Connected
  <2>2. PICK i \in Nat, s \in Nat : i = Len(chan) /\ s = Len(starts)
    BY <1>1
  <2>3. Known(i + 1, s)
    BY <2>1, <2>2 DEF SessionInv
  <2>4. Known(i, s)'
    BY <2>1, <2>2, <2>3, DeliverKnown
  <2>5. i = Len(chan') + 1 /\ s = Len(starts')
    BY <1>1, <2>2 DEF Arrives
  <2>6. QED
    BY <2>4, <2>5
<1>8. QED
  BY <1>5, <1>6, <1>7 DEF Announced, IsSwitch

LEMMA NextAnnounced ==
  ASSUME TypeInv, Bounded, Order, Setup, SeedComes, SessionInv, [Next]_vars
  PROVE  Announced'
<1>1. CASE PiStep
  BY <1>1, PiStepAnnounced
<1>2. CASE Deliver
  BY <1>2, DeliverAnnounced
<1>3. CASE ~PiStep /\ UNCHANGED <<link, chan, state>>
  <2>1. starts' = starts
    BY <1>3, PiStepOnly
  <2>2. QED
    BY <1>3, <2>1 DEF SessionInv, Announced, Known, IsSwitch
<1>4. CASE ~PiStep /\ SocketClosed
  <2>1. starts' = starts /\ link' = "closed" /\ state' = state /\ Len(chan') = 0
    BY <1>4, PiStepOnly, EmptySeq DEF SocketClosed
  <2>2. QED
    BY <2>1 DEF SessionInv, Announced
<1>5. CASE ~PiStep /\ Connecting /\ Connect
  <2>1. starts' = starts /\ state' = None /\ pc = "connect"
    BY <1>5, PiStepOnly, ConnectSends DEF Connecting, Setup
  <2>2. CASE Len(chan') = 1 /\ chan'[1] = Event("other")
    BY <1>5, <2>1, <2>2, ConnectSends DEF Announced, IsSwitch, Event
  <2>3. CASE /\ Len(chan') = 2 /\ chan'[1] = Event("hello")
             /\ chan'[2] = [Event("session_changed") EXCEPT !.state = PiState]
    <3>1. /\ chan'[1].type = "hello" /\ chan'[2].type = "session_changed"
          /\ chan'[2].state.session = Len(starts)
      BY <2>3 DEF Event, PiState
    <3>2. Len(starts) \in Nat /\ Len(starts') = Len(starts)
      BY <2>1, NextStarts
    <3>3. \A i \in 1 .. Len(chan') : IsSwitch(chan'[i]) => i = 2
      BY <2>3, <3>1 DEF IsSwitch
    <3>4. 2 \in 1 .. (Len(chan') + 1) - 1
      BY <2>3
    <3>5. Known(Len(chan) + 1, Len(starts))'
      BY <3>1, <3>2, <3>4 DEF Known, IsSwitch
    <3>6. QED
      BY <2>1, <3>1, <3>2, <3>3, <3>5 DEF Announced, IsSwitch
  <2>4. QED
    BY <1>5, <2>2, <2>3, ConnectSends
<1>6. CASE ~PiStep /\ Connecting /\ ConnectRefused
  <2>1. starts' = starts
    BY <1>6, PiStepOnly
  <2>2. QED
    BY <1>6, <2>1 DEF SessionInv, Announced, Known, IsSwitch, ConnectRefused
<1>7. QED
  BY <1>1, <1>2, <1>3, <1>4, <1>5, <1>6, CommandSteps DEF Connecting

QueuedSessions ==
  /\ seed # None => state # None /\ seed.session <= state.session
  /\ \A i \in 1 .. Len(queue) :
       /\ state # None /\ queue[i].state.session <= state.session
       /\ seed # None => seed.session <= queue[i].state.session
       /\ \A j \in 1 .. Len(queue) : i < j =>
            queue[i].state.session <= queue[j].state.session

\* subscribe returns the state, and nothing is queued yet.
LEMMA SeedSteps ==
  ASSUME TypeInv, Order, Setup, [Next]_vars, ~Deliver
  PROVE  seed' \in {seed, None} \/ (seed' = state /\ queue = <<>> /\ queue' = queue)
<1> USE DEF Coroutine
<1>1. CASE PiStep \/ Connecting \/ GiveUpConnecting
  BY <1>1 DEF PiStep, PiWorks, PiMay, PiReplies, PiTakesPrompt, CommandKeeps, Connecting,
              GiveUpConnecting, clientVars, ConnectRefused, Connect
<1>2. CASE HelloRead \/ HistoryAnswered \/ LeafAnswered
  <2>1. pc \in Before
    BY <1>2 DEF HelloRead, HistoryAnswered, LeafAnswered, Before
  <2>2. queue = <<>>
    BY <2>1 DEF Setup
  <2>3. UNCHANGED clientVars \/ ClientKeeps
    BY <1>2 DEF HelloRead, HistoryAnswered, LeafAnswered, SubscribeTo
  <2>4. seed' \in {seed, state}
    BY <1>2 DEF HelloRead, HistoryAnswered, LeafAnswered, SubscribeTo, Subscribe, clientVars
  <2>5. QED
    BY <2>2, <2>3, <2>4 DEF clientVars, ClientKeeps
<1>3. CASE NowSubscribed \/ NowCursor \/ SourceEnded \/ FinishAfterStop \/ Return
  BY <1>3 DEF NowSubscribed, NowCursor, SourceEnded, FinishAfterStop, Return, clientVars
<1>4. CASE HandleSeed \/ HandleEvent \/ DrainForEvent \/ Drained
  BY <1>4 DEF HandleSeed, HandleEvent, DrainForEvent, Drained, clientVars
<1>5. CASE PromptAnswered \/ TimerFires \/ PiClosesSocket
  BY <1>5 DEF PromptAnswered, TimerFires, PiClosesSocket, SocketClosed, clientVars
<1>6. CASE UNCHANGED vars
  BY <1>6 DEF vars, clientVars
<1>7. QED
  BY <1>1, <1>2, <1>3, <1>4, <1>5, <1>6 DEF Next, PiStep

LEMMA DeliverQueuedSessions ==
  ASSUME TypeInv, Bounded, SessionInv, Deliver
  PROVE  QueuedSessions'
<1>1. Receive /\ ClientType' /\ Arrives /\ Len(queue) \in Nat
  BY ReceiveType, ReceiveArrives, ChanTypes DEF Deliver, TypeInv
<1>2. \A r \in States : r.session \in Nat /\ r # None
  BY NoneAssumption DEF States
<1>3. \A i \in 1 .. Len(queue) : queue[i].state \in States
  BY ChanTypes DEF Queued
<1>4. CASE seed' = seed
  <2>1. ASSUME seed' # None
        PROVE  state' # None /\ seed'.session <= state'.session
    <3>1. /\ state # None /\ seed.session <= state.session
          /\ state' # None /\ state.session <= state'.session
      BY <1>4, <2>1, DeliverSession DEF SessionInv
    <3>2. seed \in States /\ state \in States /\ state' \in States
      BY <1>1, <1>4, <2>1, <3>1 DEF TypeInv, ClientType
    <3>3. seed.session \in Nat /\ state.session \in Nat /\ state'.session \in Nat
      BY <1>2, <3>2
    <3>4. QED
      BY <1>4, <3>1, <3>3
  <2>2. CASE queue' = queue
    <3>1. \A i \in 1 .. Len(queue) : state' # None /\ queue[i].state.session <= state'.session
      BY <1>1, <1>2, <1>3, DeliverSession DEF SessionInv, TypeInv, ClientType
    <3>2. QED
      BY <1>4, <2>1, <2>2, <3>1 DEF QueuedSessions, SessionInv
  <2>3. CASE /\ state # None /\ Len(queue') = Len(queue) + 1
             /\ queue'[Len(queue')].state = state'
             /\ \A i \in 1 .. Len(queue) : queue'[i] = queue[i]
    <3>1. /\ state' # None /\ state \in States /\ state' \in States
          /\ state.session <= state'.session
      BY <1>1, <2>3, DeliverSession DEF TypeInv, ClientType
    <3>2. \A i \in 1 .. Len(queue') : i \in 1 .. Len(queue) \/ i = Len(queue')
      BY <1>1, <2>3
    <3>3. \A i \in 1 .. Len(queue') : queue'[i].state.session <= state'.session
      BY <1>2, <1>3, <2>3, <3>1, <3>2 DEF SessionInv
    <3>4. seed' # None => \A i \in 1 .. Len(queue') : seed'.session <= queue'[i].state.session
      BY <1>4, <2>1, <2>3, <3>2 DEF SessionInv
    <3>5. ASSUME NEW i \in 1 .. Len(queue'), NEW j \in 1 .. Len(queue'), i < j
          PROVE  queue'[i].state.session <= queue'[j].state.session
      <4>1. CASE j \in 1 .. Len(queue)
        <5>1. i \in 1 .. Len(queue)
          BY <1>1, <3>5, <4>1
        <5>2. QED
          BY <2>3, <3>5, <4>1, <5>1 DEF SessionInv
      <4>2. CASE j = Len(queue')
        BY <2>3, <3>3, <4>2
      <4>3. QED
        BY <3>2, <4>1, <4>2
    <3>6. QED
      BY <2>1, <3>1, <3>3, <3>4, <3>5 DEF QueuedSessions
  <2>4. QED
    BY <1>1, <2>2, <2>3, ReceiveQueues
<1>5. CASE seed' # seed
  <2>1. state = None /\ seed' \in {state', None} /\ queue' = queue
    BY <1>1, <1>5 DEF Receive, DispatchLine
  <2>2. Len(queue) = 0
    BY <1>1, <2>1 DEF SessionInv
  <2>3. ASSUME seed' # None
        PROVE  state' # None /\ seed'.session <= state'.session
    <3>1. seed' = state' /\ state' \in States
      BY <1>1, <2>1, <2>3 DEF ClientType
    <3>2. state'.session \in Nat
      BY <1>2, <3>1
    <3>3. QED
      BY <2>3, <3>1, <3>2
  <2>4. QED
    BY <2>1, <2>2, <2>3 DEF QueuedSessions
<1>6. QED
  BY <1>4, <1>5

LEMMA NextQueuedSessions ==
  ASSUME TypeInv, Bounded, Order, Setup, SessionInv, [Next]_vars
  PROVE  QueuedSessions'
<1>1. CASE Deliver
  BY <1>1, DeliverQueuedSessions
<1>2. CASE ~Deliver
  <2>1. /\ state' = state
        /\ queue' \in {queue, <<>>} \/ (queue # <<>> /\ queue' = Tail(queue))
    BY <1>2, CommandMoves, PiStepShape
       DEF Changes, CommandKeeps, Connecting, ConnectRefused, Connect
  <2>2. \A r \in States : r.session \in Nat
    BY DEF States
  <2>3. CASE queue' = <<>>
    BY <1>2, <2>1, <2>2, <2>3, SeedSteps, EmptySeq
       DEF SessionInv, QueuedSessions, TypeInv, ClientType
  <2>4. CASE queue' = queue
    BY <1>2, <2>1, <2>2, <2>4, SeedSteps, EmptySeq
       DEF SessionInv, QueuedSessions, TypeInv, ClientType
  <2>5. CASE queue # <<>> /\ queue' = Tail(queue)
    <3>1. Len(queue) \in Nat /\ Len(queue') = Len(queue) - 1
      BY <2>5, ChanTypes, QueueTail DEF TypeInv
    <3>2. \A i \in 1 .. Len(queue') : queue'[i] = queue[i + 1] /\ i + 1 \in 1 .. Len(queue)
      BY <2>5, <3>1, QueueTail DEF TypeInv
    <3>3. seed' \in {seed, None}
      BY <1>2, <2>5, SeedSteps
    <3>4. ASSUME NEW i \in 1 .. Len(queue'), NEW j \in 1 .. Len(queue'), i < j
          PROVE  queue'[i].state.session <= queue'[j].state.session
      <4>1. i + 1 < j + 1 /\ i + 1 \in 1 .. Len(queue) /\ j + 1 \in 1 .. Len(queue)
        BY <3>2, <3>4
      <4>2. QED
        BY <3>2, <4>1 DEF SessionInv
    <3>5. QED
      BY <2>1, <3>2, <3>3, <3>4 DEF SessionInv, QueuedSessions
  <2>6. QED
    BY <2>1, <2>3, <2>4, <2>5
<1>3. QED
  BY <1>1, <1>2

\* The session that the drains are for.
LastSessionInv ==
  Entries /\ pc \in {"next", "drain"} =>
    /\ lastSession \in 1 .. Len(starts) /\ state # None /\ lastSession <= state.session
    /\ \A i \in 1 .. Len(queue) : lastSession <= queue[i].state.session

LEMMA SessionSteps ==
  ASSUME TypeInv, [Next]_vars
  PROVE  \/ HandleSeed \/ DrainForEvent
         \/ /\ lastSession' = lastSession
            /\ pc' \in {"next", "drain"} => pc \in {"next", "drain"}
<1> USE DEF Coroutine
<1>1. CASE PiStep \/ Connecting \/ GiveUpConnecting
  BY <1>1 DEF PiStep, PiWorks, PiMay, PiReplies, PiTakesPrompt, CommandKeeps, Connecting,
              GiveUpConnecting, Fail, modeVars
<1>2. CASE HelloRead \/ HistoryAnswered \/ LeafAnswered
  BY <1>2 DEF HelloRead, HistoryAnswered, LeafAnswered, SubscribeTo, Fail, modeVars
<1>3. CASE NowSubscribed \/ NowCursor \/ SourceEnded \/ FinishAfterStop \/ Return
  BY <1>3 DEF NowSubscribed, NowCursor, SourceEnded, FinishAfterStop, Return, Fail, modeVars
<1>4. CASE HandleEvent \/ Drained
  BY <1>4 DEF HandleEvent, Drained, modeVars
<1>5. CASE PromptAnswered \/ TimerFires \/ PiClosesSocket \/ Deliver
  BY <1>5 DEF PromptAnswered, TimerFires, PiClosesSocket, Deliver, modeVars
<1>6. CASE UNCHANGED vars
  BY <1>6 DEF vars, modeVars
<1>7. QED
  BY <1>1, <1>2, <1>3, <1>4, <1>5, <1>6 DEF Next, PiStep

LEMMA NextLastSession ==
  ASSUME TypeInv, Bounded, Order, Setup, SeedComes, SessionInv, [Next]_vars
  PROVE  LastSessionInv'
<1>1. /\ Len(queue) \in Nat /\ Len(starts) \in Nat /\ Len(starts') \in Nat
      /\ Len(starts) <= Len(starts') /\ lastSession \in Nat \cup {None}
  BY ChanTypes, NextStarts DEF TypeInv, ModeType
<1>2. /\ \A r \in States : r.session \in Nat \ {0}
      /\ \A i \in 1 .. Len(queue) : queue[i].state \in States
  BY ChanTypes DEF States, Queued
<1>3. cmd' = cmd
  BY StaysLate
<1>4. state # None /\ state \in States => state' # None /\ state' \in States
                                           /\ state.session <= state'.session
  <2>1. state' \in States \cup {None}
    BY NextType DEF TypeInv, ClientType
  <2>2. CASE Deliver
    BY <2>1, <2>2, DeliverSession
  <2>3. CASE ~Deliver
    BY <1>2, <2>3, CommandMoves, PiStepShape
       DEF Changes, CommandKeeps, Connecting, ConnectRefused, Connect
  <2>4. QED
    BY <2>2, <2>3
<1>5. HandleSeed \/ DrainForEvent \/
      (lastSession' = lastSession /\ (pc' \in {"next", "drain"} => pc \in {"next", "drain"}))
  BY SessionSteps
<1>6. CASE HandleSeed
  <2>1. ASSUME Entries, pc' = "next"
        PROVE  /\ seed # None /\ lastSession' = seed.session
               /\ UNCHANGED <<queue, state, starts>>
    BY <1>6, <2>1 DEF HandleSeed, Fail, StopAt, Proceed, piVars
  <2>2. pc' # "drain"
    BY <1>6 DEF HandleSeed, Fail, StopAt, Proceed
  <2>3. seed # None => seed.session \in Nat \ {0} /\ state \in States
    BY <1>2 DEF TypeInv, ClientType, SessionInv
  <2>4. seed # None => seed.session \in 1 .. Len(starts)
    BY <1>1, <1>2, <2>3 DEF SessionInv
  <2>5. QED
    BY <1>3, <2>1, <2>2, <2>4 DEF LastSessionInv, SessionInv, Entries
<1>7. CASE DrainForEvent
  <2>1. /\ queue # <<>> /\ queue' = Tail(queue) /\ UNCHANGED <<state, starts>>
        /\ lastSession' = Head(queue).state.session
    BY <1>7 DEF DrainForEvent, piVars
  <2>2. /\ Head(queue) = queue[1] /\ 1 \in 1 .. Len(queue)
        /\ \A i \in 1 .. Len(queue') : queue'[i] = queue[i + 1] /\ i + 1 \in 1 .. Len(queue)
    BY <1>1, <2>1, QueueTail DEF TypeInv
  <2>3. state # None /\ state \in States /\ lastSession' <= state.session
    BY <2>1, <2>2 DEF SessionInv, TypeInv, ClientType
  <2>4. lastSession' \in 1 .. Len(starts)
    BY <1>1, <1>2, <2>1, <2>2, <2>3 DEF SessionInv
  <2>5. \A i \in 1 .. Len(queue') : lastSession' <= queue'[i].state.session
    BY <2>1, <2>2 DEF SessionInv
  <2>6. QED
    BY <2>1, <2>3, <2>4, <2>5 DEF LastSessionInv
<1>8. CASE /\ lastSession' = lastSession /\ Entries
           /\ pc \in {"next", "drain"}
  <2>1. /\ lastSession \in 1 .. Len(starts) /\ state # None /\ lastSession <= state.session
        /\ \A i \in 1 .. Len(queue) : lastSession <= queue[i].state.session
    BY <1>8 DEF SessionInv
  <2>2. lastSession' \in 1 .. Len(starts')
    BY <1>1, <1>8, <2>1
  <2>3. state' # None /\ state' \in States /\ lastSession' <= state'.session
    BY <1>1, <1>2, <1>4, <1>8, <2>1 DEF TypeInv, ClientType
  <2>4. CASE queue' = queue
    BY <1>8, <2>1, <2>2, <2>3, <2>4 DEF LastSessionInv
  <2>5. CASE queue' = <<>>
    BY <2>2, <2>3, <2>5, EmptySeq DEF LastSessionInv
  <2>6. CASE queue # <<>> /\ queue' = Tail(queue)
    <3>1. \A i \in 1 .. Len(queue') : queue'[i] = queue[i + 1] /\ i + 1 \in 1 .. Len(queue)
      BY <1>1, <2>6, QueueTail DEF TypeInv
    <3>2. QED
      BY <1>8, <2>1, <2>2, <2>3, <3>1 DEF LastSessionInv
  <2>7. CASE /\ Len(queue') = Len(queue) + 1 /\ queue'[Len(queue')].state = state'
             /\ \A i \in 1 .. Len(queue) : queue'[i] = queue[i]
    <3>1. \A i \in 1 .. Len(queue') : i \in 1 .. Len(queue) \/ i = Len(queue')
      BY <1>1, <2>7
    <3>2. QED
      BY <1>8, <2>1, <2>2, <2>3, <2>7, <3>1 DEF LastSessionInv
  <2>8. QED
    <3>1. CASE Deliver
      BY <2>4, <2>7, <3>1, ReceiveQueues DEF Deliver
    <3>2. CASE ~Deliver
      BY <2>4, <2>5, <2>6, <3>2, CommandMoves, PiStepShape
         DEF Changes, CommandKeeps, Connecting, ConnectRefused, Connect
    <3>3. QED
      BY <3>1, <3>2
<1>9. QED
  BY <1>3, <1>5, <1>6, <1>7, <1>8 DEF LastSessionInv, Entries

LEMMA NextSessionInv ==
  ASSUME TypeInv, Bounded, Order, Setup, SeedComes, SessionInv, [Next]_vars
  PROVE  SessionInv'
BY NextAnnounced, NextQueuedSessions, NextLastSession
   DEF SessionInv, Announced, QueuedSessions, LastSessionInv, IsSwitch, Known, Entries

-----------------------------------------------------------------------------
(* The answer that carries the history.                                     *)

LEMMA NextClosedInv ==
  ASSUME TypeInv, Order, OnceInv, Setup, ClosedInv, [Next]_vars
  PROVE  ClosedInv'
<1>1. CASE PiStep
  BY <1>1, PiStepShape DEF Changes, CommandKeeps, ClosedInv
<1>2. CASE Deliver
  <2>1. asked' = asked /\ link' \in {link, "up", "closed"} /\ (link' # link => link = "hello")
    BY <1>2, ReceiveArrives DEF Deliver, Receive
  <2>2. CASE link = "hello"
    <3>1. pc = "hello" /\ ~stop /\ prompt = "none"
      BY <2>2 DEF Setup, Order, Late
    <3>2. \A id \in Requests : ~AskedFor(id)
      BY <3>1 DEF OnceInv, Waits, InFlight, Requests
    <3>3. \A q \in asked : q.id \in Requests
      BY DEF TypeInv, ClientType
    <3>4. asked = {}
      BY <3>2, <3>3 DEF AskedFor
    <3>5. QED
      BY <2>1, <3>4 DEF ClosedInv
  <2>3. CASE link # "hello"
    BY <2>1, <2>3 DEF ClosedInv
  <2>4. QED
    BY <2>2, <2>3
<1>3. CASE Connecting
  <2>1. link = "none" /\ link' \in {link, "hello"}
    BY <1>3, ConnectSends DEF Connecting, ConnectRefused, Setup
  <2>2. QED
    BY <2>1 DEF ClosedInv
<1>4. CASE SocketClosed
  BY <1>4 DEF SocketClosed, ClosedInv
<1>5. CASE UNCHANGED <<link, chan, state>> /\ Requesting
  BY <1>5 DEF ClosedInv, Requesting, Asking, Ask
<1>6. QED
  BY <1>1, <1>2, <1>3, <1>4, <1>5, CommandSteps

LEMMA MissedSteps ==
  ASSUME TypeInv, [Next]_vars
  PROVE  missed \subseteq missed' /\ (missed' = missed \/ Deliver)
<1> USE DEF Coroutine, ghosts
<1>1. CASE PiStep
  BY <1>1, PiStepShape DEF Changes
<1>2. CASE Deliver
  BY <1>2 DEF Deliver
<1>3. CASE Connecting \/ GiveUpConnecting \/ HelloRead \/ HistoryAnswered \/ LeafAnswered
  BY <1>3 DEF Connecting, GiveUpConnecting, HelloRead, HistoryAnswered, LeafAnswered
<1>4. CASE NowSubscribed \/ NowCursor \/ SourceEnded \/ FinishAfterStop \/ Return
  BY <1>4 DEF NowSubscribed, NowCursor, SourceEnded, FinishAfterStop, Return
<1>5. CASE HandleSeed \/ HandleEvent \/ DrainForEvent \/ Drained
  BY <1>5 DEF HandleSeed, HandleEvent, DrainForEvent, Drained
<1>6. CASE PromptAnswered \/ TimerFires \/ PiClosesSocket \/ UNCHANGED vars
  BY <1>6 DEF PromptAnswered, TimerFires, PiClosesSocket, vars
<1>7. QED
  BY <1>1, <1>2, <1>3, <1>4, <1>5, <1>6 DEF Next, PiStep

\* What an answer says is not outdated by what pi goes on to do,
LEMMA PiStepFollows ==
  ASSUME TypeInv, Bounded, Order, Setup, [Next]_vars, PiStep,
         NEW i \in 0 .. Len(chan), NEW S, S \subseteq LogEntries, Follows(i, S)
  PROVE  Follows(i, S)'
<1>1. Changes /\ missed' = missed /\ Connected' = Connected
  BY PiStepShape DEF Changes, CommandKeeps, Connected
<1>2. /\ Len(log) \in Nat /\ Len(log') \in Nat /\ LogEntries \subseteq LogEntries'
      /\ \A k \in LogEntries' : \/ k \in LogEntries
                                \/ /\ PiStep /\ log' # log
                                   /\ k = Len(log') /\ Len(log') = Len(log) + 1
      /\ Len(chan) \in Nat
  BY NextLog, ChanTypes
<1>3. \A m \in S : m \in Nat /\ m <= Len(log)
  BY <1>2 DEF LogEntries
<1>4. ASSUME NEW m \in S, NEW k \in LogEntries', ComesAfter(i, k)'
      PROVE  m < k
  <2>1. CASE k \in LogEntries /\ ComesAfter(i, k)
    BY <2>1 DEF Follows
  <2>2. CASE k = Len(log') /\ Len(log') = Len(log) + 1
    BY <1>2, <1>3, <2>2
  <2>3. CASE k \notin LogEntries
    BY <1>2, <2>2, <2>3
  <2>4. QED
    BY <1>4, <2>1, <2>2, <2>3, PiSendsEntries
<1>5. ASSUME NEW m \in S, NEW n \in S, NEW k \in LogEntries', m < k, k < n
      PROVE  k \in S
  <2>1. k \in LogEntries
    BY <1>2, <1>3, <1>5 DEF LogEntries
  <2>2. QED
    BY <1>5, <2>1 DEF Follows
<1>6. ASSUME Connected, NEW m \in S, NEW k \in LogEntries', m < k
      PROVE  k \in S \/ ComesAfter(i, k)' \/ k \in missed
  <2>1. CASE k \in LogEntries
    BY <1>6, <2>1, PiSendsEntries DEF Follows
  <2>2. CASE k \notin LogEntries
    BY <1>2, <1>6, <2>2, PiSendsEntries
  <2>3. QED
    BY <2>1, <2>2
<1>7. ASSUME NEW n \in S, NEW s \in 1 .. Len(starts'), n > starts'[s]
      PROVE  Known(i, s)'
  <2>1. Len(starts) \in Nat /\ Len(starts') \in Nat
    BY NextStarts
  <2>2. s \in 1 .. Len(starts) /\ starts'[s] = starts[s]
    BY <1>2, <1>3, <1>7, <2>1, NextStarts
  <2>3. Known(i, s)
    BY <1>7, <2>2 DEF Follows
  <2>4. QED
    BY <1>2, <2>1, <2>3, NextKnown
<1>8. QED
  BY <1>1, <1>4, <1>5, <1>6, <1>7 DEF Follows

\* nor by its arrival.
LEMMA DeliverFollows ==
  ASSUME TypeInv, Bounded, Setup, SessionInv, Deliver, pc = "history",
         NEW i \in 0 .. Len(chan'), NEW S, S \subseteq LogEntries, Follows(i + 1, S)
  PROVE  Follows(i, S)'
<1>1. /\ Arrives /\ UNCHANGED <<log, starts>> /\ missed \subseteq missed'
      /\ Connected' => Connected
  BY ReceiveArrives DEF Deliver, Receive, piVars
<1>2. link # "hello" /\ i \in Nat /\ i <= Len(chan) /\ Len(starts) \in Nat
  BY <1>1, LenProperties DEF Setup, Arrives, TypeInv, PiType
<1>3. \A k : ComesAfter(i, k)' <=> ComesAfter(i + 1, k)
  BY DeliversEntries
<1>4. \A s \in 1 .. Len(starts) : Known(i + 1, s) => Known(i, s)'
  BY <1>2, DeliverKnown
<1>5. QED
  BY <1>1, <1>3, <1>4 DEF Follows, LogEntries

LEMMA DeliverFollowsReply ==
  ASSUME TypeInv, Bounded, Setup, SessionInv, Deliver, pc = "history", Answered("history"),
         NEW S, S \subseteq LogEntries, Follows(0, S)
  PROVE  Follows(0, S)'
<1>1. /\ Arrives /\ UNCHANGED <<log, starts>> /\ missed \subseteq missed'
      /\ Connected' => Connected
  BY ReceiveArrives DEF Deliver, Receive, piVars
<1>2. /\ link # "hello" /\ 0 \in Nat /\ 0 <= Len(chan) /\ Len(starts) \in Nat
      /\ 0 \in 0 .. Len(chan') /\ 0 + 1 = 1
  BY <1>1, LenProperties DEF Setup, Arrives, TypeInv, PiType
<1>3. \A k : /\ ComesAfter(0, k)' <=> ComesAfter(1, k)
             /\ Coming(k) <=> ComesAfter(1, k) \/ (IsEntry(chan[1]) /\ chan[1].entry = k)
  BY <1>2, DeliversEntries
<1>4. \A s \in 1 .. Len(starts) : Known(0, s) => Known(1, s)
  BY DEF Known
<1>5. \A s \in 1 .. Len(starts) : Known(0, s) => Known(0, s)'
  BY <1>2, <1>4, DeliverKnown
<1>6. IsEntry(chan[1]) => chan[1].entry \in missed'
  <2>1. IsEntry(chan[1]) => chan[1].type # "response" /\ chan[1].entry # None
    BY <1>1, NoneAssumption DEF IsEntry, Arrives, Carries
  <2>2. QED
    BY <1>1, <2>1 DEF Deliver, Arrives
<1>7. QED
  BY <1>1, <1>3, <1>5, <1>6 DEF Follows, LogEntries, Coming

\* What pi answers is the end of its log, to which nothing is added yet.
LEMMA AnswerFollows ==
  ASSUME TypeInv, Bounded, Order, Setup, StartsInv, SessionInv, ClosedInv, [Next]_vars, PiStep,
         pc = "history", NEW q \in asked, q.id = "history", asked' = asked \ {q},
         NEW i \in Len(chan) + 1 .. Len(chan'), i = Len(chan'), NEW S, S = Answer(q).entries
  PROVE  Follows(i, S)' /\ S \subseteq LogEntries
<1>1. /\ Sends /\ Changes /\ Connected' = Connected /\ state' = state
      /\ Len(chan) \in Nat /\ Len(chan') \in Nat
  BY PiStepShape, ChanTypes DEF Changes, CommandKeeps, Connected, Sends
<1>2. UNCHANGED <<log, starts>>
  BY <1>1 DEF Changes
<1>3. /\ S = After(q.since) /\ q.since \in Nat \cup {None}
      /\ Len(log) \in Nat /\ Len(starts) \in Nat \ {0} /\ Len(starts) \in 1 .. Len(starts)
      /\ \A s \in 1 .. Len(starts) : starts[s] \in Nat
  BY NextStarts, LogLength DEF Answer, Response, TypeInv, ClientType
<1>4. /\ S \subseteq LogEntries
      /\ \A n \in S : n > starts[Len(starts)]
      /\ \A m \in S, k \in LogEntries : m < k => k \in S
  BY <1>3 DEF After, Base, LogEntries
<1>5. \A k : ~ComesAfter(i, k)'
  BY <1>1 DEF ComesAfter
<1>6. link = "up"
  BY DEF Setup, ClosedInv, TypeInv, ClientType
<1>7. ASSUME NEW s \in 1 .. Len(starts)
      PROVE  Known(i, s)'
  <2>1. PICK j \in Nat : j = Len(chan) + 1
    BY <1>1
  <2>2. Known(j, Len(starts))
    BY <1>6, <2>1 DEF SessionInv
  <2>3. /\ state # None => state.session \in Nat
        /\ \A k \in 1 .. Len(chan) : IsSwitch(chan[k]) => chan[k].state.session \in Nat
    BY ChanTypes DEF TypeInv, ClientType, States, Carries, IsSwitch
  <2>4. Known(j, s)
    BY <1>1, <1>3, <2>1, <2>2, <2>3 DEF Known
  <2>5. Known(j, s)'
    BY <1>1, <2>1, <2>4, NextKnown
  <2>6. 1 .. j - 1 \subseteq 1 .. i - 1
    BY <1>1, <2>1
  <2>7. QED
    BY <2>5, <2>6 DEF Known, IsSwitch
<1>8. QED
  BY <1>2, <1>3, <1>4, <1>5, <1>7 DEF Follows, LogEntries

LEMMA PiStepHistory ==
  ASSUME TypeInv, Bounded, Order, Setup, StartsInv, SessionInv, HistoryInv, ClosedInv,
         [Next]_vars, PiStep
  PROVE  HistoryInv'
<1>1. Sends /\ Changes /\ pc' = pc /\ reply' = reply /\ Len(chan) \in Nat
  BY PiStepShape, ChanTypes DEF Changes, CommandKeeps
<1>2. SUFFICES ASSUME pc = "history" PROVE HistoryInv'
  BY <1>1 DEF HistoryInv
<1>3. ASSUME NEW i \in 1 .. Len(chan'), Answering(i, "history")', NEW S, S = chan'[i].entries
      PROVE  Follows(i, S)'
  <2>1. CASE i \in 1 .. Len(chan)
    <3>1. Answering(i, "history") /\ chan[i] = chan'[i] /\ chan[i].type = "response"
      BY <1>1, <1>3, <2>1 DEF Sends, Answering
    <3>2. Follows(i, S)
      BY <1>2, <1>3, <2>1, <3>1 DEF HistoryInv
    <3>3. S \subseteq LogEntries
      BY <1>3, <2>1, <3>1 DEF Bounded, InLog, LogEntries
    <3>4. i \in 0 .. Len(chan)
      BY <1>1, <2>1
    <3>5. QED
      BY <3>2, <3>3, <3>4, PiStepFollows
  <2>2. CASE i \in Len(chan) + 1 .. Len(chan')
    <3>1. IsNew(chan'[i]) /\ chan'[i].type = "response" /\ chan'[i].to = "history"
      BY <1>1, <1>3, <2>2 DEF Sends, Answering
    <3>2. PICK q \in asked : asked' = asked \ {q} /\ q.id = "history" /\ chan'[i] = Answer(q)
      BY <3>1 DEF IsNew
    <3>3. i = Len(chan')
      <4>1. ~(i < Len(chan')) \/ chan'[i].type # "response"
        BY <1>1, <2>2 DEF Sends
      <4>2. QED
        BY <1>1, <1>3, <2>2, <3>1, <4>1 DEF Sends
    <3>4. QED
      BY <1>2, <1>3, <2>2, <3>2, <3>3, AnswerFollows
  <2>3. QED
    BY <1>1, <1>3, <2>1, <2>2 DEF Sends
<1>4. ASSUME NEW S, reply["history"] # None, S = reply["history"].entries
      PROVE  Follows(0, S)'
  <2>1. Follows(0, S) /\ S \subseteq LogEntries
    BY <1>2, <1>4 DEF HistoryInv, Bounded, Requests, LogEntries
  <2>2. 0 \in 0 .. Len(chan)
    BY <1>1
  <2>3. QED
    BY <2>1, <2>2, PiStepFollows
<1>5. QED
  BY <1>1, <1>3, <1>4 DEF HistoryInv, Follows

LEMMA DeliverHistory ==
  ASSUME TypeInv, Bounded, Order, OnceInv, Setup, SessionInv, HistoryInv, Deliver
  PROVE  HistoryInv'
<1>1. Arrives /\ Receive /\ pc' = pc
  BY ReceiveArrives DEF Deliver
<1>2. SUFFICES ASSUME pc = "history" PROVE HistoryInv'
  BY <1>1 DEF HistoryInv
<1>3. ASSUME NEW i \in 1 .. Len(chan'), Answering(i, "history")', NEW S, S = chan'[i].entries
      PROVE  Follows(i, S)'
  <2>1. Answering(i + 1, "history") /\ i + 1 \in 1 .. Len(chan) /\ chan'[i] = chan[i + 1]
    BY <1>1, <1>3 DEF Arrives, Answering
  <2>2. Follows(i + 1, S)
    BY <1>2, <1>3, <2>1 DEF HistoryInv
  <2>3. S \subseteq LogEntries
    BY <1>3, <2>1 DEF Bounded, InLog, LogEntries, Answering
  <2>4. i \in 0 .. Len(chan')
    BY <1>1 DEF Arrives
  <2>5. QED
    BY <1>2, <2>2, <2>3, <2>4, DeliverFollows
<1>4. ASSUME NEW S, reply'["history"] # None, S = reply'["history"].entries
      PROVE  Follows(0, S)'
  <2>1. CASE reply' = reply
    <3>1. Follows(0, S) /\ S \subseteq LogEntries
      BY <1>2, <1>4, <2>1 DEF HistoryInv, Bounded, Requests, LogEntries
    <3>2. QED
      BY <1>2, <1>4, <2>1, <3>1, DeliverFollowsReply DEF Answered
  <2>2. CASE /\ chan[1].type = "response" /\ chan[1].to \in Requests
             /\ reply' = [reply EXCEPT ![chan[1].to] = chan[1]]
    <3>1. CASE chan[1].to = "history"
      <4>1. Answering(1, "history") /\ S = chan[1].entries
        BY <1>4, <2>2, <3>1 DEF Answering, TypeInv, ClientType, Requests
      <4>2. Follows(1, S) /\ S \subseteq LogEntries
        BY <1>1, <1>2, <2>2, <4>1 DEF HistoryInv, Arrives, Bounded, InLog, LogEntries
      <4>3. 0 \in 0 .. Len(chan') /\ 0 + 1 = 1
        BY <1>1 DEF Arrives
      <4>4. QED
        BY <1>2, <4>2, <4>3, DeliverFollows
    <3>2. CASE chan[1].to # "history"
      <4>1. reply'["history"] = reply["history"]
        BY <2>2, <3>2 DEF TypeInv, ClientType, Requests
      <4>2. Follows(0, S) /\ S \subseteq LogEntries
        BY <1>2, <1>4, <4>1 DEF HistoryInv, Bounded, Requests, LogEntries
      <4>3. QED
        BY <1>2, <1>4, <4>1, <4>2, DeliverFollowsReply DEF Answered
    <3>3. QED
      BY <3>1, <3>2
  <2>3. QED
    BY <1>1, <2>1, <2>2, ReceiveReply
<1>5. QED
  BY <1>1, <1>3, <1>4 DEF HistoryInv, Follows

LEMMA OtherHistory ==
  ASSUME TypeInv, Bounded, Order, OnceInv, Setup, SessionInv, HistoryInv, [Next]_vars,
         ~PiStep, ~Deliver
  PROVE  HistoryInv'
<1>1. SUFFICES ASSUME pc' = "history" PROVE HistoryInv'
  BY DEF HistoryInv
<1>2. UNCHANGED <<log, starts, missed>>
  BY PiStepOnly, MissedSteps
<1>3. Failure.entries = {} /\ Failure # None
  BY FailureType, NoneAssumption DEF Failure, Response
<1>4. Follows(0, {})'
  BY DEF Follows
<1>5. CASE pc # "history"
  <2>1. ~InFlight("history") \/ pc = "leaf"
    BY <1>5 DEF OnceInv, Waits
  <2>2. pc = "hello" /\ HelloRead /\ Ask("history", cmd.since) /\ chan' = chan
    BY <1>1, <1>5 DEF Next, PiStep, Coroutine, Connecting, GiveUpConnecting, HelloRead,
         HistoryAnswered, LeafAnswered, NowSubscribed, NowCursor, HandleSeed, HandleEvent,
         DrainForEvent, Drained, SourceEnded, FinishAfterStop, Return, PromptAnswered,
         TimerFires, PiClosesSocket, Fail, SubscribeTo, StopAt, Proceed, ClientKeeps, vars
  <2>3. \A i \in 1 .. Len(chan') : ~Answering(i, "history")'
    BY <2>1, <2>2 DEF InFlight, Answering
  <2>4. reply'["history"] \in {None, Failure}
    BY <2>2 DEF Ask, TypeInv, ClientType, Requests
  <2>5. QED
    BY <1>3, <1>4, <2>3, <2>4 DEF HistoryInv
<1>6. CASE pc = "history"
  <2>1. ~AskedBy("history") /\ "history" \in Requests
    BY <1>6 DEF AskedBy, Requests
  <2>2. CASE SocketClosed
    <3>1. Len(chan') = 0 /\ state' = state /\ link' = "closed"
      BY <2>2, EmptySeq DEF SocketClosed
    <3>2. reply'["history"] \in {Failure, reply["history"]}
      BY <2>2 DEF SocketClosed, Requests
    <3>3. ASSUME NEW S, reply["history"] # None, S = reply["history"].entries
          PROVE  Follows(0, S)'
      <4>1. Follows(0, S)
        BY <1>6, <3>3 DEF HistoryInv
      <4>2. \A k : ~ComesAfter(0, k)'
        BY <3>1 DEF ComesAfter
      <4>3. \A s \in 1 .. Len(starts) : Known(0, s) => Known(0, s)'
        BY <3>1 DEF Known
      <4>4. ~Connected'
        BY <3>1 DEF Connected
      <4>5. QED
        BY <1>2, <4>1, <4>2, <4>3, <4>4 DEF Follows, LogEntries
    <3>4. QED
      BY <1>3, <1>4, <3>1, <3>2, <3>3 DEF HistoryInv, Follows
  <2>3. CASE UNCHANGED <<link, chan, state>> /\ Requesting
    <3>1. reply'["history"] = reply["history"]
      BY <2>1, <2>3 DEF Requesting, Asking, Ask, TypeInv, ClientType
    <3>2. ASSUME NEW i \in 0 .. Len(chan), NEW S, Follows(i, S)
          PROVE  Follows(i, S)'
      <4>1. \A k : ComesAfter(i, k)' <=> ComesAfter(i, k)
        BY <2>3 DEF ComesAfter, IsEntry
      <4>2. \A s \in 1 .. Len(starts) : Known(i, s) => Known(i, s)'
        BY <2>3 DEF Known, IsSwitch
      <4>3. Connected' = Connected
        BY <2>3 DEF Connected
      <4>4. QED
        BY <1>2, <3>2, <4>1, <4>2, <4>3 DEF Follows, LogEntries
    <3>3. \A i \in 1 .. Len(chan') : Answering(i, "history")' => i \in 0 .. Len(chan)
                                       /\ Answering(i, "history") /\ chan'[i] = chan[i]
      BY <2>3 DEF Answering
    <3>4. ASSUME NEW i \in 1 .. Len(chan'), Answering(i, "history")',
                 NEW S, S = chan'[i].entries
          PROVE  Follows(i, S)'
      BY <1>6, <2>3, <3>2, <3>3, <3>4 DEF HistoryInv
    <3>5. ASSUME NEW S, reply'["history"] # None, S = reply'["history"].entries
          PROVE  Follows(0, S)'
      <4>1. 0 \in 0 .. Len(chan)
        BY ChanTypes
      <4>2. QED
        BY <1>6, <3>1, <3>2, <3>5, <4>1 DEF HistoryInv
    <3>6. QED
      BY <3>4, <3>5 DEF HistoryInv, Follows
  <2>4. ~Connecting
    BY <1>6 DEF Connecting
  <2>5. QED
    BY <2>2, <2>3, <2>4, CommandSteps
<1>7. QED
  BY <1>5, <1>6

LEMMA NextHistoryInv ==
  ASSUME TypeInv, Bounded, Order, OnceInv, Setup, StartsInv, SessionInv, HistoryInv, ClosedInv,
         [Next]_vars
  PROVE  HistoryInv'
BY PiStepHistory, DeliverHistory, OtherHistory

-----------------------------------------------------------------------------
(* The output of messages and events.                                       *)

\* What writes, and what empties the queue.
LEMMA OutSteps ==
  ASSUME TypeInv, Order, Setup, [Next]_vars
  PROVE  /\ out' = out \/ HistoryAnswered \/ HandleEvent \/ Drained
         /\ ~Entries /\ ~HandleEvent =>
              queue' = queue \/ Deliver \/ (queue' = <<>> /\ events' = "closed")
         /\ pc' = "history" => pc = "history" \/ (HelloRead /\ IsTail)
<1> USE DEF Coroutine, outVars, Before
<1>1. CASE PiStep
  BY <1>1 DEF PiStep, PiWorks, PiMay, PiReplies, PiTakesPrompt, CommandKeeps
<1>2. CASE Connecting \/ GiveUpConnecting
  BY <1>2 DEF Connecting, GiveUpConnecting, clientVars, ConnectRefused, Connect, Fail
<1>3. CASE HelloRead
  BY <1>3 DEF HelloRead, clientVars, SubscribeTo, ClientKeeps, Fail, IsTail
<1>4. CASE HistoryAnswered \/ LeafAnswered
  BY <1>4 DEF HistoryAnswered, LeafAnswered, clientVars, SubscribeTo, ClientKeeps, Fail
<1>5. CASE NowSubscribed \/ NowCursor \/ SourceEnded \/ FinishAfterStop \/ Return
  BY <1>5 DEF NowSubscribed, NowCursor, SourceEnded, FinishAfterStop, Return, clientVars,
              ClientKeeps, Fail
<1>6. CASE HandleSeed \/ HandleEvent \/ DrainForEvent \/ Drained
  BY <1>6 DEF HandleSeed, HandleEvent, DrainForEvent, Drained, StopAt, Proceed, Fail, clientVars,
              TypeInv, ModeType
<1>7. CASE PromptAnswered \/ TimerFires \/ PiClosesSocket
  BY <1>7 DEF PromptAnswered, TimerFires, PiClosesSocket, SocketClosed, clientVars
<1>8. CASE Deliver
  BY <1>8 DEF Deliver
<1>9. CASE UNCHANGED vars
  BY <1>9 DEF vars, clientVars
<1>10. QED
  BY <1>1, <1>2, <1>3, <1>4, <1>5, <1>6, <1>7, <1>8, <1>9 DEF Next, PiStep

\* The part of OutputInv about the modes with a cursor.
Streams ==
  /\ Increasing(out)
  /\ \A n \in Written, k \in LogEntries : Waiting(k) \/ Coming(k) => n < k
  /\ events = "open" =>
       \A m \in Written, k \in LogEntries : m < k /\ log[k] = "message" =>
         k \in Written \cup missed \/ Waiting(k) \/ Coming(k)
  /\ \A m \in Written, k, n \in LogEntries :
       m < k /\ k < n /\ (n \in Written \/ Waiting(n)) /\ log[k] = "message" =>
         k \in Written \cup missed \/ Waiting(k)

LEMMA WrittenInLog ==
  ASSUME TypeInv, Bounded
  PROVE  Written \subseteq LogEntries
<1>1. Len(out) \in Nat /\ Len(log) \in Nat /\ \A i \in 1 .. Len(out) : out[i] \in Nat
  BY LenProperties, ElementOfSeq, LogLength DEF TypeInv, ModeType
<1>2. QED
  BY <1>1 DEF Written, Bounded, LogEntries

LEMMA OtherStreams ==
  ASSUME TypeInv, Bounded, Order, Setup, SeedComes, ChanInv, QueueInv, OutputInv, [Next]_vars,
         HasCursor, out' = out, ~HandleEvent, ~HistoryAnswered
  PROVE  Streams'
<1>1. /\ Written' = Written /\ Written \subseteq LogEntries /\ ~Entries
      /\ missed \subseteq missed'
  BY WrittenInLog, MissedSteps DEF Written, HasCursor, Entries
<1>2. /\ Len(log) \in Nat /\ Len(log') \in Nat /\ LogEntries \subseteq LogEntries'
      /\ \A n \in LogEntries : log'[n] = log[n]
      /\ \A k \in LogEntries' : \/ k \in LogEntries
                                \/ /\ PiStep /\ log' # log
                                   /\ k = Len(log') /\ Len(log') = Len(log) + 1
  BY NextLog
<1>3. LogEntries \subseteq Nat /\ LogEntries' \subseteq Nat /\ \A n \in LogEntries : n <= Len(log)
  BY <1>2 DEF LogEntries
<1>4. ASSUME NEW k, Waiting(k)
      PROVE  Waiting(k)' \/ queue' = <<>>
  <2>1. CASE queue' = queue
    BY <1>4, <2>1 DEF Waiting, IsEntry
  <2>2. CASE Deliver
    BY <1>4, <2>2, WaitingSteps
  <2>3. QED
    BY <1>1, <2>1, <2>2, OutSteps
<1>5. ASSUME NEW n \in Written, NEW k \in LogEntries', Waiting(k)' \/ Coming(k)'
      PROVE  n < k
  <2>1. CASE Waiting(k) \/ Coming(k)
    BY <2>1, InTheLog DEF OutputInv
  <2>2. CASE Deliver /\ IsEntry(chan[1]) /\ k = chan[1].entry
    <3>1. Coming(k)
      BY <2>2, ComingSteps
    <3>2. QED
      BY <3>1, InTheLog DEF OutputInv
  <2>3. CASE Len(log') = Len(log) + 1 /\ k = Len(log')
    BY <1>1, <1>2, <1>3, <2>3
  <2>4. QED
    BY <1>5, <2>1, <2>2, <2>3, WaitingSteps, ComingSteps
<1>6. ASSUME events' = "open", NEW m \in Written, NEW k \in LogEntries', m < k,
             log'[k] = "message"
      PROVE  k \in Written \cup missed \/ Waiting(k)' \/ Coming(k)'
  <2>1. events = "open"
    <3>1. CASE HelloRead \/ LeafAnswered
      <4>1. pc \in Before
        BY <3>1 DEF HelloRead, LeafAnswered, Before
      <4>2. out = <<>>
        BY <4>1 DEF OutputInv
      <4>3. QED
        BY <1>6, <4>2, EmptySeq DEF Written
    <3>2. QED
      BY <1>6, <3>1, EventsSteps
  <2>2. Connected /\ ~SocketClosed /\ (queue' = queue \/ Deliver)
    BY <1>1, <1>6, <2>1, OpenIsConnected, OutSteps DEF SocketClosed
  <2>3. Connected /\ ~SocketClosed
    BY <1>6, <2>1, OpenIsConnected DEF SocketClosed
  <2>4. CASE k \in LogEntries
    <3>1. k \in Written \cup missed \/ Waiting(k) \/ Coming(k)
      BY <1>2, <1>6, <2>1, <2>4 DEF OutputInv
    <3>2. CASE Waiting(k)
      <4>1. CASE Deliver
        BY <3>2, <4>1, DeliverWaits
      <4>2. CASE queue' = queue
        BY <3>2, <4>2 DEF Waiting, IsEntry
      <4>3. QED
        BY <2>2, <4>1, <4>2
    <3>3. CASE Coming(k)
      BY <2>1, <2>3, <3>3, ComingSteps, WaitingSteps
    <3>4. QED
      BY <3>1, <3>2, <3>3
  <2>5. CASE k \notin LogEntries
    BY <1>2, <2>3, <2>5, ComingSteps
  <2>6. QED
    BY <2>4, <2>5
<1>7. ASSUME NEW m \in Written, NEW k \in LogEntries', NEW n \in LogEntries', m < k, k < n,
             n \in Written \/ Waiting(n)', log'[k] = "message"
      PROVE  k \in Written \cup missed \/ Waiting(k)'
  <2>1. k \in Nat /\ n \in Nat
    BY <1>3
  <2>2. CASE n \in Written
    <3>1. n \in LogEntries /\ k \in LogEntries
      BY <1>1, <1>2, <1>3, <1>7, <2>1, <2>2 DEF LogEntries
    <3>2. k \in Written \cup missed \/ Waiting(k)
      BY <1>2, <1>7, <2>2, <3>1 DEF OutputInv
    <3>3. ~Waiting(k)
      <4>1. Waiting(k) => n < k
        BY <2>2, <3>1 DEF OutputInv
      <4>2. QED
        BY <1>7, <2>1, <4>1
    <3>4. QED
      BY <3>2, <3>3
  <2>3. CASE Waiting(n) /\ Waiting(n)'
    <3>1. n \in LogEntries
      BY <2>3, InTheLog
    <3>2. k \in LogEntries
      BY <1>2, <1>3, <1>7, <2>1, <3>1 DEF LogEntries
    <3>3. k \in Written \cup missed \/ Waiting(k)
      BY <1>2, <1>7, <2>3, <3>1, <3>2 DEF OutputInv
    <3>4. queue' # <<>>
      BY <2>3, EmptySeq DEF Waiting
    <3>5. QED
      BY <1>4, <3>3, <3>4
  <2>4. CASE Deliver /\ events = "open" /\ IsEntry(chan[1]) /\ n = chan[1].entry
    <3>1. Coming(n) /\ n \in LogEntries
      BY <2>4, ComingSteps, InTheLog
    <3>2. k \in LogEntries
      BY <1>2, <1>3, <1>7, <2>1, <3>1 DEF LogEntries
    <3>3. k \in Written \cup missed \/ Waiting(k) \/ Coming(k)
      BY <1>2, <1>7, <2>4, <3>2 DEF OutputInv
    <3>4. ~Coming(k)
      <4>1. ~SocketClosed
        BY <2>4, OpenIsConnected DEF SocketClosed, Deliver, Receive
      <4>2. Coming(k) => Coming(k)'
        BY <1>7, <2>1, <2>4, <4>1, ComingSteps
      <4>3. Coming(k)' => n < k
        BY <2>4, ComingSteps
      <4>4. QED
        BY <1>7, <2>1, <4>2, <4>3
    <3>5. Waiting(k) => Waiting(k)'
      BY <2>4, DeliverWaits
    <3>6. QED
      BY <3>3, <3>4, <3>5
  <2>5. QED
    BY <1>7, <2>2, <2>3, <2>4, WaitingSteps
<1>8. Increasing(out)'
  BY DEF OutputInv, Increasing
<1>9. QED
  BY <1>1, <1>5, <1>6, <1>7, <1>8 DEF Streams

\* What HandleEvent writes is the head of the queue.
LEMMA HeadStreams ==
  ASSUME TypeInv, Bounded, QueueInv, HandleEvent, HasCursor, OutputInv
  PROVE  /\ queue # <<>> /\ (queue' = <<>> \/ queue' = Tail(queue))
         /\ events' = "open" => queue' = Tail(queue)
         /\ \/ Written' = Written /\ Increasing(out)'
               /\ (IsEntry(queue[1].event) => log[queue[1].event.entry] # "message")
            \/ IsEntry(queue[1].event) /\ Written' = Written \cup {queue[1].event.entry}
               /\ Increasing(out)'
<1>1. /\ queue # <<>> /\ out' = out \o Record(Head(queue).event)
      /\ queue' = <<>> \/ queue' = Tail(queue)
      /\ events' = "open" => queue' = Tail(queue)
  BY DEF HandleEvent, StopAt, Proceed
<1>2. /\ Head(queue) = queue[1] /\ queue[1].event \in Events /\ Carries(queue[1].event)
      /\ 1 \in 1 .. Len(queue)
  BY <1>1, QueueTail DEF TypeInv, Queued
<1>3. Record(queue[1].event) \in Seq(Nat) /\ out \in Seq(Nat) /\ Len(out) \in Nat
  BY <1>2, RecordType, LenProperties DEF TypeInv, ModeType
<1>4. IsEntry(queue[1].event) => /\ queue[1].event.entry \in LogEntries
                                 /\ queue[1].event.entry \in Nat \ {0}
                                 /\ Waiting(queue[1].event.entry)
  BY <1>2, ChanTypes DEF Waiting, Carries, IsEntry
<1>5. CASE Record(queue[1].event) = <<>>
  <2>1. out' = out
    BY <1>1, <1>2, <1>3, <1>5, ConcatProperties
  <2>2. queue[1].event.type # "message_end"
    BY <1>5 DEF Record
  <2>3. IsEntry(queue[1].event) => log[queue[1].event.entry] # "message"
    BY <1>2, <2>2 DEF QueueInv
  <2>4. QED
    BY <1>1, <2>1, <2>3 DEF Written, Increasing, OutputInv
<1>6. ASSUME NEW n \in Nat, Record(queue[1].event) = <<n>>
      PROVE  /\ Written' = (Written \cup {n}) \ {0}
             /\ n # 0 /\ (\A m \in Written : m < n) => Increasing(out)'
             /\ n = 0 => Increasing(out)'
  <2>1. /\ Len(out') = Len(out) + 1 /\ out'[Len(out')] = n
        /\ \A i \in 1 .. Len(out) : out'[i] = out[i]
    <3>1. <<n>> \in Seq(Nat) /\ Len(<<n>>) = 1 /\ <<n>>[1] = n
      OBVIOUS
    <3>2. out' = out \o <<n>>
      BY <1>1, <1>2, <1>6
    <3>3. /\ Len(out') = Len(out) + 1
          /\ \A i \in 1 .. Len(out) + 1 :
               out'[i] = IF i <= Len(out) THEN out[i] ELSE <<n>>[i - Len(out)]
      BY <1>3, <3>1, <3>2, ConcatProperties
    <3>4. (Len(out) + 1) - Len(out) = 1 /\ Len(out) + 1 \in 1 .. Len(out) + 1
      BY <1>3
    <3>5. QED
      BY <1>3, <3>1, <3>3, <3>4
  <2>2. \A i \in 1 .. Len(out') : i \in 1 .. Len(out) \/ i = Len(out')
    BY <1>3, <2>1
  <2>3. \A i \in 1 .. Len(out) : i \in 1 .. Len(out')
    BY <1>3, <2>1
  <2>4. Len(out') \in 1 .. Len(out')
    BY <1>3, <2>1
  <2>5. Written' = (Written \cup {n}) \ {0}
    BY <2>1, <2>2, <2>3, <2>4 DEF Written
  <2>6. \A i \in 1 .. Len(out) : out[i] \in Nat /\ (out[i] # 0 => out[i] \in Written)
    BY <1>3, ElementOfSeq DEF Written
  <2>7. \A i, j \in 1 .. Len(out) : i < j /\ out[i] # 0 /\ out[j] # 0 => out[i] < out[j]
    BY DEF OutputInv, Increasing
  <2>8. ASSUME n = 0 \/ \A m \in Written : m < n,
               NEW i \in 1 .. Len(out'), NEW j \in 1 .. Len(out'),
               i < j, out'[i] # 0, out'[j] # 0
        PROVE  out'[i] < out'[j]
    <3>1. i \in 1 .. Len(out) /\ out'[i] = out[i]
      BY <1>3, <2>1, <2>8
    <3>2. CASE j \in 1 .. Len(out)
      BY <2>1, <2>7, <2>8, <3>1, <3>2
    <3>3. CASE j = Len(out')
      BY <2>1, <2>6, <2>8, <3>1, <3>3
    <3>4. QED
      BY <2>2, <3>2, <3>3
  <2>9. QED
    BY <2>5, <2>8 DEF Increasing
<1>7. CASE Record(queue[1].event) = <<0>>
  <2>1. queue[1].event.type # "message_end"
    BY <1>4, <1>7 DEF Record, IsEntry
  <2>2. IsEntry(queue[1].event) => log[queue[1].event.entry] # "message"
    BY <1>2, <2>1 DEF QueueInv
  <2>3. Written' = Written
    BY <1>6, <1>7 DEF Written
  <2>4. QED
    BY <1>1, <1>6, <1>7, <2>2, <2>3
<1>8. CASE IsEntry(queue[1].event) /\ Record(queue[1].event) = <<queue[1].event.entry>>
  <2>1. \A m \in Written : m < queue[1].event.entry
    BY <1>4, <1>8 DEF OutputInv
  <2>2. Written' = Written \cup {queue[1].event.entry}
    BY <1>4, <1>6, <1>8 DEF Written
  <2>3. QED
    BY <1>1, <1>4, <1>6, <1>8, <2>1, <2>2
<1>9. \/ Record(queue[1].event) = <<>> \/ Record(queue[1].event) = <<0>>
      \/ IsEntry(queue[1].event) /\ Record(queue[1].event) = <<queue[1].event.entry>>
  BY <1>2, NoneAssumption DEF Record, IsEntry, Carries, Events
<1>10. QED
  BY <1>5, <1>7, <1>8, <1>9

LEMMA HandleEventStreams ==
  ASSUME TypeInv, Bounded, Order, Setup, SeedComes, ChanInv, QueueInv, OutputInv, [Next]_vars,
         HandleEvent, HasCursor
  PROVE  Streams'
<1> DEFINE h == queue[1].event.entry
           IsHead == IsEntry(queue[1].event)
<1>1. /\ queue # <<>> /\ (queue' = <<>> \/ queue' = Tail(queue))
      /\ events' = "open" => queue' = Tail(queue)
      /\ \/ Written' = Written /\ Increasing(out)' /\ (IsHead => log[h] # "message")
         \/ IsHead /\ Written' = Written \cup {h} /\ Increasing(out)'
  BY HeadStreams
<1>2. /\ UNCHANGED <<log, chan, missed>> /\ (events' = "open" => events = "open") /\ ~Deliver
  <2>1. UNCHANGED <<log, chan, missed>> /\ (events' = "open" => events = "open")
    BY DEF HandleEvent, StopAt, Proceed, piVars, ghosts
  <2>2. Deliver => Len(chan') = Len(chan) - 1 /\ Len(chan) \in Nat
    BY ReceiveArrives DEF Deliver, Arrives
  <2>3. QED
    BY <2>1, <2>2
<1>3. /\ \A k : Coming(k)' <=> Coming(k)
      /\ \A k : Waiting(k)' => Waiting(k)
      /\ \A k : Waiting(k) => Waiting(k)' \/ queue' = <<>> \/ (IsHead /\ k = h)
  BY <1>2, WaitingSteps DEF Coming, ComesAfter, IsEntry
<1>4. /\ LogEntries \subseteq Nat /\ LogEntries' = LogEntries /\ Written \subseteq LogEntries
  BY <1>2, LogLength, WrittenInLog DEF LogEntries
<1>5. IsHead => Waiting(h) /\ h \in LogEntries /\ h \in Nat
  <2>1. 1 \in 1 .. Len(queue)
    BY <1>1, QueueTail DEF TypeInv
  <2>2. IsHead => Waiting(h)
    BY <2>1 DEF Waiting
  <2>3. QED
    BY <1>4, <2>2, InTheLog
<1>6. ASSUME IsHead, NEW k, Waiting(k)
      PROVE  k = h \/ h < k
  <2>1. PICK j \in 1 .. Len(queue) : IsEntry(queue[j].event) /\ queue[j].event.entry = k
    BY <1>6 DEF Waiting
  <2>2. j = 1 \/ 1 < j
    BY <2>1, ChanTypes
  <2>3. 1 \in 1 .. Len(queue)
    BY <1>1, QueueTail DEF TypeInv
  <2>4. QED
    BY <1>6, <2>1, <2>2, <2>3 DEF QueueInv
<1>7. ASSUME IsHead, NEW k, Waiting(k)'
      PROVE  h < k
  <2>1. queue' = Tail(queue)
    BY <1>1, <1>7, EmptySeq DEF Waiting
  <2>2. QED
    BY <1>1, <1>7, <2>1, RestIsLater
<1> HIDE DEF h, IsHead
<1>8. /\ \A n \in Written, k \in LogEntries : Waiting(k) \/ Coming(k) => n < k
      /\ events = "open" =>
           \A m \in Written, k \in LogEntries : m < k /\ log[k] = "message" =>
             k \in Written \cup missed \/ Waiting(k) \/ Coming(k)
      /\ \A m \in Written, k, n \in LogEntries :
           m < k /\ k < n /\ (n \in Written \/ Waiting(n)) /\ log[k] = "message" =>
             k \in Written \cup missed \/ Waiting(k)
  BY DEF OutputInv
<1>9. \A k \in LogEntries : IsHead /\ k = h /\ log[k] = "message" => k \in Written'
  BY <1>1
<1>10. ASSUME NEW n \in Written', NEW k \in LogEntries, Waiting(k)' \/ Coming(k)'
       PROVE  n < k
  <2>1. CASE n \in Written
    BY <1>3, <1>8, <1>10, <2>1
  <2>2. CASE IsHead /\ n = h
    BY <1>3, <1>5, <1>7, <1>10, <2>2 DEF QueueInv
  <2>3. QED
    BY <1>1, <1>10, <2>1, <2>2
<1>11. ASSUME events' = "open", NEW m \in Written', NEW k \in LogEntries, m < k,
              log[k] = "message"
       PROVE  k \in Written' \cup missed \/ Waiting(k)' \/ Coming(k)'
  <2>1. /\ events = "open" /\ queue' = Tail(queue) /\ Written \subseteq Written'
    BY <1>1, <1>2, <1>11
  <2>2. Waiting(k) => Waiting(k)' \/ k \in Written'
    <3>1. CASE IsHead
      <4>1. Waiting(k) /\ queue' = <<>> => k = h
        <5>1. SUFFICES ASSUME Waiting(k), queue' = <<>> PROVE k = h
          OBVIOUS
        <5>2. PICK j \in 1 .. Len(queue) : queue[j].event.entry = k
          BY <5>1 DEF Waiting
        <5>3. Len(queue') = Len(queue) - 1 /\ Len(queue') = 0 /\ Len(queue) \in Nat
          BY <1>1, <2>1, <5>1, QueueTail, ChanTypes, EmptySeq DEF TypeInv
        <5>4. j = 1
          BY <5>2, <5>3
        <5>5. QED
          BY <5>2, <5>4 DEF h
      <4>2. QED
        BY <1>3, <1>9, <1>11, <3>1, <4>1
    <3>2. CASE ~IsHead
      <4>1. ASSUME Waiting(k), queue' = <<>>
            PROVE  FALSE
        <5>1. PICK j \in 1 .. Len(queue) : IsEntry(queue[j].event)
          BY <4>1 DEF Waiting
        <5>2. Len(Tail(queue)) = Len(queue) - 1 /\ Len(queue) \in Nat
          BY <1>1, QueueTail, ChanTypes DEF TypeInv
        <5>3. Len(Tail(queue)) = 0
          BY <2>1, <4>1, EmptySeq
        <5>4. j = 1
          BY <5>1, <5>2, <5>3
        <5>5. QED
          BY <3>2, <5>1, <5>4 DEF IsHead
      <4>2. QED
        BY <1>3, <3>2, <4>1
    <3>3. QED
      BY <3>1, <3>2
  <2>3. k \in Written \cup missed \/ Waiting(k) \/ Coming(k)
    <3>1. CASE m \in Written
      BY <1>8, <1>11, <2>1, <3>1
    <3>2. CASE IsHead /\ m = h
      BY <1>5, <1>11, <2>1, <3>2 DEF QueueInv
    <3>3. QED
      BY <1>1, <1>11, <3>1, <3>2
  <2>4. QED
    BY <1>3, <2>1, <2>2, <2>3
<1>12. ASSUME NEW m \in Written', NEW k \in LogEntries, NEW n \in LogEntries, m < k, k < n,
              n \in Written' \/ Waiting(n)', log[k] = "message"
       PROVE  k \in Written' \cup missed \/ Waiting(k)'
  <2>1. Written \subseteq Written' /\ k \in Nat /\ n \in Nat
    BY <1>1, <1>4
  <2>2. n \in Written \/ Waiting(n)
    BY <1>1, <1>3, <1>5, <1>12
  <2>3. k \in Written \cup missed \/ Waiting(k)
    <3>1. CASE m \in Written
      BY <1>8, <1>12, <2>2, <3>1
    <3>2. CASE IsHead /\ m = h
      <4>1. ~(n \in Written)
        <5>1. n \in Written => n < h
          BY <1>5, <1>8, <3>2
        <5>2. QED
          BY <1>5, <1>12, <2>1, <3>2, <5>1
      <4>2. QED
        BY <1>5, <1>12, <2>2, <3>2, <4>1 DEF QueueInv
    <3>3. QED
      BY <1>1, <1>12, <3>1, <3>2
  <2>4. ASSUME Waiting(k), queue' = <<>>
        PROVE  k \in Written'
    <3>1. n \in Written'
      BY <1>12, <2>4, EmptySeq DEF Waiting
    <3>2. n \notin Written
      <4>1. n \in Written => n < k
        BY <1>8, <2>4
      <4>2. QED
        BY <1>12, <2>1, <4>1
    <3>3. IsHead /\ n = h
      BY <1>1, <3>1, <3>2
    <3>4. k = h \/ h < k
      BY <1>6, <2>4, <3>3
    <3>5. QED
      BY <1>12, <2>1, <3>3, <3>4
  <2>5. QED
    BY <1>3, <1>9, <1>12, <2>1, <2>3, <2>4
<1>13. Increasing(out)'
  BY <1>1
<1>14. QED
  BY <1>2, <1>4, <1>10, <1>11, <1>12, <1>13 DEF Streams

\* The history is the end of the messages that the log held, and what follows
\* it is on its way, unless it was dropped behind the answer.
LEMMA HistoryStreams ==
  ASSUME TypeInv, Bounded, Order, Setup, QueueInv, OutputInv, HistoryInv, [Next]_vars,
         HistoryAnswered, HasCursor
  PROVE  Streams'
<1>1. /\ pc = "history" /\ Answered("history") /\ pc \in Before /\ queue = <<>> /\ out = <<>>
      /\ UNCHANGED <<log, chan, missed, queue>>
      /\ events' = "open" => Connected
  <2>1. pc = "history" /\ Answered("history") /\ pc \in Before
    BY DEF HistoryAnswered, Before
  <2>2. queue = <<>> /\ out = <<>> /\ events = "none" /\ link \notin {"none", "hello"}
    BY <2>1 DEF Setup, OutputInv
  <2>3. UNCHANGED <<log, chan, missed, queue>> /\ (events' = "open" => link # "closed")
    BY <2>2 DEF HistoryAnswered, piVars, clientVars, Fail, SubscribeTo, Subscribe, ClientKeeps
  <2>4. QED
    BY <2>1, <2>2, <2>3 DEF Connected, TypeInv, ClientType
<1>2. /\ \A k : Coming(k)' <=> Coming(k)
      /\ \A k : ~Waiting(k)'
      /\ LogEntries' = LogEntries /\ LogEntries \subseteq Nat
  <2>1. Len(queue') = 0
    BY <1>1, EmptySeq
  <2>2. QED
    BY <1>1, <2>1, LogLength DEF Coming, ComesAfter, Waiting, IsEntry, LogEntries
<1>3. CASE ~reply["history"].ok
  <2>1. out' = <<>>
    BY <1>1, <1>3 DEF HistoryAnswered, Fail, outVars
  <2>2. Written' = {} /\ Increasing(out)'
    BY <2>1, EmptySeq DEF Written, Increasing
  <2>3. QED
    BY <2>2 DEF Streams
<1>4. CASE reply["history"].ok
  <2> DEFINE S == reply["history"].entries
             M == Messages(S)
  <2>1. out' = LimitedTail(InOrder(M))
    BY <1>4 DEF HistoryAnswered, HasCursor, Entries
  <2>2. M \subseteq 1 .. Len(log) /\ EndOf(LimitedTail(InOrder(M)), M, None)
    BY <1>1, HistoryItems DEF Requests
  <2>3. Follows(0, S)
    BY <1>1 DEF HistoryInv, Answered
  <2>4. \A n \in M : n \in S /\ n \in LogEntries
    BY <2>2 DEF Messages, LogEntries
  <2>5. \A k : k \in S /\ log[k] = "message" => k \in M
    BY DEF Messages
  <2> HIDE DEF S, M
  <2>6. /\ Values(out') \subseteq M /\ out' \in Seq(Values(out')) /\ Listing(out', Values(out'))
        /\ \A m \in Values(out'), n \in M : m < n => n \in Values(out')
    BY <2>1, <2>2 DEF EndOf
  <2>7. Written' = Values(out')
    BY <2>2, <2>6 DEF Written, Values
  <2>8. Increasing(out)'
    BY <2>6 DEF Increasing, Listing
  <2>9. ASSUME NEW n \in Written', NEW k \in LogEntries, Coming(k)
        PROVE  n < k
    BY <2>3, <2>4, <2>6, <2>7, <2>9 DEF Follows, Coming
  <2>10. ASSUME events' = "open", NEW m \in Written', NEW k \in LogEntries, m < k,
                log[k] = "message"
         PROVE  k \in Written' \cup missed \/ Coming(k)
    <3>1. m \in M /\ m \in S
      BY <2>4, <2>6, <2>7
    <3>2. k \in S \/ Coming(k) \/ k \in missed
      BY <1>1, <2>3, <2>10, <3>1 DEF Follows, Coming
    <3>3. k \in S => k \in Written'
      BY <2>5, <2>6, <2>7, <2>10
    <3>4. QED
      BY <3>2, <3>3
  <2>11. ASSUME NEW m \in Written', NEW n \in Written', NEW k \in LogEntries, m < k, k < n,
                log[k] = "message"
         PROVE  k \in Written'
    <3>1. m \in S /\ n \in S
      BY <2>4, <2>6, <2>7
    <3>2. k \in S
      BY <2>3, <2>11, <3>1 DEF Follows
    <3>3. QED
      BY <2>5, <2>6, <2>7, <2>11, <3>2
  <2>12. QED
    BY <1>1, <1>2, <2>8, <2>9, <2>10, <2>11 DEF Streams
<1>5. QED
  BY <1>3, <1>4

LEMMA NextOutputInv ==
  ASSUME TypeInv, Bounded, Order, Setup, SeedComes, ChanInv, QueueInv, HistoryInv, OutputInv,
         [Next]_vars
  PROVE  OutputInv'
<1>1. cmd' = cmd
  BY StaysLate
<1>2. pc' \in Before => out' = <<>>
  <2>1. SUFFICES ASSUME pc' \in Before PROVE out' = <<>>
    OBVIOUS
  <2>2. pc \in Before
    BY <2>1, CommandMoves, PiStepShape DEF Changes, CommandKeeps
  <2>3. out = <<>>
    BY <2>2 DEF OutputInv
  <2>4. ~HandleEvent /\ ~Drained
    BY <2>2 DEF HandleEvent, Drained, Before
  <2>5. HistoryAnswered => pc' \notin Before \/ out' = out
    BY DEF HistoryAnswered, SubscribeTo, Fail, outVars, Before
  <2>6. QED
    BY <2>1, <2>3, <2>4, <2>5, OutSteps
<1>3. pc' = "history" => IsTail'
  BY <1>1, OutSteps DEF OutputInv, IsTail
<1>4. ASSUME ~Entries, ~HasCursor
      PROVE  out' = <<>>
  <2>1. out = <<>>
    BY <1>4 DEF OutputInv
  <2>2. cmd.name = "wait"
    BY <1>4, CommandsAssumption DEF TypeInv, ModeType, Entries, HasCursor
  <2>3. ~HistoryAnswered
    BY <2>2 DEF HistoryAnswered, OutputInv, IsTail
  <2>4. ~Drained
    BY <1>4 DEF Drained, TypeInv, ModeType
  <2>5. HandleEvent => out' = out
    BY <1>4 DEF HandleEvent
  <2>6. QED
    BY <2>1, <2>3, <2>4, <2>5, OutSteps
<1>5. ASSUME HasCursor
      PROVE  Streams'
  <2>1. ~Drained
    BY <1>5 DEF Drained, TypeInv, ModeType, HasCursor, Entries
  <2>2. QED
    BY <1>5, <2>1, OutSteps, OtherStreams, HandleEventStreams, HistoryStreams
<1>6. QED
  BY <1>1, <1>2, <1>3, <1>4, <1>5 DEF OutputInv, Streams, Entries, HasCursor, IsTail

-----------------------------------------------------------------------------
(* The entries mode.                                                        *)

LEMMA LastSessionIn ==
  ASSUME TypeInv, Order, Setup, SessionInv, [Next]_vars, Entries, pc \in {"next", "drain"}
  PROVE  /\ lastSession \in 1 .. Len(starts) /\ Len(starts) \in Nat
         /\ \A s \in lastSession .. Len(starts) :
              s \in 1 .. Len(starts) /\ s \in lastSession .. Len(starts')
              /\ starts'[s] = starts[s]
BY NextStarts DEF SessionInv

LEMMA GoesOnStays ==
  ASSUME TypeInv, Order, Setup, SessionInv, [Next]_vars, Entries, pc = "drain",
         out' = out, cursor' = cursor, lastSession' = lastSession,
         NEW answer, GoesOn(answer)
  PROVE  GoesOn(answer)'
<1>1. Written' = Written
  BY DEF Written
<1>2. SUFFICES ASSUME answer.ok PROVE GoesOn(answer)'
  BY DEF GoesOn
<1>3. PICK first \in 0 .. Len(log), length \in 0 .. Len(log) :
        /\ answer.entries = first + 1 .. length
        /\ \A n \in Written : n <= length
        /\ IF cursor # None THEN first = cursor
           ELSE \E s \in lastSession .. Len(starts) : first = starts[s]
  BY <1>2 DEF GoesOn
<1>4. first \in 0 .. Len(log') /\ length \in 0 .. Len(log')
  BY LogGrows
<1>5. IF cursor # None THEN first = cursor
      ELSE \E s \in lastSession .. Len(starts') : first = starts'[s]
  BY <1>3, LastSessionIn
<1>6. QED
  BY <1>1, <1>3, <1>4, <1>5 DEF GoesOn

LEMMA AnswerGoesOn ==
  ASSUME TypeInv, Bounded, Order, Setup, SessionInv, StartsInv, [Next]_vars, PiStep, Entries,
         pc = "drain", NEW q \in asked, q.id = "drain", q.since = cursor, asked' = asked \ {q},
         NEW answer, answer = Answer(q)
  PROVE  GoesOn(answer)'
<1>1. UNCHANGED <<cursor, lastSession, out, log, starts>>
  BY PiStepShape DEF Changes, CommandKeeps, modeVars, outVars
<1>2. Written' = Written
  BY <1>1 DEF Written
<1>3. /\ Len(log) \in Nat /\ Len(starts) \in Nat \ {0} /\ Len(starts) \in 1 .. Len(starts)
      /\ Base \in 0 .. Len(log) /\ cursor \in Nat \cup {None}
      /\ lastSession \in 1 .. Len(starts) /\ Len(starts) \in lastSession .. Len(starts)
  BY NextStarts, LogLength DEF StartsInv, Base, TypeInv, ModeType, SessionInv
<1>4. \A n \in Written : n <= Len(log)
  BY <1>3, WrittenInLog DEF LogEntries
<1>5. SUFFICES ASSUME answer.ok PROVE GoesOn(answer)'
  BY DEF GoesOn
<1>6. answer.entries = After(cursor) /\ (cursor = None \/ InSession(cursor))
  BY <1>5 DEF Answer, Response
<1>7. CASE cursor = None
  <2>1. answer.entries = Base + 1 .. Len(log)
    BY <1>3, <1>6, <1>7 DEF After
  <2>2. QED
    BY <1>1, <1>2, <1>3, <1>4, <1>7, <2>1 DEF GoesOn, Base
<1>8. CASE cursor # None
  <2>1. cursor \in 0 .. Len(log)
    BY <1>3, <1>6, <1>8 DEF InSession
  <2>2. answer.entries = cursor + 1 .. Len(log)
    BY <1>3, <1>6, <1>8, <2>1 DEF After, InSession
  <2>3. QED
    BY <1>1, <1>2, <1>3, <1>4, <1>8, <2>1, <2>2 DEF GoesOn
<1>9. QED
  BY <1>7, <1>8

LEMMA PiStepEntriesAsked ==
  ASSUME TypeInv, Bounded, Order, Setup, SessionInv, StartsInv, EntriesInv, [Next]_vars, PiStep
  PROVE  EntriesAsked'
<1>1. /\ Sends /\ Changes /\ Len(chan) \in Nat
      /\ UNCHANGED <<cursor, lastSession, pc, out, cmd, reply>>
  BY PiStepShape, ChanTypes DEF Changes, CommandKeeps, modeVars, outVars
<1>2. SUFFICES ASSUME Entries, pc = "drain" PROVE EntriesAsked'
  BY <1>1 DEF EntriesAsked, Entries
<1>3. \A q \in asked' : q.id = "drain" => q.since = cursor
  BY <1>1, <1>2 DEF EntriesInv, EntriesAsked, Changes
<1>4. ASSUME NEW answer, GoesOn(answer)
      PROVE  GoesOn(answer)'
  BY <1>1, <1>2, <1>4, GoesOnStays
<1>5. ASSUME NEW i \in 1 .. Len(chan'), Answering(i, "drain")', NEW answer, answer = chan'[i]
      PROVE  GoesOn(answer)'
  <2>1. CASE i \in 1 .. Len(chan)
    <3>1. chan[i] = answer
      BY <1>1, <1>5, <2>1 DEF Sends
    <3>2. GoesOn(answer)
      BY <1>2, <1>5, <2>1, <3>1 DEF EntriesInv, EntriesAsked, Answering
    <3>3. QED
      BY <1>4, <3>2
  <2>2. CASE i \in Len(chan) + 1 .. Len(chan')
    <3>1. IsNew(answer) /\ answer.type = "response" /\ answer.to = "drain"
      BY <1>1, <1>5, <2>2 DEF Sends, Answering
    <3>2. PICK q \in asked : asked' = asked \ {q} /\ q.id = "drain" /\ answer = Answer(q)
      BY <3>1 DEF IsNew
    <3>3. q.since = cursor
      BY <1>2, <3>2 DEF EntriesInv, EntriesAsked
    <3>4. QED
      BY <1>2, <3>2, <3>3, AnswerGoesOn
  <2>3. QED
    BY <1>1, <1>5, <2>1, <2>2 DEF Sends
<1>6. ASSUME NEW answer, answer = reply["drain"], answer # None
      PROVE  GoesOn(answer)'
  BY <1>2, <1>4, <1>6 DEF EntriesInv, EntriesAsked
<1>7. QED
  BY <1>1, <1>3, <1>5, <1>6 DEF EntriesAsked, GoesOn

LEMMA DrainForEventAsked ==
  ASSUME TypeInv, OnceInv, DrainForEvent
  PROVE  EntriesAsked'
<1>1. UNCHANGED <<chan>> /\ cursor' \in {None, cursor} /\ Ask("drain", cursor') /\ pc = "next"
  BY DEF DrainForEvent, CursorFor
<1>2. ~InFlight("drain")
  BY <1>1 DEF OnceInv, Waits
<1>3. \A q \in asked' : q.id = "drain" => q.since = cursor'
  BY <1>1, <1>2 DEF Ask, InFlight, AskedFor
<1>4. \A i \in 1 .. Len(chan') : ~Answering(i, "drain")'
  BY <1>1, <1>2 DEF InFlight, Answering
<1>5. reply'["drain"] # None => ~reply'["drain"].ok
  <2>1. "drain" \in DOMAIN reply /\ ~Failure.ok
    BY DEF TypeInv, ClientType, Requests, Failure, Response
  <2>2. reply'["drain"] \in {Failure, None}
    BY <1>1, <2>1 DEF Ask
  <2>3. QED
    BY <2>1, <2>2
<1>6. reply'["drain"] # None => GoesOn(reply["drain"])'
  BY <1>5 DEF GoesOn
<1>7. QED
  BY <1>3, <1>4, <1>6 DEF EntriesAsked

LEMMA OtherEntriesAsked ==
  ASSUME TypeInv, Bounded, Order, OnceInv, Setup, SessionInv, EntriesInv, [Next]_vars,
         ~PiStep, ~DrainForEvent
  PROVE  EntriesAsked'
<1>1. SUFFICES ASSUME Entries, pc' = "drain" PROVE EntriesAsked'
  BY StaysLate DEF EntriesAsked, Entries
<1>2. pc = "drain"
  BY <1>1, CursorMoves
<1>3. UNCHANGED <<cursor, lastSession, out>>
  <2>1. ~HistoryAnswered /\ ~LeafAnswered /\ ~HandleEvent /\ ~HandleSeed
    BY <1>2 DEF HistoryAnswered, LeafAnswered, HandleEvent, HandleSeed
  <2>2. ~Drained
    BY <1>1 DEF Drained, StopAt, Proceed
  <2>3. cursor' = cursor
    BY <2>1, <2>2, CursorMoves
  <2>4. out' = out
    BY <2>1, <2>2, OutSteps
  <2>5. lastSession' = lastSession
    BY <2>1, SessionSteps
  <2>6. QED
    BY <2>3, <2>4, <2>5
<1>4. ASSUME NEW answer, GoesOn(answer)
      PROVE  GoesOn(answer)'
  BY <1>1, <1>2, <1>3, <1>4, GoesOnStays
<1>5. \A q \in asked' : q.id = "drain" => q \in asked
  <2>1. CASE Deliver \/ Connecting \/ SocketClosed
    BY <1>2, <2>1 DEF Deliver, Receive, Connecting, SocketClosed
  <2>2. CASE Requesting
    BY <1>2, <2>2 DEF Requesting, Asking, Ask, AskedBy
  <2>3. QED
    BY <2>1, <2>2, CommandSteps
<1>6. ASSUME NEW i \in 1 .. Len(chan'), Answering(i, "drain")', NEW answer, answer = chan'[i]
      PROVE  GoesOn(answer)'
  <2>1. ~Connecting
    BY <1>2 DEF Connecting
  <2>2. PICK j \in 1 .. Len(chan) : chan'[i] = chan[j]
    BY <1>6, <2>1, AnswerSteps
  <2>3. GoesOn(answer)
    BY <1>1, <1>2, <1>6, <2>2 DEF EntriesInv, EntriesAsked, Answering
  <2>4. QED
    BY <1>4, <2>3
<1>7. ASSUME NEW answer, answer = reply'["drain"], answer # None
      PROVE  GoesOn(answer)'
  <2>1. CASE answer = Failure
    BY <2>1 DEF GoesOn, Failure, Response
  <2>2. CASE answer = reply["drain"]
    BY <1>1, <1>2, <1>4, <1>7, <2>2 DEF EntriesInv, EntriesAsked
  <2>3. CASE Answering(1, "drain") /\ 1 \in 1 .. Len(chan) /\ answer = chan[1]
    BY <1>1, <1>2, <1>4, <2>3 DEF EntriesInv, EntriesAsked
  <2>4. QED
    BY <1>7, <2>1, <2>2, <2>3, ReplySteps DEF Requests
<1>8. QED
  BY <1>1, <1>2, <1>3, <1>5, <1>6, <1>7 DEF EntriesInv, EntriesAsked, GoesOn

\* A drain goes on where the output ends, but for what came early.
LEMMA DrainedGoesOn ==
  ASSUME TypeInv, Bounded, StartsInv, SessionInv, EntriesInv, Drained, reply["drain"].ok
  PROVE  \E first \in 0 .. Len(log), length \in 0 .. Len(log) :
           /\ reply["drain"].entries = first + 1 .. length
           /\ \A n \in Written : n <= length
           /\ \A n \in Written \ early : n <= first
           /\ IF cursor # None THEN first = cursor /\ (cursor \in Written \/ Written = {})
              ELSE \E s \in 1 .. Len(starts) : first = starts[s]
<1>1. pc = "drain" /\ Answered("drain") /\ Entries
  BY DEF Drained, TypeInv, ModeType
<1>2. /\ GoesOn(reply["drain"])
      /\ cursor # None => /\ cursor \in Written \/ Written = {}
                          /\ \A n \in Written \ early : n <= cursor
      /\ cursor = None => \A n \in Written \ early : n <= starts[lastSession]
  BY <1>1 DEF EntriesInv, EntriesAsked, EntriesPlace, Answered
<1>3. PICK first \in 0 .. Len(log), length \in 0 .. Len(log) :
        /\ reply["drain"].entries = first + 1 .. length
        /\ \A n \in Written : n <= length
        /\ IF cursor # None THEN first = cursor
           ELSE \E s \in lastSession .. Len(starts) : first = starts[s]
  BY <1>2 DEF GoesOn
<1>4. CASE cursor # None
  BY <1>2, <1>3, <1>4
<1>5. CASE cursor = None
  <2>1. PICK s \in lastSession .. Len(starts) : first = starts[s]
    BY <1>3, <1>5
  <2>2. /\ lastSession \in 1 .. Len(starts) /\ s \in 1 .. Len(starts) /\ lastSession <= s
        /\ starts[s] \in Nat /\ starts[lastSession] \in Nat
    <3>1. lastSession \in 1 .. Len(starts) /\ starts \in Seq(Nat) /\ Len(starts) \in Nat
      BY <1>1, LenProperties DEF SessionInv, TypeInv, PiType
    <3>2. s \in 1 .. Len(starts) /\ lastSession <= s
      BY <2>1, <3>1
    <3>3. QED
      BY <3>1, <3>2, ElementOfSeq
  <2>3. starts[lastSession] <= first
    BY <2>1, <2>2 DEF StartsInv
  <2>4. Written \subseteq Nat
    BY WrittenInLog, LogLength DEF LogEntries
  <2>5. \A n \in Written \ early : n <= first
    BY <1>2, <1>5, <2>2, <2>3, <2>4
  <2>6. QED
    BY <1>3, <1>5, <2>1, <2>2, <2>5
<1>6. QED
  BY <1>4, <1>5

\* What it writes.
LEMMA DrainedOut ==
  ASSUME TypeInv, Bounded, Drained, reply["drain"].ok, NEW S, S = reply["drain"].entries
  PROVE  /\ Written' = Written \cup S /\ S \subseteq LogEntries /\ early \subseteq early'
         /\ \A i \in 1 .. Len(out') :
              \/ i \in 1 .. Len(out) /\ out'[i] = out[i]
              \/ i \in Len(out) + 1 .. Len(out') /\ out'[i] \in S
         /\ \A i, j \in Len(out) + 1 .. Len(out') : i < j => out'[i] < out'[j]
<1> DEFINE items == InOrder(S)
<1>1. /\ out' = out \o items /\ Answered("drain") /\ early \subseteq early'
  BY DEF Drained
<1>2. S \subseteq 1 .. Len(log) /\ Len(log) \in Nat /\ 1 .. Len(log) \subseteq Nat \ {0}
  BY <1>1, LogLength DEF Answered, Bounded, Requests
<1>3. items \in Seq(S) /\ Listing(items, S)
  BY <1>2, InOrderLists
<1>4. /\ items \in Seq(Nat) /\ out \in Seq(Nat) /\ Len(items) \in Nat /\ Len(out) \in Nat
      /\ \A i \in 1 .. Len(items) : items[i] \in S
  BY <1>2, <1>3, SeqMonotonic, LenProperties, ElementOfSeq DEF TypeInv, ModeType
<1> HIDE DEF items
<1>5. /\ Len(out') = Len(out) + Len(items)
      /\ \A i \in 1 .. Len(out) : out'[i] = out[i]
      /\ \A i \in Len(out) + 1 .. Len(out') :
           i - Len(out) \in 1 .. Len(items) /\ out'[i] = items[i - Len(out)]
  <2>1. /\ Len(out') = Len(out) + Len(items)
        /\ \A i \in 1 .. Len(out) + Len(items) :
             out'[i] = IF i <= Len(out) THEN out[i] ELSE items[i - Len(out)]
    BY <1>1, <1>4, ConcatProperties
  <2>2. QED
    BY <1>4, <2>1
<1>6. \A i \in 1 .. Len(out') : \/ i \in 1 .. Len(out) /\ out'[i] = out[i]
                                \/ i \in Len(out) + 1 .. Len(out') /\ out'[i] \in S
  BY <1>4, <1>5, SMTT(30)
<1>7. ASSUME NEW i \in Len(out) + 1 .. Len(out'), NEW j \in Len(out) + 1 .. Len(out'), i < j
      PROVE  out'[i] < out'[j]
  <2>1. i - Len(out) < j - Len(out)
    BY <1>4, <1>5, <1>7
  <2>2. QED
    BY <1>3, <1>5, <2>1 DEF Listing
<1>8. Written' \subseteq Written \cup S
  BY <1>6 DEF Written
<1>9. Written \subseteq Written' /\ S \subseteq Written'
  BY DrainWritten
<1>10. QED
  BY <1>1, <1>2, <1>6, <1>7, <1>8, <1>9 DEF LogEntries

LEMMA DrainedEntriesOut ==
  ASSUME TypeInv, Bounded, StartsInv, SessionInv, EntriesInv, Drained, reply["drain"].ok,
         UNCHANGED <<log, starts>>
  PROVE  EntriesOut'
<1> DEFINE S == reply["drain"].entries
<1>1. PICK first \in 0 .. Len(log), length \in 0 .. Len(log) :
        /\ S = first + 1 .. length
        /\ \A n \in Written : n <= length
        /\ \A n \in Written \ early : n <= first
        /\ IF cursor # None THEN first = cursor /\ (cursor \in Written \/ Written = {})
           ELSE \E s \in 1 .. Len(starts) : first = starts[s]
  BY DrainedGoesOn
<1>2. /\ Written' = Written \cup S /\ S \subseteq LogEntries /\ early \subseteq early'
      /\ \A i \in 1 .. Len(out') :
           \/ i \in 1 .. Len(out) /\ out'[i] = out[i]
           \/ i \in Len(out) + 1 .. Len(out') /\ out'[i] \in S
      /\ \A i, j \in Len(out) + 1 .. Len(out') : i < j => out'[i] < out'[j]
  BY DrainedOut
<1> HIDE DEF S
<1>3. /\ Entries /\ Written \subseteq LogEntries /\ LogEntries \subseteq Nat /\ Len(log) \in Nat
      /\ Len(out) \in Nat /\ first \in Nat /\ length \in Nat
      /\ \A i \in 1 .. Len(out) : out[i] \in Nat /\ (out[i] = 0 \/ out[i] \in Written)
      /\ \A s \in 1 .. Len(starts) : starts[s] \in Nat
  BY WrittenInLog, LogLength, LenProperties, ElementOfSeq, SMTT(30)
     DEF LogEntries, Drained, TypeInv, ModeType, PiType, Written
<1>4. /\ \A i, j \in 1 .. Len(out) : i < j => out[i] < out[j] \/ out[i] \in early
      /\ \A m, n \in Written, k \in LogEntries :
           m < k /\ k < n /\ SameSession({m, k, n}) => k \in Written
  BY <1>3 DEF EntriesInv, EntriesOut
<1>5. ASSUME NEW i \in 1 .. Len(out'), NEW j \in 1 .. Len(out'), i < j
      PROVE  out'[i] < out'[j] \/ out'[i] \in early'
  <2>1. CASE i \in 1 .. Len(out) /\ j \in 1 .. Len(out)
    BY <1>2, <1>4, <1>5, <2>1
  <2>2. CASE i \in 1 .. Len(out) /\ j \in Len(out) + 1 .. Len(out')
    <3>1. /\ out'[i] = out[i] /\ out'[j] \in S /\ out[i] \in Nat
          /\ out[i] \in early \/ out[i] <= first
      BY <1>1, <1>2, <1>3, <2>2
    <3>2. QED
      BY <1>1, <1>2, <1>3, <3>1
  <2>3. CASE i \in Len(out) + 1 .. Len(out') /\ j \in Len(out) + 1 .. Len(out')
    BY <1>2, <1>5, <2>3
  <2>4. QED
    BY <1>2, <1>3, <1>5, <2>1, <2>2, <2>3
<1>6. ASSUME NEW m \in Written', NEW n \in Written', NEW k \in LogEntries, m < k, k < n,
             SameSession({m, k, n})
      PROVE  k \in Written'
  <2>1. m \in Nat /\ k \in Nat /\ n \in Nat
    BY <1>2, <1>3
  <2>2. CASE m \in Written /\ n \in Written
    BY <1>2, <1>4, <1>6, <2>2
  <2>3. CASE m \in S
    <3>1. n <= length
      BY <1>1, <1>2, <1>3, <2>1
    <3>2. k \in S
      BY <1>1, <1>3, <1>6, <2>1, <2>3, <3>1
    <3>3. QED
      BY <1>2, <3>2
  <2>4. CASE m \in Written /\ n \in S
    <3>1. CASE k > first
      <4>1. k \in S
        BY <1>1, <1>3, <1>6, <2>1, <2>4, <3>1
      <4>2. QED
        BY <1>2, <4>1
    <3>2. CASE k <= first
      <4>1. CASE cursor # None
        <5>1. first = cursor /\ cursor \in Written
          BY <1>1, <2>4, <4>1
        <5>2. CASE k = first
          BY <1>2, <5>1, <5>2
        <5>3. CASE k < first
          <6>1. first < n
            BY <1>1, <1>3, <2>4
          <6>2. \A s \in 1 .. Len(starts) :
                  /\ (m > starts[s] <=> n > starts[s])
                  /\ (k > starts[s] <=> n > starts[s])
            BY <1>6 DEF SameSession
          <6>3. \A s \in 1 .. Len(starts) : first > starts[s] <=> n > starts[s]
            BY <1>3, <1>6, <2>1, <5>3, <6>1, <6>2
          <6>4. SameSession({m, k, first})
            BY <6>2, <6>3 DEF SameSession
          <6>5. QED
            BY <1>2, <1>4, <1>6, <2>4, <5>1, <5>3, <6>4
        <5>4. QED
          BY <1>3, <2>1, <3>2, <5>2, <5>3
      <4>2. CASE cursor = None
        <5>1. PICK s \in 1 .. Len(starts) : first = starts[s]
          BY <1>1, <4>2
        <5>2. n > starts[s]
          BY <1>1, <1>3, <2>1, <2>4, <5>1
        <5>3. k > starts[s]
          BY <1>6, <5>2 DEF SameSession
        <5>4. QED
          BY <1>3, <2>1, <3>2, <5>1, <5>3
      <4>3. QED
        BY <4>1, <4>2
    <3>3. QED
      BY <1>3, <2>1, <3>1, <3>2
  <2>5. QED
    BY <1>2, <1>6, <2>2, <2>3, <2>4
<1>7. QED
  BY <1>5, <1>6 DEF EntriesOut, LogEntries, SameSession

\* The history is the end of what the log held.
LEMMA HistoryOut ==
  ASSUME TypeInv, Bounded, OutputInv, HistoryInv, HistoryAnswered, Entries, reply["history"].ok,
         NEW S, S = reply["history"].entries
  PROVE  /\ S \subseteq LogEntries /\ Follows(0, S) /\ EndOf(out', S, cursor)
         /\ Written' = Values(out') /\ Written' \subseteq S
         /\ cursor' = LastOf(out', cursor)
<1>1. /\ pc = "history" /\ Answered("history") /\ out' = LimitedTail(InOrder(S))
      /\ cursor' = LastOf(LimitedTail(InOrder(S)), cursor)
  BY DEF HistoryAnswered
<1>2. S \subseteq 1 .. Len(log) /\ EndOf(out', S, cursor)
  BY <1>1, HistoryItems DEF Requests
<1>3. Follows(0, S)
  BY <1>1 DEF HistoryInv, Answered
<1>4. Values(out') \subseteq S
  BY <1>2 DEF EndOf
<1>5. Written' = Values(out')
  <2>1. 0 \notin Values(out')
    BY <1>2, <1>4, LogLength
  <2>2. QED
    BY <2>1 DEF Written, Values
<1>6. QED
  BY <1>1, <1>2, <1>3, <1>4, <1>5 DEF LogEntries

LEMMA HistoryEntriesOut ==
  ASSUME TypeInv, Bounded, OutputInv, HistoryInv, HistoryAnswered, Entries, reply["history"].ok
  PROVE  EntriesOut'
<1> DEFINE S == reply["history"].entries
<1>1. /\ Follows(0, S) /\ EndOf(out', S, cursor) /\ Written' = Values(out') /\ Written' \subseteq S
      /\ S \subseteq LogEntries /\ LogEntries \subseteq Nat /\ log' = log
  BY HistoryOut, LogLength DEF HistoryAnswered, piVars, LogEntries
<1> HIDE DEF S
<1>2. /\ \A i, j \in 1 .. Len(out') : i < j => out'[i] < out'[j]
      /\ \A m \in Values(out'), n \in S : m < n => n \in Values(out')
  BY <1>1 DEF EndOf, Listing
<1>3. \A m, n \in Written', k \in LogEntries : m < k /\ k < n => k \in Written'
  BY <1>1, <1>2 DEF Follows
<1>4. QED
  BY <1>1, <1>2, <1>3 DEF EntriesOut, LogEntries

\* Where nothing is written, and pi does not undo what it has done.
LEMMA OtherEntriesOut ==
  ASSUME TypeInv, Bounded, Order, Setup, StartsInv, EntriesInv, [Next]_vars, out' = out,
         early \subseteq early'
  PROVE  EntriesOut'
<1>1. SUFFICES ASSUME Entries PROVE EntriesOut'
  BY StaysLate DEF EntriesOut, Entries
<1>2. /\ Written' = Written /\ Written \subseteq LogEntries
      /\ Len(log) \in Nat /\ Len(log') \in Nat
  BY WrittenInLog, LogGrows DEF Written
<1>3. ASSUME NEW m \in Written, NEW n \in Written, NEW k \in 1 .. Len(log'), m < k, k < n,
             SameSession({m, k, n})'
      PROVE  k \in Written
  <2>1. k \in LogEntries
    BY <1>2, <1>3 DEF LogEntries
  <2>2. SameSession({m, k, n})
    BY <1>3, NextStarts DEF SameSession
  <2>3. QED
    BY <1>1, <1>3, <2>1, <2>2 DEF EntriesInv, EntriesOut
<1>4. \A m, n \in Written', k \in LogEntries' :
        m < k /\ k < n /\ SameSession({m, k, n})' => k \in Written'
  BY <1>2, <1>3 DEF LogEntries
<1>5. \A i, j \in 1 .. Len(out') : i < j => out'[i] < out'[j] \/ out'[i] \in early'
  BY <1>1 DEF EntriesInv, EntriesOut
<1>6. QED
  BY <1>4, <1>5 DEF EntriesOut, SameSession

LEMMA EarlySteps ==
  ASSUME TypeInv, [Next]_vars
  PROVE  /\ early' = early \/ (Drained /\ reply["drain"].ok)
         /\ early \subseteq early'
<1> USE DEF Coroutine, ghosts
<1>1. CASE PiStep
  BY <1>1, PiStepShape DEF Changes
<1>2. CASE Deliver
  BY <1>2 DEF Deliver
<1>3. CASE Connecting \/ GiveUpConnecting \/ HelloRead \/ HistoryAnswered \/ LeafAnswered
  BY <1>3 DEF Connecting, GiveUpConnecting, HelloRead, HistoryAnswered, LeafAnswered
<1>4. CASE NowSubscribed \/ NowCursor \/ SourceEnded \/ FinishAfterStop \/ Return
  BY <1>4 DEF NowSubscribed, NowCursor, SourceEnded, FinishAfterStop, Return
<1>5. CASE HandleSeed \/ HandleEvent \/ DrainForEvent
  BY <1>5 DEF HandleSeed, HandleEvent, DrainForEvent
<1>6. CASE Drained
  BY <1>6 DEF Drained
<1>7. CASE PromptAnswered \/ TimerFires \/ PiClosesSocket \/ UNCHANGED vars
  BY <1>7 DEF PromptAnswered, TimerFires, PiClosesSocket, vars
<1>8. QED
  BY <1>1, <1>2, <1>3, <1>4, <1>5, <1>6, <1>7 DEF Next, PiStep

LEMMA NextEntriesOut ==
  ASSUME TypeInv, Bounded, Order, Setup, StartsInv, SessionInv, OutputInv, HistoryInv,
         EntriesInv, [Next]_vars
  PROVE  EntriesOut'
<1>1. cmd' = cmd /\ early \subseteq early'
  BY StaysLate, EarlySteps
<1>2. CASE out' = out
  BY <1>1, <1>2, OtherEntriesOut
<1>3. CASE ~Entries
  BY <1>1, <1>3 DEF EntriesOut, Entries
<1>4. CASE HistoryAnswered /\ Entries /\ reply["history"].ok
  BY <1>4, HistoryEntriesOut
<1>5. CASE Drained /\ reply["drain"].ok
  BY <1>5, DrainedEntriesOut DEF Drained, piVars
<1>6. HistoryAnswered /\ ~reply["history"].ok => out' = out
  BY DEF HistoryAnswered, Fail, outVars
<1>7. Drained /\ ~reply["drain"].ok => out' = out
  BY DEF Drained
<1>8. HandleEvent => ~Entries
  BY DEF HandleEvent
<1>9. QED
  BY <1>2, <1>3, <1>4, <1>5, <1>6, <1>7, <1>8, OutSteps

\* The steps that move neither the cursor nor the output.
LEMMA QuietSteps ==
  ASSUME TypeInv, Order, Setup, SessionInv, [Next]_vars, Entries
  PROVE  \/ HelloRead \/ HistoryAnswered \/ LeafAnswered \/ HandleSeed \/ DrainForEvent \/ Drained
         \/ /\ UNCHANGED <<cursor, lastSession, out, early>>
            /\ pc' \in {"seed", "next", "drain"} => pc' = pc
            /\ pc = "seed" => seed' = seed \/ seed = None
<1> USE DEF modeVars, outVars, ghosts, clientVars
<1>1. CASE PiStep
  BY <1>1, PiStepShape DEF Changes, CommandKeeps
<1>2. CASE Deliver
  <2>1. seed' = seed \/ state = None
    BY <1>2 DEF Deliver, Receive, DispatchLine
  <2>2. QED
    BY <1>2, <2>1 DEF Deliver, SessionInv
<1>3. CASE Connecting \/ GiveUpConnecting \/ NowSubscribed \/ NowCursor
  BY <1>3 DEF Connecting, GiveUpConnecting, NowSubscribed, NowCursor, Fail, ConnectRefused, Connect
<1>4. CASE SourceEnded \/ FinishAfterStop \/ Return
  BY <1>4 DEF SourceEnded, FinishAfterStop, Return, Fail
<1>5. CASE PromptAnswered \/ TimerFires \/ PiClosesSocket
  BY <1>5 DEF PromptAnswered, TimerFires, PiClosesSocket, SocketClosed
<1>6. CASE HandleEvent
  BY <1>6 DEF HandleEvent
<1>7. CASE UNCHANGED vars
  BY <1>7 DEF vars
<1>8. QED
  BY <1>1, <1>2, <1>3, <1>4, <1>5, <1>6, <1>7 DEF Next, PiStep, Coroutine

LEMMA QuietEntriesPlace ==
  ASSUME TypeInv, Bounded, Order, Setup, StartsInv, SessionInv, EntriesInv, [Next]_vars, Entries,
         UNCHANGED <<cursor, lastSession, out, early>>,
         pc' \in {"seed", "next", "drain"} => pc' = pc,
         pc = "seed" => seed' = seed \/ seed = None
  PROVE  EntriesPlace'
<1>1. /\ Written' = Written /\ Written \subseteq LogEntries /\ Len(log) \in Nat
      /\ LogEntries \subseteq Nat
  BY WrittenInLog, LogLength DEF Written, LogEntries
<1>2. ASSUME NEW s \in 1 .. Len(starts')
      PROVE  \/ s \in 1 .. Len(starts) /\ starts'[s] = starts[s]
             \/ \A n \in Written : ~(n > starts'[s])
  <2>1. CASE s \in 1 .. Len(starts)
    BY <2>1, NextStarts
  <2>2. CASE s \notin 1 .. Len(starts)
    <3>1. starts'[s] = Len(log)
      BY <1>2, <2>2, NextStarts
    <3>2. \A n \in Written : n <= Len(log) /\ n \in Nat
      BY <1>1 DEF LogEntries
    <3>3. QED
      BY <1>1, <3>1, <3>2
  <2>3. QED
    BY <2>1, <2>2
<1>3. ASSUME pc' = "seed"
      PROVE  /\ cursor = None => Written = {}
             /\ \A n \in Written, s \in 1 .. Len(starts') : n > starts'[s] =>
                  seed' # None /\ s <= seed'.session
  <2>1. pc = "seed"
    BY <1>3
  <2>2. \A n \in Written, s \in 1 .. Len(starts) : n > starts[s] =>
          seed # None /\ s <= seed.session
    BY <2>1 DEF EntriesInv, EntriesPlace
  <2>3. QED
    BY <1>2, <2>1, <2>2 DEF EntriesInv, EntriesPlace
<1>4. ASSUME pc' \in {"next", "drain"}
      PROVE  /\ cursor = None => \A n \in Written \ early : n <= starts'[lastSession]
             /\ \A n \in Written \ early, s \in 1 .. Len(starts') : n > starts'[s] =>
                  s <= lastSession
  <2>1. pc \in {"next", "drain"}
    BY <1>4
  <2>2. starts'[lastSession] = starts[lastSession]
    BY <2>1, NextStarts DEF SessionInv
  <2>3. QED
    BY <1>2, <2>1, <2>2 DEF EntriesInv, EntriesPlace
<1>5. ASSUME pc' \in {"seed", "next", "drain"}, cursor # None
      PROVE  /\ cursor \in Written \/ Written = {}
             /\ \A n \in Written \ early : n <= cursor
  BY <1>5 DEF EntriesInv, EntriesPlace
<1>6. QED
  BY <1>1, <1>3, <1>4, <1>5 DEF EntriesPlace

LEMMA HistoryEntriesPlace ==
  ASSUME TypeInv, Bounded, OutputInv, HistoryInv, HistoryAnswered, Entries
  PROVE  EntriesPlace'
<1>1. SUFFICES ASSUME reply["history"].ok, pc' = "seed" PROVE EntriesPlace'
  BY DEF HistoryAnswered, Fail, SubscribeTo, EntriesPlace
<1> DEFINE S == reply["history"].entries
<1>2. /\ S \subseteq LogEntries /\ Follows(0, S) /\ EndOf(out', S, cursor)
      /\ Written' = Values(out') /\ Written' \subseteq S /\ cursor' = LastOf(out', cursor)
  BY <1>1, HistoryOut
<1>3. seed' = state /\ starts' = starts
  BY <1>1 DEF HistoryAnswered, SubscribeTo, Subscribe, piVars
<1> HIDE DEF S
<1>4. S # {} => cursor' \in Written' /\ (\A n \in S : n <= cursor') /\ cursor' # None
  BY <1>2, LogLength, NoneAssumption DEF EndOf, LogEntries
<1>5. S = {} => Written' = {}
  BY <1>2
<1>6. ASSUME NEW n \in Written', NEW s \in 1 .. Len(starts), n > starts[s]
      PROVE  state # None /\ s <= state.session
  BY <1>2, <1>6 DEF Follows, Known
<1>7. QED
  BY <1>1, <1>2, <1>3, <1>4, <1>5, <1>6 DEF EntriesPlace

LEMMA DrainForEventPlace ==
  ASSUME TypeInv, Bounded, SessionInv, StartsInv, EntriesInv, DrainForEvent
  PROVE  EntriesPlace'
<1> DEFINE to == Head(queue).state.session
<1>1. /\ pc = "next" /\ pc' = "drain" /\ queue # <<>> /\ Entries /\ lastSession' = to
      /\ cursor' = IF to # lastSession THEN None ELSE cursor
      /\ UNCHANGED <<out, early, starts>>
  BY DEF DrainForEvent, CursorFor, outVars, ghosts, piVars
<1>2. 1 \in 1 .. Len(queue) /\ Head(queue) = queue[1] /\ Head(queue) \in Queued
  BY <1>1, QueueTail DEF TypeInv
<1>3. /\ lastSession \in 1 .. Len(starts) /\ to \in Nat /\ state # None
      /\ lastSession <= to /\ to <= state.session /\ state.session <= Len(starts)
      /\ state.session \in Nat /\ Len(starts) \in Nat
  BY <1>1, <1>2, LenProperties
     DEF SessionInv, Queued, States, TypeInv, ClientType, PiType
<1>4. to \in 1 .. Len(starts)
  BY <1>3
<1>5. /\ Written' = Written /\ Written \subseteq Nat
      /\ \A s \in 1 .. Len(starts) : starts[s] \in Nat
  BY <1>1, WrittenInLog, LogLength, ElementOfSeq DEF Written, LogEntries, TypeInv, PiType
<1> HIDE DEF to
<1>6. /\ cursor # None => /\ cursor \in Written \/ Written = {}
                          /\ \A n \in Written \ early : n <= cursor
      /\ cursor = None => \A n \in Written \ early : n <= starts[lastSession]
      /\ \A n \in Written \ early, s \in 1 .. Len(starts) : n > starts[s] => s <= lastSession
  BY <1>1 DEF EntriesInv, EntriesPlace
<1>7. \A n \in Written \ early, s \in 1 .. Len(starts) : n > starts[s] => s <= to
  BY <1>3, <1>6
<1>8. ASSUME cursor' = None, NEW n \in Written \ early
      PROVE  n <= starts[to]
  <2>1. CASE to = lastSession
    BY <1>1, <1>6, <1>8, <2>1
  <2>2. CASE to # lastSession
    <3>1. ~(n > starts[to])
      <4>1. ~(to <= lastSession)
        BY <1>3, <2>2
      <4>2. QED
        BY <1>4, <1>6, <4>1
    <3>2. n \in Nat /\ starts[to] \in Nat
      BY <1>4, <1>5
    <3>3. QED
      BY <3>1, <3>2
  <2>3. QED
    BY <2>1, <2>2
<1>9. cursor' # None => cursor' = cursor
  BY <1>1
<1>10. QED
  BY <1>1, <1>5, <1>6, <1>7, <1>8, <1>9 DEF EntriesPlace

LEMMA DrainedPlace ==
  ASSUME TypeInv, Bounded, SessionInv, StartsInv, EntriesInv, Drained
  PROVE  EntriesPlace'
<1>1. /\ pc = "drain" /\ Entries /\ UNCHANGED <<lastSession, starts>>
      /\ pc' \in {"next", "stop", "end"}
  BY DEF Drained, StopAt, Proceed, TypeInv, ModeType, piVars
<1>2. SUFFICES ASSUME reply["drain"].ok PROVE EntriesPlace'
  BY DEF Drained, EntriesPlace
<1> DEFINE S == reply["drain"].entries
<1>3. PICK first \in 0 .. Len(log), length \in 0 .. Len(log) :
        S = first + 1 .. length /\ \A n \in Written \ early : n <= first
  BY <1>2, DrainedGoesOn
<1>4. /\ Written' = Written \cup S
      /\ S # {} => cursor' \in S /\ \A n \in S : n <= cursor'
      /\ S = {} => cursor' = cursor
      /\ early' = early \cup {n \in S : /\ lastSession < Len(starts)
                                        /\ n > starts[lastSession + 1]}
  <2>1. early' = early \cup {n \in S : /\ lastSession < Len(starts)
                                       /\ n > starts[lastSession + 1]}
    BY <1>2 DEF Drained
  <2>2. Written' = Written \cup S
    BY <1>2, DrainedOut
  <2>3. QED
    BY <1>2, <2>1, <2>2, DrainWritten
<1> HIDE DEF S
<1>5. /\ Written \subseteq Nat /\ first \in Nat /\ length \in Nat /\ None \notin Nat
      /\ lastSession \in 1 .. Len(starts) /\ Len(starts) \in Nat
      /\ \A s \in 1 .. Len(starts) : starts[s] \in Nat
  BY <1>1, WrittenInLog, LogLength, LenProperties, ElementOfSeq, NoneAssumption
     DEF LogEntries, SessionInv, TypeInv, PiType
<1>6. /\ cursor # None => /\ cursor \in Written \/ Written = {}
                          /\ \A n \in Written \ early : n <= cursor
      /\ cursor = None => \A n \in Written \ early : n <= starts[lastSession]
      /\ \A n \in Written \ early, s \in 1 .. Len(starts) : n > starts[s] => s <= lastSession
  BY <1>1 DEF EntriesInv, EntriesPlace
<1>7. CASE S = {}
  <2>1. Written' = Written /\ early' = early /\ cursor' = cursor
    BY <1>4, <1>7
  <2>2. QED
    BY <1>1, <1>6, <2>1 DEF EntriesPlace
<1>8. CASE S # {}
  <2>1. cursor' \in Written' /\ cursor' \in Nat /\ first < cursor'
    BY <1>3, <1>4, <1>5, <1>8
  <2>2. \A n \in Written' \ early' : n <= cursor'
    BY <1>3, <1>4, <1>5, <1>8, <2>1
  <2>3. ASSUME NEW n \in Written' \ early', NEW s \in 1 .. Len(starts), n > starts[s]
        PROVE  s <= lastSession
    <3>1. CASE n \in Written
      BY <1>4, <1>6, <2>3, <3>1
    <3>2. CASE n \in S /\ s > lastSession
      <4>1. lastSession + 1 \in 1 .. Len(starts) /\ lastSession + 1 <= s /\ lastSession < Len(starts)
        BY <1>5, <3>2
      <4>2. starts[lastSession + 1] <= starts[s]
        BY <4>1 DEF StartsInv
      <4>3. n > starts[lastSession + 1]
        BY <1>3, <1>5, <2>3, <3>2, <4>1, <4>2
      <4>4. QED
        BY <1>4, <2>3, <3>2, <4>1, <4>3
    <3>3. QED
      BY <1>4, <1>5, <2>3, <3>1, <3>2
  <2>4. QED
    BY <1>1, <1>5, <2>1, <2>2, <2>3 DEF EntriesPlace
<1>9. QED
  BY <1>7, <1>8

LEMMA NextEntriesPlace ==
  ASSUME TypeInv, Bounded, Order, Setup, StartsInv, SessionInv, OutputInv, HistoryInv,
         EntriesInv, [Next]_vars
  PROVE  EntriesPlace'
<1>1. SUFFICES ASSUME Entries PROVE EntriesPlace'
  BY StaysLate DEF EntriesPlace, Entries
<1>2. CASE HelloRead
  <2>1. cmd.name \in {"tail", "prompt"} /\ cmd.type # "events"
    BY <1>1, CommandsAssumption, NoneAssumption DEF TypeInv, ModeType, Entries
  <2>2. pc' \in {"history", "leaf", "failed"}
    BY <1>1, <1>2, <2>1 DEF HelloRead, Fail, IsTail, IsPrompt
  <2>3. QED
    BY <2>2 DEF EntriesPlace
<1>3. CASE HistoryAnswered
  BY <1>1, <1>3, HistoryEntriesPlace
<1>4. CASE LeafAnswered
  <2>1. out = <<>> /\ (pc' = "failed" \/ (pc' = "seed" /\ out' = out))
    BY <1>4 DEF LeafAnswered, OutputInv, Before, Fail, SubscribeTo, outVars
  <2>2. pc' = "seed" => Written' = {}
    BY <2>1, EmptySeq DEF Written
  <2>3. QED
    BY <2>1, <2>2 DEF EntriesPlace
<1>5. CASE HandleSeed
  <2>1. /\ pc = "seed" /\ UNCHANGED <<out, early, starts, cursor>>
        /\ (pc' \in {"next", "stop"} /\ lastSession' = seed.session) \/ pc' = "failed"
    BY <1>1, <1>5 DEF HandleSeed, StopAt, Proceed, Fail, piVars, outVars, ghosts, modeVars
  <2>2. Written' = Written
    BY <2>1 DEF Written
  <2>3. QED
    BY <1>1, <2>1, <2>2 DEF EntriesInv, EntriesPlace
<1>6. CASE DrainForEvent
  BY <1>6, DrainForEventPlace
<1>7. CASE Drained
  BY <1>7, DrainedPlace
<1>8. QED
  BY <1>1, <1>2, <1>3, <1>4, <1>5, <1>6, <1>7, QuietSteps, QuietEntriesPlace

LEMMA NextEntriesInv ==
  ASSUME TypeInv, Bounded, Order, OnceInv, Setup, StartsInv, SessionInv, OutputInv, HistoryInv,
         EntriesInv, [Next]_vars
  PROVE  EntriesInv'
<1>1. EntriesAsked'
  BY PiStepEntriesAsked, DrainForEventAsked, OtherEntriesAsked
<1>2. EntriesOut' /\ EntriesPlace'
  BY NextEntriesOut, NextEntriesPlace
<1>3. QED
  BY <1>1, <1>2 DEF EntriesInv

-----------------------------------------------------------------------------
(* One stream.                                                              *)

LEMMA InitStream == Init => StreamInv
<1>1. SUFFICES ASSUME Init PROVE StreamInv
  OBVIOUS
<1>2. /\ chan = <<>> /\ queue = <<>> /\ out = <<>> /\ starts = <<0>> /\ Len(log) = 1
      /\ state = None /\ seed = None /\ link = "none" /\ events = "none" /\ pc = "connect"
      /\ asked = {}
  BY <1>1 DEF Init, PiInit, ClientInit
<1>3. Len(chan) = 0 /\ Len(queue) = 0 /\ Len(out) = 0
  BY <1>2, EmptySeq
<1>4. ChanInv /\ QueueInv
  BY <1>2, <1>3 DEF ChanInv, QueueInv, Coming, ComesAfter, Waiting, Connected
<1>5. StartsInv
  BY <1>2 DEF StartsInv
<1>6. SessionInv /\ ClosedInv /\ HistoryInv
  BY <1>2, <1>3 DEF SessionInv, ClosedInv, HistoryInv
<1>7. Written = {}
  BY <1>3 DEF Written
<1>8. OutputInv /\ EntriesInv
  BY <1>2, <1>3, <1>7
     DEF OutputInv, Increasing, EntriesInv, EntriesOut, EntriesPlace, EntriesAsked, Waiting
<1>9. QED
  BY <1>4, <1>5, <1>6, <1>8 DEF StreamInv

LEMMA NextStream ==
  ASSUME ConnectionInv, TurnInv, StreamInv, [Next]_vars
  PROVE  StreamInv'
<1> USE DEF ConnectionInv, TurnInv, StreamInv
<1>1. ChanInv' /\ QueueInv'
  BY NextChanInv, NextQueueInv
<1>2. StartsInv' /\ SessionInv' /\ ClosedInv'
  BY NextStartsInv, NextSessionInv, NextClosedInv
<1>3. HistoryInv'
  BY NextHistoryInv
<1>4. OutputInv'
  BY NextOutputInv
<1>5. EntriesInv'
  BY NextEntriesInv
<1>6. QED
  BY <1>1, <1>2, <1>3, <1>4, <1>5

LEMMA StreamInvTells == TypeInv /\ Bounded /\ StreamInv => OneStream
<1>1. SUFFICES ASSUME TypeInv, Bounded, StreamInv PROVE OneStream
  OBVIOUS
<1>2. /\ Written \subseteq LogEntries /\ LogEntries \subseteq Nat /\ Len(out) \in Nat
      /\ Len(log) \in Nat
      /\ \A i \in 1 .. Len(out) : out[i] # 0 => out[i] \in Written
  BY <1>1, WrittenInLog, LogLength, LenProperties DEF LogEntries, TypeInv, ModeType, Written
<1>3. CASE Entries
  <2>1. /\ \A i, j \in 1 .. Len(out) : i < j => out[i] < out[j] \/ out[i] \in early
        /\ \A m, n \in Written, k \in LogEntries :
             m < k /\ k < n /\ SameSession({m, k, n}) => k \in Written
    BY <1>1, <1>3 DEF StreamInv, EntriesInv, EntriesOut
  <2>2. ASSUME NEW m \in Written, NEW n \in Written, NEW k \in m + 1 .. n - 1,
               SameSession({m, k, n})
        PROVE  k \in Written
    BY <1>2, <2>1, <2>2 DEF LogEntries
  <2>3. QED
    BY <1>3, <2>1, <2>2 DEF OneStream, Due
<1>4. CASE ~Entries /\ HasCursor
  <2>1. /\ Increasing(out)
        /\ \A n \in Written, k \in LogEntries : Waiting(k) \/ Coming(k) => n < k
        /\ \A m \in Written, k, n \in LogEntries :
             m < k /\ k < n /\ (n \in Written \/ Waiting(n)) /\ log[k] = "message" =>
               k \in Written \cup missed \/ Waiting(k)
    BY <1>1, <1>4 DEF StreamInv, OutputInv
  <2>2. ASSUME NEW m \in Written, NEW n \in Written, NEW k \in Messages(m + 1 .. n - 1)
        PROVE  k \in Written \cup missed
    <3>1. k \in LogEntries /\ m < k /\ k < n /\ log[k] = "message" /\ n \in LogEntries
      BY <1>2, <2>2 DEF Messages, LogEntries
    <3>2. ~Waiting(k)
      <4>1. Waiting(k) => n < k
        BY <2>1, <3>1
      <4>2. QED
        BY <1>2, <3>1, <4>1
    <3>3. QED
      BY <2>1, <3>1, <3>2
  <2>3. QED
    BY <1>4, <2>1, <2>2 DEF OneStream, Due, Increasing
<1>5. CASE ~Entries /\ ~HasCursor
  <2>1. Len(out) = 0
    BY <1>1, <1>5, EmptySeq DEF StreamInv, OutputInv
  <2>2. Written = {}
    BY <2>1 DEF Written
  <2>3. QED
    BY <2>1, <2>2 DEF OneStream
<1>6. QED
  BY <1>3, <1>4, <1>5

\* What a command writes is one stream: no entry is written twice or out of
\* order, but where a drain was given a session whose session_changed was
\* still on its way; and between two that are written none of the kind that is
\* due is left out, but what a chunk held behind the answer with the history.
\* It is so whatever pi does meanwhile, whenever the socket closes and however
\* records are cut into chunks (emitHistoricalMessages, runStream and
\* runModeStream of stream.ts, dispatchLine of pi-socket-client.ts).
THEOREM OutputIsOneStream == Spec => []OneStream
<1>1. Init => TurnInv /\ StreamInv
  BY InitTurn, InitStream
<1>2. ConnectionInv /\ (TurnInv /\ StreamInv) /\ [Next]_vars => (TurnInv /\ StreamInv)'
  BY NextTurn, NextStream
<1>3. ConnectionInv /\ (TurnInv /\ StreamInv) => OneStream
  BY StreamInvTells DEF ConnectionInv
<1>4. QED
  BY <1>1, <1>2, <1>3, Connection, PTL DEF Spec
=============================================================================
