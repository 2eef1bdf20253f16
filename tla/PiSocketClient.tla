--------------------------- MODULE PiSocketClient ---------------------------
(***************************************************************************)
(* One connection to pi's RPC socket: pi as its clients see it (external), *)
(* the stream of records between them, and core/pi-socket-client.ts, which *)
(* folds the session state, matches answers to requests, and queues the    *)
(* events for the one consumer that subscribes.                            *)
(*                                                                         *)
(* pi keeps a log of entries, numbered from 1 across its sessions.  Node   *)
(* hands the client a chunk of any number of records, all dispatched       *)
(* before a coroutine that waits for one of them goes on: a chunk is open  *)
(* while reading is true.                                                  *)
(***************************************************************************)
EXTENDS Naturals, Sequences

CONSTANTS
  MaxEntries, MaxSessions, MaxTurns,  \* bounds on what pi does,
  MaxWork,                            \* on all of it together,
  MaxInFlight,                        \* and on what it writes ahead
  MaxTries,                           \* connects before the deadline
  None                                \* undefined

VARIABLES
  server,   \* what is bound to the path: "absent", "pi", "foreign" or "gone"
  log,      \* the type of each entry
  starts,   \* for each session, the number of entries before it
  phase,    \* pi's agent: "idle", "queued" (a prompt), "running" or "ended"
  turns,    \* the turns that have ended
  tries,    \* how often connectWithRetry has been refused
  link,     \* "none", "hello" (connected, hello not read), "up" or "closed"
  reading,  \* the data handler is inside a chunk
  chan,     \* the records on their way to the client
  asked,    \* the requests on their way to pi
  state,    \* the folded session state, None before the seed
  seed,     \* the state subscribe returns
  queue,    \* the queue of events: the accepted ones that wait for next()
  events,   \* "none" before subscribe, then "open", then "closed"
  reply     \* what each request was answered

piVars == <<server, log, starts, phase, turns>>
clientVars == <<tries, link, reading, chan, asked, state, seed,
                queue, events, reply>>

Requests == {"history", "drain", "prompt", "final"}

PiInit ==
  /\ server = "absent"
  /\ log = <<"message">>
  /\ starts = <<0>>
  /\ phase \in {"idle", "queued", "running"}
  /\ turns = 0

ClientInit ==
  /\ tries = 0
  /\ link = "none"
  /\ reading = FALSE
  /\ chan = <<>>
  /\ asked = {}
  /\ state = None /\ seed = None
  /\ queue = <<>>
  /\ events = "none"
  /\ reply = [r \in Requests |-> None]

-----------------------------------------------------------------------------
(* pi.                                                                      *)

\* RpcSessionState, of which the streams read the session, isStreaming and
\* pendingMessageCount.
PiState ==
  [session |-> Len(starts), streaming |-> phase \in {"running", "ended"},
   pending |-> IF phase = "queued" THEN 1 ELSE 0]

States == [session : Nat \ {0}, streaming : BOOLEAN, pending : {0, 1}]

\* The entries of the session, and those of them after a cursor.
Base == starts[Len(starts)]
InSession(n) == n \in Base + 1 .. Len(log)
After(since) == {n \in 1 .. Len(log) : n > Base /\ (since = None \/ n > since)}
LeafId == IF Len(log) > Base THEN Len(log) ELSE None

Work == Len(log) + Len(starts) + turns
Writes == server = "pi" /\ Len(chan) < MaxInFlight
MayWork == Writes /\ Work < MaxWork

Connected == link \in {"hello", "up"}
Broadcast(event) ==
  chan' = IF Connected THEN Append(chan, event) ELSE chan

Event(type) == [type |-> type, entry |-> None, retry |-> FALSE, state |-> None]

PiBinds ==
  /\ server = "absent"
  /\ server' \in {"pi", "foreign"}
  /\ UNCHANGED <<log, starts, phase, turns, chan>>

\* Another client prompts, or the prompt that is queued starts its turn.
PiQueues ==
  /\ MayWork /\ phase = "idle" /\ turns < MaxTurns
  /\ phase' = "queued"
  /\ Broadcast(Event("queue_update"))
  /\ UNCHANGED <<server, log, starts, turns>>

PiStartsTurn ==
  /\ Writes /\ phase = "queued"
  /\ phase' = "running"
  /\ Broadcast(Event("agent_start"))
  /\ UNCHANGED <<server, log, starts, turns>>

\* An entry is appended and broadcast: a message with message_end, any other
\* with a record of a type this client may not know.
PiAppends ==
  /\ MayWork /\ phase = "running" /\ Len(log) < MaxEntries
  /\ \E type \in {"message", "other"} :
       /\ log' = Append(log, type)
       /\ Broadcast([Event(IF type = "message" THEN "message_end" ELSE "unknown")
                       EXCEPT !.entry = Len(log')])
  /\ UNCHANGED <<server, starts, phase, turns>>

PiEndsTurn ==
  /\ Writes /\ phase = "running"
  /\ phase' = "ended" /\ turns' = turns + 1
  /\ Broadcast(Event("agent_end"))
  /\ UNCHANGED <<server, log, starts>>

\* A message that failed, and agent_end with willRetry: the turn goes on.
PiRetries ==
  /\ MayWork /\ phase = "running" /\ Len(log) < MaxEntries
  /\ log' = Append(log, "message")
  /\ chan' = IF Connected
             THEN chan \o <<[Event("message_end") EXCEPT !.entry = Len(log')],
                            [Event("agent_end") EXCEPT !.retry = TRUE]>>
             ELSE chan
  /\ UNCHANGED <<server, starts, phase, turns>>

PiSettles ==
  /\ Writes /\ phase = "ended"
  /\ phase' = "idle"
  /\ Broadcast(Event("agent_settled"))
  /\ UNCHANGED <<server, log, starts, turns>>

PiSwitchesSession ==
  /\ MayWork /\ phase = "idle" /\ Len(starts) < MaxSessions
  /\ starts' = Append(starts, Len(log))
  /\ Broadcast([Event("session_changed") EXCEPT !.state = [PiState EXCEPT !.session = @ + 1]])
  /\ UNCHANGED <<server, log, phase, turns>>

\* What pi wrote before it exits still arrives.
PiExits ==
  /\ server = "pi"
  /\ server' = "gone"
  /\ UNCHANGED <<log, starts, phase, turns, chan>>

\* The answer to get_messages and get_entries is a snapshot of the log; a
\* cursor that is not in the session is refused.
Response(id, ok) ==
  [type |-> "response", to |-> id, ok |-> ok, entries |-> {}, leaf |-> None,
   handled |-> FALSE]
Responses == [type : {"response"}, to : Requests \cup {None}, ok : BOOLEAN,
              entries : SUBSET (Nat \ {0}), leaf : Nat \cup {None}, handled : BOOLEAN]
Answer(request) ==
  LET ok == request.since = None \/ InSession(request.since) IN
  IF request.id = "final" THEN [Response("final", ok) EXCEPT !.leaf = LeafId]
  ELSE [Response(request.id, ok) EXCEPT !.entries = After(request.since)]

PiAnswers ==
  /\ server = "pi"
  /\ \E request \in asked :
       /\ request.id # "prompt"
       /\ asked' = asked \ {request}
       /\ chan' = Append(chan, Answer(request))
  /\ UNCHANGED piVars

\* A prompt is refused, handled without a turn, or accepted: it queues a turn
\* or joins the one that runs.
PiAnswersPrompt(how) ==
  /\ server = "pi"
  /\ \E request \in asked :
       /\ request.id = "prompt"
       /\ asked' = asked \ {request}
       /\ how = "accepted" => phase \in {"idle", "queued", "running"}
       /\ phase' = IF how = "accepted" /\ phase = "idle" THEN "queued" ELSE phase
       /\ chan' = (IF phase' # phase THEN Append(chan, Event("queue_update")) ELSE chan)
                   \o <<[Response("prompt", how # "refused") EXCEPT !.handled = how = "handled"]>>
  /\ UNCHANGED <<server, log, starts, turns>>

-----------------------------------------------------------------------------
(* The client.                                                              *)

\* connectWithRetry: pi may not have bound its socket yet.  To accept is to
\* send hello and the seed.
ConnectRefused ==
  /\ server \in {"absent", "gone"}
  /\ tries < MaxTries
  /\ tries' = tries + 1
  /\ UNCHANGED <<link, reading, chan, asked, state, seed, queue, events, reply>>

Connect ==
  /\ server \in {"pi", "foreign"}
  /\ link' = "hello"
  /\ chan' = IF server = "foreign" THEN <<Event("other")>>
             ELSE <<Event("hello"),
                    [Event("session_changed") EXCEPT !.state = PiState]>>
  /\ UNCHANGED <<tries, reading, asked, state, seed, queue, events, reply>>

\* nextSessionState, of pi.
NextSessionState(s, event) ==
  CASE event.type = "session_changed" -> event.state
    [] event.type = "queue_update"    -> [s EXCEPT !.pending = 1]
    [] event.type = "agent_start"     -> [s EXCEPT !.streaming = TRUE, !.pending = 0]
    [] event.type = "agent_settled"   -> [s EXCEPT !.streaming = FALSE]
    [] OTHER                          -> s

\* dispatchLine.  The first session_changed is the seed, never an event.
DispatchLine(record) ==
  IF record.type = "response"
  THEN reply' = [reply EXCEPT ![record.to] = record] /\ UNCHANGED <<state, seed, queue>>
  ELSE IF state = None
  THEN /\ state' = IF record.type = "session_changed" THEN record.state ELSE None
       /\ seed' = IF events = "open" THEN state' ELSE None
       /\ UNCHANGED <<queue, reply>>
  ELSE /\ state' = NextSessionState(state, record)
       /\ queue' = IF events = "open"
                   THEN Append(queue, [event |-> record, state |-> state'])
                   ELSE queue
       /\ UNCHANGED <<seed, reply>>

\* The data handler: the hello first, which must be pi's (validateHello), then
\* every line is dispatched.
Receive ==
  /\ Connected
  /\ chan # <<>>
  /\ chan' = Tail(chan)
  /\ reading' \in {FALSE, chan' # <<>>}
  /\ IF link = "hello"
     THEN /\ link' = IF Head(chan).type = "hello" THEN "up" ELSE "closed"
          /\ UNCHANGED <<state, seed, queue, reply>>
     ELSE DispatchLine(Head(chan)) /\ UNCHANGED link
  /\ UNCHANGED <<tries, asked, events>>

Failure == [Response("prompt", FALSE) EXCEPT !.to = None]

\* The handler of 'close', when what was sent has been read or the client
\* itself has destroyed the socket: the requests in flight fail, and the queue
\* takes no more events.
SocketClosed_LeavesPending ==
  /\ link' = "closed"
  /\ reading' = FALSE /\ chan' = <<>> /\ asked' = {}
  /\ events' = IF events = "none" THEN "none" ELSE "closed"
  /\ UNCHANGED <<tries, state, seed, queue, reply>>
SocketClosed ==
  /\ link' = "closed"
  /\ reading' = FALSE /\ chan' = <<>> /\ asked' = {}
  /\ events' = IF events = "none" THEN "none" ELSE "closed"
  /\ reply' = [r \in Requests |->
                 IF \E q \in asked : q.id = r THEN Failure ELSE
                 IF \E i \in 1 .. Len(chan) : chan[i].type = "response" /\ chan[i].to = r
                 THEN Failure ELSE reply[r]]
  /\ UNCHANGED <<tries, state, seed, queue>>

\* request: at once refused when the socket has closed.
Ask(id, since) ==
  IF link = "closed"
  THEN reply' = [reply EXCEPT ![id] = Failure] /\ UNCHANGED asked
  ELSE /\ reply' = [reply EXCEPT ![id] = None]
       /\ asked' = asked \cup {[id |-> id, since |-> since]}

Answered(id) == reply[id] # None

\* subscribe, from now on events are queued.  The seed may still be on its way.
Subscribe ==
  /\ events' = IF link = "closed" THEN "closed" ELSE "open"
  /\ seed' = state
=============================================================================
