---------------------------- MODULE StreamModes -----------------------------
(***************************************************************************)
(* pictl tail, prompt and wait (core/streaming/stream.ts, core/tail.ts,    *)
(* core/wait.ts) over one connection to pi.  The command writes what the   *)
(* session already holds, subscribes, and follows events until its         *)
(* condition holds, its timer fires or the socket closes.                  *)
(*                                                                         *)
(* The loop of runStream is that of StreamDriver, with the handlers filled *)
(* in.  Timers have no duration here: one that is armed may fire whenever  *)
(* the program waits.  Between two such events every coroutine runs until  *)
(* it waits again (Idle).                                                  *)
(***************************************************************************)
EXTENDS PiSocketClient

CONSTANT Commands  \* the command lines

\* What tail.ts, rpc-commands.ts and wait.ts let through: only tail takes
\* --since and -n, and --timeout 0 is a run of its own there.
ASSUME CommandsAssumption ==
  \A c \in Commands :
    /\ DOMAIN c = {"name", "type", "since", "limit", "until", "timeout"}
    /\ c.name \in {"tail", "prompt", "wait"}
    /\ c.type \in IF c.name = "wait" THEN {None}
                 ELSE {"messages", "entries", "events"}
    /\ c.since \in IF c.name = "tail" /\ c.type # "events" THEN Nat \cup {None}
                  ELSE {None}
    /\ c.limit \in Nat \cup {None}
    /\ c.until \in {"turn-end", "idle", "no-activity", None}
    /\ c.timeout \in {0, 1, None}
    /\ c.name # "tail" => c.timeout # 0
ASSUME NoneAssumption ==
  None \notin Nat \cup States \cup Responses
                \cup {"messages", "entries", "events", "turn-end", "idle",
                      "no-activity", "done", "closed", "timeout", "failed"}

VARIABLES
  cmd,      \* the command line
  pc,       \* where the command is
  prompt,   \* the prompt request: "none", "sent", "ok" or "failed"
  event,    \* the event whose handler is in flight
  lastState,
  cutoff,   \* sourceCutoff
  armed,    \* timersArmed
  stop,     \* onStop has been called
  outcome,  \* what runStream returns
  cursor,   \* of the entries mode: the last entry drained
  lastSession,
  out,      \* what the writer was given: entries, and 0 for a session change
  final,    \* the pictl_cursor record
  due,      \* the turns that will have ended when the awaited one has
  mark,     \* the entries at the end of that turn, None before
  from,     \* of a prompt to an idle agent: the entries before its turn
  missed,   \* entries dispatched between the history and the subscription
  early     \* entries drained before the change to their session was handled

loopVars == <<event, lastState, cutoff, armed, stop, outcome>>
modeVars == <<cursor, lastSession>>
outVars == <<out, final>>
ghosts == <<due, mark, from, missed, early>>
vars == <<piVars, clientVars, cmd, pc, prompt, loopVars, modeVars, outVars, ghosts>>

Over == {"done", "failed"}
IsTail == cmd.name = "tail"
IsPrompt == cmd.name = "prompt"
Entries == cmd.type = "entries"
\* Messages and events end with a cursor; wait has no output.
HasCursor == cmd.type \in {"messages", "events"}

Init ==
  /\ PiInit /\ ClientInit
  /\ cmd \in Commands /\ (IsPrompt => phase = "idle")
  /\ pc = "connect"
  /\ prompt = "none"
  /\ event = None /\ lastState = None /\ cutoff = None
  /\ armed = FALSE /\ stop = FALSE /\ outcome = None
  /\ cursor = cmd.since /\ lastSession = None
  /\ out = <<>> /\ final = None
  /\ due = None /\ mark = None /\ from = None /\ missed = {} /\ early = {}

-----------------------------------------------------------------------------
(* The conditions of until.ts, and the output of a mode.                    *)

\* isIdle; pi never compacts here, so isCompacting is left out.
IsIdle_IgnoresPending(s) == ~s.streaming
IsIdle(s) == ~s.streaming /\ s.pending = 0
IsTurnEnd(e) == e.type = "agent_end" /\ ~e.retry

UntilMetAtSeed(s) == cmd.until \in {"turn-end", "idle"} /\ IsIdle(s)
UntilMetByEvent(e, s) ==
  \/ cmd.until = "turn-end" /\ IsTurnEnd(e)
  \/ cmd.until = "idle" /\ IsIdle(s)

\* EventMessageRecordProjector, of whose control records the session_changed
\* is kept; the events mode writes every event as it came (rawSocketEvent).  The
\* deltas of a message under way (ENTRY_DELTA_EVENTS) are not modelled.
Record(e) ==
  CASE e.type = "message_end"                             -> <<e.entry>>
    [] e.type = "session_changed"                         -> <<0>>
    [] e.entry # None /\ cmd.type = "events"              -> <<e.entry>>
    [] OTHER                                              -> <<>>

\* A set of entries in the order of the log, and the -n last of them; as
\* slice(-0) is slice(0), -n 0 is all.
InOrder(S) ==
  CHOOSE items \in UNION {[1 .. n -> S] : n \in 0 .. Len(log)} :
    /\ \A n \in S : \E i \in 1 .. Len(items) : items[i] = n
    /\ \A i, j \in 1 .. Len(items) : i < j => items[i] < items[j]
LimitedTail(items) ==
  IF cmd.limit \in {None, 0} \/ cmd.limit >= Len(items) THEN items
  ELSE SubSeq(items, Len(items) - cmd.limit + 1, Len(items))

Messages(S) == {n \in S : log[n] = "message"}
LastOf_First(items, default) == IF items = <<>> THEN default ELSE items[1]
LastOf(items, default) == IF items = <<>> THEN default ELSE items[Len(items)]

-----------------------------------------------------------------------------
(* The coroutines run until they wait for pi, a timer or the queue.         *)

Runnable ==
  \/ pc = "hello" /\ link # "hello"
  \/ pc \in {"history", "leaf"} /\ Answered("history")
  \/ pc \in {"now", "seed"} /\ (seed # None \/ link = "closed")
  \/ pc = "now-cursor" /\ Answered("final")
  \/ pc = "next" /\ (queue # <<>> \/ events = "closed")
  \/ pc = "drain" /\ Answered("drain")
  \/ pc = "stop" /\ (~stop \/ ~HasCursor \/ Answered("final"))
  \/ pc = "end" /\ prompt # "sent"
  \/ prompt = "sent" /\ Answered("prompt")
Idle == ~reading /\ ~Runnable

Fail == pc' = "failed" /\ UNCHANGED <<cmd, prompt, loopVars, modeVars, outVars>>

\* connectForContext.  ensureAgentRunning is the business of AgentLifecycle.
Connecting ==
  /\ pc = "connect"
  /\ \/ ConnectRefused /\ UNCHANGED <<pc, due>>
     \/ Connect /\ pc' = "hello"
        /\ due' = turns + IF phase \in {"queued", "running"} THEN 1 ELSE 0
  /\ UNCHANGED <<piVars, cmd, prompt, loopVars, modeVars, outVars, mark, from, missed, early>>

GiveUpConnecting ==
  /\ pc = "connect"
  /\ server \in {"absent", "gone"} /\ tries = MaxTries
  /\ Fail /\ UNCHANGED <<piVars, clientVars, ghosts>>

ClientKeeps == UNCHANGED <<tries, link, reading, chan, state, queue>>

\* The events queue is installed, and in the same step the prompt is sent.
SubscribeTo ==
  /\ Subscribe
  /\ pc' = "seed"
  /\ IF IsPrompt
     THEN Ask("prompt", None) /\ prompt' = "sent"
     ELSE UNCHANGED <<asked, reply, prompt>>
  /\ due' = IF ~IsPrompt THEN due
            ELSE IF phase = "idle" /\ \A i \in 1 .. Len(chan) : chan[i].type # "agent_end"
            THEN turns + 1 ELSE None
  /\ ClientKeeps

\* The hello has been read.  tail --type events has no history; prompt in
\* entries mode begins after the leaf it finds.
HelloRead ==
  /\ pc = "hello" /\ link # "hello"
  /\ IF link = "closed" THEN Fail /\ UNCHANGED <<clientVars, due>>
     ELSE /\ IF (IsTail /\ cmd.type # "events") \/ (IsPrompt /\ Entries)
             THEN /\ pc' = IF IsTail THEN "history" ELSE "leaf"
                  /\ Ask("history", cmd.since)
                  /\ ClientKeeps /\ UNCHANGED <<seed, events, prompt, due>>
             ELSE IF IsTail /\ cmd.timeout = 0
             THEN pc' = "now" /\ Subscribe /\ ClientKeeps
                  /\ UNCHANGED <<asked, reply, prompt, due>>
             ELSE SubscribeTo
          /\ UNCHANGED <<cmd, loopVars, modeVars, outVars>>
  /\ UNCHANGED <<piVars, mark, from, missed, early>>

\* emitHistoricalMessages and the drain of the entries' history.
HistoryAnswered ==
  /\ pc = "history" /\ Answered("history") /\ ~reading
  /\ IF ~reply["history"].ok THEN Fail /\ UNCHANGED <<clientVars, due>>
     ELSE LET S == reply["history"].entries
              items == LimitedTail(InOrder(IF Entries THEN S ELSE Messages(S)))
          IN /\ out' = items
             /\ cursor' = IF Entries THEN LastOf(items, cursor) ELSE cursor
             /\ IF cmd.timeout # 0 THEN SubscribeTo
                ELSE IF Entries
                THEN pc' = "done" /\ UNCHANGED <<clientVars, prompt, due>>
                ELSE pc' = "now" /\ Subscribe /\ ClientKeeps
                     /\ UNCHANGED <<asked, reply, prompt, due>>
             /\ UNCHANGED <<cmd, loopVars, lastSession, final>>
  /\ UNCHANGED <<piVars, mark, from, missed, early>>

LeafAnswered ==
  /\ pc = "leaf" /\ Answered("history") /\ ~reading
  /\ IF ~reply["history"].ok THEN Fail /\ UNCHANGED <<clientVars, due>>
     ELSE /\ cursor' = LastOf(InOrder(reply["history"].entries), None)
          /\ SubscribeTo
          /\ UNCHANGED <<cmd, loopVars, lastSession, outVars>>
  /\ UNCHANGED <<piVars, mark, from, missed, early>>

\* tail --timeout 0: a cursor without a stream.
NowSubscribed ==
  /\ pc = "now" /\ ~reading
  /\ IF seed = None THEN link = "closed" /\ Fail /\ UNCHANGED clientVars
     ELSE /\ pc' = "now-cursor"
          /\ lastState' = seed
          /\ Ask("final", None) /\ events' = "closed"
          /\ ClientKeeps /\ UNCHANGED seed
          /\ UNCHANGED <<cmd, prompt, event, cutoff, armed, stop, outcome,
                         modeVars, outVars>>
  /\ UNCHANGED <<piVars, ghosts>>

FinalCursor ==
  final' = [session |-> lastState.session, entry |-> reply["final"].leaf]

NowCursor ==
  /\ pc = "now-cursor" /\ Answered("final") /\ ~reading
  /\ IF ~reply["final"].ok THEN Fail
     ELSE /\ pc' = "done" /\ FinalCursor
          /\ UNCHANGED <<cmd, prompt, loopVars, modeVars, out>>
  /\ UNCHANGED <<piVars, clientVars, ghosts>>

-----------------------------------------------------------------------------
(* runStream with the handler of runModeStream or of wait.                  *)

BeginStop ==
  /\ stop' = TRUE
  /\ IF ~stop /\ HasCursor THEN Ask("final", None) ELSE UNCHANGED <<asked, reply>>

EstablishSourceCutoff_KeepsOpen(result) ==
  IF events = "open"
  THEN cutoff' = result /\ BeginStop /\ UNCHANGED events
  ELSE UNCHANGED <<events, cutoff, stop, asked, reply>>
EstablishSourceCutoff(result) ==
  IF events = "open"
  THEN events' = "closed" /\ cutoff' = result /\ BeginStop
  ELSE UNCHANGED <<events, cutoff, stop, asked, reply>>

\* The condition holds: what is queued is dropped, and onStop called.
StopAt(s) ==
  /\ lastState' = s
  /\ outcome' = "done"
  /\ pc' = "stop"
  /\ events' = "closed" /\ queue' = <<>>
  /\ BeginStop
  /\ UNCHANGED <<tries, link, reading, chan, state, cutoff, armed>>

Proceed(s) ==
  /\ lastState' = s
  /\ pc' = "next"
  /\ UNCHANGED <<tries, link, reading, chan, asked, state, events, reply,
                 cutoff, stop, outcome>>

\* The seed of a prompt's stream predates the prompt and meets nothing.
HandleSeed ==
  /\ pc = "seed" /\ ~reading
  /\ IF seed = None THEN link = "closed" /\ Fail /\ UNCHANGED clientVars
     ELSE /\ lastSession' = IF Entries THEN seed.session ELSE None
          /\ IF ~IsPrompt /\ UntilMetAtSeed(seed) THEN StopAt(seed)
             ELSE Proceed(seed) /\ armed' = TRUE /\ UNCHANGED queue
          /\ seed' = None
          /\ UNCHANGED <<cmd, prompt, event, cursor, outVars>>
  /\ UNCHANGED <<piVars, ghosts>>

StopFailed == stop /\ HasCursor /\ Answered("final") /\ ~reply["final"].ok

\* The next event of the messages and events modes, and of wait.
HandleEvent ==
  /\ pc = "next" /\ ~reading /\ queue # <<>> /\ ~StopFailed /\ ~Entries
  /\ LET e == Head(queue) IN
       /\ out' = IF HasCursor THEN out \o Record(e.event) ELSE out
       /\ IF UntilMetByEvent(e.event, e.state) THEN StopAt(e.state)
          ELSE Proceed(e.state) /\ queue' = Tail(queue) /\ UNCHANGED armed
  /\ UNCHANGED <<piVars, seed, cmd, prompt, event, modeVars, final, ghosts>>

\* Entries mode: every event is a wakeup.  A cursor of another session is void.
CursorFor(e) == IF e.state.session # lastSession THEN None ELSE cursor

DrainForEvent ==
  /\ pc = "next" /\ ~reading /\ queue # <<>> /\ Entries
  /\ LET e == Head(queue) IN
       /\ event' = e
       /\ queue' = Tail(queue)
       /\ cursor' = CursorFor(e)
       /\ lastSession' = e.state.session
       /\ Ask("drain", cursor')
  /\ pc' = "drain"
  /\ UNCHANGED <<piVars, tries, link, reading, chan, state, seed, events, cmd,
                 prompt, lastState, cutoff, armed, stop, outcome, outVars, ghosts>>

Drained ==
  /\ pc = "drain" /\ Answered("drain") /\ ~reading
  /\ event' = None
  /\ IF ~reply["drain"].ok
     THEN /\ outcome' = "failed" /\ pc' = "end"
          /\ events' = "closed" /\ queue' = <<>>
          /\ UNCHANGED <<tries, link, reading, chan, asked, state, reply,
                         lastState, cutoff, armed, stop, cursor, out, early>>
     ELSE LET items == InOrder(reply["drain"].entries) IN
          /\ out' = out \o items
          /\ cursor' = LastOf(items, cursor)
          /\ early' = early \cup {n \in reply["drain"].entries :
                                  /\ lastSession < Len(starts)
                                  /\ n > starts[lastSession + 1]}
          /\ IF UntilMetByEvent(event.event, event.state) THEN StopAt(event.state)
             ELSE Proceed(event.state) /\ UNCHANGED <<queue, armed>>
  /\ UNCHANGED <<piVars, cmd, prompt, lastSession, final, due, mark, from, missed,
                 seed>>

\* The source has ended and the queue is empty.
SourceEnded ==
  /\ pc = "next" /\ ~reading
  /\ (events = "closed" /\ queue = <<>>) \/ StopFailed
  /\ outcome' = IF cutoff = None THEN "closed" ELSE cutoff
  /\ pc' = "stop"
  /\ UNCHANGED <<piVars, clientVars, cmd, prompt, event, lastState, cutoff, armed,
                 stop, modeVars, outVars, ghosts>>

\* finish waits for onStop, the request for the cursor.
FinishAfterStop ==
  /\ pc = "stop" /\ ~reading
  /\ stop /\ HasCursor => Answered("final")
  /\ pc' = "end"
  /\ outcome' = IF StopFailed THEN "failed" ELSE outcome
  /\ UNCHANGED <<piVars, clientVars, cmd, prompt, event, lastState, cutoff, armed,
                 stop, modeVars, outVars, ghosts>>

\* The command returns: a prompt only when its request has been answered.
Return ==
  /\ pc = "end" /\ ~reading /\ prompt # "sent"
  /\ IF \/ prompt = "failed" \/ outcome \in {"failed", "closed"}
        \/ cmd.name = "wait" /\ outcome = "timeout"
     THEN Fail
     ELSE /\ pc' = "done"
          /\ IF HasCursor /\ (IsPrompt \/ cmd.until # None \/ outcome = "timeout")
             THEN FinalCursor ELSE UNCHANGED final
          /\ UNCHANGED <<cmd, prompt, loopVars, modeVars, out>>
  /\ UNCHANGED <<piVars, clientVars, ghosts>>

\* streamPrompt, when the request has been answered.  A prompt that was handled
\* starts no turn to wait for; one that failed closes the socket, as nothing
\* else would end the stream.
PromptAnswered ==
  /\ prompt = "sent" /\ Answered("prompt") /\ ~reading /\ pc # "seed"
  /\ prompt' = IF reply["prompt"].ok THEN "ok" ELSE "failed"
  /\ IF ~reply["prompt"].ok THEN SocketClosed /\ UNCHANGED <<cutoff, stop>>
     ELSE IF cmd.until = "turn-end" /\ reply["prompt"].handled
     THEN /\ EstablishSourceCutoff("done")
          /\ UNCHANGED <<tries, link, reading, chan, state, seed, queue>>
     ELSE UNCHANGED <<clientVars, cutoff, stop>>
  /\ UNCHANGED <<piVars, cmd, pc, event, lastState, armed, outcome, modeVars,
                 outVars, ghosts>>

TimerFires ==
  /\ armed /\ events = "open" /\ Idle /\ pc \notin Over
  /\ \/ cmd.timeout = 1 /\ EstablishSourceCutoff("timeout")
     \/ cmd.until = "no-activity" /\ EstablishSourceCutoff("done")
  /\ UNCHANGED <<piVars, tries, link, reading, chan, state, seed, queue, cmd, pc,
                 prompt, event, lastState, armed, outcome, modeVars, outVars, ghosts>>

-----------------------------------------------------------------------------
(* pi and the socket, which move while the command waits.                   *)

CommandKeeps ==
  UNCHANGED <<tries, link, reading, state, seed, queue, events, reply, cmd, pc,
              prompt, loopVars, modeVars, outVars>>

PiWorks ==
  /\ \/ PiStartsTurn \/ PiEndsTurn \/ PiSettles
  /\ pc \notin Over \cup {"connect"}
  /\ mark' = IF turns' # turns /\ due # None /\ turns' = due THEN Len(log) ELSE mark
  /\ CommandKeeps /\ UNCHANGED <<asked, due, from, missed, early>>

\* What pi may do.  Bounds: another client comes before a prompt only as it
\* connects, and where the output is messages; the last of the work is done only
\* before a stream of entries.
PiMay ==
  /\ \/ PiBinds \/ PiAppends \/ PiRetries \/ PiSwitchesSession \/ PiExits
     \/ PiQueues /\ (IsPrompt => pc = "hello" /\ cmd.type = "messages")
  /\ ~Entries => Work' < MaxWork
  /\ pc \notin Over \cup {"connect"} \/ server = "absent"
  /\ CommandKeeps /\ UNCHANGED <<asked, ghosts>>

PiReplies ==
  /\ pc \notin Over
  /\ PiAnswers
  /\ CommandKeeps /\ UNCHANGED ghosts

PiTakesPrompt ==
  /\ pc \notin Over
  /\ \E how \in {"refused", "handled", "accepted"} :
       /\ PiAnswersPrompt(how)
       /\ from' = IF how = "accepted" /\ phase = "idle" /\ due # None /\ due = turns + 1
                  THEN Len(log) ELSE from
  /\ CommandKeeps /\ UNCHANGED <<due, mark, missed, early>>

\* A chunk arrives when every coroutine waits.
Deliver ==
  /\ reading \/ Idle
  /\ pc \notin Over
  /\ Receive
  /\ missed' = IF pc = "history" /\ Answered("history") /\ Head(chan).type # "response"
                   /\ Head(chan).entry # None
               THEN missed \cup {Head(chan).entry} ELSE missed
  /\ UNCHANGED <<piVars, cmd, pc, prompt, loopVars, modeVars, outVars, due, mark,
                 from, early>>
  /\ reading' => Runnable'

PiClosesSocket ==
  /\ server = "gone" /\ Connected /\ chan = <<>>
  /\ Idle /\ pc \notin Over
  /\ SocketClosed
  /\ UNCHANGED <<piVars, cmd, pc, prompt, loopVars, modeVars, outVars, ghosts>>

Coroutine ==
  \/ Connecting \/ GiveUpConnecting \/ HelloRead \/ HistoryAnswered
  \/ LeafAnswered \/ NowSubscribed \/ NowCursor \/ HandleSeed \/ HandleEvent
  \/ DrainForEvent \/ Drained \/ SourceEnded \/ FinishAfterStop \/ Return
  \/ PromptAnswered

Next ==
  \/ PiWorks \/ PiMay \/ PiReplies \/ PiTakesPrompt \/ Deliver \/ PiClosesSocket
  \/ Coroutine \/ TimerFires

Spec == Init /\ [][Next]_vars

\* pi answers, and ends and settles the turns it starts; what it has sent
\* arrives; the program's coroutines and timers run.
Fairness ==
  /\ WF_vars(PiWorks) /\ WF_vars(PiReplies \/ PiTakesPrompt)
  /\ WF_vars(Deliver \/ PiClosesSocket)
  /\ WF_vars(Coroutine) /\ WF_vars(TimerFires)

FairSpec == Spec /\ Fairness

-----------------------------------------------------------------------------
(* Safety.                                                                  *)

Written == {out[i] : i \in 1 .. Len(out)} \ {0}
Due(S) == IF Entries THEN S ELSE Messages(S)
SameSession(S) == \A s \in 1 .. Len(starts) : \A m, n \in S : m > starts[s] <=> n > starts[s]

\* History and what follows it make one stream: nothing is written twice or
\* out of order, but for entries that a drain was given of a session whose
\* session_changed came later, and nothing between two units of output is
\* skipped, but for what a chunk held behind the answer that carried the history.
OneStream ==
  /\ \A i, j \in 1 .. Len(out) :
       i < j /\ out[i] # 0 /\ out[j] # 0 => out[i] < out[j] \/ out[i] \in early
  /\ \A m, n \in Written : \A k \in Due(m + 1 .. n - 1) :
       (Entries => SameSession({m, k, n})) => k \in Written \cup missed

\* A turn that a command waits for has ended when the command says so, and all
\* it had to print up to there is printed: a prompt cannot miss the turn it
\* starts, nor can wait or tail the one that was queued or running when they
\* connected (until.ts:11, README.md:105).
TurnAwaited ==
  pc = "done" /\ outcome = "done" /\ cmd.until = "turn-end" =>
    /\ \/ due # None /\ turns >= due
       \/ IsPrompt /\ (due = None \/ reply["prompt"].handled)
    /\ from # None /\ (Entries => Len(starts) = 1) =>
         Due(from + 1 .. mark) \subseteq Written

\* The cursor is never before anything that was printed: tail --since it
\* repeats nothing.
CursorCoversOutput ==
  final # None => \A n \in Written : final.entry # None => n <= final.entry

\* README.md:105: what tail --since <cursor> leaves out has been returned.
CursorIsLastReturned ==
  final # None /\ final.entry # None /\ cmd.type = "messages" /\ Len(starts) = 1 =>
    \A n \in Messages(1 .. final.entry) :
      n \in Written \cup missed \/ \E m \in Written : n < m

\* stream.ts:139: each drain sends only new entries.
DrainsSendOnlyNew ==
  \A i, j \in 1 .. Len(out) : i # j /\ out[i] # 0 => out[i] # out[j]

-----------------------------------------------------------------------------
(* Liveness.                                                                *)

\* A command ends when its condition is bound to come: a timer, an idle agent,
\* a turn that runs, a prompt that was sent, whatever pi answers it; and when
\* the socket closes.
CommandEnds ==
  \/ pc = "next" /\ (cmd.timeout = 1 \/ cmd.until = "no-activity")
  \/ pc = "seed" /\ cmd.until = "idle" /\ ~IsPrompt
  \/ pc = "next" /\ cmd.until = "turn-end" /\ phase \in {"queued", "running"}
  \/ prompt = "sent" /\ cmd.until = "turn-end"
  \/ link = "closed"
  ~> pc \in Over

\* README.md:105: tail --until turn-end "returns once the current turn (if any)
\* finishes".  It does not when it subscribes between the turn's agent_end and
\* its agent_settled.
TurnEndReturns ==
  pc = "seed" /\ cmd.until = "turn-end" /\ ~IsPrompt ~> pc \in Over
=============================================================================
