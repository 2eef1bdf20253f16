# Verification of pictl

TLA+ specifications of pictl, the TLC runs that check them on small instances,
and the theorems about them that TLAPS proves. pictl turns an interactive pi
process into an agent: `pictl spawn` starts a daemon, the daemon runs pi in a
PTY, pi serves its RPC protocol on `pi.sock`, the daemon serves terminal
attachment on `tty.sock`, and every other `pictl` command is a process of its
own that finds the agent through the files of its directory under `PICTL_DIR`.
There is no central process: everything the commands, daemons and pi processes
of one agent have in common is that directory, process ids and signals.

Paths below are relative to the repository's `src/core/` unless they say more.

## Contents

| module | of | models |
|---|---|---|
| `AgentLifecycle` | component | one agent directory and every process that touches it |
| `AgentStatus` | abstract | what the registry promises of one agent |
| `TtyServer` | component | the daemon's attach service |
| `AttachStream` | abstract | what `tty.sock` promises an attacher |
| `StreamDriver` | component | `runStream` over an `AsyncQueue` |
| `PiSocketClient` | component | one connection to pi's RPC socket, with pi at its other end |
| `StreamModes` | composition | `tail`, `prompt` and `wait` over `PiSocketClient` |
| `AgentCommands` | component | how a `pictl` process finds its agents, is audited and acts on them |
| `MessageFormatter` | algorithm | the layout of messages, incrementally |
| `TreeLayout` | algorithm | filtering and drawing of a session tree |
| `FormatInput` | algorithm | what a line, a document, a record of the input is |
| `FormatCommand` | composition | `pictl format` at the end of a pipe, over these three |
| `MCAgentLifecycle`, `MCTtyServer`, `MCStreamDriver`, `MCStreamModes`, `MCAgentCommands`, `MCFormatCommand` | | values of the constants for TLC |
| `AgentLifecycleProofs`, `AgentCommandsProofs`, `TtyServerProofs`, `StreamDriverProofs` | | theorems and proofs of one component |
| `StreamModesProofs`, `StreamOutputProofs` | | the same of `StreamModes`, the second on top of the first |
| `FormatLemmas`, `FormatCommandProofs` | | lemmas about `MessageFormatter` and `TreeLayout` and, on top of them, the theorems of `FormatCommand` |

`PROJECT.json` lists the components, runs, mutants, hazards, findings, theorems,
and for every definition the lines of source it stands for.

## 1. Inventory

For each component: its state, its operations, what it talks to, what is hard
about it, what makes it correct. "Hazards" in `PROJECT.json` has the single
points at which each can go wrong.

**Agent lifecycle** (`lifecycle.ts`, `spawn.ts`, `targets.ts`). State: none of
its own; the agent directory with `agent.json`, `spawn-options.json`, the
markers `archived` and `tombstone`, and `revive.lock`. Operations: spawn, the
revival that every socket command starts with (`ensureAgentRunning`), resume,
suspend, archive, purge, purge --force, gc. Interacts with the daemon through a
readiness pipe, with pi through `pi.sock` and signals, with other commands
through the files. Hard: any two commands interleave at every `await`; records
are read long before they are acted on; a command or daemon may be killed
anywhere; the lock is a file that its dead holder leaves behind. Correct when:
one revival at a time, never two daemons on one directory, a command ends, a
directory is not removed from under a live daemon.

**Registry** (`registry.ts`). State: the directory's files. Operations: atomic
record writes (temporary file and rename), record reads, liveness by pid,
classification of a directory as running, dormant, archived, tombstoned or
corrupt. Hard: the classification is of a moment, and its two reads are two
moments. Correct when: a reader sees the old record or the new one, and an
agent once recorded never looks like garbage.

**Daemon** (`daemon/daemon.ts`). State: the record, pi's PTY, the attach
service, the connection to pi, a queue of record writes. Operations: classify
the launch, clear stale sockets, start pi, write the record, serve, connect to
pi under a deadline, report ready, follow session changes, clean up when pi
exits. Hard: pi may exit before its exit is listened for; socket paths may lead
to processes of an earlier launch; the final write must be the last. Correct
when: a daemon serves its own pi, ends after it, and leaves a dormant record.

**Attach service** (`tty-server.ts`, `daemon/tty-service.ts`, `pty-screen.ts`).
State: connected clients with their buffered output and sizes, the screen
emulator, the applied size. Operations: accept, hello, resize, output, snapshot
ready or failed, error, close, shutdown. Hard: a snapshot is asynchronous while
output goes on; close and error report one loss twice; a shutdown overlaps all
of it. Correct when: every attacher's terminal shows pi's output exactly, the PTY
has the least of the attached sizes, record and audit trail agree with who is
attached, nothing follows the exit frame, and a shutdown ends without cutting off a reader.

**Stream driver** (`streaming/driver.ts`, `streaming/async-queue.ts`). State:
the queue of accepted events, two timers, the cutoff. Operations: push, close,
cancel, timers, cutoff signal, the loop with its hooks `onSeed`, `onEvent`,
`onStop`, `onEnd`. Everything that waits runs on it: `wait`, `tail`, `prompt`,
the polite stop of `suspend`. Hard: five things race to end a stream while
accepted events are still being handled. Correct when: nothing accepted is lost,
the first end decides, hooks run once and in order, no timer survives, it ends.

**pi socket client** (`pi-socket-client.ts`). State: pending requests by id, the
folded session state, the subscription, a line buffer. Operations: connect with
retries, dispatch of a line, request, subscribe, close. Talks to pi; used by
every streaming and RPC command. Hard: a chunk holds responses and events, all
dispatched before the coroutine that awaits one of them goes on; closing with
requests in flight. Correct when: no event after the subscription is missed, and
everything that waits is told of the close.

**Stream modes** (`streaming/stream.ts`, `message-records.ts`,
`socket-event.ts`, `tail.ts`). State: what was written, the drain cursor, the
session last seen, the final cursor. Operations: history, drains, the handlers of
three output types, the final cursor, a prompt that pi refuses or handles. Hard:
history and live events must join without a gap or an overlap; a session may be
switched at any time; the cursor is fetched after the stream is cut off. Correct
when: output is one stream, and `tail --since` the cursor repeats nothing.

**Until and wait** (`until-engine.ts`, `until.ts`, `wait.ts`). Conditions over
session states and events: `turn-end`, `idle`, `no-activity`. Hard: a turn that is
queued but not begun, one that pi retries, somebody else's. Correct when: a
command that says its turn has ended is right, and ends once it has.

**RPC commands and command line** (`rpc-commands.ts`, `cli.ts`, `targets.ts`).
State: none between calls; within one, the resolved targets. Operations:
determine and resolve the targets, record the command in each agent's audit log,
run it, on one agent through `pi.sock` or on several at once. Hard: the agent that
a name stands for may change between resolving, auditing and acting. Correct
when: what is audited is what is done, to the agent it is done to.

**Audit trail** (`audit.ts`). State: `audit.jsonl` and `sources.jsonl` of each agent.
Operations: find out who the caller is, append an event, append its source if it
is new. Hard: the check for a known source and the append are two steps of many
callers. Correct when: every change has its line before it happens, and every
source that is a process is explained.

**Formatting** (`src/format/`: `command.ts`, `input.ts`, `messages.ts`,
`filter.ts`, `tree.ts`, `flat-tree.ts`). State: the reader's line and chunk buffer, the
classification of the stream, the formatter's open run and last header. Hard: the
kind of a stream must be decided from its first line, a document from its last;
tool calls are held back and merged, results arrive later than calls, headers are
left out where the speaker is clear; it has to keep up with a live pipe. Correct
when: it prints what `tail` prints and as soon, loses nothing, and a reader can tell
who said what.

**Tree layout** (`src/format/tree-layout.ts`). A pure algorithm. Correct when: the
drawing reads back as the tree.

**tty protocol** (`tty-protocol.ts`, `frame_codec` in Rust), **attach clients**
(`attach.ts`, `attach_pane`, `tty_client`), **Rust client**, **inspection**,
**navigate-tree**, **skills**. Section 8 says why these have no module.

## 2. Plan

1. `AgentLifecycle` with `AgentStatus`: the processes around one directory. Done.
2. `TtyServer` with `AttachStream`: one daemon's event loop. Done.
3. `StreamDriver`: what every wait is built on. Done.
4. `PiSocketClient` and `StreamModes`: the stream of an agent's messages, with its
   history, cursor and conditions. Done. It takes the place of `StreamDriver`'s
   environment: its source is the socket, its hooks are the code's.
5. `MessageFormatter`, `TreeLayout`, `FormatInput`, composed in `FormatCommand`. Done.
6. `AgentCommands`: several commands on several agents, and the audit trail. It
   stands above `AgentLifecycle`, each of whose operations is one step here. Done.
7. Proofs of what the runs check. Done for every component: all safety and action
   properties, and both refinements (section 6).

## 3. The modules

### AgentLifecycle

`dir` and `file` are the agent directory: what each file holds is the process it
names (the daemon in `agent.json`, the holder of `revive.lock`, the owner of a
socket), `Blank` for a file that names none, `Absent` for a missing one. A daemon
and its pi are one element of `Daemons`, since `agent.json` holds both pids of a
launch; `dpc`, `ready` and `pi` are the daemon's place in `daemon()`, what it
wrote to its readiness pipe, and its pi. A client runs one command, and is at
`cpc` in it; `seen` is the daemon in the record that `forEachAgent` resolved
before the command started, `peer` the daemon it launched or is connected to.

An action is the code between two awaits that another process could see into.
The operators are named for the code: `Acquire`, `WriteLock`, `Recheck`,
`Unarchive`, `Reload`, `Unlock` are `reviveAgent`; `Poll`, `PollTimeout`,
`Verify` are `awaitConcurrentRevival`; `Launch`, `Await` are `launchDaemon`;
`Decide`, `Connect`, `WaitIdle`, `Sigterm`, `WaitClosed`, `Escalate`, `WaitGone`,
`KillDaemon` are `stopRunningAgent`, `terminatePi` and `waitPidGone`; `Mark`,
`Tombstone`, `ForceKill`, `RemoveFile`, `RemoveDir` the rest of archive, purge
and gc. `RemoveFile` removes one file, in any order, as a recursive rm does.
The daemon goes `Classify`, `ClearSockets`, `StartPi`, `WriteRecord`, `Handoff`,
`Listen`, `ConnectPi` or `ConnectDeadline`, and after pi's exit `FinalRecord`,
`UnlinkSockets`. `Rewrite` is a record write of a running daemon; where the
directory is gone the rejected promise has no handler and node ends the daemon.
pi (external) binds its socket, serves, and exits; its exit is lost while no
listener is registered for it (`AfterExit`). `CrashClient` and `CrashDaemon`
kill a process at any point; a killed daemon's pi loses its PTY and exits later.

Abstracted: the two reads of a classification, and gc's, are one step; the waits
inside purge --force are folded into its kill; the abort request of `--now` and
the several targets of one command, which do not affect each other, are left
out; a pid is never reused. Three daemons may be launched: enough for the agent
that was up, a second launch, and a third by whoever believed neither.

### AgentStatus

The status that `classifyAgentDir` gives, and the steps it may take while nobody
purges: absent, corrupt while its spawn is in progress, running, dormant,
archived. `AgentLifecycle` implements it (`FollowsLifecycle`): whatever is killed
wherever, a recorded agent never again looks corrupt, which would let gc take it.
One step differs from the documentation: see section 5.

### TtyServer

One event loop, so an action is one handler, whole. pi's output is a numbered
stream; a screen is the number of chunks it shows, and a chunk shown out of
sequence makes it `Garbled`. The xterm emulator is a queue of chunks with parse
barriers in it (`written`, `parsed`, `barrier`): `serializeScreen` writes a
barrier and resolves, when the emulator gets there, with the screen of that
moment. Per client: `sock`, membership of `clients`, `pending` output, `hello`,
`size`. `attachments` is the list in the record, `audit` counts the entries of
the trail. `phase` is how far the shutdown is: it ends every client's socket with an
exit frame, and then races the promises of these (`exitFrame`) against its timer
(`deadline`). A promise is resolved when the frame is flushed (`ExitFlushed`), but also
when its socket fails or closes. A frame is `"moving"` if its client will have read as far within
the second of the timer, `"stuck"` if not, because it has stopped reading or is too
slow; `Shutdown` chooses, so every outcome of the race is there. `Violation` is a frame that the
protocol does not allow; frames of input have no state and are left out, as are
`listen` and the text of a snapshot. A write after `end` destroys the socket, as
node does. With `StartupFails` the shutdown can begin while pi still writes.

### AttachStream

The promise of the comment on `TtyServerHooks.serializeScreen`: an attacher's
screen comes up with all output so far and then follows it. That the snapshot is
asynchronous and output is buffered meanwhile is invisible (`FollowsStream`).

### StreamDriver

`pc` is where `runStream` is; `queue` and `closed` are the `AsyncQueue`, `quiet`
and `timeout` what is left of the timers, `cutoff` the source's cutoff, `stop` the
promise of `onStop`. What a handler answers and whether it fails is open. Timers
count ticks and fire when they are due or later, as a busy event loop lets them;
two of equal delay fire in the order they were set. `ended` and `silence` are
history, for the properties. The hand-off of an event to a parked `next()` and the
start of its handler are one step: only microtasks are between them.

### PiSocketClient

pi (external) keeps a log of entries, cut into sessions by `starts`; its agent is
idle, has a prompt queued, runs a turn or has ended one without having settled
(`phase`). What it sends is in `chan`: hello, the seed, events and responses in one
order. It answers requests in any order, each with a snapshot of the log.

`state` is the folded session state, `seed` what `subscribe` resolves with, `queue`
and `events` the `AsyncQueue` and whether it is open, `reply` what each request got.
`Receive` dispatches one line. Node hands over chunks, and no coroutine runs within
a chunk, so while `reading` is true only `Receive` may happen; a chunk ends anywhere.
`SocketClosed` is the handler of close. A request's id is its name: of those a
command makes, one of a kind is in flight at a time.

### StreamModes

`pc` goes through `streamTail`, `streamPrompt` or `wait`, then through `runStream` with
the handlers of `runModeStream`; the operators have the names of `StreamDriver`'s
actions where they are the same code. `Idle` says that every coroutine waits: only
then can a chunk arrive or a timer fire. Timers have no duration: one that is armed
may fire whenever the program waits, which is every real timing and more.

`out` is what the writer was given, entries by their number and 0 for a session
change; `final` is the cursor record. Five variables are for the properties only:
`due`, which turn a command waits for, with `from` and `mark`, where the log was when a
prompt was accepted for it and when it ended; `missed`, what the chunk that held the
history's answer held besides; and `early`, the entries that a drain was given of a
session whose `session_changed` was yet to be handled. `CommandsAssumption` says which
command lines there are: only `tail` takes `--since` and `-n`, and `wait` has no output.

A prompt starts with an idle agent; another client's prompt comes before it only
while it connects, and only where messages are printed. This keeps the instance
small: it leaves the case of a turn of another client that a prompt meets.

### AgentCommands

`status` is the registry's status of each agent; what `AgentLifecycle` does in many
steps is one step here. `Begin`, `List`, `Read` are `determineTargets` and
`resolveTargets`; `Identify`, `AppendEvent`, `Lookup`, `AppendSource` are
`recordCommandAudit`, for each target in turn; `Compose`, `EnsureAgentRunning`,
`ReviveAgent`, `Connect`, `Request` are `sendRpc`; `Stop`, `SetArchived`, `Purge`,
`Suspended`, `Resume` what `forEachAgent` runs on all targets at once. `Matches` is
`resolveAgentId`: a name that is an id is that agent, another one the only agent
whose id it begins. `Begins` gives the prefixes; `Process` the processes above a
caller, which `WalkToManager` climbs. A caller may be killed and a daemon may end at
any point. Commands with the same path through this code are one kind (`RpcCommands`
lists all of them); an instance has one of each. `WalkAssumption` says that the climb
from a process ends at one, as it does where each has a parent and none is its own
ancestor.

### MessageFormatter, TreeLayout, FormatInput

Algorithms, as operators over values. A message is its role and its blocks, and of a
text only whether it is empty, blank, bracketed or raw, which is all that the layout
looks at. A formatter is a record of its fields; what it printed is a sequence of
blocks with header, speaker and body, and an element of a body names the parts of
messages it shows. A drawn row is an id and a prefix, of which a level is blank, a
bar, a tee or a corner. A line is blank, broken, one JSON value, or the first or last
line of a document; a value is its `type`, whether it has the keys of an entry, and
whether it validates. Left out: words, truncation, timestamps and the duration of
thoughts. `flattenAll`'s own indentation is not kept, since
`recalculateVisibleStructure` computes it again. `Climb` gives an entry's ancestors one
by one, `Visit` is a turn of `flattenAll`'s loop with its stack, and `RowAt` is the row
that is made from the one of its visible parent.

`Subsequence` picks the elements of a sequence at given positions. It and the loops
(`AddCalls`, `PushAll`, `FlattenAll`, `Layout`) are recursive functions, not operators or the library's
folds, so that the provers can reason about them; an open run that holds nothing is
`EmptyRun`, so that a run is always a record.

### FormatCommand

The pipe gives chunks of one or two lines, in the end perhaps with text after the
last newline; `pc` is where the decoder is: at the first record, in a document, at
the records, or reading it all (`format tree`). `TakeLine` is one turn of the
sub-command's loop; `finished` is the records of a document once it has been read
to its end, `None` while lines are handed on as they come.

Two assumptions are on the constants. `NoneAssumption`: the value that stands for
undefined and null is none of the names, numbers and sequences it is compared with.
`JobsAssumption`: the command lines are ones the parser lets through, and
each line is what JSON can be: blocks and records are sequences, a value with the
type of a record is not also a document, and the messages of a `{"messages": ...}`
document have become records of type `message`, as `decodeMessagesInput` makes them.

## 4. Runs

The longest run takes under three minutes with two workers. Deadlock is checked in
`StreamDriver`; elsewhere commands and processes may all end.

| run | instance | shows |
|---|---|---|
| `LifecycleRevive` | 3 clients each running spawn, a revival, suspend or archive; 3 daemons; clients and daemons killed anywhere | `RevivalExclusive`, `OneDaemon`, `StaleIsFinal`, `UpIsReachable`, refinement of `AgentStatus` |
| `LifecycleProgress` | 2 such clients, killed anywhere, fairness | `RevivalEnds`, `CommandsEnd`, `DaemonFollowsPi`, `ConnectsOwnPi` |
| `LifecycleEverything` | 2 clients, all eight commands, clients and daemons killed | `TypeOK`, `TombstoneOwned`, `NoOrphan` |
| `TtyView` | 2 attachers, 2 chunks of output, fairness | `ExactView`, `FollowsStream`, `NothingAfterExit`, `Served`, `ShutdownEnds` |
| `TtyAttachments` | 3 attachers, 3 sizes, failing startups | `MinSizeApplied`, `AttachmentsCurrent`, `AuditPaired`, `HookSilent` |
| `StreamDriver` | up to 5 events, delays of 1 and 2 ticks, equal, unequal or none | its invariants, `StopOnce`, `QuietMeansSilence`, `StreamEnds` |
| `StreamModes` | 12 command lines; 3 entries, 3 sessions, 1 turn, 5 of these together (the last of them only where entries are printed), 3 records ahead of the client | `OneStream`, `TurnAwaited`, `CursorCoversOutput`, `CommandEnds` |
| `FormatCommand` | 12 command lines, with conversations of up to 4 of 14 messages, up to 3 of 20 shapes of line, trees of up to 5 entries | `RoundTrip`, `SwappedPipe`, `Attributed`, `NothingLost`, `TreeReadsBack` |
| `AgentCommands` | 2 callers, 2 agents, a command of each of 9 kinds, none, one or both agents as target | `TypeOK`, `SourcesKnown`, `AuditedBefore` |
| `LifecycleResumeRace`, `TailCursor`, `CommandMisdirected` | | the disagreements of section 5 |

What they say. `ShutdownEnds`: the shutdown ends, with clients that have stopped
reading, clients that fail while it lasts and output written by then, and when it ends
no exit frame is still on its way to a client that reads. Without the timer it would
hang; were the first flush to decide the race, it would cut the other readers off.
`OneStream`: no entry is written twice or out of order, and none between two that are
written is skipped, except what shared a chunk with the history's answer and what came
early (section 5). `TurnAwaited`: a command that reports the end of a turn waited for
the one that was running, queued or its own, and has printed all of it. `CommandEnds`: a
command ends when its condition is bound to come or the socket closes, whatever pi
answers and whenever it exits. `RoundTrip`: `tail --json` piped into `format` prints
what `tail` prints, and has printed it whenever it waits for more input. `SwappedPipe`:
a sub-command that is given the output for another says which, before it prints.
`Attributed`: the last header above a block is its speaker's, with no raw text in
between that could pass for something else. `NothingLost`: where no call has two
results, every call, text and result is printed or held back for the open run once, and
in order, or is a result that the flags hide or that is summed up on the line of its
call. `TreeReadsBack`: connectors and indentation alone give every row its nearest shown
ancestor. `AuditedBefore`: an agent is changed or asked only by a caller with a line in
that agent's log. `SourcesKnown`: an event of a process that finished has its source's
record next to it, also when two callers record it at once and one is killed.

Why the bounds are enough: the lifecycle hazards need a holder of the lock, a
waiter and a third command that stops or archives the agent in between, over an
old daemon, its successor, and a wrong third one. A view goes wrong with one
chunk before, one during and one after a snapshot; the two-chunk instance covers
each pair of these and the theorem any number. Three sizes of which none is the
least of the others make the minimum that of several clients. Five events leave
room for one in hand, some queued at the cutoff, and some after.

In `StreamModes` one turn after the one pi may begin with gives the awaited turn a
predecessor; a second session is enough to void a cursor, a third to leave one behind that was
never drained, and three entries are one before the stream, one in it and one behind
its cutoff. `MaxInFlight` lets a chunk
hold a response with events on both sides; `MaxTries` 1 is a refused connect and a
second one. In `FormatCommand` four messages are a run, its result, an interruption
and what follows it; the kind of a stream is fixed by its first line and refused at
the second, so three lines suffice; in five entries there are a branch inside a
branch and a filtered entry above and below one. `AgentCommands` is
pairwise: every race in it is between a command that has resolved an agent and
one that changes it. Its ids do not begin one another (`Distinct`), as random
UUIDs do not, and an id that was purged is not spawned again; section 5 says what
happens otherwise. `TreeReadsBack` speaks of acyclic parents (the code draws nothing
of a cycle) and of joined lines under one root only: with several roots the gutters
are drawn one level further left than connectors, as tree-layout.test.ts has it.

`ConnectsOwnPi` and `DaemonFollowsPi` are checked without killed daemons: a pi that
outlives a daemon killed with SIGKILL may bind `pi.sock` before its successor's
does, and nothing in the code can tell; this is outside what the daemon promises.

Fairness. A process that can run does run, timers expire (weak fairness of each client's
step, each daemon's, and of pi binding its socket). A pi whose PTY is gone exits, but no
other pi need ever exit and no attacher need ever say or read anything. `WaitIdle` may
always give up or succeed, which stands for the wait's own end. In `TtyServer` the
emulator works off its queue, promises settle, and the timer of the exit handshake
expires. An exit frame that moves arrives, and before that timer, since that is what
moving means; one that is stuck need never arrive. In `StreamDriver` time passes and
hooks settle: each waits for an answer of pi's or for the end of the connection to it.
In `StreamModes` pi answers, starts what is queued, and ends and settles the turns it
starts; what it has sent arrives; coroutines and armed timers run. pi need not start,
append, switch sessions or exit. `FormatCommand` and `AgentCommands` state no fairness.

### Mutants

An operator with an underscore in its name (`LockFree_NotExclusive`) is the
operator of the same name with a plausible bug put in. No specification uses it:
for each property `PROJECT.json` names one such mutant and a run in which TLC finds
the property violated once the mutant takes the operator's place. It shows that
the property depends on that piece of the code.

## 5. Where code and documentation disagree

Three runs check one documented statement each and find a counterexample.

- `LifecycleResumeRace` (`OneDaemon`): docs/architecture.md:123 says revival is
  serialized per agent. `resume` takes no lock and trusts the record resolved
  before it began, so two of them start two daemons.
- `TailCursor` (`CursorIsLastReturned`): README.md:105 says the cursor is that of the
  last message returned. `streamTail` asks for it once the stream has ended
  (stream.ts:190), and what pi appends until it answers lies before the cursor and
  is in neither this output nor that of `tail --since`.
- `CommandMisdirected` (`AuditedBefore`): the id that a command resolved and audited is
  resolved again, as a prefix, by `ensureAgentRunning` and `reviveAgent`
  (lifecycle.ts:144). If that agent is purged in between and its id begins another's,
  the prompt goes to the other one. docs/specs/auditing-and-attach-tracking.md:16
  promises an event in the log of the agent targeted.

Four more have a configuration here, which `PROJECT.json` does not list as a run.

- `LifecycleSuspendHang.cfg` (`CommandsEnd`): lifecycle.ts:160 says pi is terminated,
  if need be killed. The process that is signalled comes from the record resolved
  up front, the connection that is awaited from `pi.sock`; after a daemon crash and
  a revival these are two pis, and the wait does not end.
- `TailTurnEnd.cfg` (`TurnEndReturns`): README.md:105 says `tail --until turn-end`
  returns "once the current turn (if any) finishes". Between a turn's `agent_end` and its
  `agent_settled` the state is streaming, so the seed does not meet the condition
  (until.ts:27), and the `agent_end` has passed: it waits for the next turn.
- `TailTwice.cfg` (`DrainsSendOnlyNew`): stream.ts:139 says each drain sends only new
  entries. A drain asked for without a cursor and answered after a session switch gives
  the new session's entries; the `session_changed` handled next voids the cursor, and
  the drain for it gives and writes them again. `OneStream` therefore leaves aside
  what came `early`, and its theorem says that this is all that is ever written twice.
- `FormatNewerEvent.cfg` (`EventsRoundTrip`): record-writer.ts:71 says both sides
  render identically. A stream of events that begins with one this version does not
  know is refused (input.ts:606), though `tail` prints it.

Found with other instances, and described here without one: `purge` finds an
agent dormant and removes the directory later, under the daemon that a revival has
started in between (docs/architecture.md:123, "Same for archiving and purging"),
which is why `NoOrphan` leaves commands that launch aside; a removal that is
interrupted may have unlinked the tombstone before `agent.json`, and what is left
looks dormant, not collectable (lifecycle.ts:325); `broadcastOutput` has no guard
against a shutdown, and when a failed startup shuts the service down pi's remaining
output is written after the exit frame (tty-server.ts:148 against :221), so `TtyView`
has no failing startup; gc takes the directory of a spawn in progress, which has no
`agent.json` yet, for that of a failed one (lifecycle.ts:9); archive may mark an agent
that a revival has started meanwhile (docs/architecture.md:120), which is why
`AgentStatus` lets a stop end in "archived".

Seen while modelling, and part of the models: an entry that arrives in the chunk of
the history's answer is in neither the history nor the stream (`missed`); in entries
mode a drain that pi answers after a session change is refused and fails the stream,
where docs/implementation-plan.md:246 speaks of a resync; `prompt --until idle` does not
end by itself when the prompt is handled without a turn; `-n 0` prints everything; a
record refused in the middle of a stream keeps the open run of `format messages` from
being printed; `format tree` counts text after the last newline, the streaming
sub-commands drop it; a stop for "length" is a failure to the filters and not to the
formatter; a command over several agents that fails to resolve one touches none, but
one that fails to write a log has written the ones before; a command is audited even
when it then fails; two callers may both append a source's record, which readers
drop; and a caller killed between its two appends leaves an event without a
source until that source runs another command.

A client killed while it holds `revive.lock` leaves the agent unrevivable until
the file is removed by hand. The code says so to the user (`StaleIsFinal` is that
it only says so when it is true), so this is behaviour, not a disagreement.

## 6. Proofs

All theorems hold for every value of the constants, from the assumptions named in the
modules: that names of processes and special values are different, that sizes are
pairs of naturals, that delays are naturals or none, that command lines are ones the
parser lets through. TLC checks the assumptions in every run. A theorem that needs more
says so in its ASSUME; the hypotheses are explained below.

**AgentLifecycleProofs.** `TypeCorrect`, `TombstoneIsOwned` and `NoDaemonIsOrphan` hold for
all commands and kills. The others have the hypothesis `Serialized`: clients run spawn,
revivals, suspend and archive only. It is needed: section 5 has the counterexamples
with resume and purge.

- `RevivalIsExclusive`, `OneDaemonRuns`, `StaleLockIsFinal`. `OneDaemon` alone is not
  inductive. `RevivalInv` adds why a launcher may launch: between its second look at the
  record and its launch no daemon is alive (`RevivesTheDead`), until a spawn has launched
  it has the directory to itself (`SpawnIsAlone`), and a live daemon is the recorded
  one, or has yet to record itself and was launched under the lock that is still there
  (`AliveIsKnown`). The lock's holder leaves `await` only when its daemon has spoken, and
  a daemon is silent until it has written the record (`EarlyIsSilent`): that closes the
  circle.
- `UpAgentIsReachable`. `DirectoryInv` adds to `RevivalInv` that the sockets of a live
  daemon and its pi are theirs (`ServesTty`, `ServesPi`). A daemon that ends unlinks the
  sockets by path, whoever's they are; that this is never a successor's follows from
  `OneDaemon`.
- `ImplementsLifecycle`: the refinement of `AgentStatus`. Under `DirectoryInv` the status
  is a function of the record and of the daemon in it, so each step need only be looked
  at for those two.
- `ConnectsToItsPi` also assumes that no daemon is killed from outside
  (`"daemon" \notin Crashes`), for the reason in section 4. Then no pi outlives its daemon
  (`NoOrphanPi`), and a stop signals the pi that it waits for (`StopsItsPi`).
- `NoDaemonIsOrphan` is about purge, purge --force and gc, while no command launches,
  which is how `NoOrphan` is stated. `OneOldDaemon` says what holds until then: there is
  one daemon, everybody resolved it, and nobody is past stopping it.

**AgentCommandsProofs.** `TypeCorrect`, `SourcesAreKnown`, `AuditedFirst`. The type
invariant must know what a caller knows at each place: its targets are resolved and
were spawned once (`UsedIds`, `ResolvedTargets`), a request has one target, and who
records knows its source. `SourcesInv` adds that who has yet to record itself is in no
log (`Unrecorded`), so an event without its source's record is that of a caller who is
about to append it, or was killed there. `AuditInv` says in
which logs a caller that has come so far stands (`LoggedBy`), and that its connection
leads to the target it audited. That is false where the id it resolved can come to
stand for another agent, so `AuditedFirst` assumes `Unambiguous`: no id begins another
and none is used twice. `CommandMisdirected` is the counterexample without it.

**TtyServerProofs.** `ViewInv` says for each client what its buffered chunks, the
emulator's queue and the snapshot add up to: the snapshot of a barrier and the
chunks buffered since together make exactly `written`. From it follow `ViewIsExact`
and, action by action, `ImplementsAttachStream`: delivery of a snapshot is `Attach`,
output is `Produce`, all else a stutter. `BookInv` relates sockets, membership, sizes,
list and trail, and gives `MinSizeIsApplied`, `AttachmentsAreCurrent`,
`AuditIsPaired`. The least of a set of sizes exists by well-foundedness.
`ShutdownIsSilent`: once a shutdown has begun only its own last step touches record and
trail. `ExitFrameIsLast` assumes that no startup fails: section 5 has what pi's output
does after the exit frame when one does.

**StreamDriverProofs.** Four invariants, each over the ones before: `TypeInv`;
`EndInv`, that `closed`, `cutoff`, `stop` and `ended` change together and once;
`Clocks`, that silence so far and the timer's remainder make up its delay and that
no timer runs after the end; `Accepted`, that the queue holds what follows the last
event taken up to the last one pushed. They give `NothingIsLost`, `FirstEndDecides`,
`StopIsBeforeEnd`, `TimersAreCleared`, `NeverIsParkedInVain`, `QuietIsSilence` and
`StopsOnce`.

**The stream modes**: two modules, for any number of entries, sessions and turns, any
amount of work of pi, any cut of its records into chunks, and a socket that may close
at any time. None of them has a hypothesis.

- `OnlyTheLog` (in `StreamModesProofs`). Types, and that nothing is said, queued, answered or
  written of an entry that pi has not appended. `PiStepShape` sums up once what any step
  of pi appends to the socket; all later proofs use it in place of pi's actions. Here is
  also what `InOrder` and `LimitedTail` return: that a set of entries can be put in order
  follows from a least bound for which it could not (`ListingExists`), so the CHOOSE
  has something to choose.
- `Connection` (there too): that a request is in flight at most once, only while
  its coroutine waits (`OnceInv`), and that steps come in the code's order (`Order`); and
  `CursorIsNotBehind`. The answer that carries the cursor is a snapshot of the log at a
  moment when `events` is closed, so what is written or queued is before its leaf
  (`Covers`), when it is sent, when it arrives and when it is printed.
- `TurnIsAwaited` (in `StreamOutputProofs`). `TurnInv` follows the awaited turn. Until it has
  ended no `agent_end` of it is under way (`NoEndYet`), and pi is busy with it (`Busy`),
  so no seed and no state can look idle; an outcome that says it is done has its reason
  (`Concluded`). That it is also printed comes from `OnTheWay` for messages: an entry of
  the turn is written, or queued, or in the socket, ahead of the turn's end; and from
  `DrainInv` for entries: up to the cursor all of the turn is written.
- `OutputIsOneStream` (there too). `StreamInv` has one part for each way an
  entry takes. The socket holds the end of the log in its order (`ChanInv`), the queue
  what comes before that, without a gap while the subscription is open (`QueueInv`), and
  sessions are announced in order (`SessionInv`). The history's answer is followed by
  what came later, but for what a chunk held behind it (`HistoryInv`, `Follows`). In the
  modes of messages and events what is written therefore ends where the queue begins
  (`OutputInv`). In the entries mode an answer to a drain goes on from the cursor, or
  without one from the start of a session that is not before the one drained for
  (`GoesOn`), and whatever lies past the session drained for came `early`
  (`EntriesPlace`). Without `early` this last conjunct is not inductive, nor true:
  `TailTwice.cfg` shows the step that breaks it.

**FormatLemmas.** What the operators under `FormatCommand` compute. No theorem is here but
what `FormatCommandProofs` rests on. Inductions over a number of records, entries or rows
are done as least counterexamples (`LeastOf`, from the well-foundedness of the naturals).
Of `MessageFormatter`, two invariants, whatever the records and however many, each shown
for a new formatter and kept by `Push` and `End`:

- `HeaderInv`: every block of a speaker is `Headed`, and if a header need not be repeated
  (`~forceNextHeader`) the last one printed still speaks for what follows (`Continues`): no
  raw text came after it.
- `PartsInv`: the bodies printed and that of the open run, taken as one sequence, are
  `BodiesOK`. Each body shows its parts in order, and all of a body are of earlier
  records than those of the next; no record is a result summed up in two places, or summed up and
  shown; and, where no call has two results, each part of each record is `Placed`: in
  one element, or held by the result that it is. `Push` keeps it because a record's
  number is greater than all before, and `FlushRun` because a run's body says of its items
  what `RunOK` says of the run: which calls an item merges, and that an item is answered by
  a result of one of its calls.

Of `TreeLayout`, for entries with distinct ids of which none is above itself (`Forest`),
in any number:

- Ancestors. `Climb` ends (`ClimbEnds`, by counting: a way up longer than the file would
  come to an entry twice), so being above is transitive (`AboveTrans`), and of two
  entries above a third one is above the other (`AboveChain`).
- `Flattened`: `flattenAll` takes every entry once, after all above it, an entry and all
  below it without a break, those of the active path before all others (`Preorder`). The
  loop's invariant `Planted` says the same of what has been taken, and of the stack that an
  entry not taken is there or has a parent that is not taken either (`Ahead`), and how
  the stack goes with what was taken (`Between`). A filter keeps all of this (`Shown`).
- `TreeDrawn`: then the positions of the visible parents are `Nested` and the rows a
  `Drawing`. In a drawing an indentation is that of the parent or one more, and never less
  among those below a row (`DeeperBelow`); the gutters of a row are one for each row
  above it that shows a connector, in the column of that connector (`Guttered`).
- `ParentFound`: the parent of a row with a connector is the last row before it with a
  smaller indentation, that of another is the row before it. `LinesJoin`: under one root a
  bar or a connector continues in its column from the row before, and a bar or a tee into
  the row after.

**FormatCommandProofs.** For any command line and pipe, under `NoneAssumption` and
`JobsAssumption`, with any number of lines and messages.

- `AttributedSafe`: `HeadersInv` is `HeaderInv` of the formatter at every step.
- `RoundTripSafe` and `SwappedPipeSafe`: `FormatInv`. `PipeInv` has what came;
  `DecodedInv` what the decoder knows of it: nothing is printed until the input's kind is
  known (`Undecided`); of lines, the formatter is what pushing the records of the
  lines taken so far gives, and one line is written for each (`OfLines`); of a document,
  the first line was no record and `finished` is what the whole text holds
  (`OfDocument`). That the records of one more line are those of the lines before
  followed by its own is the lemma on which `OfLines` rests.
- `NothingLostSafe`: `PartsInv` of the formatter at every step (`PartsKept`). It needs
  `FormatInv` too: that a record pushed has blocks at all comes from what the decoder
  let through.
- `TreeReadsBackSafe`: `TreeInv`, that what is drawn is `FormatEntriesTree` of the entries
  that came, whose ids are distinct, since another input is refused. The rest is in the
  lemmas above. That parents are acyclic is part of the property (section 4).

Only model-checked: every liveness property (`RevivalEnds`, `CommandsEnd`,
`DaemonFollowsPi`, `Served`, `ShutdownEnds`, `StreamEnds`, `CommandEnds`), which are out of
the prover's reach, as fairness and ENABLED are.

## 7. How to run

In this directory, with the TLA+ tools and TLAPS on the path:

    tlc -config LifecycleRevive.cfg MCAgentLifecycle
    tlapm AgentLifecycleProofs.tla

Every run's module and configuration are in `PROJECT.json`. The configurations give
constants their values and replace nothing.

## 8. Not modelled

- tty protocol: framing of bytes, a length, a type and a payload, put together over
  chunks. `TtyServer` starts from decoded frames, one of which breaks the protocol.
- Attach clients: terminal modes and bytes passed through. What they do to the state
  of the service is `TtyServer`'s environment.
- Rust client: a second client of the same sockets, for panes of a multiplexer; it
  repeats the protocol of `PiSocketClient` and of an attacher.
- Inspection (`list`, `status`): read-only; of one agent they show `AgentStatus`.
- Failing system calls the code has no answer to: an `rm` of `purge` that fails in the
  middle for another reason than a kill, a resize of a PTY whose process has exited.
- Compaction: an agent that compacts counts as working (until.ts:27); pi's compactions
  are not among its events here.
- Half-closed sockets: node ends and closes a socket whose peer has ended; both are
  `SocketClose`.
- Daemon: the session history in the record, and the order of queued writes, which
  one promise chain keeps.
- Audit: parsing of /proc, and `resolveCallerSourceForPid`, which looks at an
  attacher's process when it may have ended: the same client then attaches as
  `<comm>:<pid>` and detaches as `process:<pid>` (audit.ts:118).
- navigate-tree runs inside pi, behind pi's extension interface; the team skill is a
  prompt.
- Command line: parsing, help, completion, wording.
