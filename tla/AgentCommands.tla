--------------------------- MODULE AgentCommands ---------------------------
(***************************************************************************)
(* How one invocation of pictl finds its agents, records itself in their   *)
(* audit logs and acts on them (cli.ts, targets.ts, audit.ts,              *)
(* rpc-commands.ts), with several pictl processes at work on several       *)
(* agents.  Every await is a point where another process runs: an agent    *)
(* may be purged, revived or spawned between the moment a command resolves *)
(* its name and the moment it acts.                                        *)
(*                                                                         *)
(* What one agent goes through while it is stopped, revived or purged is   *)
(* AgentLifecycle; here each of these is one step on its registry status.  *)
(* What travels over pi.sock is PiSocketClient.  An audit log holds the    *)
(* callers that have an event in it, sources.jsonl the sources that have   *)
(* a record: every caller runs one command, and readers drop duplicates.   *)
(*                                                                         *)
(* An operator whose name has an underscore is the operator named before   *)
(* it with a bug put in; no specification uses it (README, "Mutants").     *)
(***************************************************************************)
EXTENDS Naturals, Sequences, FiniteSets, Functions

CONSTANTS
  Callers,   \* pictl processes; each runs one command
  Ids,       \* agent ids
  Begins,    \* for every name a user may type, the ids that begin with it
  Uses,      \* the commands the callers may run
  Flags,     \* the sequences of --target values they may be given
  EnvTargets,\* the values PICTL_TARGET may have, None when it is not set
  PictlIds,  \* the same for PICTL_ID
  Auditing,  \* the callers whose PICTL_AUDIT does not switch auditing off
  Parent,    \* each caller's parent process
  Process,   \* the processes above them: [shell, interactive, parent]
  Respawns,  \* whether spawn --id may take an id that was purged
  None

ASSUME NamesAssumption ==
  /\ Ids \subseteq DOMAIN Begins
  /\ \A name \in DOMAIN Begins : Begins[name] \subseteq Ids
  /\ \A id \in Ids : id \in Begins[id]
  /\ None \notin DOMAIN Begins
ASSUME CallersAssumption ==
  /\ Auditing \subseteq Callers
  /\ EnvTargets \subseteq DOMAIN Begins \cup {None}
  /\ PictlIds \subseteq Ids \cup {None}
  /\ Parent \in [Callers -> DOMAIN Process]
  /\ Flags \subseteq Seq(DOMAIN Begins)
  /\ Respawns \in BOOLEAN

-----------------------------------------------------------------------------
(* The subcommands.                                                         *)

\* Take a message argument and --image, read when the command runs.
MessageCommands == {"prompt", "steer", "follow-up"}

\* Take an argument that is rejected while the command line is parsed.
CheckedCommands ==
  {"set-thinking-level", "set-steering-mode", "set-follow-up-mode",
   "set-auto-compaction", "set-auto-retry"}

TurnCommands ==
  {"abort", "clear-queue", "compact", "abort-retry", "bash", "abort-bash"}

ModelCommands == {"set-model", "cycle-model", "cycle-thinking-level"}

SessionCommands ==
  {"new-session", "switch-session", "fork", "clone", "navigate-tree",
   "set-session-name"}

QueryCommands ==
  {"get-state", "get-available-models", "get-available-thinking-levels",
   "get-session-stats", "export-html", "get-fork-messages", "get-entries",
   "get-tree", "get-last-assistant-text", "get-messages", "get-commands"}

RpcCommands ==
  MessageCommands \cup CheckedCommands \cup TurnCommands
    \cup ModelCommands \cup SessionCommands \cup QueryCommands

LifecycleCommands == {"suspend", "archive", "resume", "purge"}

\* spec.audited, and spawn, which records itself.
Audited(command) == command \notin QueryCommands

ASSUME UsesAssumption ==
  Uses \subseteq RpcCommands \cup LifecycleCommands \cup {"spawn"}

VARIABLES
  status,  \* each agent as classifyAgentDir sees it
  used,    \* the ids that have been spawned
  log,     \* the callers with an event in each agent's audit.jsonl
  sources, \* the sources with a record in each agent's sources.jsonl
  acted,   \* <<caller, id>>: the caller's command has changed or asked the agent
  pc,      \* where each caller is
  command, \* the command it runs
  target,  \* the names it was given, each turned into an id as it is resolved
  at,      \* how far it is with each target
  turn,    \* the target whose log it is writing to
  source,  \* the source it records itself under
  conn     \* the agent whose pi it is connected to

agentVars == <<status, used, log, sources>>
callerVars == <<pc, command, target, at, turn, source, conn>>
vars == <<agentVars, acted, callerVars>>

Status == {"absent", "corrupt", "dormant", "archived", "running"}
Ended == {"done", "failed", "usage", "killed"}
CallerState ==
  Ended \cup {"idle", "resolve", "identify", "event", "lookup", "append",
              "launch", "compose", "ensure", "revive", "connect", "request",
              "each"}

Progress == {"list", "read", "ready", "stopped", "ok", "error"}

Source ==
  [kind : {"pictl"}, of : Ids]
    \cup [kind : {"manager", "process"}, of : DOMAIN Process]

TypeOK ==
  /\ status \in [Ids -> Status]
  /\ used \subseteq Ids
  /\ log \in [Ids -> SUBSET Callers]
  /\ sources \in [Ids -> SUBSET Source]
  /\ acted \subseteq Callers \X Ids
  /\ pc \in [Callers -> CallerState]
  /\ command \in [Callers -> Uses \cup {None}]
  /\ target \in [Callers -> Seq(DOMAIN Begins)]
  /\ at \in [Callers -> Seq(Progress)]
  /\ \A c \in Callers : Len(at[c]) = Len(target[c])
  /\ turn \in [Callers -> Nat \ {0}]
  /\ source \in [Callers -> Source \cup {None}]
  /\ conn \in [Callers -> Ids \cup {None}]

\* Agents that exist when the commands start have been there for a while.
Init ==
  /\ status \in [Ids -> {"absent", "dormant", "running"}]
  /\ used = {id \in Ids : status[id] # "absent"}
  /\ log = [id \in Ids |-> {}]
  /\ sources = [id \in Ids |-> {}]
  /\ acted = {}
  /\ pc = [c \in Callers |-> "idle"]
  /\ command = [c \in Callers |-> None]
  /\ target = [c \in Callers |-> <<>>]
  /\ at = [c \in Callers |-> <<>>]
  /\ turn = [c \in Callers |-> 1]
  /\ source = [c \in Callers |-> None]
  /\ conn = [c \in Callers |-> None]

Goto(c, state) == pc' = [pc EXCEPT ![c] = state]
Mark(c, i, step) == at' = [at EXCEPT ![c][i] = step]

-----------------------------------------------------------------------------
(* Targets.                                                                 *)

\* listAgentIds
Listed == {id \in Ids : status[id] # "absent"}

\* resolveAgentId: the id itself if it is listed, or else what it begins; one
\* match is the answer, none or several are an error.
Matches(name) == IF name \in Listed THEN {name} ELSE Begins[name] \cap Listed

\* readAgentRecord gives a record.
Recorded(id) == status[id] \in {"dormant", "archived", "running"}

\* loadAgent, for an id that a command has already resolved once.
Loads(name) == {id \in Matches(name) : Recorded(id) /\ Matches(name) = {id}}

\* --target, or else PICTL_TARGET; <<>> is a usage error.
DetermineTargets_Unset(name, flags, envTarget) ==
  IF flags = <<>> THEN <<envTarget>>
  ELSE IF name \in RpcCommands /\ Len(flags) > 1 THEN <<>> ELSE flags
DetermineTargets(name, flags, envTarget) ==
  IF flags = <<>>
  THEN IF envTarget = None THEN <<>> ELSE <<envTarget>>
  ELSE IF name \in RpcCommands /\ Len(flags) > 1 THEN <<>> ELSE flags

\* The command line is parsed and the targets are determined.
Begin(c, name, flags, envTarget) ==
  LET targets == DetermineTargets(name, flags, envTarget) IN
  /\ pc[c] = "idle" /\ name # "spawn"
  /\ command' = [command EXCEPT ![c] = name]
  /\ \/ /\ name \in CheckedCommands \/ targets = <<>>
        /\ Goto(c, "usage")
        /\ UNCHANGED <<target, at>>
     \/ /\ targets # <<>>
        /\ Goto(c, "resolve")
        /\ target' = [target EXCEPT ![c] = targets]
        /\ at' = [at EXCEPT ![c] = [i \in DOMAIN targets |-> "list"]]
  /\ UNCHANGED <<agentVars, acted, turn, source, conn>>

\* What runs once the targets are known and audited.
FirstState(name) ==
  IF name = "spawn" THEN "launch"
  ELSE IF name \in RpcCommands THEN "compose" ELSE "each"

\* recordCommandAudit returns at once when auditing is off.
AfterResolve(c) ==
  IF Audited(command[c]) /\ c \in Auditing
  THEN "identify" ELSE FirstState(command[c])

\* resolveTargets loads all targets at once: each is listed and then read, and
\* the first failure fails the command.
List(c, i) ==
  /\ pc[c] = "resolve" /\ at[c][i] = "list"
  /\ \/ /\ Cardinality(Matches(target[c][i])) # 1
        /\ Goto(c, "failed")
        /\ UNCHANGED <<target, at>>
     \/ \E id \in Ids :
          /\ Matches(target[c][i]) = {id}
          /\ target' = [target EXCEPT ![c][i] = id]
          /\ Mark(c, i, "read")
          /\ UNCHANGED pc
  /\ UNCHANGED <<agentVars, acted, command, turn, source, conn>>

Read(c, i) ==
  /\ pc[c] = "resolve" /\ at[c][i] = "read"
  /\ \/ /\ ~Recorded(target[c][i])
        /\ Goto(c, "failed")
        /\ UNCHANGED at
     \/ /\ Recorded(target[c][i])
        /\ Mark(c, i, "ready")
        /\ IF Range(at'[c]) = {"ready"}
           THEN Goto(c, AfterResolve(c)) ELSE UNCHANGED pc
  /\ UNCHANGED <<agentVars, acted, command, target, turn, source, conn>>

-----------------------------------------------------------------------------
(* The audit trail.                                                         *)

\* walkToManager: up past the shells nobody types in.
WalkToManager[p \in DOMAIN Process] ==
  IF ~Process[p].shell \/ Process[p].interactive
       \/ Process[p].parent \notin DOMAIN Process
  THEN p ELSE WalkToManager[Process[p].parent]

\* The processes above a caller are finitely many: the walk comes to an end.
ASSUME WalkAssumption ==
  \A p \in DOMAIN Process : WalkToManager[p] \in DOMAIN Process

\* resolveCallerSource: the walk throws when a process on its way is gone.
CallerSources(c, pictlId) ==
  IF pictlId # None THEN {[kind |-> "pictl", of |-> pictlId]}
  ELSE {[kind |-> "manager", of |-> WalkToManager[Parent[c]]],
        [kind |-> "process", of |-> Parent[c]]}

Identify(c) ==
  /\ pc[c] = "identify"
  /\ \E pictlId \in PictlIds : \E s \in CallerSources(c, pictlId) :
       source' = [source EXCEPT ![c] = s]
  /\ Goto(c, "event")
  /\ UNCHANGED <<agentVars, acted, command, target, at, turn, conn>>

\* The last of the targets has been written to.
LastTarget_First(c) == TRUE
LastTarget(c) == turn[c] = Len(target[c])

\* The agent has been written to: the next one, or the command itself.
NextTarget(c) ==
  IF LastTarget(c)
  THEN Goto(c, FirstState(command[c])) /\ UNCHANGED turn
  ELSE Goto(c, "event") /\ turn' = [turn EXCEPT ![c] = @ + 1]

\* appendFile creates the file but not the directory.
AppendEvent(c) ==
  LET id == target[c][turn[c]] IN
  /\ pc[c] = "event"
  /\ \/ /\ status[id] = "absent"
        /\ Goto(c, "failed")
        /\ UNCHANGED <<log, turn>>
     \/ /\ status[id] # "absent"
        /\ log' = [log EXCEPT ![id] = @ \cup {c}]
        /\ IF source[c].kind = "manager"
           THEN Goto(c, "lookup") /\ UNCHANGED turn ELSE NextTarget(c)
  /\ UNCHANGED <<status, used, sources, acted, command, target, at, source, conn>>

\* The source has a line in sources.jsonl.
SourceRecorded_InLog(c, id) ==
  \E d \in log[id] \ {c} : source[d] = source[c]
SourceRecorded(c, id) == source[c] \in sources[id]

Lookup(c) ==
  /\ pc[c] = "lookup"
  /\ IF SourceRecorded(c, target[c][turn[c]])
     THEN NextTarget(c) ELSE Goto(c, "append") /\ UNCHANGED turn
  /\ UNCHANGED <<agentVars, acted, command, target, at, source, conn>>

AppendSource(c) ==
  LET id == target[c][turn[c]] IN
  /\ pc[c] = "append"
  /\ \/ /\ status[id] = "absent"
        /\ Goto(c, "failed")
        /\ UNCHANGED <<sources, turn>>
     \/ /\ status[id] # "absent"
        /\ sources' = [sources EXCEPT ![id] = @ \cup {source[c]}]
        /\ NextTarget(c)
  /\ UNCHANGED <<status, used, log, acted, command, target, at, source, conn>>

-----------------------------------------------------------------------------
(* spawn.                                                                   *)

\* mkdir of the agent dir; the caller's target is the id itself.
BeginSpawn(c, id) ==
  /\ pc[c] = "idle"
  /\ Respawns \/ id \notin used
  /\ command' = [command EXCEPT ![c] = "spawn"]
  /\ \/ /\ status[id] # "absent"
        /\ Goto(c, "failed")
        /\ UNCHANGED <<status, used, target, at>>
     \/ /\ status[id] = "absent"
        /\ status' = [status EXCEPT ![id] = "corrupt"]
        /\ used' = used \cup {id}
        /\ target' = [target EXCEPT ![c] = <<id>>]
        /\ at' = [at EXCEPT ![c] = <<"ready">>]
        /\ Goto(c, IF c \in Auditing THEN "identify" ELSE "launch")
  /\ UNCHANGED <<log, sources, acted, turn, source, conn>>

\* writeSpawnOptions and launchDaemon; the directory of a spawn that fails
\* stays, for gc.
Launch(c) ==
  LET id == target[c][1] IN
  /\ pc[c] = "launch"
  /\ \/ /\ status[id] = "corrupt"
        /\ status' = [status EXCEPT ![id] = "running"]
        /\ acted' = acted \cup {<<c, id>>}
        /\ Goto(c, "done")
     \/ Goto(c, "failed") /\ UNCHANGED <<status, acted>>
  /\ UNCHANGED <<used, log, sources, command, target, at, turn, source, conn>>

-----------------------------------------------------------------------------
(* sendRpc, and the streaming commands' connectForContext.                  *)

\* messageFrom and imagesFromFlags: an image that cannot be read ends the
\* command, after it was audited.
Compose(c) ==
  /\ pc[c] = "compose"
  /\ \/ Goto(c, "ensure")
     \/ command[c] \in MessageCommands /\ Goto(c, "failed")
  /\ UNCHANGED <<agentVars, acted, command, target, at, turn, source, conn>>

\* ensureAgentRunning takes the resolved id for a prefix and resolves it again.
EnsureAgentRunning(c) ==
  /\ pc[c] = "ensure"
  /\ \/ /\ Loads(target[c][1]) = {}
        /\ Goto(c, "failed")
        /\ UNCHANGED target
     \/ \E id \in Loads(target[c][1]) :
          /\ target' = [target EXCEPT ![c] = <<id>>]
          /\ Goto(c, IF status[id] = "running" THEN "connect" ELSE "revive")
  /\ UNCHANGED <<agentVars, acted, command, at, turn, source, conn>>

\* setArchived, of false: the first thing a revival and resume do.
Unarchived(id) ==
  [status EXCEPT ![id] = IF @ = "archived" THEN "dormant" ELSE @]

\* reviveAgent resolves it once more, under the lock; the launch may fail.
ReviveAgent(c) ==
  /\ pc[c] = "revive"
  /\ \/ Goto(c, "failed") /\ UNCHANGED <<status, target>>
     \/ \E id \in Loads(target[c][1]) :
          /\ status[id] # "running"
          /\ status' = Unarchived(id)
          /\ Goto(c, "failed")
          /\ UNCHANGED target
     \/ \E id \in Loads(target[c][1]) :
          /\ status' = [status EXCEPT ![id] = "running"]
          /\ target' = [target EXCEPT ![c] = <<id>>]
          /\ Goto(c, "connect")
  /\ UNCHANGED <<used, log, sources, acted, command, at, turn, source, conn>>

Connect(c) ==
  LET id == target[c][1] IN
  /\ pc[c] = "connect"
  /\ \/ Goto(c, "failed") /\ UNCHANGED conn
     \/ /\ status[id] = "running"
        /\ conn' = [conn EXCEPT ![c] = id]
        /\ Goto(c, "request")
  /\ UNCHANGED <<agentVars, acted, command, target, at, turn, source>>

\* pi takes the request if it still runs; its answer is printed, or an error.
Request(c) ==
  /\ pc[c] = "request"
  /\ acted' = IF conn[c] = None THEN acted ELSE acted \cup {<<c, conn[c]>>}
  /\ conn' = [conn EXCEPT ![c] = None]
  /\ \/ Goto(c, "failed")
     \/ conn[c] # None /\ Goto(c, "done")
  /\ UNCHANGED <<agentVars, command, target, at, turn, source>>

-----------------------------------------------------------------------------
(* forEachAgent: suspend, archive, resume and purge act on every target at  *)
(* once and collect the failures.                                           *)

\* pi is gone, and with it every connection to it.
Disconnect(id) ==
  conn' = [d \in Callers |-> IF conn[d] = id THEN None ELSE conn[d]]

\* stopRunningAgent, unless the record shows a daemon that is gone; it may
\* have been revived since the record was read.
Stop(c, i) ==
  LET id == target[c][i] IN
  /\ pc[c] = "each" /\ at[c][i] = "ready"
  /\ command[c] # "resume"
  /\ \/ Mark(c, i, "stopped") /\ UNCHANGED <<status, acted, conn>>
     \/ /\ status[id] = "running"
        /\ \/ /\ status' = [status EXCEPT ![id] = "dormant"]
              /\ acted' = acted \cup {<<c, id>>}
              /\ Disconnect(id)
              /\ Mark(c, i, "stopped")
           \/ Mark(c, i, "error") /\ UNCHANGED <<status, acted, conn>>
  /\ UNCHANGED <<used, log, sources, pc, command, target, turn, source>>

\* archive's marker: only a directory that is there can be marked, and only
\* an agent that does not run shows it.
SetArchived(c, i) ==
  LET id == target[c][i] IN
  /\ pc[c] = "each" /\ at[c][i] = "stopped" /\ command[c] = "archive"
  /\ Mark(c, i, IF status[id] = "absent" THEN "error" ELSE "ok")
  /\ status' = [status EXCEPT ![id] = IF @ = "dormant" THEN "archived" ELSE @]
  /\ acted' = IF status[id] = "absent" THEN acted ELSE acted \cup {<<c, id>>}
  /\ UNCHANGED <<used, log, sources, pc, command, target, turn, source, conn>>

\* The logs go with the directory.  A tombstone cannot be written into a
\* directory that is gone.
Purge(c, i) ==
  LET id == target[c][i] IN
  /\ pc[c] = "each" /\ at[c][i] = "stopped" /\ command[c] = "purge"
  /\ \/ /\ status[id] = "absent"
        /\ Mark(c, i, "error")
        /\ UNCHANGED <<status, log, sources, acted>>
     \/ /\ status[id] # "absent"
        /\ Mark(c, i, "ok")
        /\ status' = [status EXCEPT ![id] = "absent"]
        /\ log' = [log EXCEPT ![id] = {}]
        /\ sources' = [sources EXCEPT ![id] = {}]
        /\ acted' = acted \cup {<<c, id>>}
  /\ UNCHANGED <<used, pc, command, target, turn, source, conn>>

Suspended(c, i) ==
  /\ pc[c] = "each" /\ at[c][i] = "stopped" /\ command[c] = "suspend"
  /\ Mark(c, i, "ok")
  /\ UNCHANGED <<agentVars, acted, pc, command, target, turn, source, conn>>

\* launchDaemon goes by the agent dir and does not resolve the id again.
Resume(c, i) ==
  LET id == target[c][i] IN
  /\ pc[c] = "each" /\ at[c][i] = "ready" /\ command[c] = "resume"
  /\ \/ Mark(c, i, "error") /\ status' = Unarchived(id)
     \/ /\ Recorded(id)
        /\ Mark(c, i, "ok")
        /\ status' = [status EXCEPT ![id] = "running"]
  /\ acted' = acted \cup {<<c, id>>}
  /\ UNCHANGED <<used, log, sources, pc, command, target, turn, source, conn>>

Finish(c) ==
  /\ pc[c] = "each"
  /\ Range(at[c]) \subseteq {"ok", "error"}
  /\ Goto(c, IF "error" \in Range(at[c]) THEN "failed" ELSE "done")
  /\ UNCHANGED <<agentVars, acted, command, target, at, turn, source, conn>>

-----------------------------------------------------------------------------
(* A pictl process is killed; an agent's daemon is.                         *)

Kill(c) ==
  /\ pc[c] \notin Ended \cup {"idle"}
  /\ Goto(c, "killed")
  /\ conn' = [conn EXCEPT ![c] = None]
  /\ UNCHANGED <<agentVars, acted, command, target, at, turn, source>>

Die(id) ==
  /\ status[id] = "running"
  /\ status' = [status EXCEPT ![id] = "dormant"]
  /\ Disconnect(id)
  /\ UNCHANGED <<used, log, sources, acted, pc, command, target, at, turn, source>>

Audit(c) == Identify(c) \/ AppendEvent(c) \/ Lookup(c) \/ AppendSource(c)

SendRpc(c) ==
  Compose(c) \/ EnsureAgentRunning(c) \/ ReviveAgent(c) \/ Connect(c) \/ Request(c)

ForEachAgent(c) ==
  \/ \E i \in DOMAIN target[c] :
       Stop(c, i) \/ SetArchived(c, i) \/ Purge(c, i) \/ Suspended(c, i)
         \/ Resume(c, i)
  \/ Finish(c)

Next ==
  \/ \E c \in Callers :
       \/ \E name \in Uses, flags \in Flags, envTarget \in EnvTargets :
            Begin(c, name, flags, envTarget)
       \/ "spawn" \in Uses /\ \E id \in Ids : BeginSpawn(c, id)
       \/ \E i \in DOMAIN target[c] : List(c, i) \/ Read(c, i)
       \/ Audit(c) \/ Launch(c) \/ SendRpc(c) \/ ForEachAgent(c) \/ Kill(c)
  \/ \E id \in Ids : Die(id)

Spec == Init /\ [][Next]_vars

-----------------------------------------------------------------------------
(* Properties.                                                              *)

\* Whoever changes an agent stands in its audit log before the change: the log
\* of the very agent that is changed, not of the one the name stood for when
\* it was resolved.  Only an agent whose directory is gone has no log.
AuditedBefore ==
  [][\A c \in Callers, id \in Ids :
       /\ <<c, id>> \in acted' \ acted
       /\ c \in Auditing /\ Audited(command[c])
       => c \in log[id] \/ status[id] = "absent"]_vars

\* An event by a pid-based source can be explained: unless its command ended
\* early, sources.jsonl next to it tells what that process was, whoever else
\* was recording the same source or was killed while doing so.
SourcesKnown ==
  \A c \in Callers, id \in Ids :
    /\ c \in log[id]
    /\ source[c].kind = "manager"
    /\ pc[c] \in Ended => pc[c] = "done"
    => \/ source[c] \in sources[id]
       \/ pc[c] \in {"lookup", "append"} /\ target[c][turn[c]] = id
=============================================================================
