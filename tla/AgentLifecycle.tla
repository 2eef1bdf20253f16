--------------------------- MODULE AgentLifecycle ---------------------------
(***************************************************************************)
(* One agent directory, and every process that reads or changes it:        *)
(*                                                                         *)
(*   - pictl commands (Clients): spawn, the transparent revival that every *)
(*     socket command goes through, resume, suspend, archive, purge,       *)
(*     purge --force and gc (lifecycle.ts, spawn.ts, registry.ts);         *)
(*   - daemons (Daemons): `pictl _daemon`, from the classification of its  *)
(*     launch to cleanupAndExit (daemon/daemon.ts);                        *)
(*   - the pi process each daemon runs in its PTY (outside this            *)
(*     repository, known by how the code above uses it).                   *)
(*                                                                         *)
(* Processes share nothing but the files of the directory, pids and        *)
(* signals, so every await in the code is a point where another process    *)
(* may run, and every process may be killed between two steps.             *)
(*                                                                         *)
(* A daemon and its pi are named by one element of Daemons: agent.json     *)
(* holds daemonPid and piPid of one and the same launch.  Pids are never   *)
(* reused in the model.                                                    *)
(*                                                                         *)
(* An operator whose name has an underscore is the operator named before   *)
(* it with a bug put in; no specification uses it (README, "Mutants").     *)
(***************************************************************************)
EXTENDS Naturals

CONSTANTS
  Clients,  \* pictl processes; each runs one command
  Daemons,  \* daemon processes that can be launched
  Ops,      \* the commands each client may run
  Crashes,  \* the kinds of process that may be killed: "client", "daemon"
  Absent,   \* what a file that does not exist holds
  Blank     \* a file that exists and names no process

Commands ==
  {"spawn", "ensure", "resume", "suspend", "archive", "purge", "force", "gc"}

ASSUME OpsAssumption == Ops \in [Clients -> SUBSET Commands]
ASSUME CrashesAssumption == Crashes \subseteq {"client", "daemon"}
ASSUME NamesAssumption ==
  /\ Clients \cap Daemons = {}
  /\ Absent \notin Clients \cup Daemons
  /\ Blank \notin Clients \cup Daemons
  /\ Absent # Blank

VARIABLES
  dir,    \* the agent directory exists
  file,   \* what each file in it holds
  dpc,    \* where each daemon is
  ready,  \* what each daemon has written to its readiness pipe
  pi,     \* where the pi of each daemon is
  cpc,    \* where each client is
  op,     \* the command each client runs
  seen,   \* the launch in the agent record each client resolved
  peer    \* the daemon a client launched, or whose pi it is connected to

daemonVars == <<dpc, ready, pi>>
clientVars == <<cpc, op, seen, peer>>
vars == <<dir, file, dpc, ready, pi, cpc, op, seen, peer>>

FileName ==
  {"agent.json", "spawn-options.json", "archived", "tombstone",
   "revive.lock", "pi.sock", "tty.sock"}

DaemonState ==
  {"unused", "classify", "clear", "startPi", "record", "listen", "connect",
   "handoff", "up", "adrift", "closing", "unlink", "dead"}

\* "lost": pi exited before the daemon was listening for its exit.
PiState == {"none", "starting", "serving", "term", "dead", "lost"}

\* Client states that end the command, and the others.
Ended == {"done", "failed", "stale", "crashed"}
ClientState ==
  Ended \cup
  {"idle",
   "options", "launch", "await",
   "acquire", "write", "recheck", "unarchive", "reload", "unlock",
   "unlockFail", "poll", "verify", "check",
   "decide", "connect", "waitIdle", "sigterm", "waitClosed", "waitGone",
   "mark", "tombstone", "kill", "rm"}

TypeOK ==
  /\ dir \in BOOLEAN
  /\ file \in [FileName -> Clients \cup Daemons \cup {Absent, Blank}]
  /\ dpc \in [Daemons -> DaemonState]
  /\ ready \in [Daemons -> {"none", "ok", "failed"}]
  /\ pi \in [Daemons -> PiState]
  /\ cpc \in [Clients -> ClientState]
  /\ op \in [Clients -> Commands \cup {"none"}]
  /\ seen \in [Clients -> Daemons \cup {Absent}]
  /\ peer \in [Clients -> Daemons \cup {Absent}]
  /\ dir = FALSE => \A name \in FileName : file[name] = Absent

-----------------------------------------------------------------------------
(* What a process can see.                                                  *)

\* isPidAlive(daemonPid)
Alive(d) == dpc[d] \notin {"unused", "dead"}

\* isPidAlive(piPid)
PiAlive(d) == pi[d] \in {"starting", "serving", "term"}

\* isPidAlive of a pictl process
ClientAlive(c) == cpc[c] \notin Ended \cup {"idle"}

\* The pid a reader finds in revive.lock: none while the lock is still empty,
\* because its creator has not written it yet or was killed before it could.
LockPid ==
  IF file["revive.lock"] \in Clients /\ cpc[file["revive.lock"]] # "write"
  THEN file["revive.lock"] ELSE Blank

StaleLock_EmptyCounts ==
  /\ file["revive.lock"] # Absent
  /\ LockPid \in Clients => ~ClientAlive(LockPid)

\* lockProcessPid > 0 && !isPidAlive(lockProcessPid)
StaleLock == LockPid \in Clients /\ ~ClientAlive(LockPid)

\* loadAgent succeeds: the directory is listed and agent.json parses.  The
\* rename in writeAgentRecord is atomic, so a reader never sees half of one.
HasRecord == dir /\ file["agent.json"] \in Daemons

RunningRecord == HasRecord /\ Alive(file["agent.json"])

\* classifyAgentDir, with "absent" for an id that listAgentIds does not list.
Status ==
  CASE ~dir                              -> "absent"
    [] dir /\ file["tombstone"] # Absent -> "tombstoned"
    [] dir /\ file["tombstone"] = Absent /\ ~HasRecord -> "corrupt"
    [] OTHER -> IF RunningRecord THEN "running"
                ELSE IF file["archived"] # Absent THEN "archived"
                ELSE "dormant"

Goto(c, state) == cpc' = [cpc EXCEPT ![c] = state]
DaemonGoto(d, state) == dpc' = [dpc EXCEPT ![d] = state]
Put(name, content) == file' = [file EXCEPT ![name] = content]
Remove(name) == Put(name, Absent)

-----------------------------------------------------------------------------
(* The directory before any of the clients runs: never created, left by a   *)
(* daemon d that shut down cleanly or was killed, or served by d.           *)

NoFiles == [n \in FileName |-> Absent]

InitDaemons(d, state, message, piState) ==
  /\ dpc = [e \in Daemons |-> IF e = d THEN state ELSE "unused"]
  /\ ready = [e \in Daemons |-> IF e = d THEN message ELSE "none"]
  /\ pi = [e \in Daemons |-> IF e = d THEN piState ELSE "none"]

InitAbsent ==
  /\ dir = FALSE
  /\ file = NoFiles
  /\ dpc = [e \in Daemons |-> "unused"]
  /\ ready = [e \in Daemons |-> "none"]
  /\ pi = [e \in Daemons |-> "none"]

InitDormant(d) ==
  /\ dir = TRUE
  /\ \E marker \in {Absent, Blank}, socket \in {Absent, d} :
       file = [NoFiles EXCEPT !["agent.json"] = d, !["archived"] = marker,
                              !["pi.sock"] = socket, !["tty.sock"] = socket]
  /\ InitDaemons(d, "dead", "ok", "dead")

InitRunning(d) ==
  /\ dir = TRUE
  /\ file = [NoFiles EXCEPT !["agent.json"] = d, !["pi.sock"] = d,
                            !["tty.sock"] = d]
  /\ InitDaemons(d, "up", "ok", "serving")

Init ==
  /\ InitAbsent \/ \E d \in Daemons : InitDormant(d) \/ InitRunning(d)
  /\ cpc = [c \in Clients |-> "idle"]
  /\ op = [c \in Clients |-> "none"]
  /\ seen = [c \in Clients |-> Absent]
  /\ peer = [c \in Clients |-> Absent]

-----------------------------------------------------------------------------
(* Starting a command.                                                      *)

Begin(c, command, state) ==
  /\ cpc[c] = "idle"
  /\ command \in Ops[c]
  /\ op' = [op EXCEPT ![c] = command]
  /\ Goto(c, state)
  /\ UNCHANGED <<peer, dpc, ready, pi>>

\* spawn: mkdir of the agent dir, which fails if the id is taken.
BeginSpawn(c) ==
  /\ Begin(c, "spawn", IF dir THEN "failed" ELSE "options")
  /\ dir' = TRUE
  /\ file' = IF dir THEN file ELSE NoFiles
  /\ UNCHANGED seen

\* resolveTargets, or the loadAgent that opens ensureAgentRunning: the record
\* is read once, and the command acts on what it read.
FirstState(command) ==
  IF command = "ensure" THEN IF RunningRecord THEN "done" ELSE "acquire"
  ELSE IF command = "resume" THEN "unarchive"
  ELSE IF command = "force" THEN "kill" ELSE "decide"

BeginTargeted(c, command) ==
  /\ command \notin {"spawn", "gc"}
  /\ Begin(c, command, IF HasRecord THEN FirstState(command) ELSE "failed")
  /\ seen' = [seen EXCEPT ![c] =
                IF HasRecord THEN file["agent.json"] ELSE Absent]
  /\ UNCHANGED <<dir, file>>

\* gc: the verdict is taken here, the directory removed later.
BeginGc(c) ==
  /\ Begin(c, "gc", IF Status \in {"tombstoned", "corrupt"}
                    THEN "rm" ELSE "done")
  /\ UNCHANGED <<dir, file, seen>>

-----------------------------------------------------------------------------
(* reviveAgent and awaitConcurrentRevival.                                  *)

\* The O_EXCL of the lock.
LockFree_NotExclusive == TRUE
LockFree == file["revive.lock"] = Absent

\* writeFile(lockPath, pid, { flag: "wx" }) creates the file and then writes
\* the pid into it.  The lock holds its creator c from the first step on; what
\* a reader finds in it is LockPid.
Acquire(c) ==
  /\ cpc[c] = "acquire"
  /\ \/ /\ ~dir
        /\ Goto(c, "failed")
        /\ UNCHANGED file
     \/ /\ dir /\ ~LockFree
        /\ Goto(c, "poll")
        /\ UNCHANGED file
     \/ /\ dir /\ LockFree
        /\ Put("revive.lock", c)
        /\ Goto(c, "write")
  /\ UNCHANGED <<dir, op, seen, peer, daemonVars>>

WriteLock(c) ==
  /\ cpc[c] = "write"
  /\ Goto(c, "recheck")
  /\ UNCHANGED <<dir, file, op, seen, peer, daemonVars>>

\* The record is read again under the lock.
RecheckResult_Trusting == "unarchive"
RecheckResult ==
  IF ~HasRecord THEN "unlockFail"
  ELSE IF RunningRecord THEN "unlock" ELSE "unarchive"

Recheck(c) ==
  /\ cpc[c] = "recheck"
  /\ Goto(c, RecheckResult)
  /\ UNCHANGED <<dir, file, op, seen, peer, daemonVars>>

\* setArchived(agentDir, false), by a revival and by resume.
Unarchive(c) ==
  /\ cpc[c] = "unarchive"
  /\ Remove("archived")
  /\ Goto(c, IF op[c] = "resume" THEN "check" ELSE "launch")
  /\ UNCHANGED <<dir, op, seen, peer, daemonVars>>

\* loadAgent after the launch; a directory that is gone fails the command.
Reload(c) ==
  /\ cpc[c] = "reload"
  /\ Goto(c, IF HasRecord THEN "unlock" ELSE "unlockFail")
  /\ UNCHANGED <<dir, file, op, seen, peer, daemonVars>>

\* finally { rm(lockPath, { force: true }) }
Unlock(c) ==
  /\ cpc[c] \in {"unlock", "unlockFail"}
  /\ Remove("revive.lock")
  /\ Goto(c, IF cpc[c] = "unlock" THEN "done" ELSE "failed")
  /\ UNCHANGED <<dir, op, seen, peer, daemonVars>>

\* One round of the poll.
Poll(c) ==
  /\ cpc[c] = "poll"
  /\ \/ /\ file["revive.lock"] = Absent
        /\ Goto(c, "verify")
     \/ /\ StaleLock
        /\ Goto(c, "stale")
  /\ UNCHANGED <<dir, file, op, seen, peer, daemonVars>>

\* The 10 s deadline of the poll passes.
PollTimeout_Never(c) == FALSE /\ UNCHANGED vars
PollTimeout(c) ==
  /\ cpc[c] = "poll"
  /\ file["revive.lock"] # Absent
  /\ ~StaleLock
  /\ Goto(c, "failed")
  /\ UNCHANGED <<dir, file, op, seen, peer, daemonVars>>

\* The lock is gone: did the other revival leave a live daemon?
Verify(c) ==
  /\ cpc[c] = "verify"
  /\ Goto(c, IF RunningRecord THEN "done" ELSE "failed")
  /\ UNCHANGED <<dir, file, op, seen, peer, daemonVars>>

-----------------------------------------------------------------------------
(* launchDaemon, and the rest of spawn and resume.                          *)

\* writeSpawnOptions
WriteOptions(c) ==
  /\ cpc[c] = "options"
  /\ IF dir THEN Put("spawn-options.json", Blank) /\ Goto(c, "launch")
            ELSE UNCHANGED file /\ Goto(c, "failed")
  /\ UNCHANGED <<dir, op, seen, peer, daemonVars>>

\* resume looks at the pid of the record it resolved before it started, and
\* takes no lock.
CheckSeen(c) ==
  /\ cpc[c] = "check"
  /\ Goto(c, IF Alive(seen[c]) THEN "done" ELSE "launch")
  /\ UNCHANGED <<dir, file, op, seen, peer, daemonVars>>

LaunchFailed(c) ==
  Goto(c, IF op[c] = "ensure" THEN "unlockFail" ELSE "failed")

\* The detached child; opening daemon.log fails if the directory is gone.
Launch(c) ==
  /\ cpc[c] = "launch"
  /\ \/ /\ ~dir
        /\ LaunchFailed(c)
        /\ UNCHANGED <<peer, dpc>>
     \/ /\ dir
        /\ \E d \in Daemons :
             /\ dpc[d] = "unused"
             /\ DaemonGoto(d, "classify")
             /\ peer' = [peer EXCEPT ![c] = d]
        /\ Goto(c, "await")
  /\ UNCHANGED <<dir, file, op, seen, ready, pi>>

\* What the readiness pipe gives: a line, or its end when the daemon exits.
Launched_AtOnce(d) == TRUE
Launched(d) == ready[d] = "ok"

LaunchLost_NoEnd(d) == ready[d] = "failed"
LaunchLost(d) == ready[d] = "failed" \/ (ready[d] = "none" /\ ~Alive(d))

Await(c) ==
  /\ cpc[c] = "await"
  /\ \/ /\ Launched(peer[c])
        /\ Goto(c, IF op[c] = "ensure" THEN "reload" ELSE "done")
     \/ /\ LaunchLost(peer[c])
        /\ LaunchFailed(c)
  /\ UNCHANGED <<dir, file, op, seen, peer, daemonVars>>

-----------------------------------------------------------------------------
(* suspend, archive and purge: stopRunningAgent and what follows it.        *)

AfterStop(command) ==
  IF command = "archive" THEN "mark"
  ELSE IF command = "purge" THEN "tombstone" ELSE "done"

\* isPidAlive(agent.daemonPid) on the resolved record
Decide(c) ==
  /\ cpc[c] = "decide"
  /\ Goto(c, IF Alive(seen[c]) THEN "connect" ELSE AfterStop(op[c]))
  /\ UNCHANGED <<dir, file, op, seen, peer, daemonVars>>

\* The process that answers on pi.sock, if the file leads to one.
Listening(d) == file["pi.sock"] = d /\ pi[d] \in {"serving", "term"}

\* connectWithRetry: succeeds with whichever pi owns the path, or gives up.
Connect(c) ==
  /\ cpc[c] = "connect"
  /\ \/ \E d \in Daemons :
          /\ Listening(d)
          /\ peer' = [peer EXCEPT ![c] = d]
          /\ Goto(c, "waitIdle")
     \/ /\ \A d \in Daemons : ~Listening(d)
        /\ Goto(c, "failed")
        /\ UNCHANGED peer
  /\ UNCHANGED <<dir, file, op, seen, daemonVars>>

\* waitUntilIdle: idle at last, or the socket closes, or --timeout passes.
WaitIdle(c) ==
  /\ cpc[c] = "waitIdle"
  /\ \/ PiAlive(peer[c]) /\ Goto(c, "sigterm")
     \/ Goto(c, "failed")
  /\ UNCHANGED <<dir, file, op, seen, peer, daemonVars>>

\* kill(agent.piPid, SIGTERM): the pid of the resolved record.
Sigterm(c) ==
  /\ cpc[c] = "sigterm"
  /\ IF PiAlive(seen[c])
     THEN pi' = [pi EXCEPT ![seen[c]] = "term"] /\ Goto(c, "waitClosed")
     ELSE UNCHANGED pi /\ Goto(c, "waitGone")
  /\ UNCHANGED <<dir, file, op, seen, peer, dpc, ready>>

\* The connection closes when the pi at its other end exits.
WaitClosed(c) ==
  /\ cpc[c] = "waitClosed"
  /\ ~PiAlive(peer[c])
  /\ Goto(c, "waitGone")
  /\ UNCHANGED <<dir, file, op, seen, peer, daemonVars>>

\* SIGKILL to pi when it is still there after 5 s.
Escalate(c) ==
  /\ cpc[c] = "waitClosed"
  /\ PiAlive(seen[c])
  /\ pi' = [pi EXCEPT ![seen[c]] = "dead"]
  /\ UNCHANGED <<dir, file, cpc, op, seen, peer, dpc, ready>>

\* waitPidGone(agent.daemonPid)
WaitGone_Impatient(c) ==
  /\ cpc[c] = "waitGone"
  /\ Goto(c, AfterStop(op[c]))
  /\ UNCHANGED <<dir, file, op, seen, peer, daemonVars>>
WaitGone(c) ==
  /\ cpc[c] = "waitGone"
  /\ ~Alive(seen[c])
  /\ Goto(c, AfterStop(op[c]))
  /\ UNCHANGED <<dir, file, op, seen, peer, daemonVars>>

\* SIGKILL to a daemon that is still there after 10 s.
KillDaemon(c) ==
  /\ cpc[c] = "waitGone"
  /\ Alive(seen[c])
  /\ DaemonGoto(seen[c], "dead")
  /\ UNCHANGED <<dir, file, cpc, op, seen, peer, ready, pi>>

\* archive: setArchived(agentDir, true)
Mark_MakesDir(c) ==
  /\ cpc[c] = "mark"
  /\ Put("archived", Blank)
  /\ Goto(c, "done")
  /\ UNCHANGED <<dir, op, seen, peer, daemonVars>>
Mark(c) ==
  /\ cpc[c] = "mark"
  /\ IF dir THEN Put("archived", Blank) /\ Goto(c, "done")
            ELSE UNCHANGED file /\ Goto(c, "failed")
  /\ UNCHANGED <<dir, op, seen, peer, daemonVars>>

\* purge: the tombstone, written before anything is removed.
Tombstone(c) ==
  /\ cpc[c] = "tombstone"
  /\ IF dir THEN Put("tombstone", Blank) /\ Goto(c, "rm")
            ELSE UNCHANGED file /\ Goto(c, "failed")
  /\ UNCHANGED <<dir, op, seen, peer, daemonVars>>

\* purge --force: SIGKILL to both pids of the resolved record.
ForceKill(c) ==
  /\ cpc[c] = "kill"
  /\ pi' = [pi EXCEPT ![seen[c]] = IF PiAlive(seen[c]) THEN "dead" ELSE @]
  /\ dpc' = [dpc EXCEPT ![seen[c]] = IF Alive(seen[c]) THEN "dead" ELSE @]
  /\ Goto(c, "rm")
  /\ UNCHANGED <<dir, file, op, seen, peer, ready>>

\* rm(agentDir, { recursive, force }) unlinks the entries in any order, and
\* the directory once it is empty.
RemoveFile(c) ==
  /\ cpc[c] = "rm"
  /\ \E name \in FileName : file[name] # Absent /\ Remove(name)
  /\ UNCHANGED <<dir, cpc, op, seen, peer, daemonVars>>

RemoveDir_GivesUp(c) ==
  /\ cpc[c] = "rm"
  /\ Goto(c, "done")
  /\ UNCHANGED <<dir, file, op, seen, peer, daemonVars>>
RemoveDir(c) ==
  /\ cpc[c] = "rm"
  /\ file = NoFiles
  /\ dir' = FALSE
  /\ Goto(c, "done")
  /\ UNCHANGED <<file, op, seen, peer, daemonVars>>

-----------------------------------------------------------------------------
(* The daemon.                                                              *)

Tell(d, message) == ready' = [ready EXCEPT ![d] = message]

\* The launch is classified from what is on disk; a launch that is neither a
\* revival nor a spawn, or that pi would answer with its project-trust
\* prompt, fails before anything is touched.
Classify(d) ==
  /\ dpc[d] = "classify"
  /\ \/ /\ HasRecord \/ (dir /\ file["spawn-options.json"] # Absent)
        /\ DaemonGoto(d, "clear")
        /\ UNCHANGED ready
     \/ /\ Tell(d, "failed")
        /\ DaemonGoto(d, "dead")
  /\ UNCHANGED <<dir, file, pi, clientVars>>

\* Stale sockets go, whoever bound them.
ClearSockets(d) ==
  /\ dpc[d] = "clear"
  /\ file' = [file EXCEPT !["pi.sock"] = Absent, !["tty.sock"] = Absent]
  /\ DaemonGoto(d, "startPi")
  /\ UNCHANGED <<dir, ready, pi, clientVars>>

\* new PtyScreen(piBin, ...)
StartPi(d) ==
  /\ dpc[d] = "startPi"
  /\ pi' = [pi EXCEPT ![d] = "starting"]
  /\ DaemonGoto(d, "record")
  /\ UNCHANGED <<dir, file, ready, clientVars>>

\* The first writeAgentRecord.  It rejects if the directory is gone, and then
\* the daemon lives on only until its pty closes.
WriteRecord_NotAtomic(d) ==
  /\ dpc[d] = "record"
  /\ IF file["agent.json"] # Absent
     THEN Remove("agent.json") /\ UNCHANGED dpc
     ELSE Put("agent.json", d) /\ DaemonGoto(d, "handoff")
  /\ UNCHANGED <<dir, ready, pi, clientVars>>
WriteRecord(d) ==
  /\ dpc[d] = "record"
  /\ IF dir THEN Put("agent.json", d) /\ DaemonGoto(d, "handoff")
            ELSE UNCHANGED file /\ DaemonGoto(d, "adrift")
  /\ UNCHANGED <<dir, ready, pi, clientVars>>

Handoff(d) ==
  /\ dpc[d] = "handoff"
  /\ Remove("spawn-options.json")
  /\ DaemonGoto(d, "listen")
  /\ UNCHANGED <<dir, ready, pi, clientVars>>

\* startTtyService, then the registration of the exit listener; a tty.sock
\* that cannot be bound ends the agent.
Listen(d) ==
  /\ dpc[d] = "listen"
  /\ IF dir /\ file["tty.sock"] = Absent
     THEN /\ Put("tty.sock", d)
          /\ DaemonGoto(d, "connect")
          /\ UNCHANGED <<ready, pi>>
     ELSE /\ Tell(d, "failed")
          /\ pi' = [pi EXCEPT ![d] = "dead"]
          /\ DaemonGoto(d, "closing")
          /\ UNCHANGED file
  /\ UNCHANGED <<dir, clientVars>>

\* connectWithRetry and subscribe succeed; the seed is recorded.  The write is
\* queued, and the launcher told, before it can fail (Rewrite).
ConnectPi(d) ==
  /\ dpc[d] = "connect"
  /\ \E e \in Daemons : Listening(e)
  /\ file' = [file EXCEPT !["agent.json"] = IF dir THEN d ELSE @]
  /\ Tell(d, "ok")
  /\ DaemonGoto(d, "up")
  /\ UNCHANGED <<dir, pi, clientVars>>

\* Nothing answers on pi.sock for 30 s.
ConnectDeadline_Never(d) == FALSE /\ UNCHANGED vars
ConnectDeadline(d) ==
  /\ dpc[d] = "connect"
  /\ \A e \in Daemons : ~Listening(e)
  /\ Tell(d, "failed")
  /\ pi' = [pi EXCEPT ![d] = "dead"]
  /\ DaemonGoto(d, "closing")
  /\ UNCHANGED <<dir, file, clientVars>>

\* Session and attachment changes rewrite the record.  Nobody handles the
\* rejection of a write that fails, and node ends the daemon for it.
Rewrite(d) ==
  /\ dpc[d] = "up"
  /\ IF dir THEN Put("agent.json", d) /\ UNCHANGED dpc
            ELSE UNCHANGED file /\ DaemonGoto(d, "dead")
  /\ UNCHANGED <<dir, ready, pi, clientVars>>

\* piScreen.onExit -> cleanupAndExit
PiExited(d) ==
  /\ dpc[d] \in {"connect", "up"}
  /\ pi[d] = "dead"
  /\ DaemonGoto(d, "closing")
  /\ UNCHANGED <<dir, file, ready, pi, clientVars>>

\* cleanupAndExit: the record with no attachments; a failed write is caught.
FinalRecord(d) ==
  /\ dpc[d] = "closing"
  /\ file' = [file EXCEPT !["agent.json"] = IF dir THEN d ELSE @]
  /\ DaemonGoto(d, "unlink")
  /\ UNCHANGED <<dir, ready, pi, clientVars>>

\* cleanupAndExit: both sockets, by path, and exit.
UnlinkSockets(d) ==
  /\ dpc[d] = "unlink"
  /\ file' = [file EXCEPT !["pi.sock"] = Absent, !["tty.sock"] = Absent]
  /\ DaemonGoto(d, "dead")
  /\ UNCHANGED <<dir, ready, pi, clientVars>>

\* Nothing keeps a daemon without a record alive once its pty is closed.
AdriftExit(d) ==
  /\ dpc[d] = "adrift"
  /\ ~PiAlive(d)
  /\ DaemonGoto(d, "dead")
  /\ UNCHANGED <<dir, file, ready, pi, clientVars>>

-----------------------------------------------------------------------------
(* pi, as far as the code above can tell.                                   *)

\* The exit event is dropped while the daemon has not registered its listener.
AfterExit(d) ==
  IF dpc[d] \in {"record", "handoff", "listen"} THEN "lost" ELSE "dead"

\* pi binds its socket, or refuses a path that exists or cannot be created.
PiBind(d) ==
  /\ pi[d] = "starting"
  /\ IF dir /\ file["pi.sock"] = Absent
     THEN Put("pi.sock", d) /\ pi' = [pi EXCEPT ![d] = "serving"]
     ELSE UNCHANGED file /\ pi' = [pi EXCEPT ![d] = AfterExit(d)]
  /\ UNCHANGED <<dir, dpc, ready, clientVars>>

\* pi exits: told to, on its own, or because its pty is gone with its daemon.
\* It may or may not have unlinked the socket it bound.
PiExit(d) ==
  /\ PiAlive(d)
  /\ pi' = [pi EXCEPT ![d] = AfterExit(d)]
  /\ \/ UNCHANGED file
     \/ file["pi.sock"] = d /\ Remove("pi.sock")
  /\ UNCHANGED <<dir, dpc, ready, clientVars>>

-----------------------------------------------------------------------------
(* Processes killed at any point.  A killed daemon takes its pty with it, so *)
(* its pi exits at some later time.                                          *)

CrashClient(c) ==
  /\ "client" \in Crashes
  /\ ClientAlive(c)
  /\ Goto(c, "crashed")
  /\ file' = IF cpc[c] = "write" /\ file["revive.lock"] = c
             THEN [file EXCEPT !["revive.lock"] = Blank] ELSE file
  /\ UNCHANGED <<dir, op, seen, peer, daemonVars>>

CrashDaemon(d) ==
  /\ "daemon" \in Crashes
  /\ Alive(d)
  /\ DaemonGoto(d, "dead")
  /\ UNCHANGED <<dir, file, ready, pi, clientVars>>

-----------------------------------------------------------------------------
ClientBegin(c) ==
  \/ BeginSpawn(c)
  \/ \E command \in Commands : BeginTargeted(c, command)
  \/ BeginGc(c)

ClientStep(c) ==
  \/ Acquire(c) \/ WriteLock(c) \/ Recheck(c) \/ Unarchive(c) \/ Reload(c)
  \/ Unlock(c) \/ Poll(c) \/ PollTimeout(c) \/ Verify(c)
  \/ WriteOptions(c) \/ CheckSeen(c) \/ Launch(c) \/ Await(c)
  \/ Decide(c) \/ Connect(c) \/ WaitIdle(c) \/ Sigterm(c) \/ WaitClosed(c)
  \/ Escalate(c) \/ WaitGone(c) \/ KillDaemon(c) \/ Mark(c) \/ Tombstone(c)
  \/ ForceKill(c) \/ RemoveFile(c) \/ RemoveDir(c)

DaemonStep(d) ==
  \/ Classify(d) \/ ClearSockets(d) \/ StartPi(d) \/ WriteRecord(d)
  \/ Handoff(d) \/ Listen(d) \/ ConnectPi(d) \/ ConnectDeadline(d)
  \/ PiExited(d) \/ FinalRecord(d) \/ UnlinkSockets(d) \/ AdriftExit(d)

Next ==
  \/ \E c \in Clients : ClientBegin(c) \/ ClientStep(c) \/ CrashClient(c)
  \/ \E d \in Daemons :
       DaemonStep(d) \/ Rewrite(d) \/ PiBind(d) \/ PiExit(d) \/ CrashDaemon(d)

Spec == Init /\ [][Next]_vars

\* A process that can run does run, its timers expire, and a pi whose pty is
\* gone exits.
Fairness ==
  /\ \A c \in Clients : WF_vars(ClientStep(c))
  /\ \A d \in Daemons :
       /\ WF_vars(DaemonStep(d))
       /\ WF_vars(PiBind(d))
       /\ WF_vars(~Alive(d) /\ PiExit(d))

FairSpec == Spec /\ Fairness

-----------------------------------------------------------------------------
(* Safety.                                                                  *)

\* The part of reviveAgent between the creation of the lock and its removal.
InRevival(c) ==
  /\ op[c] = "ensure"
  /\ cpc[c] \in {"write", "recheck", "unarchive", "launch", "await", "reload",
                 "unlock", "unlockFail"}

\* At most one command revives the agent at a time, and the lock on disk is
\* its own: nobody else's `finally` has removed it.
RevivalExclusive ==
  \A c \in Clients : InRevival(c) => file["revive.lock"] = c

\* Two daemons never run for one directory: what the comment on reviveAgent
\* wants the lock for.
OneDaemon == \A d, e \in Daemons : Alive(d) /\ Alive(e) => d = e

\* A waiter that gave the lock up for stale was right: nobody is reviving the
\* agent, and nobody can start to.
StaleIsFinal ==
  (\E c \in Clients : cpc[c] = "stale") =>
    /\ \A c \in Clients : ~InRevival(c)
    /\ file["revive.lock"] # Absent

\* The agent that is up is the one agent.json and tty.sock lead to, and while
\* its pi serves, pi.sock leads to that pi: nobody's cleanup, classification
\* or late record write took them away.
UpIsReachable ==
  \A d \in Daemons : dpc[d] = "up" =>
    /\ file["agent.json"] = d
    /\ file["tty.sock"] = d
    /\ pi[d] = "serving" => file["pi.sock"] = d

\* A daemon connects only to the pi it started, never to what another one left
\* behind the same path.
ConnectsOwnPi ==
  [][\A d \in Daemons :
       dpc[d] = "connect" /\ dpc'[d] = "up" => file["pi.sock"] = d]_vars

\* A daemon never runs without its directory: no purge or gc removes it from
\* under a live agent, as long as no other command starts one meanwhile.
Launching == {"spawn", "ensure", "resume"}
NoOrphan ==
  (\A c \in Clients : op[c] \notin Launching) =>
    \A d \in Daemons : Alive(d) => dir

\* A tombstone is there only while the purge that wrote it is at work, or
\* was killed at it: a purge that ends leaves none behind.
TombstoneOwned ==
  file["tombstone"] # Absent =>
    \E c \in Clients : op[c] = "purge" /\ cpc[c] \in {"rm", "crashed"}

\* What list shows of the agent moves only along the documented lifecycle.
Registry == INSTANCE AgentStatus WITH status <- Status
FollowsLifecycle == Registry!Spec

-----------------------------------------------------------------------------
(* Liveness.                                                                *)

\* A revival ends, and with it the hold on the lock.
RevivalEnds == \A c \in Clients : InRevival(c) ~> ~InRevival(c)

\* Every command ends.
CommandsEnd == \A c \in Clients : ClientAlive(c) ~> ~ClientAlive(c)

\* A daemon does not outlive its pi, not even one whose exit it missed.
DaemonFollowsPi ==
  \A d \in Daemons : pi[d] \in {"dead", "lost"} ~> ~Alive(d)
=============================================================================
