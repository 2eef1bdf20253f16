------------------------ MODULE AgentLifecycleProofs ------------------------
(***************************************************************************)
(* While every launch of a daemon goes through spawn or through the        *)
(* revival lock (no resume), and nothing removes the directory (no purge,  *)
(* no gc), one revival runs at a time, two daemons never run for one       *)
(* directory, and a lock called stale stays nobody's: for any number of    *)
(* clients and daemons, killed at any point.                               *)
(*                                                                         *)
(* Then what the files of the directory lead to: a tombstone to the purge  *)
(* that wrote it, the record and the sockets to the daemon that is up; and *)
(* the status list shows changes only along the documented lifecycle       *)
(* (AgentStatus).                                                          *)
(***************************************************************************)
EXTENDS AgentLifecycle, TLAPS

Serialized ==
  \A c \in Clients : Ops[c] \subseteq {"spawn", "ensure", "suspend", "archive"}

-----------------------------------------------------------------------------
(* The inductive invariant.                                                 *)

\* States that only a revival, only a spawn or no serialized command is in.
StatesOfOps ==
  \A c \in Clients :
    /\ op[c] \in {"none", "spawn", "ensure", "suspend", "archive"}
    /\ cpc[c] = "options" => op[c] = "spawn"
    /\ cpc[c] \in {"acquire", "write", "recheck", "unarchive", "reload",
                   "unlock", "unlockFail", "poll", "verify", "stale"}
         => op[c] = "ensure"
    /\ cpc[c] \in {"launch", "await"} => op[c] \in {"spawn", "ensure"}
    /\ cpc[c] \notin {"check", "kill", "tombstone", "rm"}

NoneAlive == \A d \in Daemons : ~Alive(d)

\* A spawn that has yet to launch its daemon.
Spawning(c) == op[c] = "spawn" /\ cpc[c] \in {"options", "launch"}

\* Nothing has happened to a directory that does not exist.
AbsentIsUntouched ==
  dir = FALSE => NoneAlive /\ \A c \in Clients : ~Spawning(c)

\* Until a spawn has launched its daemon it has the directory to itself.
SpawnIsAlone ==
  \A c \in Clients : Spawning(c) =>
    /\ file["agent.json"] = Absent
    /\ NoneAlive
    /\ \A e \in Clients : Spawning(e) => e = c

\* A revival starts from a record, and a record is never lost.
RevivedIsRecorded ==
  \A c \in Clients : op[c] = "ensure" /\ cpc[c] \notin Ended => HasRecord

\* Between the second look at the record and the launch no daemon runs.
RevivesTheDead ==
  \A c \in Clients :
    InRevival(c) /\ cpc[c] \in {"unarchive", "launch"} => NoneAlive

\* A daemon is the one in the record, or has yet to write it; then it comes
\* from a spawn, or the lock it was launched under is still there.
Early(d) == dpc[d] \in {"classify", "clear", "startPi", "record"}

LaunchedUnderLock(d) ==
  /\ file["revive.lock"] # Absent
  /\ \A c \in Clients : InRevival(c) => cpc[c] = "await" /\ peer[c] = d

AliveIsKnown ==
  \A d \in Daemons : Alive(d) =>
    \/ file["agent.json"] = d
    \/ Early(d) /\ file["agent.json"] = Absent
    \/ Early(d) /\ LaunchedUnderLock(d)

\* A daemon says nothing to its launcher before it has written the record.
EarlyIsSilent ==
  \A d \in Daemons : Early(d) \/ dpc[d] = "unused" => ready[d] = "none"

RevivalInv ==
  /\ TypeOK
  /\ StatesOfOps
  /\ AbsentIsUntouched
  /\ SpawnIsAlone
  /\ RevivedIsRecorded
  /\ RevivesTheDead
  /\ AliveIsKnown
  /\ EarlyIsSilent
  /\ RevivalExclusive
  /\ OneDaemon
  /\ StaleIsFinal

-----------------------------------------------------------------------------
(* Type correctness, for every command.                                     *)

LEMMA InitType == Init => TypeOK
<1> SUFFICES ASSUME Init PROVE TypeOK
  OBVIOUS
<1>1. CASE InitAbsent
  BY <1>1 DEF Init, InitAbsent, NoFiles, TypeOK, FileName, DaemonState,
              PiState, ClientState
<1>2. CASE \E d \in Daemons : InitDormant(d)
  BY <1>2 DEF Init, InitDormant, InitDaemons, NoFiles, TypeOK, FileName,
              DaemonState, PiState, ClientState
<1>3. CASE \E d \in Daemons : InitRunning(d)
  BY <1>3 DEF Init, InitRunning, InitDaemons, NoFiles, TypeOK, FileName,
              DaemonState, PiState, ClientState
<1>4. QED
  BY <1>1, <1>2, <1>3 DEF Init

LEMMA ClientType ==
  ASSUME TypeOK, NEW c \in Clients,
         ClientBegin(c) \/ ClientStep(c) \/ CrashClient(c)
  PROVE  TypeOK'
<1> USE DEF TypeOK, FileName, ClientState, Ended, Goto, Put, Remove,
            daemonVars, Begin, HasRecord
<1>1. CASE BeginSpawn(c)
  BY <1>1 DEF BeginSpawn, Commands, NoFiles
<1>2. CASE \E command \in Commands : BeginTargeted(c, command)
  BY <1>2 DEF BeginTargeted, FirstState
<1>3. CASE BeginGc(c)
  BY <1>3 DEF BeginGc, Commands
<1>4. CASE Acquire(c) \/ WriteLock(c)
  BY <1>4 DEF Acquire, WriteLock
<1>5. CASE Unlock(c)
  BY <1>5 DEF Unlock
<1>6. CASE CrashClient(c)
  BY <1>6, NamesAssumption DEF CrashClient
<1>7. CASE \/ Recheck(c) \/ Unarchive(c) \/ Reload(c) \/ Poll(c)
           \/ PollTimeout(c) \/ Verify(c) \/ CheckSeen(c) \/ Await(c)
  BY <1>7 DEF Recheck, RecheckResult, Unarchive, Reload, Poll, PollTimeout,
              Verify, CheckSeen, Await, LaunchFailed
<1>8. CASE Launch(c)
  BY <1>8 DEF Launch, LaunchFailed, DaemonGoto, DaemonState
<1>9. CASE WriteOptions(c) \/ Mark(c) \/ Tombstone(c)
  BY <1>9 DEF WriteOptions, Mark, Tombstone
<1>10. CASE \/ Decide(c) \/ Connect(c) \/ WaitIdle(c) \/ WaitClosed(c)
           \/ WaitGone(c)
  BY <1>10 DEF Decide, AfterStop, Connect, WaitIdle, WaitClosed, WaitGone
<1>11. CASE Sigterm(c) \/ Escalate(c) \/ KillDaemon(c) \/ ForceKill(c)
  BY <1>11 DEF Sigterm, Escalate, KillDaemon, ForceKill, DaemonGoto,
              DaemonState, PiState
<1>12. CASE RemoveFile(c)
  <2>1. PICK name \in FileName :
          /\ file[name] # Absent
          /\ file' = [file EXCEPT ![name] = Absent]
    BY <1>12 DEF RemoveFile
  <2>2. /\ file' \in [FileName -> Clients \cup Daemons \cup {Absent, Blank}]
        /\ dir = TRUE
    BY <2>1
  <2>3. QED
    BY <1>12, <2>2 DEF RemoveFile
<1>13. CASE RemoveDir(c)
  BY <1>13 DEF RemoveDir, NoFiles
<1>14. QED
  BY <1>1, <1>2, <1>3, <1>4, <1>5, <1>6, <1>7, <1>8, <1>9, <1>10,
     <1>11, <1>12, <1>13
     DEF ClientBegin, ClientStep

LEMMA DaemonType ==
  ASSUME TypeOK, NEW d \in Daemons,
         \/ DaemonStep(d) \/ Rewrite(d) \/ PiBind(d) \/ PiExit(d)
         \/ CrashDaemon(d)
  PROVE  TypeOK'
<1> USE DEF TypeOK, FileName, DaemonState, PiState, DaemonGoto, Put, Remove,
            Tell, clientVars, daemonVars
<1>1. CASE Classify(d) \/ ClearSockets(d) \/ StartPi(d)
  BY <1>1 DEF Classify, ClearSockets, StartPi
<1>2. CASE WriteRecord(d) \/ Handoff(d) \/ Listen(d)
  BY <1>2 DEF WriteRecord, Handoff, Listen
<1>3. CASE ConnectPi(d) \/ ConnectDeadline(d) \/ PiExited(d) \/ AdriftExit(d)
  BY <1>3 DEF ConnectPi, ConnectDeadline, PiExited, AdriftExit
<1>4. CASE FinalRecord(d) \/ UnlinkSockets(d) \/ Rewrite(d) \/ CrashDaemon(d)
  BY <1>4 DEF FinalRecord, UnlinkSockets, Rewrite, CrashDaemon
<1>5. CASE PiBind(d) \/ PiExit(d)
  BY <1>5 DEF PiBind, PiExit, AfterExit
<1>6. QED
  BY <1>1, <1>2, <1>3, <1>4, <1>5 DEF DaemonStep

LEMMA StutterType == TypeOK /\ UNCHANGED vars => TypeOK'
  BY DEF TypeOK, vars

\* Every file, process and command is always in a state the code knows, and a
\* directory that does not exist holds no file.
THEOREM TypeCorrect == Spec => []TypeOK
<1>1. TypeOK /\ [Next]_vars => TypeOK'
  BY ClientType, DaemonType, StutterType DEF Next
<1>2. QED
  BY InitType, <1>1, PTL DEF Spec
-----------------------------------------------------------------------------
(* The revival invariant.                                                   *)

LEMMA InitRevival == Init => RevivalInv
<1> SUFFICES ASSUME Init PROVE RevivalInv
  OBVIOUS
<1>1. TypeOK
  BY InitType
<1>2. QED
  BY <1>1 DEF Init, InitAbsent, InitDormant, InitRunning, InitDaemons,
     NoFiles, FileName, RevivalInv, StatesOfOps, AbsentIsUntouched,
     SpawnIsAlone, RevivedIsRecorded, RevivesTheDead, AliveIsKnown,
     EarlyIsSilent, RevivalExclusive, OneDaemon, StaleIsFinal, NoneAlive,
     Spawning, Ended, Early, Alive, InRevival, HasRecord

LEMMA RevivalClient ==
  ASSUME Serialized, RevivalInv, NEW c \in Clients,
         ClientBegin(c) \/ ClientStep(c) \/ CrashClient(c)
  PROVE  RevivalInv'
<1>0. TypeOK'
  BY ClientType DEF RevivalInv
<1> USE <1>0, NamesAssumption
    DEF RevivalInv, TypeOK, StatesOfOps, AbsentIsUntouched, SpawnIsAlone,
        RevivedIsRecorded, RevivesTheDead, AliveIsKnown, EarlyIsSilent,
        RevivalExclusive, OneDaemon, StaleIsFinal, NoneAlive, Spawning, Early,
        LaunchedUnderLock, InRevival, Alive, HasRecord, Ended, FileName,
        Goto, Put, Remove, daemonVars
<1>1. CASE BeginSpawn(c)
  BY <1>1 DEF BeginSpawn, Begin, Serialized, NoFiles
<1>2. CASE \E command \in Commands : BeginTargeted(c, command)
  BY <1>2 DEF BeginTargeted, Begin, FirstState, RunningRecord, Serialized
<1>3. CASE BeginGc(c)
  BY <1>3 DEF BeginGc, Begin, Serialized
<1>4. CASE Acquire(c)
  BY <1>4 DEF Acquire, LockFree
<1>5. CASE WriteLock(c)
  BY <1>5 DEF WriteLock
<1>6. CASE Recheck(c)
  BY <1>6 DEF Recheck, RecheckResult, RunningRecord
<1>7. CASE Unarchive(c)
  BY <1>7 DEF Unarchive
<1>8. CASE Reload(c)
  BY <1>8 DEF Reload
<1>9. CASE Unlock(c)
  BY <1>9 DEF Unlock
<1>10. CASE Poll(c)
  BY <1>10 DEF Poll, StaleLock, LockPid, ClientAlive
<1>11. CASE PollTimeout(c)
  BY <1>11 DEF PollTimeout
<1>12. CASE Verify(c)
  BY <1>12 DEF Verify
<1>13. CASE WriteOptions(c)
  BY <1>13 DEF WriteOptions
<1>14. CASE Launch(c)
  <2>1. CASE ~dir /\ LaunchFailed(c) /\ UNCHANGED <<peer, dpc>>
    BY <1>14, <2>1 DEF Launch, LaunchFailed
  <2>2. CASE /\ dir
             /\ \E d \in Daemons : /\ dpc[d] = "unused"
                                  /\ DaemonGoto(d, "classify")
                                  /\ peer' = [peer EXCEPT ![c] = d]
             /\ Goto(c, "await")
    <3>1. PICK d \in Daemons : /\ dpc[d] = "unused"
                               /\ dpc' = [dpc EXCEPT ![d] = "classify"]
                               /\ peer' = [peer EXCEPT ![c] = d]
      BY <2>2 DEF DaemonGoto
    <3>2. /\ cpc[c] = "launch"
          /\ cpc' = [cpc EXCEPT ![c] = "await"]
          /\ UNCHANGED <<dir, file, op, seen, ready, pi>>
      BY <1>14, <2>2 DEF Launch
    <3>3. NoneAlive /\ \A e \in Daemons : ~Alive(e)
      BY <3>2
    <3>4. OneDaemon'
      BY <3>1, <3>3
    <3>5. StatesOfOps' /\ AbsentIsUntouched'
      BY <3>1, <3>2, <2>2
    <3>6. SpawnIsAlone'
      BY <3>1, <3>2, <3>3
    <3>7. RevivedIsRecorded' /\ RevivesTheDead'
      BY <3>1, <3>2, <3>3
    <3>8. EarlyIsSilent'
      BY <3>1, <3>2
    <3>9. RevivalExclusive' /\ StaleIsFinal'
      BY <3>2
    <3>10. AliveIsKnown'
      <4>1. CASE op[c] = "ensure"
        BY <3>1, <3>2, <3>3, <4>1
      <4>2. CASE op[c] = "spawn"
        BY <3>1, <3>2, <3>3, <4>2
      <4>3. QED
        BY <3>2, <4>1, <4>2
    <3>11. QED
      BY <3>4, <3>5, <3>6, <3>7, <3>8, <3>9, <3>10
  <2>3. QED
    BY <1>14, <2>1, <2>2 DEF Launch
<1>15. CASE Await(c)
  BY <1>15 DEF Await, LaunchFailed, Launched, LaunchLost
<1>16. CASE Decide(c)
  BY <1>16 DEF Decide, AfterStop
<1>17. CASE Connect(c)
  BY <1>17 DEF Connect
<1>18. CASE WaitIdle(c)
  BY <1>18 DEF WaitIdle
<1>19. CASE Sigterm(c)
  BY <1>19 DEF Sigterm
<1>20. CASE WaitClosed(c)
  BY <1>20 DEF WaitClosed
<1>21. CASE Escalate(c)
  BY <1>21 DEF Escalate
<1>22. CASE WaitGone(c)
  BY <1>22 DEF WaitGone, AfterStop
<1>23. CASE KillDaemon(c)
  BY <1>23 DEF KillDaemon, DaemonGoto
<1>24. CASE Mark(c)
  BY <1>24 DEF Mark
<1>25. CASE \/ CheckSeen(c) \/ Tombstone(c) \/ ForceKill(c) \/ RemoveFile(c)
            \/ RemoveDir(c)
  BY <1>25 DEF CheckSeen, Tombstone, ForceKill, RemoveFile, RemoveDir
<1>26. CASE CrashClient(c)
  BY <1>26 DEF CrashClient, ClientAlive
<1>27. QED
  BY <1>1, <1>2, <1>3, <1>4, <1>5, <1>6, <1>7, <1>8, <1>9, <1>10,
     <1>11, <1>12, <1>13, <1>14, <1>15, <1>16, <1>17, <1>18, <1>19, <1>20,
     <1>21, <1>22, <1>23, <1>24, <1>25, <1>26
     DEF ClientBegin, ClientStep

LEMMA RevivalDaemon ==
  ASSUME Serialized, RevivalInv, NEW d \in Daemons,
         \/ DaemonStep(d) \/ Rewrite(d) \/ PiBind(d) \/ PiExit(d)
         \/ CrashDaemon(d)
  PROVE  RevivalInv'
<1>0. TypeOK'
  BY DaemonType DEF RevivalInv
<1> USE <1>0, NamesAssumption
    DEF RevivalInv, TypeOK, StatesOfOps, AbsentIsUntouched, SpawnIsAlone,
        RevivedIsRecorded, RevivesTheDead, AliveIsKnown, EarlyIsSilent,
        RevivalExclusive, OneDaemon, StaleIsFinal, NoneAlive, Spawning, Early,
        LaunchedUnderLock, InRevival, Alive, HasRecord, Ended, FileName,
        DaemonGoto, Put, Remove, Tell, clientVars
<1>1. CASE Classify(d)
  BY <1>1 DEF Classify
<1>2. CASE ClearSockets(d)
  BY <1>2 DEF ClearSockets
<1>3. CASE StartPi(d)
  BY <1>3 DEF StartPi
<1>4. CASE WriteRecord(d)
  BY <1>4 DEF WriteRecord
<1>5. CASE Handoff(d)
  BY <1>5 DEF Handoff
<1>6. CASE Listen(d)
  BY <1>6 DEF Listen
<1>7. CASE ConnectPi(d)
  BY <1>7 DEF ConnectPi
<1>8. CASE ConnectDeadline(d)
  BY <1>8 DEF ConnectDeadline
<1>9. CASE PiExited(d)
  BY <1>9 DEF PiExited
<1>10. CASE FinalRecord(d)
  BY <1>10 DEF FinalRecord
<1>11. CASE UnlinkSockets(d)
  BY <1>11 DEF UnlinkSockets
<1>12. CASE AdriftExit(d)
  BY <1>12 DEF AdriftExit
<1>13. CASE Rewrite(d)
  BY <1>13 DEF Rewrite, daemonVars
<1>14. CASE PiBind(d)
  BY <1>14 DEF PiBind
<1>15. CASE PiExit(d)
  BY <1>15 DEF PiExit
<1>16. CASE CrashDaemon(d)
  BY <1>16 DEF CrashDaemon
<1>17. QED
  BY <1>1, <1>2, <1>3, <1>4, <1>5, <1>6, <1>7, <1>8, <1>9, <1>10,
     <1>11, <1>12, <1>13, <1>14, <1>15, <1>16
     DEF DaemonStep

LEMMA StutterRevival == RevivalInv /\ UNCHANGED vars => RevivalInv'
  BY DEF RevivalInv, vars, TypeOK, StatesOfOps, AbsentIsUntouched,
     SpawnIsAlone, RevivedIsRecorded, RevivesTheDead, AliveIsKnown,
     EarlyIsSilent, RevivalExclusive, OneDaemon, StaleIsFinal, NoneAlive,
     Spawning, Early, LaunchedUnderLock, InRevival, Alive, HasRecord, Ended

LEMMA RevivalInvariant ==
  ASSUME Serialized
  PROVE  Spec => []RevivalInv
<1>1. RevivalInv /\ [Next]_vars => RevivalInv'
  BY RevivalClient, RevivalDaemon, StutterRevival DEF Next
<1>2. QED
  BY InitRevival, <1>1, PTL DEF Spec

\* However many commands find the agent dormant at once, one of them revives it
\* at a time and the lock stays its own (reviveAgent, lifecycle.ts).
THEOREM RevivalIsExclusive ==
  ASSUME Serialized
  PROVE  Spec => []RevivalExclusive
<1>1. RevivalInv => RevivalExclusive
  BY DEF RevivalInv
<1>2. QED
  BY RevivalInvariant, <1>1, PTL

\* No interleaving of spawns, revivals, suspends and archives, of commands and
\* daemons killed at any point, ever has two daemons on one directory.
THEOREM OneDaemonRuns ==
  ASSUME Serialized
  PROVE  Spec => []OneDaemon
<1>1. RevivalInv => OneDaemon
  BY DEF RevivalInv
<1>2. QED
  BY RevivalInvariant, <1>1, PTL

\* A command that reports a stale revival lock (awaitConcurrentRevival) is
\* right, and stays right: the lock is there to be removed by hand.
THEOREM StaleLockIsFinal ==
  ASSUME Serialized
  PROVE  Spec => []StaleIsFinal
<1>1. RevivalInv => StaleIsFinal
  BY DEF RevivalInv
<1>2. QED
  BY RevivalInvariant, <1>1, PTL

-----------------------------------------------------------------------------
(* The inductive invariants of the directory.                               *)

\* Only a purge writes a tombstone.
TombstonesOfPurges ==
  \A c \in Clients : cpc[c] = "tombstone" => op[c] = "purge"

TombstoneInv ==
  /\ TypeOK
  /\ TombstonesOfPurges
  /\ TombstoneOwned

\* States that only a command that may launch a daemon is in.
LaunchStates ==
  {"options", "launch", "await", "acquire", "write", "recheck", "unarchive",
   "reload", "unlock", "unlockFail", "poll", "verify", "check", "stale"}

LaunchersOnly ==
  \A c \in Clients :
    /\ cpc[c] \in LaunchStates => op[c] \in Launching
    /\ cpc[c] = "idle" => op[c] = "none"

NobodyLaunches == \A c \in Clients : op[c] \notin Launching

\* States of a command that has yet to see the daemon of its record gone.
StopStates ==
  {"decide", "connect", "waitIdle", "sigterm", "waitClosed", "waitGone", "kill"}

\* With no launch, the one daemon there is has been up before, is the one in
\* the record everybody resolved, and nobody is past stopping it.
OneOldDaemon ==
  NobodyLaunches =>
    \A d \in Daemons : Alive(d) =>
      /\ dpc[d] \in {"up", "closing", "unlink"}
      /\ dir /\ file["agent.json"] = d /\ file["tombstone"] = Absent
      /\ \A c \in Clients : /\ cpc[c] \notin {"tombstone", "rm"}
                            /\ cpc[c] \in StopStates => seen[c] = d

OrphanInv ==
  /\ TombstoneInv
  /\ LaunchersOnly
  /\ OneOldDaemon

\* The record names a daemon that was launched and has started its pi.
RecordIsLaunched ==
  \A d \in Daemons : file["agent.json"] = d => dpc[d] # "unused" /\ pi[d] # "none"

\* A daemon that has yet to start its pi has none; one that runs further has.
BeforePi == {"unused", "classify", "clear", "startPi"}

PiOfDaemon ==
  \A d \in Daemons :
    /\ dpc[d] \in BeforePi => pi[d] = "none"
    /\ dpc[d] \notin BeforePi \cup {"dead"} => pi[d] # "none"

\* Nobody removes the socket a daemon serves, nor the one its pi does.
ServesTty ==
  \A d \in Daemons : dpc[d] \in {"connect", "up"} => file["tty.sock"] = d

ServesPi ==
  \A d \in Daemons : Alive(d) /\ pi[d] = "serving" => file["pi.sock"] = d

DirectoryInv ==
  /\ RevivalInv
  /\ file["tombstone"] = Absent
  /\ RecordIsLaunched
  /\ PiOfDaemon
  /\ ServesTty
  /\ ServesPi

\* While daemons are not killed from outside, no pi outlives its own.
NoOrphanPi ==
  \A d \in Daemons :
    /\ PiAlive(d) => Alive(d)
    /\ dpc[d] \in {"closing", "unlink"} => ~PiAlive(d)

\* The pi a stop waits for is the one in the record it resolved, unless that
\* one is gone already.
StopsItsPi ==
  \A c \in Clients :
    /\ cpc[c] \in StopStates => seen[c] \in Daemons /\ pi[seen[c]] # "none"
    /\ cpc[c] \in {"waitIdle", "sigterm", "waitClosed"} /\ PiAlive(seen[c])
         => peer[c] = seen[c]
    /\ cpc[c] = "waitGone" => ~PiAlive(seen[c])

OwnPiInv ==
  /\ DirectoryInv
  /\ NoOrphanPi
  /\ StopsItsPi

-----------------------------------------------------------------------------
(* Tombstones, for every command.                                           *)

\* A client that does not write a tombstone and was not about to remove the
\* directory is none of the ones a tombstone needs.
LEMMA TombstoneClient ==
  ASSUME TombstoneInv, NEW c \in Clients,
         ClientBegin(c) \/ ClientStep(c) \/ CrashClient(c)
  PROVE  TombstonesOfPurges' /\ TombstoneOwned'
<1> USE DEF TombstoneInv, TypeOK, TombstonesOfPurges, TombstoneOwned, FileName,
            Goto, Put, Remove, daemonVars, Begin, AfterStop
<1>1. CASE BeginSpawn(c)
  BY <1>1 DEF BeginSpawn, NoFiles
<1>2. CASE \E command \in Commands : BeginTargeted(c, command)
  BY <1>2 DEF BeginTargeted, FirstState
<1>3. CASE BeginGc(c)
  BY <1>3 DEF BeginGc
<1>4. CASE Acquire(c) \/ WriteLock(c) \/ Unlock(c)
  BY <1>4 DEF Acquire, WriteLock, Unlock
<1>5. CASE CrashClient(c)
  BY <1>5 DEF CrashClient, ClientAlive
<1>6. CASE \/ Recheck(c) \/ Unarchive(c) \/ Reload(c) \/ Poll(c)
           \/ PollTimeout(c) \/ Verify(c) \/ CheckSeen(c) \/ Await(c)
  BY <1>6 DEF Recheck, RecheckResult, Unarchive, Reload, Poll, PollTimeout,
              Verify, CheckSeen, Await, LaunchFailed
<1>7. CASE Launch(c) \/ WriteOptions(c) \/ Mark(c)
  BY <1>7 DEF Launch, LaunchFailed, WriteOptions, Mark
<1>8. CASE Tombstone(c)
  BY <1>8 DEF Tombstone
<1>9. CASE Decide(c) \/ Connect(c) \/ WaitIdle(c) \/ WaitClosed(c) \/ WaitGone(c)
  BY <1>9 DEF Decide, Connect, WaitIdle, WaitClosed, WaitGone
<1>10. CASE Sigterm(c) \/ Escalate(c) \/ KillDaemon(c) \/ ForceKill(c)
  BY <1>10 DEF Sigterm, Escalate, KillDaemon, ForceKill
<1>11. CASE RemoveFile(c)
  BY <1>11 DEF RemoveFile
<1>12. CASE RemoveDir(c)
  BY <1>12 DEF RemoveDir, NoFiles
<1>13. QED
  BY <1>1, <1>2, <1>3, <1>4, <1>5, <1>6, <1>7, <1>8, <1>9, <1>10, <1>11, <1>12
     DEF ClientBegin, ClientStep

LEMMA TombstoneDaemon ==
  ASSUME TombstoneInv, NEW d \in Daemons,
         \/ DaemonStep(d) \/ Rewrite(d) \/ PiBind(d) \/ PiExit(d)
         \/ CrashDaemon(d)
  PROVE  TombstonesOfPurges' /\ TombstoneOwned'
<1>1. UNCHANGED clientVars /\ file'["tombstone"] = file["tombstone"]
  BY DEF DaemonStep, Classify, ClearSockets, StartPi, WriteRecord, Handoff,
         Listen, ConnectPi, ConnectDeadline, PiExited, FinalRecord,
         UnlinkSockets, AdriftExit, Rewrite, PiBind, PiExit, CrashDaemon, Put,
         Remove, TombstoneInv, TypeOK, FileName
<1>2. QED
  BY <1>1 DEF TombstoneInv, TombstonesOfPurges, TombstoneOwned, clientVars

LEMMA InitTombstone == Init => TombstoneInv
  BY InitType
     DEF Init, InitAbsent, InitDormant, InitRunning, NoFiles, FileName,
         TombstoneInv, TombstonesOfPurges, TombstoneOwned

LEMMA TombstoneStep == TombstoneInv /\ [Next]_vars => TombstoneInv'
<1>1. TombstoneInv /\ UNCHANGED vars => TombstoneInv'
  BY StutterType DEF TombstoneInv, TombstonesOfPurges, TombstoneOwned, vars
<1>2. QED
  BY <1>1, ClientType, DaemonType, TombstoneClient, TombstoneDaemon
     DEF Next, TombstoneInv

\* A tombstone on disk is that of a purge that is removing the directory or was
\* killed while it did (purgeOne, lifecycle.ts): whatever else runs.
THEOREM TombstoneIsOwned == Spec => []TombstoneOwned
<1>1. TombstoneInv => TombstoneOwned
  BY DEF TombstoneInv
<1>2. QED
  BY InitTombstone, TombstoneStep, <1>1, PTL DEF Spec

-----------------------------------------------------------------------------
(* No daemon without its directory.                                         *)

LEMMA OrphanClient ==
  ASSUME OrphanInv, NEW c \in Clients,
         ClientBegin(c) \/ ClientStep(c) \/ CrashClient(c)
  PROVE  LaunchersOnly' /\ OneOldDaemon'
<1> USE NamesAssumption
    DEF OrphanInv, TombstoneInv, TypeOK, LaunchersOnly, OneOldDaemon,
        NobodyLaunches, TombstonesOfPurges, LaunchStates, StopStates, Launching, Alive, FileName,
        Goto, Put, Remove, daemonVars, AfterStop
<1>1. CASE BeginSpawn(c)
  BY <1>1 DEF BeginSpawn, Begin
<1>2. CASE \E command \in Commands : BeginTargeted(c, command)
  BY <1>2 DEF BeginTargeted, Begin, FirstState, HasRecord, Commands
<1>3. CASE BeginGc(c)
  BY <1>3 DEF BeginGc, Begin, Status, HasRecord
<1>4. CASE Acquire(c) \/ WriteLock(c) \/ Unlock(c)
  BY <1>4 DEF Acquire, WriteLock, Unlock
<1>5. CASE CrashClient(c)
  BY <1>5 DEF CrashClient, ClientAlive, Ended
<1>6. CASE \/ Recheck(c) \/ Unarchive(c) \/ Reload(c) \/ Poll(c)
           \/ PollTimeout(c) \/ Verify(c) \/ CheckSeen(c) \/ Await(c)
  BY <1>6 DEF Recheck, RecheckResult, Unarchive, Reload, Poll, PollTimeout,
              Verify, CheckSeen, Await, LaunchFailed
<1>7. CASE Launch(c) \/ WriteOptions(c) \/ Mark(c)
  BY <1>7 DEF Launch, LaunchFailed, WriteOptions, Mark
<1>8. CASE Tombstone(c)
  BY <1>8 DEF Tombstone
<1>9. CASE Decide(c)
  BY <1>9 DEF Decide
<1>10. CASE Connect(c) \/ WaitIdle(c) \/ WaitClosed(c)
  BY <1>10 DEF Connect, WaitIdle, WaitClosed
<1>11. CASE WaitGone(c)
  BY <1>11 DEF WaitGone
<1>12. CASE Sigterm(c) \/ Escalate(c) \/ KillDaemon(c)
  BY <1>12 DEF Sigterm, Escalate, KillDaemon, DaemonGoto
<1>13. CASE ForceKill(c)
  BY <1>13 DEF ForceKill
<1>14. CASE RemoveFile(c) \/ RemoveDir(c)
  BY <1>14 DEF RemoveFile, RemoveDir
<1>15. QED
  BY <1>1, <1>2, <1>3, <1>4, <1>5, <1>6, <1>7, <1>8, <1>9, <1>10, <1>11, <1>12,
     <1>13, <1>14
     DEF ClientBegin, ClientStep

LEMMA OrphanDaemon ==
  ASSUME OrphanInv, NEW d \in Daemons,
         \/ DaemonStep(d) \/ Rewrite(d) \/ PiBind(d) \/ PiExit(d)
         \/ CrashDaemon(d)
  PROVE  LaunchersOnly' /\ OneOldDaemon'
<1> USE NamesAssumption
    DEF OrphanInv, TombstoneInv, TypeOK, LaunchersOnly, OneOldDaemon,
        NobodyLaunches, Alive, FileName, Put, Remove, DaemonGoto, clientVars
<1>1. CASE Classify(d) \/ ClearSockets(d) \/ StartPi(d)
  BY <1>1 DEF Classify, ClearSockets, StartPi
<1>2. CASE WriteRecord(d) \/ Handoff(d) \/ Listen(d)
  BY <1>2 DEF WriteRecord, Handoff, Listen
<1>3. CASE ConnectPi(d) \/ ConnectDeadline(d) \/ PiExited(d) \/ AdriftExit(d)
  BY <1>3 DEF ConnectPi, ConnectDeadline, PiExited, AdriftExit
<1>4. CASE FinalRecord(d) \/ UnlinkSockets(d) \/ Rewrite(d) \/ CrashDaemon(d)
  BY <1>4 DEF FinalRecord, UnlinkSockets, Rewrite, CrashDaemon
<1>5. CASE PiBind(d) \/ PiExit(d)
  BY <1>5 DEF PiBind, PiExit
<1>6. QED
  BY <1>1, <1>2, <1>3, <1>4, <1>5 DEF DaemonStep

\* As long as no command launches a daemon, none runs without its directory: no
\* purge, purge --force or gc, however many run and wherever they are killed,
\* removes it from under a live agent.
THEOREM NoDaemonIsOrphan == Spec => []NoOrphan
<1>1. Init => OrphanInv
  BY InitTombstone
     DEF Init, InitAbsent, InitDormant, InitRunning, InitDaemons, NoFiles,
         FileName, OrphanInv, LaunchersOnly, OneOldDaemon, LaunchStates, StopStates,
         Alive
<1>2. OrphanInv /\ [Next]_vars => OrphanInv'
  <2>1. OrphanInv /\ UNCHANGED vars => LaunchersOnly' /\ OneOldDaemon'
    BY DEF OrphanInv, LaunchersOnly, OneOldDaemon, NobodyLaunches, Alive, vars
  <2>2. QED
    BY <2>1, TombstoneStep, OrphanClient, OrphanDaemon DEF Next, OrphanInv
<1>3. OrphanInv => NoOrphan
  BY DEF OrphanInv, OneOldDaemon, NobodyLaunches, NoOrphan
<1>4. QED
  BY <1>1, <1>2, <1>3, PTL DEF Spec

-----------------------------------------------------------------------------
(* The record and the sockets, while launches are serialized.               *)

LEMMA InitDirectory == Init => DirectoryInv
<1> SUFFICES ASSUME Init PROVE DirectoryInv
  OBVIOUS
<1> USE NamesAssumption
    DEF NoFiles, FileName, InitDaemons, DirectoryInv, RecordIsLaunched,
        PiOfDaemon, BeforePi, ServesTty, ServesPi, Alive
<1>1. CASE InitAbsent
  BY <1>1, InitRevival DEF InitAbsent
<1>2. CASE \E d \in Daemons : InitDormant(d)
  BY <1>2, InitRevival DEF InitDormant
<1>3. CASE \E d \in Daemons : InitRunning(d)
  BY <1>3, InitRevival DEF InitRunning
<1>4. QED
  BY <1>1, <1>2, <1>3 DEF Init

LEMMA DirectoryClient ==
  ASSUME Serialized, DirectoryInv, NEW c \in Clients,
         ClientBegin(c) \/ ClientStep(c) \/ CrashClient(c)
  PROVE  DirectoryInv'
<1>0. RevivalInv'
  BY RevivalClient DEF DirectoryInv
<1> USE NamesAssumption
    DEF DirectoryInv, RecordIsLaunched, PiOfDaemon, BeforePi, ServesTty,
        ServesPi, RevivalInv, TypeOK, StatesOfOps, AbsentIsUntouched, NoneAlive,
        Alive, FileName, Goto, Put, Remove, daemonVars
<1>1. CASE BeginSpawn(c)
  BY <1>0, <1>1 DEF BeginSpawn, Begin, NoFiles
<1>2. CASE \E command \in Commands : BeginTargeted(c, command)
  BY <1>0, <1>2 DEF BeginTargeted, Begin
<1>3. CASE BeginGc(c)
  BY <1>0, <1>3 DEF BeginGc, Begin
<1>4. CASE Acquire(c) \/ WriteLock(c) \/ Unlock(c)
  BY <1>0, <1>4 DEF Acquire, WriteLock, Unlock
<1>5. CASE CrashClient(c)
  BY <1>0, <1>5 DEF CrashClient
<1>6. CASE \/ Recheck(c) \/ Unarchive(c) \/ Reload(c) \/ Poll(c)
           \/ PollTimeout(c) \/ Verify(c) \/ CheckSeen(c) \/ Await(c)
  BY <1>0, <1>6 DEF Recheck, Unarchive, Reload, Poll, PollTimeout, Verify,
                    CheckSeen, Await
<1>7. CASE WriteOptions(c) \/ Mark(c)
  BY <1>0, <1>7 DEF WriteOptions, Mark
<1>8. CASE Launch(c)
  BY <1>0, <1>8 DEF Launch, DaemonGoto
<1>9. CASE Decide(c) \/ Connect(c) \/ WaitIdle(c) \/ WaitClosed(c) \/ WaitGone(c)
  BY <1>0, <1>9 DEF Decide, Connect, WaitIdle, WaitClosed, WaitGone
<1>10. CASE Sigterm(c)
  BY <1>0, <1>10 DEF Sigterm, PiAlive
<1>11. CASE Escalate(c)
  BY <1>0, <1>11 DEF Escalate, PiAlive
<1>12. CASE KillDaemon(c)
  BY <1>0, <1>12 DEF KillDaemon, DaemonGoto
<1>13. CASE Tombstone(c) \/ ForceKill(c) \/ RemoveFile(c) \/ RemoveDir(c)
  BY <1>13 DEF Tombstone, ForceKill, RemoveFile, RemoveDir
<1>14. QED
  BY <1>1, <1>2, <1>3, <1>4, <1>5, <1>6, <1>7, <1>8, <1>9, <1>10, <1>11, <1>12,
     <1>13
     DEF ClientBegin, ClientStep

LEMMA DirectoryDaemon ==
  ASSUME Serialized, DirectoryInv, NEW d \in Daemons,
         \/ DaemonStep(d) \/ Rewrite(d) \/ PiBind(d) \/ PiExit(d)
         \/ CrashDaemon(d)
  PROVE  DirectoryInv'
<1>0. RevivalInv'
  BY RevivalDaemon DEF DirectoryInv
<1> USE NamesAssumption
    DEF DirectoryInv, RecordIsLaunched, PiOfDaemon, BeforePi, ServesTty,
        ServesPi, RevivalInv, TypeOK, OneDaemon, AliveIsKnown, Early, Alive,
        FileName, DaemonGoto, Put, Remove, clientVars
<1>1. CASE Classify(d) \/ StartPi(d)
  BY <1>0, <1>1 DEF Classify, StartPi
<1>2. CASE ClearSockets(d)
  BY <1>0, <1>2 DEF ClearSockets
<1>3. CASE WriteRecord(d) \/ Handoff(d)
  BY <1>0, <1>3 DEF WriteRecord, Handoff
<1>4. CASE Listen(d)
  BY <1>0, <1>4 DEF Listen
<1>5. CASE ConnectPi(d) \/ ConnectDeadline(d) \/ PiExited(d) \/ AdriftExit(d)
  BY <1>0, <1>5 DEF ConnectPi, ConnectDeadline, PiExited, AdriftExit
<1>6. CASE FinalRecord(d) \/ Rewrite(d) \/ CrashDaemon(d)
  BY <1>0, <1>6 DEF FinalRecord, Rewrite, CrashDaemon
<1>7. CASE UnlinkSockets(d)
  BY <1>0, <1>7 DEF UnlinkSockets
<1>8. CASE PiBind(d)
  BY <1>0, <1>8 DEF PiBind, AfterExit
<1>9. CASE PiExit(d)
  BY <1>0, <1>9 DEF PiExit, AfterExit, PiAlive
<1>10. QED
  BY <1>1, <1>2, <1>3, <1>4, <1>5, <1>6, <1>7, <1>8, <1>9 DEF DaemonStep

LEMMA StutterDirectory == DirectoryInv /\ UNCHANGED vars => DirectoryInv'
  BY StutterRevival
     DEF DirectoryInv, RecordIsLaunched, PiOfDaemon, ServesTty, ServesPi, Alive,
         vars

LEMMA DirectoryInvariant ==
  ASSUME Serialized
  PROVE  Spec => []DirectoryInv
<1>1. DirectoryInv /\ [Next]_vars => DirectoryInv'
  BY DirectoryClient, DirectoryDaemon, StutterDirectory DEF Next
<1>2. QED
  BY InitDirectory, <1>1, PTL DEF Spec

\* The agent that is up is the one its files lead to: no earlier daemon's
\* cleanup (cleanupAndExit unlinks both sockets by path), no classification and
\* no late record write takes them from it.
THEOREM UpAgentIsReachable ==
  ASSUME Serialized
  PROVE  Spec => []UpIsReachable
<1>1. DirectoryInv => UpIsReachable
  BY DEF DirectoryInv, RevivalInv, AliveIsKnown, Early, Alive, ServesTty,
         ServesPi, UpIsReachable
<1>2. QED
  BY DirectoryInvariant, <1>1, PTL

-----------------------------------------------------------------------------
(* Whose pi a daemon finds behind its socket, while nothing kills daemons    *)
(* from outside.                                                             *)

LEMMA OwnPiClient ==
  ASSUME Serialized, OwnPiInv, NEW c \in Clients,
         ClientBegin(c) \/ ClientStep(c) \/ CrashClient(c)
  PROVE  NoOrphanPi' /\ StopsItsPi'
<1> USE NamesAssumption
    DEF OwnPiInv, NoOrphanPi, StopsItsPi, StopStates, DirectoryInv,
        RecordIsLaunched, PiOfDaemon, BeforePi, RevivalInv, TypeOK, StatesOfOps,
        OneDaemon, Alive, PiAlive, FileName, Goto, Put, Remove, daemonVars
<1>1. CASE BeginSpawn(c) \/ BeginGc(c)
  BY <1>1 DEF BeginSpawn, BeginGc, Begin
<1>2. CASE \E command \in Commands : BeginTargeted(c, command)
  BY <1>2 DEF BeginTargeted, Begin, FirstState, HasRecord
<1>3. CASE Acquire(c) \/ WriteLock(c) \/ Unlock(c) \/ CrashClient(c)
  BY <1>3 DEF Acquire, WriteLock, Unlock, CrashClient
<1>4. CASE \/ Recheck(c) \/ Unarchive(c) \/ Reload(c) \/ Poll(c)
           \/ PollTimeout(c) \/ Verify(c) \/ CheckSeen(c) \/ Await(c)
  BY <1>4 DEF Recheck, RecheckResult, Unarchive, Reload, Poll, PollTimeout,
              Verify, CheckSeen, Await, LaunchFailed
<1>5. CASE WriteOptions(c) \/ Mark(c)
  BY <1>5 DEF WriteOptions, Mark
<1>6. CASE Launch(c)
  BY <1>6 DEF Launch, LaunchFailed, DaemonGoto
<1>7. CASE Decide(c) \/ WaitIdle(c) \/ WaitClosed(c) \/ WaitGone(c)
  BY <1>7 DEF Decide, WaitIdle, WaitClosed, WaitGone, AfterStop
<1>8. CASE Connect(c)
  BY <1>8 DEF Connect, Listening
<1>9. CASE Sigterm(c) \/ Escalate(c)
  BY <1>9 DEF Sigterm, Escalate
<1>10. CASE KillDaemon(c)
  BY <1>10 DEF KillDaemon, DaemonGoto
<1>11. CASE Tombstone(c) \/ ForceKill(c) \/ RemoveFile(c) \/ RemoveDir(c)
  BY <1>11 DEF Tombstone, ForceKill, RemoveFile, RemoveDir
<1>12. QED
  BY <1>1, <1>2, <1>3, <1>4, <1>5, <1>6, <1>7, <1>8, <1>9, <1>10, <1>11
     DEF ClientBegin, ClientStep

LEMMA OwnPiDaemon ==
  ASSUME OwnPiInv, "daemon" \notin Crashes, NEW d \in Daemons,
         \/ DaemonStep(d) \/ Rewrite(d) \/ PiBind(d) \/ PiExit(d)
         \/ CrashDaemon(d)
  PROVE  NoOrphanPi' /\ StopsItsPi'
<1> USE NamesAssumption
    DEF OwnPiInv, NoOrphanPi, StopsItsPi, StopStates, DirectoryInv,
        PiOfDaemon, BeforePi, RevivalInv, TypeOK, AbsentIsUntouched, NoneAlive,
        Alive, PiAlive, DaemonGoto, Put, Remove, clientVars
<1>1. CASE Classify(d) \/ ClearSockets(d) \/ StartPi(d)
  BY <1>1 DEF Classify, ClearSockets, StartPi
<1>2. CASE WriteRecord(d) \/ Handoff(d) \/ Listen(d)
  BY <1>2 DEF WriteRecord, Handoff, Listen
<1>3. CASE ConnectPi(d) \/ ConnectDeadline(d) \/ PiExited(d) \/ AdriftExit(d)
  BY <1>3 DEF ConnectPi, ConnectDeadline, PiExited, AdriftExit
<1>4. CASE FinalRecord(d) \/ UnlinkSockets(d) \/ Rewrite(d) \/ CrashDaemon(d)
  BY <1>4 DEF FinalRecord, UnlinkSockets, Rewrite, CrashDaemon
<1>5. CASE PiBind(d) \/ PiExit(d)
  BY <1>5 DEF PiBind, PiExit, AfterExit
<1>6. QED
  BY <1>1, <1>2, <1>3, <1>4, <1>5 DEF DaemonStep

\* A daemon that connects and subscribes does it with the pi it started, never
\* with one an earlier daemon left behind pi.sock (daemon/daemon.ts).
THEOREM ConnectsToItsPi ==
  ASSUME Serialized, "daemon" \notin Crashes
  PROVE  Spec => ConnectsOwnPi
<1>1. Init => OwnPiInv
  <2>1. Init => NoOrphanPi /\ StopsItsPi
    BY NamesAssumption
       DEF Init, InitAbsent, InitDormant, InitRunning, InitDaemons, NoOrphanPi,
           StopsItsPi, StopStates, Alive, PiAlive
  <2>2. QED
    BY <2>1, InitDirectory DEF OwnPiInv
<1>2. OwnPiInv /\ [Next]_vars => OwnPiInv'
  <2>1. OwnPiInv /\ UNCHANGED vars => NoOrphanPi' /\ StopsItsPi'
    BY DEF OwnPiInv, NoOrphanPi, StopsItsPi, Alive, PiAlive, vars
  <2>2. QED
    BY <2>1, OwnPiClient, OwnPiDaemon, DirectoryClient, DirectoryDaemon,
       StutterDirectory
       DEF Next, OwnPiInv
<1> DEFINE OwnPi(d) == dpc[d] = "connect" /\ dpc'[d] = "up" => file["pi.sock"] = d
<1>3. OwnPiInv /\ [Next]_vars => \A d \in Daemons : OwnPi(d)
  <2> SUFFICES ASSUME OwnPiInv, [Next]_vars, NEW e \in Daemons,
                      dpc[e] = "connect", dpc'[e] = "up"
               PROVE  file["pi.sock"] = e
    OBVIOUS
  <2>1. ConnectPi(e)
    <3> USE DEF OwnPiInv, DirectoryInv, RevivalInv, TypeOK, DaemonGoto
    <3>1. ASSUME NEW c \in Clients, ClientBegin(c) \/ ClientStep(c) \/ CrashClient(c)
          PROVE  FALSE
      BY <3>1
         DEF ClientBegin, BeginSpawn, BeginTargeted, BeginGc, Begin, ClientStep,
             CrashClient, Acquire, WriteLock, Recheck, Unarchive, Reload, Unlock,
             Poll, PollTimeout, Verify, WriteOptions, CheckSeen, Launch, Await,
             Decide, Connect, WaitIdle, Sigterm, WaitClosed, Escalate, WaitGone,
             KillDaemon, Mark, Tombstone, ForceKill, RemoveFile, RemoveDir,
             daemonVars
    <3>2. ASSUME NEW d \in Daemons,
                 \/ DaemonStep(d) \/ Rewrite(d) \/ PiBind(d) \/ PiExit(d)
                 \/ CrashDaemon(d)
          PROVE  ConnectPi(e)
      BY <3>2
         DEF DaemonStep, Classify, ClearSockets, StartPi, WriteRecord, Handoff,
             Listen, ConnectPi, ConnectDeadline, PiExited, FinalRecord,
             UnlinkSockets, AdriftExit, Rewrite, PiBind, PiExit, CrashDaemon
    <3>3. QED
      BY <3>1, <3>2 DEF Next, vars
  <2>2. QED
    BY <2>1
       DEF ConnectPi, Listening, OwnPiInv, NoOrphanPi, DirectoryInv, RevivalInv,
           OneDaemon, PiAlive, Alive
<1>4. QED
  BY <1>1, <1>2, <1>3, PTL DEF Spec, ConnectsOwnPi

-----------------------------------------------------------------------------
(* The status that list shows.                                              *)

\* What Status comes to where there is no tombstone.
StatusOfFiles ==
  IF ~dir THEN "absent"
  ELSE IF file["agent.json"] \notin Daemons THEN "corrupt"
  ELSE IF Alive(file["agent.json"]) THEN "running"
  ELSE IF file["archived"] # Absent THEN "archived"
  ELSE "dormant"

LEMMA StatusIsOfFiles == DirectoryInv => Status = StatusOfFiles
  BY DEF DirectoryInv, Status, HasRecord, RunningRecord, StatusOfFiles

LEMMA InitStatus == Init => Registry!Init
<1> SUFFICES ASSUME Init PROVE Registry!Init
  OBVIOUS
<1>1. ~dir \/ file["agent.json"] \in Daemons
  BY DEF Init, InitAbsent, InitDormant, InitRunning, NoFiles, FileName
<1>2. QED
  BY <1>1, InitDirectory, StatusIsOfFiles DEF Registry!Init, StatusOfFiles

\* A step of a client that is seen in the status is one of the registry's.
LEMMA StatusClient ==
  ASSUME Serialized, DirectoryInv, NEW c \in Clients,
         ClientBegin(c) \/ ClientStep(c) \/ CrashClient(c)
  PROVE  Registry!Next \/ Status' = Status
<1>0. DirectoryInv'
  BY DirectoryClient
<1>1. Status = StatusOfFiles
  BY StatusIsOfFiles
<1>2. Status' = StatusOfFiles'
  BY <1>0 DEF DirectoryInv, Status, HasRecord, RunningRecord, StatusOfFiles
<1>3. CASE BeginSpawn(c)
  <2>1. CASE dir
    BY <1>3, <2>1, <1>1, <1>2
       DEF BeginSpawn, Begin, StatusOfFiles, Alive, DirectoryInv, RevivalInv,
           TypeOK
  <2>2. CASE ~dir
    BY <1>3, <2>2, <1>1, <1>2, NamesAssumption
       DEF BeginSpawn, StatusOfFiles, NoFiles, FileName, Registry!Next,
           Registry!Create
  <2>3. QED
    BY <2>1, <2>2
<1>4. CASE Unarchive(c)
  BY <1>4, <1>1, <1>2, NamesAssumption
     DEF Unarchive, Remove, Put, daemonVars, StatusOfFiles, Alive, FileName,
         DirectoryInv, RevivalInv, TypeOK, Registry!Next, Registry!Unarchive
<1>5. CASE Mark(c)
  BY <1>5, <1>1, <1>2, NamesAssumption
     DEF Mark, Put, daemonVars, StatusOfFiles, Alive, FileName,
         DirectoryInv, RevivalInv, TypeOK, Registry!Next, Registry!Archive
<1>6. CASE KillDaemon(c)
  BY <1>6, <1>1, <1>2
     DEF KillDaemon, DaemonGoto, StatusOfFiles, Alive, DirectoryInv, RevivalInv,
         TypeOK, Registry!Next, Registry!Stop
<1>7. CASE Launch(c)
  <2>1. ASSUME file["agent.json"] \in Daemons
        PROVE  Alive(file["agent.json"]) <=> Alive(file["agent.json"])'
    BY <1>7, <2>1
       DEF Launch, DaemonGoto, Alive, DirectoryInv, RecordIsLaunched, RevivalInv,
           TypeOK
  <2>2. dir' = dir /\ file' = file
    BY <1>7 DEF Launch
  <2>3. QED
    BY <2>1, <2>2, <1>1, <1>2 DEF StatusOfFiles
<1>8. ASSUME dir' = dir, dpc' = dpc, file'["agent.json"] = file["agent.json"],
             file'["archived"] = file["archived"]
      PROVE  Status' = Status
  BY <1>8, <1>1, <1>2 DEF StatusOfFiles, Alive
<1> USE <1>8 DEF Goto, Put, Remove, daemonVars, FileName, DirectoryInv, RevivalInv,
                 TypeOK, StatesOfOps
<1>9. CASE BeginGc(c) \/ \E command \in Commands : BeginTargeted(c, command)
  BY <1>9 DEF BeginGc, BeginTargeted, Begin
<1>10. CASE \/ Acquire(c) \/ WriteLock(c) \/ Unlock(c) \/ CrashClient(c)
            \/ WriteOptions(c)
  BY <1>10 DEF Acquire, WriteLock, Unlock, CrashClient, WriteOptions
<1>11. CASE \/ Recheck(c) \/ Reload(c) \/ Poll(c) \/ PollTimeout(c)
            \/ Verify(c) \/ CheckSeen(c) \/ Await(c)
  BY <1>11 DEF Recheck, Reload, Poll, PollTimeout, Verify, CheckSeen, Await
<1>12. CASE \/ Decide(c) \/ Connect(c) \/ WaitIdle(c) \/ Sigterm(c)
            \/ WaitClosed(c) \/ Escalate(c) \/ WaitGone(c)
  BY <1>12 DEF Decide, Connect, WaitIdle, Sigterm, WaitClosed, Escalate, WaitGone
<1>13. CASE Tombstone(c) \/ ForceKill(c) \/ RemoveFile(c) \/ RemoveDir(c)
  BY <1>13 DEF Tombstone, ForceKill, RemoveFile, RemoveDir
<1>14. QED
  BY <1>3, <1>4, <1>5, <1>6, <1>7, <1>9, <1>10, <1>11, <1>12, <1>13
     DEF ClientBegin, ClientStep

LEMMA StatusDaemon ==
  ASSUME Serialized, DirectoryInv, NEW d \in Daemons,
         \/ DaemonStep(d) \/ Rewrite(d) \/ PiBind(d) \/ PiExit(d)
         \/ CrashDaemon(d)
  PROVE  Registry!Next \/ Status' = Status
<1>0. DirectoryInv'
  BY DirectoryDaemon
<1>1. Status = StatusOfFiles
  BY StatusIsOfFiles
<1>2. Status' = StatusOfFiles'
  BY <1>0 DEF DirectoryInv, Status, HasRecord, RunningRecord, StatusOfFiles
<1> USE <1>1, <1>2
    DEF StatusOfFiles, Alive, DaemonGoto, Put, Remove, clientVars, FileName,
        DirectoryInv, RecordIsLaunched, PiOfDaemon, BeforePi, RevivalInv, TypeOK,
        OneDaemon, AliveIsKnown, Early
\* A death of the daemon in the record; any other death is not seen.
<1>3. ASSUME dir' = dir, file'["agent.json"] = file["agent.json"],
             file'["archived"] = file["archived"],
             dpc' = [dpc EXCEPT ![d] = "dead"], Alive(d)
      PROVE  Registry!Next \/ Status' = Status
  BY <1>3 DEF Registry!Next, Registry!Stop
<1>4. ASSUME dir' = dir, file'["agent.json"] = file["agent.json"],
             file'["archived"] = file["archived"], Alive(d), Alive(d)',
             \A e \in Daemons \ {d} : dpc'[e] = dpc[e]
      PROVE  Status' = Status
  BY <1>4
<1>5. CASE Classify(d) \/ ClearSockets(d) \/ StartPi(d)
  BY <1>3, <1>4, <1>5 DEF Classify, ClearSockets, StartPi
<1>6. CASE WriteRecord(d)
  <2>1. CASE ~dir
    BY <1>6, <2>1 DEF WriteRecord
  <2>2. CASE dir
    <3>1. Status' = "running"
      BY <1>6, <2>2 DEF WriteRecord
    <3>2. QED
      BY <2>2, <3>1 DEF Registry!Next, Registry!Run
  <2>3. QED
    BY <2>1, <2>2
<1>7. CASE Handoff(d) \/ Listen(d)
  BY <1>4, <1>7 DEF Handoff, Listen
<1>8. CASE \/ ConnectPi(d) \/ ConnectDeadline(d) \/ PiExited(d)
           \/ FinalRecord(d)
  BY <1>4, <1>8 DEF ConnectPi, ConnectDeadline, PiExited, FinalRecord
<1>9. CASE UnlinkSockets(d) \/ AdriftExit(d) \/ CrashDaemon(d)
  BY <1>3, <1>9 DEF UnlinkSockets, AdriftExit, CrashDaemon
<1>10. CASE Rewrite(d)
  BY <1>3, <1>4, <1>10 DEF Rewrite
<1>11. CASE PiBind(d) \/ PiExit(d)
  BY <1>11 DEF PiBind, PiExit
<1>12. QED
  BY <1>5, <1>6, <1>7, <1>8, <1>9, <1>10, <1>11 DEF DaemonStep

\* What list, status and gc are shown of an agent (classifyAgentDir) takes only
\* the steps of AgentStatus: the files and processes of one directory implement
\* the registry's lifecycle, whatever is killed.
THEOREM ImplementsLifecycle ==
  ASSUME Serialized
  PROVE  Spec => FollowsLifecycle
<1>1. DirectoryInv /\ [Next]_vars => [Registry!Next]_Status
  <2>1. DirectoryInv /\ UNCHANGED vars => Status' = Status
    BY DEF Status, HasRecord, RunningRecord, Alive, vars
  <2>2. QED
    BY <2>1, StatusClient, StatusDaemon DEF Next
<1>2. QED
  BY DirectoryInvariant, InitStatus, <1>1, PTL
     DEF Spec, FollowsLifecycle, Registry!Spec
=============================================================================
