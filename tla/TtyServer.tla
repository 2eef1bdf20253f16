----------------------------- MODULE TtyServer -----------------------------
(***************************************************************************)
(* The daemon's attach service: TtyServer (core/tty-server.ts) and its      *)
(* hooks, the screen (core/pty-screen.ts) and the agent record and audit   *)
(* trail (core/daemon/tty-service.ts, core/daemon/daemon.ts).              *)
(*                                                                         *)
(* The daemon is one event loop, so a handler is one step and everything   *)
(* that goes wrong does so between handlers: output arrives while a        *)
(* snapshot is being made, sockets close or fail at any time, a shutdown   *)
(* starts in the middle of an attach.                                      *)
(*                                                                         *)
(* pi's output is a numbered stream of chunks.  A screen, the emulator's   *)
(* or an attacher's, is the number of chunks it shows: chunk i on a screen *)
(* that shows i - 1 makes it show i, on any other it garbles the screen.   *)
(* A Connection is one accepted socket and is never used again.            *)
(*                                                                         *)
(* An operator whose name has an underscore is the operator named before   *)
(* it with a bug put in; no specification uses it (README, "Mutants").     *)
(***************************************************************************)
EXTENDS Integers, Sequences

CONSTANTS
  Connections,
  Sizes,        \* the terminal sizes attachers report
  DefaultSize,  \* PTY_COLS and PTY_ROWS
  MaxOutput,    \* bound on the chunks pi writes
  StartupFails, \* the daemon may shut down because its startup failed
  None,         \* no value: undefined, null
  Garbled,      \* a screen that shows anything but a prefix of the output
  Rejected      \* a snapshot that could not be made

Size == [cols : Nat, rows : Nat]

ASSUME SizesAssumption == Sizes \subseteq Size /\ DefaultSize \in Size
ASSUME BoundAssumption == MaxOutput \in Nat /\ StartupFails \in BOOLEAN
ASSUME NamesAssumption ==
  /\ None \notin Nat \cup Size \cup Seq(Nat) \cup {Garbled, Rejected}
  /\ Garbled \notin Nat
  /\ Rejected \notin Nat

VARIABLES
  ptyOpen,     \* pi has not exited
  written,     \* chunks given to the emulator
  parsed,      \* chunks the emulator's screen shows
  barrier,     \* chunks queued ahead of each pending parse barrier
  snapshot,    \* the snapshot each promise of serializeScreen resolved with
  sock,        \* the state of each socket
  clients,     \* TtyServer.clients
  pending,     \* pendingOutput of each client
  hello,       \* which clients have said hello
  size,        \* the size each client reported last
  screen,      \* what the frames sent to each client make its terminal show
  late,        \* the clients written to after their socket was ended
  applied,     \* TtyServer.appliedSize
  ptySize,     \* the size of the PTY and of the emulator
  attachments, \* record.attachments
  audit,       \* how often each client was audited to attach and to detach
  phase,       \* of shutdown
  exitFrame,   \* the exit frame of each client whose promise is pending
  deadline     \* shutdown's timer, flushDeadline

emulatorVars == <<ptyOpen, written, parsed, barrier, snapshot>>
clientVars == <<sock, clients, pending, hello, size, screen, late>>
hookVars == <<applied, ptySize, attachments, audit>>
exitVars == <<phase, exitFrame, deadline>>
vars == <<emulatorVars, clientVars, hookVars, exitVars>>

TypeOK ==
  /\ ptyOpen \in BOOLEAN
  /\ written \in 0 .. MaxOutput
  /\ parsed \in 0 .. written
  /\ barrier \in [Connections -> (0 .. MaxOutput) \cup {None}]
  /\ snapshot \in [Connections -> (0 .. MaxOutput) \cup {None, Rejected}]
  /\ sock \in [Connections -> {"none", "open", "ended", "destroyed", "closed"}]
  /\ clients \subseteq Connections
  /\ pending \in [Connections -> Seq(1 .. MaxOutput) \cup {None}]
  /\ hello \in [Connections -> BOOLEAN]
  /\ size \in [Connections -> Sizes \cup {None}]
  /\ screen \in [Connections -> (0 .. MaxOutput) \cup {None, Garbled}]
  /\ late \subseteq Connections
  /\ applied \in Size \cup {None}
  /\ ptySize \in Size
  /\ attachments \subseteq [client : Connections, size : Sizes \cup {None}]
  /\ audit \in [Connections -> [attach : Nat, detach : Nat]]
  /\ phase \in {"serving", "flushing", "done"}
  /\ exitFrame \in [Connections -> {"none", "moving", "stuck"}]
  /\ deadline \in {"none", "running", "expired"}

shuttingDown == phase # "serving"

Init ==
  /\ ptyOpen = TRUE
  /\ written = 0
  /\ parsed = 0
  /\ barrier = [c \in Connections |-> None]
  /\ snapshot = [c \in Connections |-> None]
  /\ sock = [c \in Connections |-> "none"]
  /\ clients = {}
  /\ pending = [c \in Connections |-> None]
  /\ hello = [c \in Connections |-> FALSE]
  /\ size = [c \in Connections |-> None]
  /\ screen = [c \in Connections |-> None]
  /\ late = {}
  /\ applied = None
  /\ ptySize = DefaultSize
  /\ attachments = {}
  /\ audit = [c \in Connections |-> [attach |-> 0, detach |-> 0]]
  /\ phase = "serving"
  /\ exitFrame = [c \in Connections |-> "none"]
  /\ deadline = "none"

-----------------------------------------------------------------------------
(* What the handlers are made of.                                           *)

Least(S) == CHOOSE m \in S : \A n \in S : m <= n

\* The sizes that count: those of the members that have reported one.
Reported(members, sizes) == {sizes[c] : c \in members} \ {None}

MinSize(reported) == [cols |-> Least({s.cols : s \in reported}),
                      rows |-> Least({s.rows : s \in reported})]

\* applyMinSize: the elementwise minimum, kept when nobody reports a size, and
\* handed on only when it is another than the last one.
ApplyMinSize(members, sizes) ==
  LET reported == Reported(members, sizes) IN
  IF reported = {} \/ applied = MinSize(reported)
  THEN UNCHANGED <<applied, ptySize>>
  ELSE applied' = MinSize(reported) /\ ptySize' = MinSize(reported)

\* attachmentsSnapshot
AttachmentsSnapshot(members, helloed, sizes) ==
  {[client |-> c, size |-> sizes[c]] : c \in {m \in members : helloed[m]}}

Audit(c, event) == audit' = [audit EXCEPT ![c][event] = @ + 1]

\* dropClient, without what it does to the socket.
DropClient_NoRecompute(c) ==
  IF shuttingDown THEN UNCHANGED <<clients, hookVars>>
  ELSE /\ clients' = clients \ {c}
       /\ UNCHANGED <<applied, ptySize>>
       /\ IF c \in clients /\ hello[c]
          THEN /\ Audit(c, "detach")
               /\ attachments' = AttachmentsSnapshot(clients', hello, size)
          ELSE UNCHANGED <<audit, attachments>>
DropClient_Again(c) ==
  IF shuttingDown THEN UNCHANGED <<clients, hookVars>>
  ELSE /\ clients' = clients \ {c}
       /\ ApplyMinSize(clients', size)
       /\ IF hello[c]
          THEN /\ Audit(c, "detach")
               /\ attachments' = AttachmentsSnapshot(clients', hello, size)
          ELSE UNCHANGED <<audit, attachments>>
DropClient_InShutdown(c) ==
  /\ clients' = clients \ {c}
  /\ ApplyMinSize(clients', size)
  /\ IF c \in clients /\ hello[c]
     THEN /\ Audit(c, "detach")
          /\ attachments' = AttachmentsSnapshot(clients', hello, size)
     ELSE UNCHANGED <<audit, attachments>>
DropClient(c) ==
  IF shuttingDown THEN UNCHANGED <<clients, hookVars>>
  ELSE /\ clients' = clients \ {c}
       /\ ApplyMinSize(clients', size)
       /\ IF c \in clients /\ hello[c]
          THEN /\ Audit(c, "detach")
               /\ attachments' = AttachmentsSnapshot(clients', hello, size)
          ELSE UNCHANGED <<audit, attachments>>

Show(shown, chunk) ==
  IF shown # None /\ shown # Garbled /\ chunk = shown + 1
  THEN chunk ELSE Garbled

\* A snapshot, and after it every payload that waited for it.
ShowAll(shown, payloads) ==
  IF \A i \in 1 .. Len(payloads) : payloads[i] = shown + i
  THEN shown + Len(payloads) ELSE Garbled

-----------------------------------------------------------------------------
(* pi's output.                                                             *)

\* A socket that has flushed its exit frame, or fails or closes before, calls the
\* callback of its end: the promise is resolved.
Resolve(S) ==
  exitFrame' = [c \in Connections |-> IF c \in S THEN "none" ELSE exitFrame[c]]

\* socket.write.  After socket.end it fails the socket.
Write(receivers) ==
  LET ended == {c \in receivers : sock[c] = "ended"} IN
  /\ late' = late \cup ended
  /\ Resolve(ended)
  /\ sock' = [c \in Connections |->
                IF c \in ended THEN "destroyed" ELSE sock[c]]

\* broadcastOutput
Buffering(c) == c \in clients /\ pending[c] # None

Broadcast_Direct(chunk) ==
  /\ Write(clients)
  /\ screen' = [c \in Connections |->
                  IF c \in clients /\ sock[c] = "open"
                  THEN Show(screen[c], chunk) ELSE screen[c]]
  /\ UNCHANGED pending
Broadcast(chunk) ==
  LET relayed == {c \in clients : pending[c] = None} IN
  /\ Write(relayed)
  /\ screen' = [c \in Connections |->
                  IF c \in relayed /\ sock[c] = "open"
                  THEN Show(screen[c], chunk) ELSE screen[c]]
  /\ pending' = [c \in Connections |->
                   IF Buffering(c) THEN Append(pending[c], chunk)
                   ELSE pending[c]]

\* process.onData: the emulator first, then the listener.
PtyData ==
  /\ ptyOpen
  /\ written < MaxOutput
  /\ written' = written + 1
  /\ Broadcast(written')
  /\ UNCHANGED <<ptyOpen, parsed, barrier, snapshot, clients, hello, size,
                 hookVars, phase, deadline>>

\* pi exits, its output drained.
PtyClose ==
  /\ ptyOpen
  /\ ptyOpen' = FALSE
  /\ UNCHANGED <<written, parsed, barrier, snapshot, clientVars, hookVars,
                 exitVars>>

\* The emulator works its queue off: a chunk, once every barrier before it has
\* been called back.
Parse ==
  /\ parsed < written
  /\ \A c \in Connections : barrier[c] # parsed
  /\ parsed' = parsed + 1
  /\ UNCHANGED <<ptyOpen, written, barrier, snapshot, clientVars, hookVars,
                 exitVars>>

\* The callback of a barrier serializes the screen there and then; who waits
\* for the promise learns of it later.
Serialize(c) ==
  /\ barrier[c] = parsed
  /\ barrier' = [barrier EXCEPT ![c] = None]
  /\ snapshot' = [snapshot EXCEPT ![c] = parsed]
  /\ UNCHANGED <<ptyOpen, written, parsed, clientVars, hookVars, exitVars>>

-----------------------------------------------------------------------------
(* Attachers.                                                               *)

\* handleConnection: the client is in the set, and buffering, before the
\* snapshot's barrier is queued; the emulator refuses the barrier when too much
\* is queued already.
Connect(c) ==
  /\ sock[c] = "none"
  /\ IF shuttingDown
     THEN /\ sock' = [sock EXCEPT ![c] = "destroyed"]
          /\ UNCHANGED <<clients, pending, barrier, snapshot>>
     ELSE /\ sock' = [sock EXCEPT ![c] = "open"]
          /\ clients' = clients \cup {c}
          /\ pending' = [pending EXCEPT ![c] = <<>>]
          /\ \/ /\ barrier' = [barrier EXCEPT ![c] = written]
                /\ UNCHANGED snapshot
             \/ /\ snapshot' = [snapshot EXCEPT ![c] = Rejected]
                /\ UNCHANGED barrier
  /\ UNCHANGED <<ptyOpen, written, parsed, hello, size, screen, late,
                 hookVars, exitVars>>

\* socket.destroyed
Destroyed(c) == sock[c] \in {"destroyed", "closed"}

\* serializeScreen().then(...)
Deliver_Reserializes(c) ==
  /\ snapshot[c] \notin {None, Rejected}
  /\ snapshot' = [snapshot EXCEPT ![c] = None]
  /\ IF pending[c] = None \/ Destroyed(c) \/ shuttingDown
     THEN UNCHANGED <<screen, pending, sock, late, exitFrame>>
     ELSE /\ Write({c})
          /\ screen' = IF sock[c] = "open"
                       THEN [screen EXCEPT ![c] = ShowAll(parsed, pending[c])]
                       ELSE screen
          /\ pending' = [pending EXCEPT ![c] = None]
  /\ UNCHANGED <<ptyOpen, written, parsed, barrier, clients, hello, size,
                 hookVars, phase, deadline>>
Deliver_Regardless(c) ==
  /\ snapshot[c] \notin {None, Rejected}
  /\ snapshot' = [snapshot EXCEPT ![c] = None]
  /\ IF pending[c] = None \/ Destroyed(c)
     THEN UNCHANGED <<screen, pending, sock, late, exitFrame>>
     ELSE /\ Write({c})
          /\ screen' = IF sock[c] = "open"
                       THEN [screen EXCEPT ![c] = ShowAll(snapshot[c], pending[c])]
                       ELSE screen
          /\ pending' = [pending EXCEPT ![c] = None]
  /\ UNCHANGED <<ptyOpen, written, parsed, barrier, clients, hello, size,
                 hookVars, phase, deadline>>
Deliver(c) ==
  /\ snapshot[c] \notin {None, Rejected}
  /\ snapshot' = [snapshot EXCEPT ![c] = None]
  /\ IF pending[c] = None \/ Destroyed(c) \/ shuttingDown
     THEN UNCHANGED <<screen, pending, sock, late, exitFrame>>
     ELSE /\ Write({c})
          /\ screen' = IF sock[c] = "open"
                       THEN [screen EXCEPT ![c] = ShowAll(snapshot[c], pending[c])]
                       ELSE screen
          /\ pending' = [pending EXCEPT ![c] = None]
  /\ UNCHANGED <<ptyOpen, written, parsed, barrier, clients, hello, size,
                 hookVars, phase, deadline>>

\* The same promise rejects: () => dropClient().
SnapshotFailed_Ignored(c) ==
  /\ snapshot[c] = Rejected
  /\ snapshot' = [snapshot EXCEPT ![c] = None]
  /\ UNCHANGED <<ptyOpen, written, parsed, barrier, clientVars, hookVars,
                 exitVars>>
SnapshotFailed(c) ==
  /\ snapshot[c] = Rejected
  /\ snapshot' = [snapshot EXCEPT ![c] = None]
  /\ DropClient(c)
  /\ sock' = IF sock[c] = "open" /\ ~shuttingDown
             THEN [sock EXCEPT ![c] = "destroyed"] ELSE sock
  /\ UNCHANGED <<ptyOpen, written, parsed, barrier, pending, hello, size,
                 screen, late, exitVars>>

\* The data handler looks at frames of a socket that nobody has destroyed.
Receiving(c) == sock[c] = "open" /\ ~shuttingDown

Hello(c) ==
  /\ Receiving(c)
  /\ ~hello[c]
  /\ hello' = [hello EXCEPT ![c] = TRUE]
  /\ Audit(c, "attach")
  /\ attachments' = AttachmentsSnapshot(clients, hello', size)
  /\ UNCHANGED <<emulatorVars, sock, clients, pending, size, screen, late,
                 applied, ptySize, exitVars>>

Resize_Unreported(c, s) ==
  /\ Receiving(c)
  /\ hello[c]
  /\ size' = [size EXCEPT ![c] = s]
  /\ ApplyMinSize(clients, size')
  /\ UNCHANGED <<emulatorVars, sock, clients, pending, hello, screen, late,
                 attachments, audit, exitVars>>
Resize(c, s) ==
  /\ Receiving(c)
  /\ hello[c]
  /\ size' = [size EXCEPT ![c] = s]
  /\ ApplyMinSize(clients, size')
  /\ attachments' = AttachmentsSnapshot(clients, hello, size')
  /\ UNCHANGED <<emulatorVars, sock, clients, pending, hello, screen, late,
                 audit, exitVars>>

\* A malformed frame, a second hello, or input or a resize before the first.
Violation(c) ==
  /\ Receiving(c)
  /\ DropClient(c)
  /\ sock' = [sock EXCEPT ![c] = "destroyed"]
  /\ UNCHANGED <<emulatorVars, pending, hello, size, screen, late, exitVars>>

\* 'error' and 'close': either may come alone, and an error brings a close.
SocketError(c) ==
  /\ sock[c] \in {"open", "ended"}
  /\ DropClient(c)
  /\ sock' = [sock EXCEPT ![c] = "destroyed"]
  /\ Resolve({c})
  /\ UNCHANGED <<emulatorVars, pending, hello, size, screen, late, phase,
                 deadline>>

SocketClose(c) ==
  /\ sock[c] \in {"open", "ended", "destroyed"}
  /\ DropClient(c)
  /\ sock' = [sock EXCEPT ![c] = "closed"]
  /\ Resolve({c})
  /\ UNCHANGED <<emulatorVars, pending, hello, size, screen, late, phase,
                 deadline>>

-----------------------------------------------------------------------------
(* shutdown, called once: by cleanupAndExit or by a failed startTtyService.  *)

\* socket.end for every client, and the timer.  A frame is stuck if its client
\* will not have read as far when a second has passed: because it has stopped
\* reading, or reads too slowly.  Which are is settled here, for good.
Shutdown ==
  /\ ~shuttingDown
  /\ ~ptyOpen \/ StartupFails
  /\ phase' = "flushing"
  /\ sock' = [c \in Connections |->
                IF c \in clients /\ sock[c] = "open" THEN "ended" ELSE sock[c]]
  /\ \E deaf \in SUBSET clients :
       exitFrame' = [c \in Connections |->
                       IF c \in deaf THEN "stuck"
                       ELSE IF c \in clients THEN "moving" ELSE "none"]
  /\ deadline' = "running"
  /\ UNCHANGED <<emulatorVars, clients, pending, hello, size, screen, late,
                 hookVars>>

\* The client has read everything up to its exit frame.
ExitFlushed(c) ==
  /\ exitFrame[c] = "moving"
  /\ Resolve({c})
  /\ UNCHANGED <<emulatorVars, clientVars, hookVars, phase, deadline>>

Flushing == {c \in Connections : exitFrame[c] # "none"}

\* A second has passed and the race is still open: what moves has arrived.
DeadlineExpires ==
  /\ deadline = "running"
  /\ Flushing # {}
  /\ \A c \in Flushing : exitFrame[c] = "stuck"
  /\ deadline' = "expired"
  /\ UNCHANGED <<emulatorVars, clientVars, hookVars, phase, exitFrame>>

\* The flushes or the timer have won the race: the sockets left are destroyed,
\* and cleanupAndExit clears record.attachments.  exitFrame stays as it was when
\* the race was decided; nobody waits for those promises any more.
ShutdownDone_NoDeadline ==
  /\ phase = "flushing"
  /\ Flushing = {}
  /\ phase' = "done"
  /\ deadline' = "none"
  /\ sock' = [c \in Connections |->
                IF c \in clients /\ sock[c] = "ended" THEN "destroyed"
                ELSE sock[c]]
  /\ clients' = {}
  /\ attachments' = {}
  /\ UNCHANGED <<emulatorVars, pending, hello, size, screen, late, applied,
                 ptySize, audit, exitFrame>>
ShutdownDone ==
  /\ phase = "flushing"
  /\ Flushing = {} \/ deadline = "expired"
  /\ phase' = "done"
  /\ deadline' = "none"
  /\ sock' = [c \in Connections |->
                IF c \in clients /\ sock[c] = "ended" THEN "destroyed"
                ELSE sock[c]]
  /\ clients' = {}
  /\ attachments' = {}
  /\ UNCHANGED <<emulatorVars, pending, hello, size, screen, late, applied,
                 ptySize, audit, exitFrame>>

-----------------------------------------------------------------------------
EmulatorStep == Parse \/ \E c \in Connections : Serialize(c)

PromiseStep(c) == Deliver(c) \/ SnapshotFailed(c)

Next ==
  \/ PtyData \/ PtyClose \/ EmulatorStep
  \/ Shutdown \/ DeadlineExpires \/ ShutdownDone
  \/ \E c \in Connections :
       \/ Connect(c) \/ PromiseStep(c) \/ Hello(c) \/ Violation(c)
       \/ SocketError(c) \/ SocketClose(c) \/ ExitFlushed(c)
       \/ \E s \in Sizes : Resize(c, s)

Spec == Init /\ [][Next]_vars

\* The event loop comes round: the emulator works its queue off, promises are
\* settled and the timer of the exit handshake expires.  An exit frame
\* that moves arrives; a stuck one may never do.
Fairness ==
  /\ WF_vars(EmulatorStep)
  /\ \A c \in Connections : WF_vars(PromiseStep(c)) /\ WF_vars(ExitFlushed(c))
  /\ WF_vars(DeadlineExpires)
  /\ WF_vars(ShutdownDone)

FairSpec == Spec /\ Fairness

-----------------------------------------------------------------------------
(* Safety.                                                                  *)

\* An attacher's terminal shows a prefix of pi's output, and all of it as soon
\* as it is no longer waiting for its snapshot: attaching under heavy streaming
\* neither drops nor repeats a chunk (TtyServerHooks.serializeScreen).
ExactView ==
  \A c \in Connections :
    /\ screen[c] # Garbled
    /\ c \in clients /\ pending[c] = None /\ ~shuttingDown
         => screen[c] = written

\* Attaching looks atomic: the screen of the moment, then the stream.
Stream ==
  INSTANCE AttachStream WITH produced <- written, shown <- screen
FollowsStream == Stream!Spec

\* The PTY has the elementwise minimum of the sizes of those attached, whoever
\* came, went or resized, in whatever order.
MinSizeApplied ==
  LET reported == Reported(clients, size) IN
  ~shuttingDown /\ reported # {} => ptySize = MinSize(reported)

\* The record lists the attached clients as they are now, until the shutdown
\* empties the list for good.
AttachmentsCurrent ==
  /\ ~shuttingDown => attachments = AttachmentsSnapshot(clients, hello, size)
  /\ phase = "done" => attachments = {}

\* The audit trail has one attach for each client that said hello, and one
\* detach once it has gone, although close and error both report it.
AuditPaired ==
  \A c \in Connections :
    /\ audit[c].attach = IF hello[c] THEN 1 ELSE 0
    /\ audit[c].detach <= audit[c].attach
    /\ ~shuttingDown =>
         (audit[c].detach < audit[c].attach <=> c \in clients /\ hello[c])

\* Once a shutdown has begun no socket event reaches the record or the audit
\* trail: the daemon's last write of the record is final (cleanupAndExit).
HookSilent ==
  [][shuttingDown =>
       /\ audit' = audit
       /\ attachments' # attachments
            => attachments' = {} /\ phase' = "done"]_vars

\* Nothing is written to a socket after the exit frame that ended it.
NothingAfterExit == late = {}

-----------------------------------------------------------------------------
(* Liveness.                                                                *)

\* No client buffers output for ever: it gets its snapshot, or is dropped.
Served ==
  \A c \in Connections : Buffering(c) ~> ~Buffering(c)

\* The exit handshake ends, although clients may have stopped reading for good
\* and others fail in the middle of it, and it cuts no reader off: when it ends
\* every exit frame on its way to one that reads has arrived (shutdown's race).
ShutdownEnds ==
  phase = "flushing"
    ~> phase = "done" /\ \A c \in Connections : exitFrame[c] # "moving"
=============================================================================
