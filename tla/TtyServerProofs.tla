-------------------------- MODULE TtyServerProofs --------------------------
(***************************************************************************)
(* However many attachers come and go, and wherever a snapshot, a burst of *)
(* output, a failing socket and a shutdown interleave: an attacher sees    *)
(* pi's output exactly (TtyServer implements AttachStream), and the PTY,   *)
(* the record and the audit trail agree with who is attached.              *)
(***************************************************************************)
EXTENDS TtyServer, SequenceTheorems, WellFoundedInduction, TLAPS

-----------------------------------------------------------------------------
(* Minimal sizes.                                                           *)

LEMMA LeastExists ==
  ASSUME NEW S, S \subseteq Nat, S # {}
  PROVE  Least(S) \in S
<1> DEFINE R == {p \in Nat \X Nat : p[1] < p[2]}
<1>1. IsWellFoundedOn(R, Nat)
  BY NatLessThanWellFounded, Zenon DEF OpToRel
<1>2. PICK m \in S : \A n \in S : <<n, m>> \notin R
  <2> HIDE DEF R
  <2> QED BY <1>1, WFMin
<1>3. \A n \in S : ~(n < m)
  BY <1>2
<1>4. \E x \in S : \A n \in S : x <= n
  BY <1>3
<1>5. QED
  BY <1>4 DEF Least

LEMMA MinSizeType ==
  ASSUME NEW reported, reported \subseteq Size, reported # {}
  PROVE  MinSize(reported) \in Size
<1> DEFINE allCols == {s.cols : s \in reported}
           allRows == {s.rows : s \in reported}
<1>1. /\ allCols \subseteq Nat /\ allCols # {}
      /\ allRows \subseteq Nat /\ allRows # {}
  BY DEF Size
<1>2. Least(allCols) \in Nat /\ Least(allRows) \in Nat
  <2> HIDE DEF allCols, allRows
  <2> QED BY <1>1, LeastExists
<1>3. QED
  BY <1>2 DEF MinSize, Size

LEMMA ReportedType ==
  ASSUME NEW members, members \subseteq Connections,
         NEW sizes \in [Connections -> Sizes \cup {None}]
  PROVE  Reported(members, sizes) \subseteq Size
  BY SizesAssumption DEF Reported

LEMMA ApplyMinSizeType ==
  ASSUME NEW members, members \subseteq Connections,
         NEW sizes \in [Connections -> Sizes \cup {None}],
         applied \in Size \cup {None}, ptySize \in Size,
         ApplyMinSize(members, sizes)
  PROVE  applied' \in Size \cup {None} /\ ptySize' \in Size
<1>1. Reported(members, sizes) \subseteq Size
  BY ReportedType
<1>2. Reported(members, sizes) # {}
        => MinSize(Reported(members, sizes)) \in Size
  BY <1>1, MinSizeType
<1>3. QED
  BY <1>2 DEF ApplyMinSize

-----------------------------------------------------------------------------
(* Type correctness.                                                        *)

LEMMA InitType == Init => TypeOK
  BY SizesAssumption, BoundAssumption DEF Init, TypeOK

LEMMA AuditType ==
  ASSUME NEW c \in Connections, NEW event \in {"attach", "detach"},
         audit \in [Connections -> [attach : Nat, detach : Nat]],
         Audit(c, event)
  PROVE  audit' \in [Connections -> [attach : Nat, detach : Nat]]
  BY DEF Audit

LEMMA SnapshotType ==
  ASSUME NEW members, members \subseteq Connections,
         NEW helloed \in [Connections -> BOOLEAN],
         NEW sizes \in [Connections -> Sizes \cup {None}]
  PROVE  AttachmentsSnapshot(members, helloed, sizes)
           \subseteq [client : Connections, size : Sizes \cup {None}]
  BY DEF AttachmentsSnapshot

LEMMA DropType ==
  ASSUME TypeOK, NEW c \in Connections, DropClient(c)
  PROVE  /\ clients' \subseteq Connections
         /\ applied' \in Size \cup {None}
         /\ ptySize' \in Size
         /\ attachments' \subseteq [client : Connections,
                                    size : Sizes \cup {None}]
         /\ audit' \in [Connections -> [attach : Nat, detach : Nat]]
<1>1. CASE shuttingDown
  BY <1>1 DEF DropClient, TypeOK, hookVars, exitVars
<1>2. CASE ~shuttingDown
  <2>1. clients' = clients \ {c} /\ ApplyMinSize(clients', size)
    BY <1>2 DEF DropClient
  <2>2. clients' \subseteq Connections
    BY <2>1 DEF TypeOK
  <2>3. applied' \in Size \cup {None} /\ ptySize' \in Size
    BY <2>1, <2>2, ApplyMinSizeType DEF TypeOK
  <2>4. attachments' \subseteq [client : Connections, size : Sizes \cup {None}]
    <3>1. AttachmentsSnapshot(clients', hello, size)
            \subseteq [client : Connections, size : Sizes \cup {None}]
      BY <2>2, SnapshotType DEF TypeOK
    <3>2. QED
      BY <1>2, <3>1 DEF DropClient, TypeOK
  <2>5. audit' \in [Connections -> [attach : Nat, detach : Nat]]
    BY <1>2, AuditType DEF DropClient, TypeOK
  <2>6. QED
    BY <2>2, <2>3, <2>4, <2>5
<1>3. QED
  BY <1>1, <1>2

LEMMA OutputType ==
  ASSUME TypeOK, PtyData
  PROVE  TypeOK'
<1>1. written' = written + 1 /\ written' \in 1 .. MaxOutput
  BY BoundAssumption DEF PtyData, TypeOK
<1>2. pending' \in [Connections -> Seq(1 .. MaxOutput) \cup {None}]
  BY <1>1 DEF PtyData, Broadcast, Buffering, TypeOK
<1>3. screen' \in [Connections -> (0 .. MaxOutput) \cup {None, Garbled}]
  BY <1>1 DEF PtyData, Broadcast, Show, TypeOK
<1>4. /\ sock' \in [Connections ->
                     {"none", "open", "ended", "destroyed", "closed"}]
      /\ late' \subseteq Connections
      /\ exitFrame' \in [Connections -> {"none", "moving", "stuck"}]
  BY DEF PtyData, Broadcast, Write, Resolve, TypeOK
<1>5. QED
  BY <1>1, <1>2, <1>3, <1>4 DEF PtyData, TypeOK, hookVars, exitVars

LEMMA ShowAllType ==
  ASSUME NEW shown \in 0 .. MaxOutput, NEW payloads \in Seq(1 .. MaxOutput)
  PROVE  ShowAll(shown, payloads) \in (0 .. MaxOutput) \cup {Garbled}
<1>1. CASE /\ payloads # <<>>
           /\ \A i \in 1 .. Len(payloads) : payloads[i] = shown + i
  <2>1. Len(payloads) \in 1 .. Len(payloads)
    BY <1>1
  <2>2. payloads[Len(payloads)] = shown + Len(payloads)
    BY <1>1, <2>1
  <2>3. payloads[Len(payloads)] \in 1 .. MaxOutput
    BY <2>1, ElementOfSeq
  <2>4. QED
    BY <1>1, <2>1, <2>2, <2>3, BoundAssumption DEF ShowAll
<1>2. CASE payloads = <<>>
  BY <1>2, BoundAssumption DEF ShowAll
<1>3. CASE ~\A i \in 1 .. Len(payloads) : payloads[i] = shown + i
  BY <1>3 DEF ShowAll
<1>4. QED
  BY <1>1, <1>2, <1>3

LEMMA ConnectionType ==
  ASSUME TypeOK, NEW c \in Connections,
         \/ Connect(c) \/ PromiseStep(c) \/ Hello(c) \/ Violation(c)
         \/ SocketError(c) \/ SocketClose(c) \/ ExitFlushed(c)
         \/ \E s \in Sizes : Resize(c, s)
  PROVE  TypeOK'
<1>1. CASE Connect(c)
  <2>1. /\ barrier' \in [Connections -> (0 .. MaxOutput) \cup {None}]
        /\ snapshot' \in [Connections -> (0 .. MaxOutput) \cup {None, Rejected}]
    <3>1. \/ barrier' = barrier \/ barrier' = [barrier EXCEPT ![c] = written]
      BY <1>1, Zenon DEF Connect
    <3>2. \/ snapshot' = snapshot
          \/ snapshot' = [snapshot EXCEPT ![c] = Rejected]
      BY <1>1, Zenon DEF Connect
    <3>3. written \in 0 .. MaxOutput
      BY BoundAssumption DEF TypeOK
    <3>4. barrier' \in [Connections -> (0 .. MaxOutput) \cup {None}]
      BY <3>1, <3>3 DEF TypeOK
    <3>5. snapshot' \in [Connections -> (0 .. MaxOutput) \cup {None, Rejected}]
      BY <3>2 DEF TypeOK
    <3>6. QED
      BY <3>4, <3>5
  <2>2. /\ clients' \subseteq Connections
        /\ sock' \in [Connections ->
                       {"none", "open", "ended", "destroyed", "closed"}]
    <3>1. clients' = clients \/ clients' = clients \cup {c}
      BY <1>1, Zenon DEF Connect
    <3>2. \/ sock' = [sock EXCEPT ![c] = "destroyed"]
          \/ sock' = [sock EXCEPT ![c] = "open"]
      BY <1>1, Zenon DEF Connect
    <3>3. QED
      BY <3>1, <3>2 DEF TypeOK
  <2>3. pending' \in [Connections -> Seq(1 .. MaxOutput) \cup {None}]
    <3>1. <<>> \in Seq(1 .. MaxOutput)
      OBVIOUS
    <3>2. QED
      BY <1>1, <3>1 DEF Connect, TypeOK
  <2>4. QED
    BY <1>1, <2>1, <2>2, <2>3 DEF Connect, TypeOK, hookVars, exitVars
<1>2. CASE Deliver(c)
  <2>1. snapshot' \in [Connections -> (0 .. MaxOutput) \cup {None, Rejected}]
    BY <1>2 DEF Deliver, TypeOK
  <2>2. pending' \in [Connections -> Seq(1 .. MaxOutput) \cup {None}]
    BY <1>2 DEF Deliver, TypeOK
  <2>3. screen' \in [Connections -> (0 .. MaxOutput) \cup {None, Garbled}]
    <3>1. CASE UNCHANGED screen
      BY <3>1 DEF TypeOK
    <3>2. CASE /\ pending[c] # None /\ sock[c] = "open"
               /\ screen' = [screen EXCEPT
                               ![c] = ShowAll(snapshot[c], pending[c])]
      <4>1. /\ pending[c] \in Seq(1 .. MaxOutput)
            /\ snapshot[c] \in 0 .. MaxOutput
        BY <1>2, <3>2 DEF Deliver, TypeOK
      <4>2. ShowAll(snapshot[c], pending[c]) \in (0 .. MaxOutput) \cup {Garbled}
        BY <4>1, ShowAllType
      <4>3. QED
        BY <3>2, <4>2 DEF TypeOK
    <3>3. QED
      BY <1>2, <3>1, <3>2 DEF Deliver
  <2>4. /\ sock' \in [Connections ->
                       {"none", "open", "ended", "destroyed", "closed"}]
        /\ late' \subseteq Connections
        /\ exitFrame' \in [Connections -> {"none", "moving", "stuck"}]
    BY <1>2 DEF Deliver, Write, Resolve, TypeOK
  <2>5. QED
    BY <1>2, <2>1, <2>2, <2>3, <2>4 DEF Deliver, TypeOK, hookVars, exitVars
<1>3. CASE SnapshotFailed(c)
  BY <1>3, DropType DEF SnapshotFailed, TypeOK, exitVars
<1>4. CASE Hello(c)
  <2>1. hello' \in [Connections -> BOOLEAN]
    BY <1>4 DEF Hello, TypeOK
  <2>2. attachments' \subseteq [client : Connections, size : Sizes \cup {None}]
    BY <1>4, <2>1, SnapshotType DEF Hello, TypeOK
  <2>3. audit' \in [Connections -> [attach : Nat, detach : Nat]]
    BY <1>4, AuditType DEF Hello, TypeOK
  <2>4. QED
    BY <1>4, <2>1, <2>2, <2>3 DEF Hello, TypeOK, emulatorVars, exitVars
<1>5. CASE \E s \in Sizes : Resize(c, s)
  <2>1. PICK s \in Sizes : Resize(c, s)
    BY <1>5
  <2>2. size' \in [Connections -> Sizes \cup {None}]
    BY <2>1 DEF Resize, TypeOK
  <2>3. applied' \in Size \cup {None} /\ ptySize' \in Size
    BY <2>1, <2>2, ApplyMinSizeType DEF Resize, TypeOK
  <2>4. attachments' \subseteq [client : Connections, size : Sizes \cup {None}]
    BY <2>1, <2>2, SnapshotType DEF Resize, TypeOK
  <2>5. QED
    BY <2>1, <2>2, <2>3, <2>4 DEF Resize, TypeOK, emulatorVars, exitVars
<1>6. CASE Violation(c) \/ SocketError(c) \/ SocketClose(c)
  <2>1. sock' \in [Connections ->
                    {"none", "open", "ended", "destroyed", "closed"}]
    BY <1>6 DEF Violation, SocketError, SocketClose, TypeOK
  <2>2. DropClient(c)
    BY <1>6 DEF Violation, SocketError, SocketClose
  <2>3. exitFrame' \in [Connections -> {"none", "moving", "stuck"}]
    BY <1>6 DEF Violation, SocketError, SocketClose, Resolve, TypeOK, exitVars
  <2>4. QED
    BY <1>6, <2>1, <2>2, <2>3, DropType
       DEF Violation, SocketError, SocketClose, TypeOK, emulatorVars, exitVars
<1>7. CASE ExitFlushed(c)
  BY <1>7 DEF ExitFlushed, Resolve, TypeOK, emulatorVars, clientVars, hookVars
<1>8. QED
  BY <1>1, <1>2, <1>3, <1>4, <1>5, <1>6, <1>7 DEF PromiseStep

LEMMA ServerType ==
  ASSUME TypeOK,
         PtyClose \/ EmulatorStep \/ Shutdown \/ DeadlineExpires \/ ShutdownDone
  PROVE  TypeOK'
<1>1. CASE PtyClose
  BY <1>1 DEF PtyClose, TypeOK, clientVars, hookVars, exitVars
<1>2. CASE Parse
  BY <1>2, BoundAssumption DEF Parse, TypeOK, clientVars, hookVars, exitVars
<1>5. CASE \E c \in Connections : Serialize(c)
  BY <1>5, BoundAssumption DEF Serialize, TypeOK, clientVars, hookVars, exitVars
<1>3. CASE Shutdown \/ ShutdownDone \/ DeadlineExpires
  BY <1>3
     DEF Shutdown, ShutdownDone, DeadlineExpires, TypeOK, emulatorVars,
         clientVars, hookVars, exitVars
<1>4. QED
  BY <1>1, <1>2, <1>3, <1>5 DEF EmulatorStep

LEMMA NextType == TypeOK /\ [Next]_vars => TypeOK'
<1>1. TypeOK /\ UNCHANGED vars => TypeOK'
  BY DEF TypeOK, vars, emulatorVars, clientVars, hookVars, exitVars
<1>2. QED
  BY <1>1, OutputType, ConnectionType, ServerType DEF Next

\* Every socket, buffer and screen is always in a state the code knows, and
\* the PTY always has a size.
THEOREM TypeCorrect == Spec => []TypeOK
  BY InitType, NextType, PTL DEF Spec

-----------------------------------------------------------------------------
(* The view of an attacher.                                                 *)

\* The clients are the open sockets, until a shutdown ends them all.
Members ==
  /\ ~shuttingDown =>
       /\ clients = {c \in Connections : sock[c] = "open"}
       /\ \A c \in Connections : sock[c] # "ended"
  /\ shuttingDown => \A c \in Connections : sock[c] # "open"

Unused ==
  \A c \in Connections : sock[c] = "none" =>
    /\ c \notin clients
    /\ pending[c] = None
    /\ barrier[c] = None
    /\ snapshot[c] = None
    /\ screen[c] = None

\* The payloads are what a screen that shows n chunks still lacks.
Lacks(n, payloads) ==
  /\ n + Len(payloads) = written
  /\ \A i \in 1 .. Len(payloads) : payloads[i] = n + i

\* A barrier still has its chunks ahead of it, and the snapshot to come.
BarrierAhead ==
  \A c \in Connections :
    barrier[c] # None => parsed <= barrier[c] /\ snapshot[c] = None

\* The buffer goes on where the snapshot, made or to be made, ends.
BufferContinues ==
  \A c \in clients : ~shuttingDown /\ pending[c] # None =>
    /\ screen[c] = None
    /\ barrier[c] # None => Lacks(barrier[c], pending[c])
    /\ snapshot[c] \notin {None, Rejected} => Lacks(snapshot[c], pending[c])

ViewInv ==
  TypeOK /\ Members /\ Unused /\ BarrierAhead /\ BufferContinues /\ ExactView

LEMMA BufferIsNotNone == None \notin Seq(1 .. MaxOutput)
<1>1. ASSUME NEW p \in Seq(1 .. MaxOutput) PROVE p \in Seq(Nat)
  BY BoundAssumption
<1>2. QED
  BY <1>1, NamesAssumption

LEMMA InitView == Init => ViewInv
  BY InitType, NamesAssumption
     DEF Init, ViewInv, Members, Unused, BarrierAhead, BufferContinues,
         ExactView, shuttingDown

LEMMA DropMembers ==
  ASSUME NEW c \in Connections, DropClient(c)
  PROVE  clients' = IF shuttingDown THEN clients ELSE clients \ {c}
  BY DEF DropClient

viewVars == <<written, parsed, barrier, snapshot, sock, clients, pending,
              screen, phase>>

LEMMA ViewUntouched ==
  ASSUME ViewInv, TypeOK', UNCHANGED viewVars
  PROVE  ViewInv'
<1> USE DEF viewVars
<1>1. Members' /\ Unused' /\ BarrierAhead'
  BY DEF ViewInv, Members, Unused, BarrierAhead, shuttingDown
<1>2. BufferContinues'
  BY DEF ViewInv, BufferContinues, Lacks, shuttingDown
<1>3. ExactView'
  BY DEF ViewInv, ExactView, shuttingDown
<1>4. QED
  BY <1>1, <1>2, <1>3 DEF ViewInv

LEMMA NextView == ViewInv /\ [Next]_vars => ViewInv'
<1> SUFFICES ASSUME ViewInv, [Next]_vars PROVE ViewInv'
  OBVIOUS
<1>0. TypeOK'
  BY NextType DEF ViewInv
<1> USE <1>0, NamesAssumption, BoundAssumption
    DEF ViewInv, TypeOK, Members, Unused, BarrierAhead, BufferContinues,
        ExactView, Lacks,
        shuttingDown, emulatorVars, hookVars, clientVars, exitVars
<1>1. CASE PtyData
  <2>1. /\ written' = written + 1
        /\ \A c \in Connections :
             /\ pending'[c] = IF Buffering(c) THEN Append(pending[c], written')
                              ELSE pending[c]
             /\ screen'[c] = IF c \in clients /\ pending[c] = None
                                /\ sock[c] = "open"
                             THEN Show(screen[c], written') ELSE screen[c]
             /\ sock'[c] # sock[c]
                  => sock[c] = "ended" /\ sock'[c] = "destroyed"
        /\ UNCHANGED <<parsed, barrier, snapshot, clients, phase>>
    BY <1>1 DEF PtyData, Broadcast, Write
  <2>2. Members'
    BY <2>1
  <2>3. Unused'
    BY <2>1 DEF Buffering
  <2>4. BarrierAhead'
    BY <2>1
  <2>5. BufferContinues'
    <3> SUFFICES ASSUME NEW c \in clients, ~shuttingDown, pending'[c] # None
                 PROVE  /\ screen'[c] = None
                        /\ barrier[c] # None => Lacks(barrier[c], pending[c])'
                        /\ snapshot[c] \notin {None, Rejected}
                             => Lacks(snapshot[c], pending[c])'
      BY <2>1
    <3>1. /\ pending[c] \in Seq(1 .. MaxOutput)
          /\ pending[c] # None
          /\ pending'[c] = Append(pending[c], written + 1)
      BY <2>1 DEF Buffering
    <3>2. ASSUME NEW n \in 0 .. MaxOutput, Lacks(n, pending[c])
          PROVE  n + Len(pending'[c]) = written'
                 /\ \A i \in 1 .. Len(pending'[c]) : pending'[c][i] = n + i
      <4>1. /\ Len(pending'[c]) = Len(pending[c]) + 1
            /\ \A i \in 1 .. Len(pending[c]) : pending'[c][i] = pending[c][i]
            /\ pending'[c][Len(pending[c]) + 1] = written + 1
            /\ Len(pending[c]) \in Nat
        BY <3>1
      <4>2. /\ n + Len(pending[c]) = written
            /\ \A i \in 1 .. Len(pending[c]) : pending[c][i] = n + i
        BY <3>2
      <4>3. \A i \in 1 .. Len(pending'[c]) :
              i \in 1 .. Len(pending[c]) \/ i = Len(pending[c]) + 1
        BY <4>1
      <4>4. n \in Nat /\ written' = written + 1
        BY <2>1
      <4>5. n + Len(pending'[c]) = written'
        <5>1. PICK l \in Nat : l = Len(pending[c])
          BY <4>1
        <5>2. n + l = written /\ Len(pending'[c]) = l + 1
          BY <4>1, <4>2, <5>1
        <5>3. n + (l + 1) = (n + l) + 1
          BY <4>4
        <5>4. QED
          BY <4>4, <5>2, <5>3, Zenon
      <4>6. ASSUME NEW i \in 1 .. Len(pending'[c]) PROVE pending'[c][i] = n + i
        <5>1. CASE i \in 1 .. Len(pending[c])
          BY <4>1, <4>2, <5>1
        <5>2. CASE i = Len(pending[c]) + 1
          BY <4>1, <4>2, <4>4, <5>2
        <5>3. QED
          BY <4>3, <5>1, <5>2
      <4>7. QED
        BY <4>5, <4>6
    <3>3. ASSUME barrier[c] # None PROVE Lacks(barrier[c], pending[c])'
      BY <2>1, <3>1, <3>2, <3>3
    <3>4. ASSUME snapshot[c] \notin {None, Rejected}
          PROVE  Lacks(snapshot[c], pending[c])'
      BY <2>1, <3>1, <3>2, <3>4
    <3>5. screen'[c] = None
      BY <2>1, <3>1
    <3>6. QED
      BY <3>3, <3>4, <3>5
  <2>6. ExactView'
    <3>1. ASSUME NEW c \in clients, sock[c] = "open", pending[c] = None
          PROVE  screen'[c] = written' /\ screen'[c] # Garbled
      <4>1. c \in Connections /\ ~shuttingDown
        BY <3>1
      <4>2. screen[c] = written /\ written \in Nat
        BY <3>1, <4>1
      <4>3. screen'[c] = Show(screen[c], written + 1)
        BY <2>1, <3>1, <4>1
      <4>4. Show(screen[c], written + 1) = written + 1
        BY <4>2 DEF Show
      <4>5. written + 1 \in Nat /\ Garbled \notin Nat
        BY <4>2
      <4>6. QED
        BY <2>1, <4>3, <4>4, <4>5
    <3>2. ASSUME NEW c \in Connections,
                 ~(c \in clients /\ sock[c] = "open" /\ pending[c] = None)
          PROVE  screen'[c] = screen[c]
      BY <2>1, <3>2
    <3>3. ASSUME NEW c \in clients, pending'[c] = None
          PROVE  pending[c] = None
      <4>1. SUFFICES ASSUME pending[c] # None PROVE FALSE
        OBVIOUS
      <4>2. Append(pending[c], written') \in Seq(1 .. MaxOutput)
        BY <2>1, <3>3, <4>1 DEF Buffering
      <4>3. pending'[c] = Append(pending[c], written')
        BY <2>1, <3>3, <4>1 DEF Buffering
      <4>4. QED
        BY <3>3, <4>2, <4>3, BufferIsNotNone
    <3>4. QED
      BY <2>1, <3>1, <3>2, <3>3
  <2>7. QED
    BY <2>2, <2>3, <2>4, <2>5, <2>6
<1>2. CASE \/ PtyClose \/ DeadlineExpires \/ UNCHANGED vars
           \/ \E c \in Connections : ExitFlushed(c)
  <2>1. UNCHANGED viewVars
    BY <1>2, Zenon
       DEF viewVars, vars, PtyClose, DeadlineExpires, ExitFlushed
  <2>2. QED
    BY <2>1, <1>0, ViewUntouched, Zenon
<1>3. CASE Parse
  BY <1>3 DEF Parse
<1>4. ASSUME NEW c \in Connections, Serialize(c) PROVE ViewInv'
  BY <1>4 DEF Serialize
<1>5. CASE Shutdown
  BY <1>5 DEF Shutdown
<1>6. CASE ShutdownDone
  BY <1>6 DEF ShutdownDone
<1>7. ASSUME NEW c \in Connections, Connect(c) PROVE ViewInv'
  <2>1. CASE shuttingDown
    BY <1>7, <2>1 DEF Connect
  <2>2. CASE ~shuttingDown
    <3>1. /\ sock[c] = "none" /\ sock' = [sock EXCEPT ![c] = "open"]
          /\ clients' = clients \cup {c}
          /\ pending' = [pending EXCEPT ![c] = <<>>]
          /\ \/ /\ barrier' = [barrier EXCEPT ![c] = written]
                /\ snapshot' = snapshot
             \/ /\ snapshot' = [snapshot EXCEPT ![c] = Rejected]
                /\ barrier' = barrier
          /\ UNCHANGED <<written, parsed, screen, phase>>
      BY <1>7, <2>2 DEF Connect
    <3>2. Members' /\ Unused' /\ BarrierAhead'
      BY <2>2, <3>1
    <3>3. BufferContinues'
      <4>1. ASSUME NEW e \in clients, e # c
            PROVE  /\ e \in Connections
                   /\ screen'[e] = screen[e] /\ pending'[e] = pending[e]
                   /\ barrier'[e] = barrier[e] /\ snapshot'[e] = snapshot[e]
        BY <3>1, <4>1
      <4>2. /\ screen'[c] = None
            /\ barrier'[c] # None => Lacks(barrier[c], pending[c])'
            /\ snapshot'[c] \in {None, Rejected}
        BY <3>1
      <4>3. QED
        BY <2>2, <3>1, <4>1, <4>2
    <3>4. ExactView'
      <4>1. pending'[c] # None
        <5>1. <<>> \in Seq(1 .. MaxOutput)
          OBVIOUS
        <5>2. QED
          BY <3>1, <5>1, BufferIsNotNone
      <4>2. ASSUME NEW e \in Connections, e # c PROVE pending'[e] = pending[e]
        BY <3>1, <4>2
      <4>3. QED
        BY <2>2, <3>1, <4>1, <4>2
    <3>5. QED
      BY <3>2, <3>3, <3>4
  <2>3. QED
    BY <2>1, <2>2
<1>8. ASSUME NEW c \in Connections, Deliver(c) PROVE ViewInv'
  <2>1. CASE pending[c] = None \/ Destroyed(c) \/ shuttingDown
    BY <1>8, <2>1 DEF Deliver
  <2>2. CASE pending[c] # None /\ ~Destroyed(c) /\ ~shuttingDown
    <3>0. sock[c] = "open"
      BY <1>8, <2>2 DEF Deliver, Destroyed
    <3>1. /\ screen' = [screen EXCEPT ![c] = ShowAll(snapshot[c], pending[c])]
          /\ pending' = [pending EXCEPT ![c] = None]
          /\ snapshot' = [snapshot EXCEPT ![c] = None]
          /\ UNCHANGED <<written, parsed, barrier, sock, clients, phase>>
      BY <1>8, <2>2, <3>0 DEF Deliver, Write
    <3>2. Lacks(snapshot[c], pending[c])
      BY <1>8, <2>2, <3>0 DEF Deliver
    <3>3. screen' = [screen EXCEPT ![c] = written]
      BY <3>1, <3>2 DEF ShowAll
    <3>4. Members' /\ Unused' /\ BarrierAhead' /\ BufferContinues'
      BY <2>2, <3>0, <3>1, <3>3
    <3>5. ExactView'
      BY <2>2, <3>0, <3>1, <3>3
    <3>6. QED
      BY <3>4, <3>5
  <2>3. QED
    BY <2>1, <2>2
<1>9. ASSUME NEW c \in Connections, SnapshotFailed(c) PROVE ViewInv'
  BY <1>9, DropMembers DEF SnapshotFailed
<1>10. ASSUME NEW c \in Connections,
              Hello(c) \/ \E s \in Sizes : Resize(c, s)
       PROVE  ViewInv'
  <2>1. UNCHANGED viewVars
    BY <1>10, Zenon DEF viewVars, Hello, Resize
  <2>2. QED
    BY <2>1, <1>0, ViewUntouched, Zenon
<1>11. ASSUME NEW c \in Connections,
              Violation(c) \/ SocketError(c) \/ SocketClose(c)
       PROVE  ViewInv'
  <2>1. /\ clients' = IF shuttingDown THEN clients ELSE clients \ {c}
        /\ sock[c] # "none"
        /\ \/ sock' = [sock EXCEPT ![c] = "destroyed"]
           \/ sock' = [sock EXCEPT ![c] = "closed"]
        /\ UNCHANGED <<written, parsed, barrier, snapshot, pending, screen,
                       phase>>
    BY <1>11, DropMembers DEF Violation, SocketError, SocketClose, Receiving
  <2>2. Members'
    BY <2>1
  <2>3. Unused' /\ BarrierAhead'
    BY <2>1
  <2>4. BufferContinues'
    BY <2>1
  <2>5. ExactView'
    BY <2>1
  <2>6. QED
    BY <2>2, <2>3, <2>4, <2>5
<1>12. QED
  BY <1>1, <1>2, <1>3, <1>4, <1>5, <1>6, <1>7, <1>8, <1>9, <1>10, <1>11
     DEF Next, EmulatorStep, PromiseStep

LEMMA ViewInvariant == Spec => []ViewInv
  BY InitView, NextView, PTL DEF Spec

\* No attacher's terminal ever shows anything but pi's output up to some chunk,
\* and up to the last one once the attach is done (serializeScreen's contract).
THEOREM ViewIsExact == Spec => []ExactView
<1>1. ViewInv => ExactView
  BY DEF ViewInv
<1>2. QED
  BY ViewInvariant, <1>1, PTL

LEMMA StreamStep ==
  ASSUME ViewInv, ViewInv', [Next]_vars
  PROVE  [Stream!Next]_<<written, screen>>
<1> USE NamesAssumption
    DEF ViewInv, TypeOK, Members, Unused, BufferContinues, ExactView,
        shuttingDown, emulatorVars, hookVars, clientVars
<1>1. CASE PtyData
  <2>1. written' = written + 1
    BY <1>1 DEF PtyData
  <2> DEFINE watching == {c \in Connections : c \in clients /\ sock[c] = "open"
                                              /\ pending[c] = None}
  <2>2. watching \in SUBSET {c \in Connections : screen[c] = written}
    BY DEF watching
  <2>3. screen' = [c \in Connections |->
                     IF c \in watching THEN written + 1 ELSE screen[c]]
    <3>1. ASSUME NEW c \in watching
          PROVE  Show(screen[c], written + 1) = written + 1
      <4>1. screen[c] = written
        BY <2>2
      <4>2. written \in Nat
        OBVIOUS
      <4>3. QED
        BY <4>1, <4>2 DEF Show
    <3>2. screen' = [c \in Connections |->
                       IF c \in watching THEN Show(screen[c], written + 1)
                       ELSE screen[c]]
      BY <1>1, <2>1 DEF PtyData, Broadcast, Write
    <3>3. QED
      BY <3>1, <3>2
  <2>4. QED
    BY <2>1, <2>2, <2>3 DEF Stream!Next, Stream!Produce
<1>2. ASSUME NEW c \in Connections, Deliver(c)
      PROVE  [Stream!Next]_<<written, screen>>
  <2>1. CASE screen' = screen
    BY <1>2, <2>1 DEF Deliver
  <2>2. CASE /\ pending[c] # None /\ sock[c] = "open" /\ ~shuttingDown
             /\ screen' = [screen EXCEPT
                             ![c] = ShowAll(snapshot[c], pending[c])]
    <3>1. screen[c] = None /\ Lacks(snapshot[c], pending[c])
      BY <1>2, <2>2 DEF Deliver
    <3>2. screen' = [screen EXCEPT ![c] = written]
      BY <2>2, <3>1 DEF Lacks, ShowAll
    <3>3. QED
      BY <1>2, <3>1, <3>2 DEF Deliver, Stream!Next, Stream!Attach
  <2>3. QED
    BY <1>2, <2>1, <2>2 DEF Deliver
<1>3. CASE UNCHANGED <<written, screen>>
  BY <1>3
<1>4. ASSUME NEW c \in Connections,
             \/ Connect(c) \/ SnapshotFailed(c) \/ Hello(c) \/ Violation(c)
             \/ SocketError(c) \/ SocketClose(c) \/ ExitFlushed(c)
             \/ Serialize(c)
             \/ \E s \in Sizes : Resize(c, s)
      PROVE  UNCHANGED <<written, screen>>
  BY <1>4 DEF Connect, SnapshotFailed, Hello, Violation, SocketError,
              SocketClose, ExitFlushed, Serialize, Resize
<1>5. ASSUME \/ PtyClose \/ Parse \/ Shutdown \/ DeadlineExpires
             \/ ShutdownDone \/ UNCHANGED vars
      PROVE  UNCHANGED <<written, screen>>
  BY <1>5 DEF PtyClose, Parse, Shutdown, DeadlineExpires, ShutdownDone, vars
<1>6. QED
  BY <1>1, <1>2, <1>3, <1>4, <1>5 DEF Next, EmulatorStep, PromiseStep

\* Behind all its buffering TtyServer looks as if every attach were atomic: the
\* whole screen at once, then chunk after chunk.
THEOREM ImplementsAttachStream == Spec => FollowsStream
<1>1. Init => Stream!Init
  BY DEF Init, Stream!Init
<1>2. ViewInv /\ ViewInv' /\ [Next]_vars => [Stream!Next]_<<written, screen>>
  BY StreamStep
<1>3. QED
  BY ViewInvariant, <1>1, <1>2, PTL DEF Spec, FollowsStream, Stream!Spec

-----------------------------------------------------------------------------
(* Who is attached.                                                         *)

\* A socket nobody has used yet has nothing to its name.
Untouched ==
  \A c \in Connections : sock[c] = "none" =>
    hello[c] = FALSE /\ size[c] = None /\ c \notin clients

\* What was applied last is in force, and is the minimum of the moment.
AppliedIsMin ==
  /\ applied # None => ptySize = applied
  /\ ~shuttingDown /\ Reported(clients, size) # {}
       => applied = MinSize(Reported(clients, size))

BookInv ==
  /\ TypeOK /\ Members /\ Untouched
  /\ AppliedIsMin /\ AttachmentsCurrent /\ AuditPaired

LEMMA InitBook == Init => BookInv
<1> SUFFICES ASSUME Init PROVE BookInv
  OBVIOUS
<1>1. TypeOK
  BY InitType
<1>2. /\ Reported(clients, size) = {}
      /\ AttachmentsSnapshot(clients, hello, size) = {}
  BY DEF Init, Reported, AttachmentsSnapshot
<1>3. AppliedIsMin /\ AttachmentsCurrent
  BY <1>2 DEF Init, AppliedIsMin, AttachmentsCurrent
<1>4. AuditPaired
  <2>1. \A c \in Connections :
          audit[c].attach = 0 /\ audit[c].detach = 0 /\ ~hello[c]
    BY DEF Init
  <2>2. ASSUME NEW c \in Connections
        PROVE  /\ audit[c].attach = IF hello[c] THEN 1 ELSE 0
               /\ audit[c].detach <= audit[c].attach
               /\ ~(audit[c].detach < audit[c].attach)
    BY <2>1
  <2>3. QED
    BY <2>1, <2>2 DEF AuditPaired
<1>5. QED
  BY <1>1, <1>3, <1>4 DEF Init, BookInv, Members, Untouched, shuttingDown

\* Whoever recomputes the size leaves the minimum in force.
LEMMA ApplyMakesMin ==
  ASSUME NEW members, members \subseteq Connections,
         NEW sizes \in [Connections -> Sizes \cup {None}],
         applied # None => ptySize = applied,
         ApplyMinSize(members, sizes)
  PROVE  /\ applied' # None => ptySize' = applied'
         /\ Reported(members, sizes) # {}
              => applied' = MinSize(Reported(members, sizes))
  BY DEF ApplyMinSize

LEMMA DropBook ==
  ASSUME BookInv, TypeOK', NEW c \in Connections, DropClient(c),
         sock[c] # "none",
         \A e \in Connections \ {c} : sock'[e] = sock[e],
         sock'[c] \notin {"none", "open"},
         ~shuttingDown => sock'[c] # "ended",
         UNCHANGED <<hello, size, phase>>
  PROVE  BookInv'
<1> USE DEF BookInv, TypeOK, shuttingDown
<1>1. CASE shuttingDown
  BY <1>1
     DEF DropClient, hookVars, Members, Untouched, AppliedIsMin,
         AttachmentsCurrent, AuditPaired
<1>2. CASE ~shuttingDown
  <2>1. /\ clients' = clients \ {c}
        /\ ApplyMinSize(clients', size)
        /\ IF c \in clients /\ hello[c]
           THEN /\ Audit(c, "detach")
                /\ attachments' = AttachmentsSnapshot(clients', hello, size)
           ELSE UNCHANGED <<audit, attachments>>
    BY <1>2 DEF DropClient
  <2>2. Members' /\ Untouched'
    BY <1>2, <2>1 DEF Members, Untouched
  <2>3. AppliedIsMin'
    BY <2>1, ApplyMakesMin DEF AppliedIsMin
  <2>4. AttachmentsCurrent'
    BY <1>2, <2>1 DEF AttachmentsCurrent, AttachmentsSnapshot
  <2>5. AuditPaired'
    BY <1>2, <2>1 DEF AuditPaired, Audit
  <2>6. QED
    BY <2>2, <2>3, <2>4, <2>5
<1>3. QED
  BY <1>1, <1>2

LEMMA NextBook == ViewInv /\ BookInv /\ [Next]_vars => BookInv'
<1> SUFFICES ASSUME ViewInv, BookInv, [Next]_vars PROVE BookInv'
  OBVIOUS
<1>0. TypeOK'
  BY NextType DEF BookInv
<1> USE <1>0
    DEF BookInv, shuttingDown, emulatorVars, hookVars, clientVars, exitVars
<1>1. ASSUME UNCHANGED <<sock, clients, hello, size, hookVars, phase>>
      PROVE  BookInv'
  BY <1>1 DEF Members, Untouched, AppliedIsMin, AttachmentsCurrent, AuditPaired
<1>2. CASE PtyData
  <2>1. /\ UNCHANGED <<clients, hello, size, hookVars, phase>>
        /\ \A c \in Connections :
             sock'[c] # sock[c] => sock[c] = "ended" /\ sock'[c] = "destroyed"
    BY <1>2 DEF PtyData, Broadcast, Write, TypeOK
  <2>2. QED
    BY <2>1
       DEF Members, Untouched, AppliedIsMin, AttachmentsCurrent, AuditPaired
<1>3. CASE \/ PtyClose \/ Parse \/ DeadlineExpires \/ UNCHANGED vars
           \/ \E c \in Connections : Serialize(c) \/ Deliver(c) \/ ExitFlushed(c)
  <2>1. ASSUME NEW c \in Connections, Deliver(c)
        PROVE  UNCHANGED <<sock, clients, hello, size, hookVars, phase>>
    BY <2>1 DEF Deliver, Destroyed, Write, Members, TypeOK
  <2>2. QED
    BY <1>1, <1>3, <2>1
       DEF PtyClose, Parse, DeadlineExpires, Serialize, ExitFlushed, vars
<1>4. CASE Shutdown
  BY <1>4
     DEF Shutdown, TypeOK, Members, Untouched, AppliedIsMin,
         AttachmentsCurrent, AuditPaired
<1>5. CASE ShutdownDone
  BY <1>5
     DEF ShutdownDone, TypeOK, Members, Untouched, AppliedIsMin,
         AttachmentsCurrent, AuditPaired
<1>6. ASSUME NEW c \in Connections, Connect(c) PROVE BookInv'
  <2>1. CASE shuttingDown
    BY <1>6, <2>1 DEF Connect, TypeOK, Members, Untouched, AppliedIsMin,
                      AttachmentsCurrent, AuditPaired
  <2>2. CASE ~shuttingDown
    <3>1. /\ sock[c] = "none" /\ sock' = [sock EXCEPT ![c] = "open"]
          /\ clients' = clients \cup {c}
          /\ UNCHANGED <<hello, size, hookVars, phase>>
      BY <1>6, <2>2 DEF Connect
    <3>2. hello[c] = FALSE /\ size[c] = None
      BY <3>1 DEF Untouched
    <3>3. Reported(clients, size)' = Reported(clients, size)
      BY <3>1, <3>2 DEF Reported
    <3>4. AttachmentsSnapshot(clients, hello, size)'
            = AttachmentsSnapshot(clients, hello, size)
      BY <3>1, <3>2 DEF AttachmentsSnapshot
    <3>5. Members' /\ Untouched'
      BY <2>2, <3>1 DEF Members, Untouched, TypeOK
    <3>6. AppliedIsMin' /\ AttachmentsCurrent'
      BY <3>1, <3>3, <3>4 DEF AppliedIsMin, AttachmentsCurrent
    <3>7. AuditPaired'
      BY <3>1, <3>2 DEF AuditPaired
    <3>8. QED
      BY <3>5, <3>6, <3>7
  <2>3. QED
    BY <2>1, <2>2
<1>7. ASSUME NEW c \in Connections, SnapshotFailed(c) PROVE BookInv'
  <2>1. sock[c] # "none"
    BY <1>7, NamesAssumption DEF SnapshotFailed, ViewInv, Unused
  <2>2. /\ \A e \in Connections \ {c} : sock'[e] = sock[e]
        /\ sock'[c] \notin {"none", "open"}
        /\ ~shuttingDown => sock'[c] # "ended"
    BY <1>7, <2>1 DEF SnapshotFailed, TypeOK, Members
  <2>3. DropClient(c) /\ UNCHANGED <<hello, size, phase>>
    BY <1>7 DEF SnapshotFailed
  <2>4. QED
    BY <2>1, <2>2, <2>3, DropBook
<1>8. ASSUME NEW c \in Connections, Hello(c) PROVE BookInv'
  <2>1. /\ sock[c] = "open" /\ ~shuttingDown /\ c \in clients
        /\ hello[c] = FALSE /\ hello' = [hello EXCEPT ![c] = TRUE]
        /\ audit' = [audit EXCEPT ![c]["attach"] = @ + 1]
        /\ attachments' = AttachmentsSnapshot(clients, hello', size)
        /\ UNCHANGED <<sock, clients, size, applied, ptySize, phase>>
    BY <1>8 DEF Hello, Receiving, Audit, Members, TypeOK
  <2>2. Members' /\ Untouched' /\ AppliedIsMin' /\ AttachmentsCurrent'
    BY <2>1 DEF Members, Untouched, AppliedIsMin, AttachmentsCurrent, TypeOK
  <2>3. AuditPaired'
    <3>1. audit[c].attach = 0 /\ audit[c].detach = 0
      BY <2>1 DEF AuditPaired, TypeOK
    <3>2. audit'[c].attach = 1 /\ audit'[c].detach = 0 /\ hello'[c] = TRUE
      BY <2>1, <3>1 DEF TypeOK
    <3>3. \A e \in Connections \ {c} :
            audit'[e] = audit[e] /\ hello'[e] = hello[e]
      BY <2>1 DEF TypeOK
    <3>4. QED
      BY <2>1, <3>2, <3>3 DEF AuditPaired
  <2>4. QED
    BY <2>2, <2>3
<1>9. ASSUME NEW c \in Connections, NEW s \in Sizes, Resize(c, s) PROVE BookInv'
  <2>1. /\ sock[c] = "open" /\ ~shuttingDown
        /\ size' = [size EXCEPT ![c] = s]
        /\ ApplyMinSize(clients, size')
        /\ attachments' = AttachmentsSnapshot(clients, hello, size')
        /\ UNCHANGED <<sock, clients, hello, audit, phase>>
    BY <1>9 DEF Resize, Receiving
  <2>2. Members' /\ AttachmentsCurrent' /\ AuditPaired'
    BY <2>1, Zenon DEF Members, AttachmentsCurrent, AuditPaired
  <2>3. Untouched'
    BY <2>1 DEF Untouched, TypeOK
  <2>4. AppliedIsMin'
    <3>1. clients \subseteq Connections /\ size' \in [Connections -> Sizes \cup {None}]
      BY DEF TypeOK
    <3>2. /\ applied' # None => ptySize' = applied'
          /\ Reported(clients, size') # {}
               => applied' = MinSize(Reported(clients, size'))
      BY <2>1, <3>1, ApplyMakesMin DEF AppliedIsMin
    <3>3. Reported(clients, size)' = Reported(clients, size')
      BY <2>1, Zenon DEF Reported
    <3>4. QED
      BY <3>2, <3>3, Zenon DEF AppliedIsMin
  <2>5. QED
    BY <2>2, <2>3, <2>4
<1>10. ASSUME NEW c \in Connections,
              Violation(c) \/ SocketError(c) \/ SocketClose(c)
       PROVE  BookInv'
  BY <1>10, DropBook DEF Violation, SocketError, SocketClose, Receiving, TypeOK
<1>11. QED
  BY <1>2, <1>3, <1>4, <1>5, <1>6, <1>7, <1>8, <1>9, <1>10
     DEF Next, EmulatorStep, PromiseStep

LEMMA BookInvariant == Spec => []BookInv
  BY ViewInvariant, InitBook, NextBook, PTL DEF Spec

\* The PTY has the minimum of the sizes of those attached after every hello,
\* resize and loss of a client, in any order (applyMinSize and its cache).
THEOREM MinSizeIsApplied == Spec => []MinSizeApplied
<1>1. BookInv => MinSizeApplied
  <2> SUFFICES ASSUME BookInv, ~shuttingDown, Reported(clients, size) # {}
               PROVE  ptySize = MinSize(Reported(clients, size))
    BY DEF MinSizeApplied
  <2>1. MinSize(Reported(clients, size)) \in Size
    BY MinSizeType, ReportedType DEF BookInv, TypeOK
  <2>2. applied = MinSize(Reported(clients, size))
    BY DEF BookInv, AppliedIsMin
  <2>3. applied # None
    BY <2>1, <2>2, NamesAssumption
  <2>4. QED
    BY <2>2, <2>3 DEF BookInv, AppliedIsMin
<1>2. QED
  BY BookInvariant, <1>1, PTL

\* The attachment list in the record is the list of those attached.
THEOREM AttachmentsAreCurrent == Spec => []AttachmentsCurrent
<1>1. BookInv => AttachmentsCurrent
  BY DEF BookInv
<1>2. QED
  BY BookInvariant, <1>1, PTL

\* Close, error, a failed snapshot and a protocol violation may all report the
\* loss of one client: it is audited once.
THEOREM AuditIsPaired == Spec => []AuditPaired
<1>1. BookInv => AuditPaired
  BY DEF BookInv
<1>2. QED
  BY BookInvariant, <1>1, PTL

-----------------------------------------------------------------------------
(* The shutdown.                                                            *)

\* Of a shutdown that has begun, no handler but its own last step reaches the
\* record or the audit trail: whatever the sockets report and the promises of
\* the snapshots do, the record that cleanupAndExit writes last stays the last.
THEOREM ShutdownIsSilent == Spec => HookSilent
<1> DEFINE Silent ==
      shuttingDown =>
        /\ audit' = audit
        /\ attachments' # attachments => attachments' = {} /\ phase' = "done"
<1>1. [Next]_vars => Silent
  <2> SUFFICES ASSUME [Next]_vars, shuttingDown PROVE Silent
    OBVIOUS
  <2> USE DEF emulatorVars, hookVars, exitVars
  <2>1. CASE ShutdownDone
    BY <2>1 DEF ShutdownDone
  <2>2. CASE \/ PtyData \/ PtyClose \/ EmulatorStep \/ Shutdown
             \/ DeadlineExpires \/ UNCHANGED vars
    BY <2>2 DEF PtyData, PtyClose, EmulatorStep, Parse, Serialize, Shutdown,
                DeadlineExpires, vars
  <2>3. ASSUME NEW c \in Connections,
               \/ Connect(c) \/ PromiseStep(c) \/ Hello(c) \/ Violation(c)
               \/ SocketError(c) \/ SocketClose(c) \/ ExitFlushed(c)
               \/ \E s \in Sizes : Resize(c, s)
        PROVE  Silent
    BY <2>3
       DEF Connect, PromiseStep, Deliver, SnapshotFailed, Hello, Violation,
           SocketError, SocketClose, ExitFlushed, Resize, DropClient, Receiving
  <2>4. QED
    BY <2>1, <2>2, <2>3 DEF Next
<1>2. QED
  BY <1>1, PTL DEF Spec, HookSilent

\* Sockets are ended by a shutdown alone, and one that does not come from a
\* failed startup comes after pi's last output.
ExitInv ==
  /\ TypeOK
  /\ ~shuttingDown => \A c \in Connections : sock[c] # "ended"
  /\ shuttingDown => ~ptyOpen
  /\ NothingAfterExit

\* After the exit frame nothing is written to an attacher's socket, unless the
\* shutdown is that of a failed startup, whose pi still writes.
THEOREM ExitFrameIsLast ==
  ASSUME ~StartupFails
  PROVE  Spec => []NothingAfterExit
<1>1. Init => ExitInv
  BY InitType DEF Init, ExitInv, NothingAfterExit, shuttingDown
<1>2. ExitInv /\ [Next]_vars => ExitInv'
  <2> SUFFICES ASSUME ExitInv, [Next]_vars PROVE ExitInv'
    OBVIOUS
  <2>0. TypeOK'
    BY NextType DEF ExitInv
  <2> USE <2>0 DEF ExitInv, TypeOK, NothingAfterExit, shuttingDown, emulatorVars,
                   clientVars, hookVars, exitVars
  <2>1. CASE PtyData
    BY <2>1 DEF PtyData, Broadcast, Write
  <2>2. CASE PtyClose \/ EmulatorStep \/ UNCHANGED vars
    BY <2>2 DEF PtyClose, EmulatorStep, Parse, Serialize, vars
  <2>3. CASE Shutdown \/ DeadlineExpires \/ ShutdownDone
    BY <2>3 DEF Shutdown, DeadlineExpires, ShutdownDone
  <2>4. ASSUME NEW c \in Connections,
               Connect(c) \/ SnapshotFailed(c)
        PROVE  ExitInv'
    BY <2>4 DEF Connect, SnapshotFailed
  <2>5. ASSUME NEW c \in Connections, Deliver(c) PROVE ExitInv'
    <3>1. CASE UNCHANGED <<sock, late>>
      BY <2>5, <3>1 DEF Deliver
    <3>2. CASE ~shuttingDown /\ Write({c})
      <4>1. {e \in {c} : sock[e] = "ended"} = {}
        BY <3>2
      <4>2. late' = late /\ \A e \in Connections : sock'[e] = sock[e]
        BY <3>2, <4>1 DEF Write
      <4>3. QED
        BY <2>5, <4>2 DEF Deliver
    <3>3. QED
      BY <2>5, <3>1, <3>2, Zenon DEF Deliver
  <2>6. ASSUME NEW c \in Connections,
               Hello(c) \/ \E s \in Sizes : Resize(c, s)
        PROVE  ExitInv'
    BY <2>6 DEF Hello, Resize
  <2>7. ASSUME NEW c \in Connections,
               \/ Violation(c) \/ SocketError(c) \/ SocketClose(c)
               \/ ExitFlushed(c)
        PROVE  ExitInv'
    BY <2>7 DEF Violation, SocketError, SocketClose, ExitFlushed
  <2>8. QED
    BY <2>1, <2>2, <2>3, <2>4, <2>5, <2>6, <2>7 DEF Next, PromiseStep
<1>3. ExitInv => NothingAfterExit
  BY DEF ExitInv
<1>4. QED
  BY <1>1, <1>2, <1>3, PTL DEF Spec
=============================================================================
