------------------------ MODULE AgentCommandsProofs ------------------------
(***************************************************************************)
(* What a command does to an agent stands in the agent's audit log before  *)
(* it happens, and what the source of an event was can be read beside it:  *)
(* for any number of callers and agents, killed or purged at any point.    *)
(***************************************************************************)
EXTENDS AgentCommands, SequenceTheorems, TLAPS

\* No id begins another one, and no id is used twice.
Unambiguous ==
  /\ \A id \in Ids : Begins[id] = {id}
  /\ ~Respawns

-----------------------------------------------------------------------------
(* The inductive invariant of the types: where a caller is says what it     *)
(* knows of its targets.                                                    *)

Recording == {"event", "lookup", "append"}
Sending == {"compose", "ensure", "revive", "connect", "request"}
Acting == {"launch", "each"} \cup Sending

\* All targets have been resolved and read.
Resolved(c) == pc[c] \in {"identify"} \cup Recording \cup Acting

\* An agent that is there has been spawned, and a name that has been turned
\* into an id is one of those, though the agent may be gone by now.
UsedIds ==
  /\ Listed \subseteq used
  /\ \A c \in Callers : \A i \in 1 .. Len(target[c]) :
       at[c][i] # "list" => target[c][i] \in used

ResolvedTargets ==
  \A c \in Callers : Resolved(c) =>
    /\ target[c] # <<>>
    /\ \A i \in 1 .. Len(target[c]) : at[c][i] # "list"

\* A request goes to one agent.
OneTarget ==
  \A c \in Callers :
    /\ command[c] \in RpcCommands \cup {"spawn"} => Len(target[c]) <= 1
    /\ pc[c] \in Sending => command[c] \in RpcCommands
    /\ pc[c] = "launch" => command[c] = "spawn"
    /\ pc[c] \in {"idle", "usage"} => target[c] = <<>>

\* The log written to is that of a target.
TurnIsTarget ==
  \A c \in Callers :
    /\ pc[c] \in {"idle", "resolve", "identify"} => turn[c] = 1
    /\ Resolved(c) => turn[c] <= Len(target[c])

\* Who records itself has found out who it is.
Identified ==
  \A c \in Callers : pc[c] \in Recording => source[c] \in Source

TypeInv ==
  /\ TypeOK
  /\ Identified
  /\ UsedIds
  /\ ResolvedTargets
  /\ OneTarget
  /\ TurnIsTarget

-----------------------------------------------------------------------------
(* The inductive invariant of the audit trail.                              *)

\* The caller has an event in the agent's log; only an agent whose directory
\* is gone has no log.
Logged(c, id) == c \in log[id] \/ status[id] = "absent"

Recorder(c) == c \in Auditing /\ Audited(command[c])

\* A caller that acts on its targets stands in the log of each of them, and
\* one that is recording itself in those it is past.
LoggedBy(c) ==
  Recorder(c) =>
    /\ pc[c] \in Acting =>
         \A i \in 1 .. Len(target[c]) : Logged(c, target[c][i])
    /\ pc[c] \in Recording =>
         \A i \in 1 .. Len(target[c]) : i < turn[c] => Logged(c, target[c][i])
    /\ pc[c] \in {"lookup", "append"} => Logged(c, target[c][turn[c]])

\* A request is under way to the target that was audited.
ConnectedToTarget(c) ==
  conn[c] # None => pc[c] = "request" /\ conn[c] = target[c][1]

AuditInv ==
  /\ TypeInv
  /\ \A c \in Callers : LoggedBy(c) /\ ConnectedToTarget(c)

\* No event by a caller that has yet to record itself.
Unrecorded ==
  \A c \in Callers, id \in Ids :
    c \in log[id] => pc[c] \notin {"idle", "usage", "resolve", "identify"}

SourcesInv ==
  /\ TypeInv
  /\ Unrecorded
  /\ SourcesKnown

-----------------------------------------------------------------------------
(* Lemmas about the operators the actions are built from.                   *)

\* A mark at a target changes what is known of that target only.
LEMMA MarkChanges ==
  ASSUME TypeOK, NEW c \in Callers, NEW i \in DOMAIN target[c],
         NEW step \in Progress, Mark(c, i, step)
  PROVE  /\ at' \in [Callers -> Seq(Progress)]
         /\ i \in 1 .. Len(target[c])
         /\ \A d \in Callers : Len(at'[d]) = Len(at[d])
         /\ \A d \in Callers \ {c} : at'[d] = at[d]
         /\ \A j \in 1 .. Len(target[c]) :
              at'[c][j] = IF j = i THEN step ELSE at[c][j]
<1>1. /\ at[c] \in Seq(Progress) /\ Len(at[c]) = Len(target[c])
      /\ i \in 1 .. Len(at[c]) /\ i \in 1 .. Len(target[c])
  BY DEF TypeOK
<1> DEFINE s == [at[c] EXCEPT ![i] = step]
<1>2. /\ s \in Seq(Progress) /\ Len(s) = Len(at[c])
      /\ \A j \in 1 .. Len(at[c]) : s[j] = IF j = i THEN step ELSE at[c][j]
  BY <1>1, ExceptSeq
<1>3. at' = [at EXCEPT ![c] = s]
  BY DEF Mark, TypeOK
<1> HIDE DEF s
<1>4. QED
  BY <1>1, <1>2, <1>3 DEF TypeOK

\* Only an id that is listed is matched, and one that loads is the only match.
LEMMA MatchIsListed ==
  ASSUME NEW name, NEW id \in Matches(name)
  PROVE  id \in Listed /\ id \in Ids /\ status[id] # "absent"
  BY DEF Matches, Listed

LEMMA LoadsOne ==
  ASSUME NEW name, NEW id \in Loads(name)
  PROVE  /\ id \in Ids /\ Recorded(id) /\ status[id] # "absent"
         /\ Matches(name) = {id}
  BY DEF Loads, Matches, Listed

\* What a command that has resolved its targets goes to next.
LEMMA FirstStateActs ==
  ASSUME NEW name
  PROVE  /\ FirstState(name) \in Acting
         /\ FirstState(name) \in Sending => name \in RpcCommands
         /\ FirstState(name) = "launch" => name = "spawn"
         /\ FirstState(name) \in {"launch", "compose", "each"}
  BY DEF FirstState, Acting, Sending

\* There is a source for a caller, whatever PICTL_ID says.
LEMMA SourcesAreTyped ==
  ASSUME NEW c \in Callers, NEW pictlId \in PictlIds
  PROVE  CallerSources(c, pictlId) \subseteq Source
  BY NamesAssumption, CallersAssumption, WalkAssumption
     DEF CallerSources, Source

\* The targets a command line gives are names; a request has one.
LEMMA DeterminedTargets ==
  ASSUME NEW name, NEW flags \in Flags, NEW envTarget \in EnvTargets
  PROVE  /\ DetermineTargets(name, flags, envTarget) \in Seq(DOMAIN Begins)
         /\ name \in RpcCommands =>
              Len(DetermineTargets(name, flags, envTarget)) <= 1
<1>1. flags \in Seq(DOMAIN Begins)
  BY CallersAssumption
<1>2. CASE flags = <<>> /\ envTarget = None
  BY <1>2 DEF DetermineTargets
<1>3. CASE flags = <<>> /\ envTarget # None
  <2>1. envTarget \in DOMAIN Begins
    BY <1>3, CallersAssumption
  <2>2. <<envTarget>> \in Seq(DOMAIN Begins) /\ Len(<<envTarget>>) = 1
    BY <2>1
  <2>3. QED
    BY <1>3, <2>2 DEF DetermineTargets
<1>4. CASE flags # <<>> /\ name \in RpcCommands /\ Len(flags) > 1
  BY <1>4 DEF DetermineTargets
<1>5. CASE flags # <<>> /\ ~(name \in RpcCommands /\ Len(flags) > 1)
  BY <1>1, <1>5 DEF DetermineTargets
<1>6. QED
  BY <1>2, <1>3, <1>4, <1>5

-----------------------------------------------------------------------------
(* The types, for every command and however ids begin one another.          *)

LEMMA InitTypeInv == Init => TypeInv
<1> SUFFICES ASSUME Init PROVE TypeInv
  OBVIOUS
<1>1. TypeOK
  BY DEF Init, TypeOK, Status, CallerState, Ended
<1>2. UsedIds /\ ResolvedTargets /\ OneTarget /\ TurnIsTarget /\ Identified
  BY DEF Init, UsedIds, Listed, ResolvedTargets, OneTarget, TurnIsTarget,
         Resolved, Recording, Sending, Acting, Identified
<1>3. QED
  BY <1>1, <1>2 DEF TypeInv

LEMMA BeginType ==
  ASSUME TypeInv, NEW c \in Callers, NEW name \in Uses, NEW flags \in Flags,
         NEW envTarget \in EnvTargets, Begin(c, name, flags, envTarget)
  PROVE  TypeInv'
<1> DEFINE targets == DetermineTargets(name, flags, envTarget)
<1>1. targets \in Seq(DOMAIN Begins) /\ (name \in RpcCommands => Len(targets) <= 1)
  BY DeterminedTargets
<1>2. /\ pc[c] = "idle" /\ name # "spawn" /\ target[c] = <<>> /\ turn[c] = 1
      /\ command' = [command EXCEPT ![c] = name]
      /\ UNCHANGED <<agentVars, acted, turn, source, conn>>
  BY DEF Begin, TypeInv, OneTarget, TurnIsTarget
<1>3. CASE UNCHANGED <<target, at>> /\ Goto(c, "usage")
  <2>1. TypeOK'
    BY <1>2, <1>3 DEF TypeInv, TypeOK, agentVars, Goto, CallerState, Ended
  <2>2. UsedIds'
    BY <1>2, <1>3 DEF TypeInv, UsedIds, Listed, agentVars
  <2>3. ResolvedTargets' /\ OneTarget' /\ TurnIsTarget' /\ Identified'
    BY <1>2, <1>3
       DEF TypeInv, TypeOK, Goto, ResolvedTargets, Resolved, OneTarget,
           TurnIsTarget, Recording, Sending, Acting, Identified
  <2>4. QED
    BY <2>1, <2>2, <2>3 DEF TypeInv
<1>4. CASE /\ targets # <<>> /\ Goto(c, "resolve")
           /\ target' = [target EXCEPT ![c] = targets]
           /\ at' = [at EXCEPT ![c] = [i \in DOMAIN targets |-> "list"]]
  <2> DEFINE none == [i \in DOMAIN targets |-> "list"]
  <2>1. /\ none \in Seq(Progress) /\ Len(none) = Len(targets)
        /\ \A i \in 1 .. Len(targets) : none[i] = "list"
    BY <1>1 DEF Progress
  <2> HIDE DEF none, targets
  <2>2. TypeOK'
    BY <1>1, <1>2, <1>4, <2>1
       DEF TypeInv, TypeOK, agentVars, Goto, CallerState, Ended
  <2>3. UsedIds'
    BY <1>2, <1>4, <2>1 DEF TypeInv, TypeOK, UsedIds, Listed, agentVars
  <2>4. ResolvedTargets' /\ OneTarget' /\ TurnIsTarget' /\ Identified'
    BY <1>1, <1>2, <1>4
       DEF TypeInv, TypeOK, Goto, ResolvedTargets, Resolved, OneTarget,
           TurnIsTarget, Recording, Sending, Acting, Identified
  <2>5. QED
    BY <2>2, <2>3, <2>4 DEF TypeInv
<1>5. QED
  BY <1>3, <1>4 DEF Begin

LEMMA BeginSpawnType ==
  ASSUME TypeInv, NEW c \in Callers, NEW id \in Ids, "spawn" \in Uses,
         BeginSpawn(c, id)
  PROVE  TypeInv'
<1>1. /\ pc[c] = "idle" /\ target[c] = <<>> /\ turn[c] = 1
      /\ command' = [command EXCEPT ![c] = "spawn"]
      /\ UNCHANGED <<log, sources, acted, turn, source, conn>>
  BY DEF BeginSpawn, TypeInv, OneTarget, TurnIsTarget
<1>2. CASE Goto(c, "failed") /\ UNCHANGED <<status, used, target, at>>
  <2>1. TypeOK'
    BY <1>1, <1>2 DEF TypeInv, TypeOK, Goto, CallerState, Ended
  <2>2. UsedIds'
    BY <1>2 DEF TypeInv, UsedIds, Listed
  <2>3. ResolvedTargets' /\ OneTarget' /\ TurnIsTarget' /\ Identified'
    BY <1>1, <1>2
       DEF TypeInv, TypeOK, Goto, ResolvedTargets, Resolved, OneTarget,
           TurnIsTarget, Recording, Sending, Acting, Identified
  <2>4. QED
    BY <2>1, <2>2, <2>3 DEF TypeInv
<1>3. CASE /\ status' = [status EXCEPT ![id] = "corrupt"]
           /\ used' = used \cup {id}
           /\ target' = [target EXCEPT ![c] = <<id>>]
           /\ at' = [at EXCEPT ![c] = <<"ready">>]
           /\ Goto(c, IF c \in Auditing THEN "identify" ELSE "launch")
  <2>1. /\ <<id>> \in Seq(DOMAIN Begins) /\ Len(<<id>>) = 1
        /\ <<"ready">> \in Seq(Progress) /\ Len(<<"ready">>) = 1
    BY NamesAssumption DEF Progress
  <2>2. TypeOK'
    BY <1>1, <1>3, <2>1 DEF TypeInv, TypeOK, Goto, CallerState, Ended, Status
  <2>3. UsedIds'
    BY <1>1, <1>3 DEF TypeInv, TypeOK, UsedIds, Listed
  <2>4. ResolvedTargets' /\ OneTarget' /\ TurnIsTarget' /\ Identified'
    BY <1>1, <1>3
       DEF TypeInv, TypeOK, Goto, ResolvedTargets, Resolved, OneTarget,
           TurnIsTarget, Recording, Sending, Acting, Identified
  <2>5. QED
    BY <2>2, <2>3, <2>4 DEF TypeInv
<1>4. QED
  BY <1>2, <1>3 DEF BeginSpawn

\* A step that leaves the targets alone and takes a caller to a place that asks
\* no more of them than the one it was at.
LEMMA SameTargets ==
  ASSUME TypeInv, TypeOK', NEW c \in Callers, NEW state, Goto(c, state),
         UNCHANGED <<used, command, target, at>>, Listed' \subseteq used,
         state \notin {"idle", "usage", "resolve"},
         state \in {"identify"} \cup Recording \cup Acting => Resolved(c),
         state \in Sending => command[c] \in RpcCommands,
         state = "launch" => command[c] = "spawn",
         state = "identify" => turn'[c] = 1,
         Resolved(c) => turn'[c] <= Len(target[c]),
         state \in Recording => source'[c] \in Source,
         \A d \in Callers \ {c} : turn'[d] = turn[d] /\ source'[d] = source[d]
  PROVE  TypeInv'
<1>1. /\ pc'[c] = state /\ \A d \in Callers \ {c} : pc'[d] = pc[d]
  BY DEF Goto, TypeInv, TypeOK
<1>2. UsedIds'
  BY DEF TypeInv, UsedIds
<1>3. ResolvedTargets'
  BY <1>1 DEF TypeInv, ResolvedTargets, Resolved
<1>4. OneTarget'
  BY <1>1 DEF TypeInv, OneTarget
<1>5. TurnIsTarget'
  BY <1>1 DEF TypeInv, TurnIsTarget, Resolved
<1>6. Identified'
  BY <1>1 DEF TypeInv, Identified
<1>7. QED
  BY <1>2, <1>3, <1>4, <1>5, <1>6 DEF TypeInv

\* A step that marks one target of a caller that has resolved them all.
LEMMA MarkedTarget ==
  ASSUME TypeInv, TypeOK', NEW c \in Callers, NEW i \in DOMAIN target[c],
         NEW step \in Progress \ {"list"}, Mark(c, i, step), Resolved(c),
         UNCHANGED <<used, pc, command, target, turn, source>>,
         Listed' \subseteq used
  PROVE  TypeInv'
<1>1. /\ i \in 1 .. Len(target[c])
      /\ \A d \in Callers \ {c} : at'[d] = at[d]
      /\ \A j \in 1 .. Len(target[c]) :
           at'[c][j] = IF j = i THEN step ELSE at[c][j]
  BY MarkChanges DEF TypeInv
<1>2. \A j \in 1 .. Len(target[c]) : at[c][j] # "list" /\ at'[c][j] # "list"
  BY <1>1 DEF TypeInv, ResolvedTargets
<1>3. UsedIds'
  BY <1>1, <1>2 DEF TypeInv, UsedIds
<1>4. ResolvedTargets'
  BY <1>1, <1>2 DEF TypeInv, ResolvedTargets, Resolved
<1>5. OneTarget' /\ TurnIsTarget' /\ Identified'
  BY DEF TypeInv, OneTarget, TurnIsTarget, Resolved, Identified
<1>6. QED
  BY <1>3, <1>4, <1>5 DEF TypeInv

\* A target that has been resolved is an agent id.
LEMMA TargetIsId ==
  ASSUME TypeInv, NEW c \in Callers, Resolved(c), NEW i \in 1 .. Len(target[c])
  PROVE  target[c][i] \in Ids /\ target[c][i] \in used
  BY DEF TypeInv, TypeOK, UsedIds, ResolvedTargets

LEMMA ListType ==
  ASSUME TypeInv, NEW c \in Callers, NEW i \in DOMAIN target[c], List(c, i)
  PROVE  TypeInv'
<1>1. /\ pc[c] = "resolve" /\ at[c][i] = "list" /\ i \in 1 .. Len(target[c])
      /\ UNCHANGED <<agentVars, acted, command, turn, source, conn>>
  BY DEF List, TypeInv, TypeOK
<1>2. CASE Goto(c, "failed") /\ UNCHANGED <<target, at>>
  <2>1. TypeOK'
    BY <1>1, <1>2 DEF TypeInv, TypeOK, agentVars, Goto, CallerState, Ended
  <2>2. Listed' \subseteq used
    BY <1>1 DEF TypeInv, UsedIds, Listed, agentVars
  <2>3. QED
    BY <1>1, <1>2, <2>1, <2>2, SameTargets
       DEF agentVars, Resolved, Recording, Acting, Sending
<1>3. CASE \E id \in Ids : /\ Matches(target[c][i]) = {id}
                           /\ target' = [target EXCEPT ![c][i] = id]
                           /\ Mark(c, i, "read") /\ UNCHANGED pc
  <2>0. PICK id \in Ids : /\ Matches(target[c][i]) = {id}
                          /\ target' = [target EXCEPT ![c][i] = id]
                          /\ Mark(c, i, "read") /\ UNCHANGED pc
    BY <1>3
  <2>1. id \in Listed /\ id \in used /\ id \in DOMAIN Begins
    BY <2>0, MatchIsListed, NamesAssumption DEF TypeInv, UsedIds
  <2> DEFINE names == [target[c] EXCEPT ![i] = id]
  <2>2. target[c] \in Seq(DOMAIN Begins)
    BY DEF TypeInv, TypeOK
  <2>3. /\ names \in Seq(DOMAIN Begins) /\ Len(names) = Len(target[c])
        /\ \A j \in 1 .. Len(target[c]) :
             names[j] = IF j = i THEN id ELSE target[c][j]
    BY <1>1, <2>1, <2>2, ExceptSeq
  <2>4. target' = [target EXCEPT ![c] = names]
    BY <2>0 DEF TypeInv, TypeOK
  <2> HIDE DEF names
  <2>5. /\ at' \in [Callers -> Seq(Progress)]
        /\ \A d \in Callers : Len(at'[d]) = Len(at[d])
        /\ \A d \in Callers \ {c} : at'[d] = at[d]
        /\ \A j \in 1 .. Len(target[c]) :
             at'[c][j] = IF j = i THEN "read" ELSE at[c][j]
    BY <2>0, MarkChanges DEF TypeInv, Progress
  <2>6. /\ target' \in [Callers -> Seq(DOMAIN Begins)]
        /\ \A d \in Callers : Len(target'[d]) = Len(target[d])
        /\ \A d \in Callers \ {c} : target'[d] = target[d]
        /\ target'[c] = names
    BY <2>3, <2>4 DEF TypeInv, TypeOK
  <2>7. TypeOK'
    <3>1. UNCHANGED <<status, used, log, sources, acted, pc, command, turn, source, conn>>
      BY <1>1, <2>0 DEF agentVars
    <3>2. \A d \in Callers : Len(at'[d]) = Len(target'[d])
      BY <2>5, <2>6 DEF TypeInv, TypeOK
    <3>3. QED
      BY <2>5, <2>6, <3>1, <3>2 DEF TypeInv, TypeOK
  <2>8. UsedIds'
    <3>1. used' = used /\ Listed' = Listed
      BY <1>1 DEF agentVars, Listed
    <3>2. SUFFICES ASSUME NEW d \in Callers, NEW j \in 1 .. Len(target[d]),
                          at'[d][j] # "list"
                   PROVE  target'[d][j] \in used
      BY <2>6, <3>1 DEF TypeInv, UsedIds
    <3>3. QED
      BY <2>1, <2>3, <2>5, <2>6, <3>2 DEF TypeInv, UsedIds
  <2>9. ~Resolved(c)
    BY <1>1 DEF Resolved, Recording, Acting, Sending
  <2>10. ResolvedTargets'
    <3> SUFFICES ASSUME NEW d \in Callers, Resolved(d)'
                 PROVE  target'[d] = target[d] /\ at'[d] = at[d] /\ Resolved(d)
      BY DEF TypeInv, ResolvedTargets
    <3> QED
      BY <2>0, <2>5, <2>6, <2>9 DEF Resolved
  <2>11. OneTarget' /\ TurnIsTarget' /\ Identified'
    BY <1>1, <2>0, <2>6 DEF TypeInv, OneTarget, TurnIsTarget, Resolved, Identified
  <2>12. QED
    BY <2>7, <2>8, <2>10, <2>11 DEF TypeInv
<1>4. QED
  BY <1>2, <1>3 DEF List

LEMMA ReadType ==
  ASSUME TypeInv, NEW c \in Callers, NEW i \in DOMAIN target[c], Read(c, i)
  PROVE  TypeInv'
<1>1. /\ pc[c] = "resolve" /\ at[c][i] = "read" /\ i \in 1 .. Len(target[c])
      /\ UNCHANGED <<agentVars, acted, command, target, turn, source, conn>>
  BY DEF Read, TypeInv, TypeOK
<1>2. Listed' \subseteq used
  BY <1>1 DEF TypeInv, UsedIds, Listed, agentVars
<1>3. CASE Goto(c, "failed") /\ UNCHANGED at
  <2>1. TypeOK'
    BY <1>1, <1>3 DEF TypeInv, TypeOK, agentVars, Goto, CallerState, Ended
  <2>2. QED
    BY <1>1, <1>2, <1>3, <2>1, SameTargets
       DEF agentVars, Resolved, Recording, Acting, Sending
<1>4. CASE /\ Mark(c, i, "ready")
           /\ IF Range(at'[c]) = {"ready"}
              THEN Goto(c, AfterResolve(c)) ELSE UNCHANGED pc
  <2>1. /\ at' \in [Callers -> Seq(Progress)]
        /\ \A d \in Callers : Len(at'[d]) = Len(at[d])
        /\ \A d \in Callers \ {c} : at'[d] = at[d]
        /\ \A j \in 1 .. Len(target[c]) :
             at'[c][j] = IF j = i THEN "ready" ELSE at[c][j]
    BY <1>4, MarkChanges DEF TypeInv, Progress
  <2>2. UsedIds'
    BY <1>1, <1>2, <2>1 DEF TypeInv, UsedIds, agentVars
  <2>3. ~Resolved(c)
    BY <1>1 DEF Resolved, Recording, Acting, Sending
  <2>4. CASE UNCHANGED pc
    <3>1. TypeOK'
      BY <1>1, <2>1, <2>4 DEF TypeInv, TypeOK, agentVars
    <3>2. ResolvedTargets' /\ OneTarget' /\ TurnIsTarget' /\ Identified'
      BY <1>1, <2>1, <2>3, <2>4
         DEF TypeInv, ResolvedTargets, OneTarget, TurnIsTarget, Resolved, Identified
    <3>3. QED
      BY <2>2, <3>1, <3>2 DEF TypeInv
  <2>5. CASE Range(at'[c]) = {"ready"} /\ Goto(c, AfterResolve(c))
    <3>1. \A j \in 1 .. Len(target[c]) : at'[c][j] = "ready"
      <4>1. Len(at'[c]) = Len(target[c]) /\ at'[c] \in Seq(Progress)
        BY <2>1 DEF TypeInv, TypeOK
      <4>2. \A j \in DOMAIN at'[c] : at'[c][j] \in {"ready"}
        BY <2>5 DEF Range
      <4>3. QED
        BY <4>1, <4>2
    <3>2. /\ AfterResolve(c) \in {"identify"} \cup Acting
          /\ AfterResolve(c) \in Sending => command[c] \in RpcCommands
          /\ AfterResolve(c) = "launch" => command[c] = "spawn"
      BY FirstStateActs DEF AfterResolve, Sending
    <3>3. /\ pc'[c] = AfterResolve(c) /\ \A d \in Callers \ {c} : pc'[d] = pc[d]
          /\ pc' \in [Callers -> CallerState]
      BY <2>5, <3>2 DEF TypeInv, TypeOK, Goto, CallerState, Acting, Sending
    <3>4. TypeOK'
      BY <1>1, <2>1, <3>3 DEF TypeInv, TypeOK, agentVars
    <3>5. ResolvedTargets'
      BY <1>1, <2>1, <3>1, <3>3, SMTT(30) DEF TypeInv, ResolvedTargets, Resolved
    <3>6. turn[c] = 1 /\ 1 <= Len(target[c])
      BY <1>1 DEF TypeInv, TurnIsTarget, TypeOK
    <3>7. OneTarget' /\ TurnIsTarget' /\ Identified'
      BY <1>1, <3>2, <3>3, <3>6
         DEF TypeInv, OneTarget, TurnIsTarget, Resolved, Identified, Recording,
             Acting, Sending
    <3>8. QED
      BY <2>2, <3>4, <3>5, <3>7 DEF TypeInv
  <2>6. QED
    BY <1>4, <2>4, <2>5
<1>5. QED
  BY <1>3, <1>4 DEF Read

\* The next log to write to is that of a target; after the last the command acts.
LEMMA NextTargetGoes ==
  ASSUME TypeInv, NEW c \in Callers, Resolved(c), NextTarget(c)
  PROVE  \E state \in {"event"} \cup Acting :
           /\ Goto(c, state)
           /\ state \in Sending => command[c] \in RpcCommands
           /\ state = "launch" => command[c] = "spawn"
           /\ state # "event" => turn[c] = Len(target[c]) /\ turn' = turn
           /\ state = "event" => turn'[c] = turn[c] + 1
           /\ turn' \in [Callers -> Nat \ {0}]
           /\ turn'[c] <= Len(target[c])
           /\ \A d \in Callers \ {c} : turn'[d] = turn[d]
<1>1. turn \in [Callers -> Nat \ {0}] /\ turn[c] <= Len(target[c])
  BY DEF TypeInv, TypeOK, TurnIsTarget
<1>2. CASE LastTarget(c)
  <2>1. Goto(c, FirstState(command[c])) /\ turn' = turn /\ turn[c] = Len(target[c])
    BY <1>2 DEF NextTarget, LastTarget
  <2>2. QED
    BY <1>1, <2>1, FirstStateActs DEF Acting, Sending
<1>3. CASE ~LastTarget(c)
  <2>1. Goto(c, "event") /\ turn' = [turn EXCEPT ![c] = @ + 1] /\ turn[c] # Len(target[c])
    BY <1>3 DEF NextTarget, LastTarget
  <2>2. Len(target[c]) \in Nat
    BY DEF TypeInv, TypeOK
  <2>3. QED
    BY <1>1, <2>1, <2>2 DEF Sending
<1>4. QED
  BY <1>2, <1>3

\* The target whose log is being written to.
LEMMA TurnTarget ==
  ASSUME TypeInv, NEW c \in Callers, Resolved(c)
  PROVE  /\ turn[c] \in 1 .. Len(target[c])
         /\ target[c][turn[c]] \in Ids
<1>1. turn[c] \in 1 .. Len(target[c])
  BY DEF TypeInv, TypeOK, TurnIsTarget
<1>2. QED
  BY <1>1, TargetIsId

LEMMA AuditType ==
  ASSUME TypeInv, NEW c \in Callers, Audit(c)
  PROVE  TypeInv'
<1> USE DEF CallerState, Ended, Resolved, Recording, Acting, Sending
<1>1. Listed' \subseteq used /\ UNCHANGED <<status, used, command, target, at, acted, conn>>
  BY DEF Audit, Identify, AppendEvent, Lookup, AppendSource, agentVars, TypeInv,
         UsedIds, Listed
<1>2. /\ turn[c] \in Nat \ {0} /\ (Resolved(c) => turn[c] <= Len(target[c]))
      /\ pc[c] \in Recording => source[c] \in Source
  BY DEF TypeInv, TypeOK, TurnIsTarget, Identified
<1>3. CASE Identify(c)
  <2>1. /\ pc[c] = "identify" /\ Goto(c, "event")
        /\ UNCHANGED <<log, sources, turn>>
        /\ \E s \in Source : source' = [source EXCEPT ![c] = s]
        /\ source'[c] \in Source
        /\ \A d \in Callers \ {c} : source'[d] = source[d]
    BY <1>3, SourcesAreTyped DEF Identify, agentVars, TypeInv, TypeOK
  <2>2. TypeOK'
    BY <1>1, <2>1 DEF TypeInv, TypeOK, Goto
  <2>3. QED
    BY <1>1, <1>2, <2>1, <2>2, SameTargets
<1>4. CASE AppendEvent(c)
  <2> DEFINE id == target[c][turn[c]]
  <2>1. Resolved(c) /\ pc[c] = "event" /\ UNCHANGED <<sources, source>>
    BY <1>4 DEF AppendEvent
  <2>2. id \in Ids
    BY <2>1, TurnTarget
  <2>3. \/ log' = log
        \/ log' = [log EXCEPT ![id] = @ \cup {c}]
    BY <1>4 DEF AppendEvent
  <2> HIDE DEF id
  <2>4. log' \in [Ids -> SUBSET Callers]
    <3>1. log \in [Ids -> SUBSET Callers] /\ log[id] \cup {c} \in SUBSET Callers
      BY <2>2 DEF TypeInv, TypeOK
    <3>2. QED
      BY <2>3, <3>1
  <2>5. \/ \E state \in {"failed", "lookup"} : Goto(c, state) /\ turn' = turn
        \/ NextTarget(c)
    BY <1>4 DEF AppendEvent
  <2>6. CASE NextTarget(c)
    <3>1. PICK state \in {"event"} \cup Acting :
            /\ Goto(c, state)
            /\ state \in Sending => command[c] \in RpcCommands
            /\ state = "launch" => command[c] = "spawn"
            /\ turn' \in [Callers -> Nat \ {0}] /\ turn'[c] <= Len(target[c])
            /\ \A d \in Callers \ {c} : turn'[d] = turn[d]
      BY <2>1, <2>6, NextTargetGoes
    <3>2. TypeOK'
      BY <1>1, <2>1, <2>4, <3>1 DEF TypeInv, TypeOK, Goto
    <3>3. QED
      BY <1>1, <1>2, <2>1, <3>1, <3>2, SameTargets
  <2>7. CASE \E state \in {"failed", "lookup"} : Goto(c, state) /\ turn' = turn
    <3>1. PICK state \in {"failed", "lookup"} : Goto(c, state) /\ turn' = turn
      BY <2>7
    <3>2. TypeOK'
      BY <1>1, <2>1, <2>4, <3>1 DEF TypeInv, TypeOK, Goto
    <3>3. QED
      BY <1>1, <1>2, <2>1, <3>1, <3>2, SameTargets
  <2>8. QED
    BY <2>5, <2>6, <2>7
<1>5. CASE Lookup(c)
  <2>1. Resolved(c) /\ pc[c] = "lookup" /\ UNCHANGED <<log, sources, source>>
    BY <1>5 DEF Lookup, agentVars
  <2>2. CASE NextTarget(c)
    <3>1. PICK state \in {"event"} \cup Acting :
            /\ Goto(c, state)
            /\ state \in Sending => command[c] \in RpcCommands
            /\ state = "launch" => command[c] = "spawn"
            /\ turn' \in [Callers -> Nat \ {0}] /\ turn'[c] <= Len(target[c])
            /\ \A d \in Callers \ {c} : turn'[d] = turn[d]
      BY <2>1, <2>2, NextTargetGoes
    <3>2. TypeOK'
      BY <1>1, <2>1, <3>1 DEF TypeInv, TypeOK, Goto
    <3>3. QED
      BY <1>1, <1>2, <2>1, <3>1, <3>2, SameTargets
  <2>3. CASE Goto(c, "append") /\ UNCHANGED turn
    <3>1. TypeOK'
      BY <1>1, <2>1, <2>3 DEF TypeInv, TypeOK, Goto
    <3>2. QED
      BY <1>1, <1>2, <2>1, <2>3, <3>1, SameTargets
  <2>4. QED
    BY <1>5, <2>2, <2>3 DEF Lookup
<1>6. CASE AppendSource(c)
  <2> DEFINE id == target[c][turn[c]]
  <2>1. Resolved(c) /\ pc[c] = "append" /\ UNCHANGED <<log, source>>
    BY <1>6 DEF AppendSource
  <2>2. id \in Ids
    BY <2>1, TurnTarget
  <2>3. CASE NextTarget(c) /\ sources' = [sources EXCEPT ![id] = @ \cup {source[c]}]
    <3>1. PICK state \in {"event"} \cup Acting :
            /\ Goto(c, state)
            /\ state \in Sending => command[c] \in RpcCommands
            /\ state = "launch" => command[c] = "spawn"
            /\ turn' \in [Callers -> Nat \ {0}] /\ turn'[c] <= Len(target[c])
            /\ \A d \in Callers \ {c} : turn'[d] = turn[d]
      BY <2>1, <2>3, NextTargetGoes
    <3>2. TypeOK'
      BY <1>1, <1>2, <2>1, <2>2, <2>3, <3>1 DEF TypeInv, TypeOK, Goto
    <3>3. QED
      BY <1>1, <1>2, <2>1, <3>1, <3>2, SameTargets
  <2>4. CASE Goto(c, "failed") /\ UNCHANGED <<sources, turn>>
    <3>1. TypeOK'
      BY <1>1, <2>1, <2>4 DEF TypeInv, TypeOK, Goto
    <3>2. QED
      BY <1>1, <1>2, <2>1, <2>4, <3>1, SameTargets
  <2>5. QED
    BY <1>6, <2>3, <2>4 DEF AppendSource
<1>7. QED
  BY <1>3, <1>4, <1>5, <1>6 DEF Audit

\* A request and a spawn have one target, and what is done is done to it.
LEMMA FirstTarget ==
  ASSUME TypeInv, NEW c \in Callers, pc[c] \in {"launch"} \cup Sending
  PROVE  /\ Resolved(c) /\ Len(target[c]) = 1 /\ target[c][1] \in Ids
         /\ turn[c] = 1
<1>1. Resolved(c) /\ command[c] \in RpcCommands \cup {"spawn"}
  BY DEF TypeInv, OneTarget, Resolved, Acting
<1>2. Len(target[c]) = 1
  <2>1. target[c] \in Seq(DOMAIN Begins) /\ target[c] # <<>>
    BY <1>1 DEF TypeInv, TypeOK, ResolvedTargets
  <2> DEFINE n == Len(target[c])
  <2>2. n \in Nat /\ n <= 1 /\ n # 0
    BY <1>1, <2>1, EmptySeq DEF TypeInv, OneTarget
  <2>3. QED
    <3> HIDE DEF n
    <3>1. n = 1
      BY <2>2
    <3>2. QED
      BY <3>1 DEF n
<1>3. QED
  BY <1>1, <1>2, TargetIsId DEF TypeInv, TypeOK, TurnIsTarget

\* A request whose target is resolved again, to an agent that is there.
LEMMA SwappedTarget ==
  ASSUME TypeInv, NEW c \in Callers, NEW id \in Ids, status[id] # "absent",
         pc[c] \in Sending, NEW state \in Sending, Goto(c, state),
         target' = [target EXCEPT ![c] = <<id>>],
         status' \in [Ids -> Status], Listed' \subseteq used,
         UNCHANGED <<used, log, sources, acted, command, at, turn, source, conn>>
  PROVE  TypeInv'
<1>1. /\ pc' \in [Callers -> CallerState]
      /\ pc'[c] = state /\ \A d \in Callers \ {c} : pc'[d] = pc[d]
  BY DEF Goto, TypeInv, TypeOK, CallerState, Sending
<1>2. /\ Len(target[c]) = 1 /\ turn[c] = 1 /\ Resolved(c)
      /\ command[c] \in RpcCommands
  BY FirstTarget DEF TypeInv, OneTarget
<1>3. /\ target' \in [Callers -> Seq(DOMAIN Begins)]
      /\ Len(target'[c]) = 1 /\ target'[c][1] = id
      /\ \A d \in Callers \ {c} : target'[d] = target[d]
  BY NamesAssumption DEF TypeInv, TypeOK
<1>4. TypeOK'
  BY <1>1, <1>2, <1>3 DEF TypeInv, TypeOK
<1>5. UsedIds'
  <2>1. id \in used
    BY DEF TypeInv, UsedIds, Listed
  <2>2. QED
    BY <1>2, <1>3, <2>1 DEF TypeInv, UsedIds
<1>6. ResolvedTargets'
  BY <1>1, <1>2, <1>3 DEF TypeInv, ResolvedTargets, Resolved
<1>7. OneTarget' /\ TurnIsTarget' /\ Identified'
  BY <1>1, <1>2, <1>3
     DEF TypeInv, OneTarget, TurnIsTarget, Identified, Resolved, Recording, Sending
<1>8. QED
  BY <1>4, <1>5, <1>6, <1>7 DEF TypeInv

LEMMA LaunchType ==
  ASSUME TypeInv, NEW c \in Callers, Launch(c)
  PROVE  TypeInv'
<1>1. /\ pc[c] = "launch" /\ Resolved(c) /\ target[c][1] \in Ids
      /\ turn[c] <= Len(target[c])
  BY FirstTarget DEF Launch
<1>2. PICK state \in {"done", "failed"} : Goto(c, state)
  BY DEF Launch
<1>3. status' \in [Ids -> Status] /\ Listed' \subseteq used
  BY <1>1 DEF Launch, TypeInv, TypeOK, Status, UsedIds, Listed
<1>4. acted' \subseteq Callers \X Ids
  BY <1>1 DEF Launch, TypeInv, TypeOK
<1>5. TypeOK'
  BY <1>2, <1>3, <1>4 DEF Launch, TypeInv, TypeOK, Goto, CallerState, Ended
<1>6. QED
  BY <1>1, <1>2, <1>3, <1>5, SameTargets
     DEF Launch, Recording, Acting, Sending

\* Revived by a caller, resumed or stopped: no agent comes from nowhere.
LEMMA StatusListed ==
  ASSUME TypeInv, NEW id \in Ids, NEW state \in Status,
         status[id] = "absent" => state = "absent",
         status' = [status EXCEPT ![id] = state], UNCHANGED used
  PROVE  status' \in [Ids -> Status] /\ Listed' \subseteq used
  BY DEF TypeInv, TypeOK, UsedIds, Listed

LEMMA UnarchivedStatus ==
  ASSUME TypeInv, NEW id \in Ids, status' = Unarchived(id), UNCHANGED used
  PROVE  status' \in [Ids -> Status] /\ Listed' \subseteq used
  BY DEF Unarchived, TypeInv, TypeOK, UsedIds, Listed, Status

LEMMA SendType ==
  ASSUME TypeInv, NEW c \in Callers, SendRpc(c)
  PROVE  TypeInv'
<1>1. pc[c] \in Sending
  BY DEF SendRpc, Compose, EnsureAgentRunning, ReviveAgent, Connect, Request,
         Sending
<1>2. /\ Resolved(c) /\ turn[c] <= Len(target[c]) /\ target[c][1] \in Ids
      /\ command[c] \in RpcCommands
  BY <1>1, FirstTarget DEF TypeInv, OneTarget
<1>3. Listed \subseteq used
  BY DEF TypeInv, UsedIds
<1>4. CASE Compose(c)
  <2>1. PICK state \in {"ensure", "failed"} : Goto(c, state)
    BY <1>4 DEF Compose
  <2>2. TypeOK'
    BY <1>4, <2>1 DEF Compose, agentVars, TypeInv, TypeOK, Goto, CallerState, Ended
  <2>3. QED
    BY <1>2, <1>3, <1>4, <2>1, <2>2, SameTargets
       DEF Compose, agentVars, Listed, Recording, Sending, Acting
<1>5. CASE EnsureAgentRunning(c)
  <2>1. CASE Goto(c, "failed") /\ UNCHANGED target
    <3>1. TypeOK'
      BY <1>5, <2>1
         DEF EnsureAgentRunning, agentVars, TypeInv, TypeOK, Goto, CallerState, Ended
    <3>2. QED
      BY <1>2, <1>3, <1>5, <2>1, <3>1, SameTargets
         DEF EnsureAgentRunning, agentVars, Listed, Recording, Sending, Acting
  <2>2. CASE \E id \in Loads(target[c][1]) :
               /\ target' = [target EXCEPT ![c] = <<id>>]
               /\ Goto(c, IF status[id] = "running" THEN "connect" ELSE "revive")
    <3>1. PICK id \in Loads(target[c][1]) :
               /\ target' = [target EXCEPT ![c] = <<id>>]
               /\ Goto(c, IF status[id] = "running" THEN "connect" ELSE "revive")
      BY <2>2
    <3>2. id \in Ids /\ status[id] # "absent"
      BY LoadsOne
    <3>3. PICK state \in Sending : Goto(c, state)
      BY <3>1 DEF Sending
    <3>4. QED
      BY <1>1, <1>3, <1>5, <3>1, <3>2, <3>3, SwappedTarget
         DEF EnsureAgentRunning, agentVars, Listed, TypeInv, TypeOK
  <2>3. QED
    BY <1>5, <2>1, <2>2 DEF EnsureAgentRunning
<1>6. CASE ReviveAgent(c)
  <2>1. CASE Goto(c, "failed") /\ UNCHANGED target
    <3>1. status' \in [Ids -> Status] /\ Listed' \subseteq used
      <4>1. CASE status' = status
        BY <1>3, <4>1 DEF TypeInv, TypeOK, Listed
      <4>2. CASE \E id \in Loads(target[c][1]) : status' = Unarchived(id)
        BY <1>6, <4>2, LoadsOne, UnarchivedStatus DEF ReviveAgent
      <4>3. CASE \E id \in Loads(target[c][1]) : status' = [status EXCEPT ![id] = "running"]
        BY <1>6, <4>3, LoadsOne, StatusListed DEF ReviveAgent, Status
      <4>4. QED
        BY <1>6, <4>1, <4>2, <4>3 DEF ReviveAgent
    <3>2. TypeOK'
      BY <1>6, <2>1, <3>1 DEF ReviveAgent, TypeInv, TypeOK, Goto, CallerState, Ended
    <3>3. QED
      BY <1>2, <1>6, <2>1, <3>1, <3>2, SameTargets
         DEF ReviveAgent, Recording, Sending, Acting
  <2>2. CASE \E id \in Loads(target[c][1]) :
               /\ status' = [status EXCEPT ![id] = "running"]
               /\ target' = [target EXCEPT ![c] = <<id>>]
               /\ Goto(c, "connect")
    <3>1. PICK id \in Loads(target[c][1]) :
               /\ status' = [status EXCEPT ![id] = "running"]
               /\ target' = [target EXCEPT ![c] = <<id>>]
               /\ Goto(c, "connect")
      BY <2>2
    <3>2. id \in Ids /\ status[id] # "absent"
      BY LoadsOne
    <3>3. status' \in [Ids -> Status] /\ Listed' \subseteq used
      BY <1>6, <3>1, <3>2, StatusListed DEF ReviveAgent, Status
    <3>4. QED
      BY <1>1, <1>6, <3>1, <3>2, <3>3, SwappedTarget DEF ReviveAgent, Sending
  <2>3. QED
    BY <1>6, <2>1, <2>2 DEF ReviveAgent
<1>7. CASE Connect(c)
  <2>1. PICK state \in {"request", "failed"} : Goto(c, state)
    BY <1>7 DEF Connect
  <2>2. TypeOK'
    BY <1>2, <1>7, <2>1
       DEF Connect, agentVars, TypeInv, TypeOK, Goto, CallerState, Ended
  <2>3. QED
    BY <1>2, <1>3, <1>7, <2>1, <2>2, SameTargets
       DEF Connect, agentVars, Listed, Recording, Sending, Acting
<1>8. CASE Request(c)
  <2>1. PICK state \in {"done", "failed"} : Goto(c, state)
    BY <1>8 DEF Request
  <2>2. TypeOK'
    BY <1>2, <1>8, <2>1
       DEF Request, agentVars, TypeInv, TypeOK, Goto, CallerState, Ended
  <2>3. QED
    BY <1>2, <1>3, <1>8, <2>1, <2>2, SameTargets
       DEF Request, agentVars, Listed, Recording, Sending, Acting
<1>9. QED
  BY <1>4, <1>5, <1>6, <1>7, <1>8 DEF SendRpc

LEMMA EachType ==
  ASSUME TypeInv, NEW c \in Callers, ForEachAgent(c)
  PROVE  TypeInv'
<1>1. Resolved(c) /\ turn[c] <= Len(target[c])
  BY DEF ForEachAgent, Stop, SetArchived, Purge, Suspended, Resume, Finish,
         Resolved, Acting, TypeInv, TurnIsTarget
<1>2. ASSUME NEW i \in DOMAIN target[c],
             Stop(c, i) \/ SetArchived(c, i) \/ Purge(c, i) \/ Suspended(c, i)
               \/ Resume(c, i)
      PROVE  TypeInv'
  <2> DEFINE id == target[c][i]
  <2>1. id \in Ids /\ i \in 1 .. Len(target[c])
    BY <1>1, TargetIsId DEF TypeInv, TypeOK
  <2> HIDE DEF id
  <2>2. UNCHANGED <<used, pc, command, target, turn, source>>
    BY <1>2 DEF Stop, SetArchived, Purge, Suspended, Resume, agentVars
  <2>3. PICK step \in Progress \ {"list"} : Mark(c, i, step)
    BY <1>2 DEF Stop, SetArchived, Purge, Suspended, Resume, Progress
  <2>4. status' \in [Ids -> Status] /\ Listed' \subseteq used
    <3>1. CASE status' = status
      BY <3>1 DEF TypeInv, TypeOK, UsedIds, Listed
    <3>2. CASE \E state \in Status :
                 /\ status[id] = "absent" => state = "absent"
                 /\ status' = [status EXCEPT ![id] = state]
      BY <2>1, <2>2, <3>2, StatusListed
    <3>3. CASE status' = Unarchived(id)
      BY <2>1, <2>2, <3>3, UnarchivedStatus
    <3>4. status[id] \in Status
      BY <2>1 DEF TypeInv, TypeOK
    <3>5. QED
      BY <1>2, <2>1, <3>1, <3>2, <3>3, <3>4
         DEF id, Stop, SetArchived, Purge, Suspended, Resume, Recorded, Status,
             agentVars
  <2>5. log' \in [Ids -> SUBSET Callers] /\ sources' \in [Ids -> SUBSET Source]
    BY <1>2, <2>1
       DEF id, Stop, SetArchived, Purge, Suspended, Resume, agentVars, TypeInv, TypeOK
  <2>6. acted' \subseteq Callers \X Ids
    <3>1. acted' = acted \/ acted' = acted \cup {<<c, id>>}
      BY <1>2 DEF id, Stop, SetArchived, Purge, Suspended, Resume
    <3>2. QED
      BY <2>1, <3>1 DEF TypeInv, TypeOK
  <2>7. conn' \in [Callers -> Ids \cup {None}]
    BY <1>2 DEF Stop, SetArchived, Purge, Suspended, Resume, Disconnect, TypeInv,
                TypeOK
  <2>8. at' \in [Callers -> Seq(Progress)] /\ \A d \in Callers : Len(at'[d]) = Len(at[d])
    BY <2>3, MarkChanges DEF TypeInv
  <2>9. TypeOK'
    BY <2>2, <2>4, <2>5, <2>6, <2>7, <2>8 DEF TypeInv, TypeOK
  <2>10. QED
    BY <1>1, <2>2, <2>3, <2>4, <2>9, MarkedTarget
<1>3. CASE Finish(c)
  <2>1. PICK state \in {"failed", "done"} : Goto(c, state)
    BY <1>3 DEF Finish
  <2>2. TypeOK'
    BY <1>3, <2>1 DEF Finish, agentVars, TypeInv, TypeOK, Goto, CallerState, Ended
  <2>3. QED
    BY <1>1, <1>3, <2>1, <2>2, SameTargets
       DEF Finish, agentVars, TypeInv, UsedIds, Listed, Recording, Sending, Acting
<1>4. QED
  BY <1>2, <1>3 DEF ForEachAgent

LEMMA KillType ==
  ASSUME TypeInv, NEW c \in Callers, Kill(c)
  PROVE  TypeInv'
<1>1. TypeOK'
  BY DEF Kill, agentVars, TypeInv, TypeOK, Goto, CallerState, Ended
<1>2. turn[c] \in Nat /\ (Resolved(c) => turn[c] <= Len(target[c]))
  BY DEF TypeInv, TypeOK, TurnIsTarget
<1>3. QED
  BY <1>1, <1>2, SameTargets
     DEF Kill, agentVars, TypeInv, UsedIds, Listed, Recording, Sending, Acting

LEMMA DieType ==
  ASSUME TypeInv, NEW id \in Ids, Die(id)
  PROVE  TypeInv'
<1>1. status' \in [Ids -> Status] /\ Listed' \subseteq used
  BY StatusListed DEF Die, Status
<1>2. TypeOK'
  BY <1>1 DEF Die, Disconnect, TypeInv, TypeOK
<1>3. UsedIds' /\ ResolvedTargets' /\ OneTarget' /\ TurnIsTarget' /\ Identified'
  BY <1>1 DEF Die, TypeInv, UsedIds, ResolvedTargets, OneTarget, TurnIsTarget,
              Identified, Resolved
<1>4. QED
  BY <1>2, <1>3 DEF TypeInv

LEMMA StutterType ==
  ASSUME TypeInv, UNCHANGED vars
  PROVE  TypeInv'
<1>1. TypeOK'
  BY DEF vars, agentVars, callerVars, TypeInv, TypeOK
<1>2. QED
  BY <1>1 DEF vars, agentVars, callerVars, TypeInv, UsedIds, Listed,
              ResolvedTargets, OneTarget, TurnIsTarget, Identified, Resolved

LEMMA TypeStep == TypeInv /\ [Next]_vars => TypeInv'
<1> SUFFICES ASSUME TypeInv, [Next]_vars PROVE TypeInv'
  OBVIOUS
<1>1. CASE UNCHANGED vars
  BY <1>1, StutterType
<1>2. ASSUME NEW c \in Callers,
             \/ \E name \in Uses, flags \in Flags, envTarget \in EnvTargets :
                  Begin(c, name, flags, envTarget)
             \/ "spawn" \in Uses /\ \E id \in Ids : BeginSpawn(c, id)
             \/ \E i \in DOMAIN target[c] : List(c, i) \/ Read(c, i)
             \/ Audit(c) \/ Launch(c) \/ SendRpc(c) \/ ForEachAgent(c) \/ Kill(c)
      PROVE  TypeInv'
  BY <1>2, BeginType, BeginSpawnType, ListType, ReadType, AuditType, LaunchType,
     SendType, EachType, KillType
<1>3. CASE \E id \in Ids : Die(id)
  BY <1>3, DieType
<1>4. QED
  BY <1>1, <1>2, <1>3 DEF Next

\* Every variable keeps its type: however many callers and agents, whatever
\* they are called, whether ids are used again or not.
THEOREM TypeCorrect == Spec => []TypeOK
<1>1. Spec => []TypeInv
  BY InitTypeInv, TypeStep, PTL DEF Spec
<1>2. TypeInv => TypeOK
  BY DEF TypeInv
<1>3. QED
  BY <1>1, <1>2, PTL

-----------------------------------------------------------------------------
(* The sources of events.                                                   *)

\* Where a caller is that has yet to record itself.
Early == {"idle", "usage", "resolve", "identify"}

\* A step of a caller outside of the writing of records keeps what is known of
\* every source.
LEMMA QuietSources ==
  ASSUME Unrecorded, SourcesKnown, NEW c \in Callers,
         UNCHANGED <<log, sources, source>>,
         pc[c] \notin Ended \cup {"lookup", "append"},
         pc'[c] \in Early => pc[c] \in Early,
         \A d \in Callers \ {c} : /\ pc'[d] = pc[d] /\ target'[d] = target[d]
                                  /\ turn'[d] = turn[d]
  PROVE  Unrecorded' /\ SourcesKnown'
<1>1. Unrecorded'
  BY DEF Unrecorded, Early
<1>2. SourcesKnown'
  <2> SUFFICES ASSUME NEW d \in Callers, NEW id \in Ids, d \in log[id],
                      source[d].kind = "manager", pc'[d] \in Ended => pc'[d] = "done"
               PROVE  \/ source[d] \in sources[id]
                      \/ pc'[d] \in {"lookup", "append"} /\ target'[d][turn'[d]] = id
    BY DEF SourcesKnown
  <2>1. pc[d] \in Ended => pc[d] = "done"
    OBVIOUS
  <2>2. \/ source[d] \in sources[id]
        \/ pc[d] \in {"lookup", "append"} /\ target[d][turn[d]] = id
    BY <2>1 DEF SourcesKnown
  <2>3. QED
    BY <2>2
<1>3. QED
  BY <1>1, <1>2

\* Nor does one that leaves every caller where it is.
LEMMA SameSources ==
  ASSUME Unrecorded, SourcesKnown,
         UNCHANGED <<log, sources, source, pc, target, turn>>
  PROVE  Unrecorded' /\ SourcesKnown'
  BY DEF Unrecorded, SourcesKnown

LEMMA AuditSources ==
  ASSUME SourcesInv, NEW c \in Callers, Audit(c)
  PROVE  Unrecorded' /\ SourcesKnown'
<1>1. /\ UNCHANGED target
      /\ \A d \in Callers \ {c} : pc'[d] = pc[d] /\ turn'[d] = turn[d]
                                   /\ source'[d] = source[d]
      /\ \A d \in Callers \ {c}, id \in Ids : d \in log'[id] => d \in log[id]
      /\ \A id \in Ids : sources[id] \subseteq sources'[id]
  <2>1. Resolved(c) \/ pc[c] = "identify"
    BY DEF Audit, Identify, AppendEvent, Lookup, AppendSource, Resolved, Recording
  <2>2. TypeOK /\ target[c][turn[c]] \in Ids
    BY <2>1, TurnTarget DEF SourcesInv, TypeInv, Resolved
  <2>3. UNCHANGED target /\ \A d \in Callers \ {c} : source'[d] = source[d]
    BY <2>2 DEF Audit, Identify, AppendEvent, Lookup, AppendSource, TypeOK
  <2>4. \A d \in Callers \ {c} : pc'[d] = pc[d] /\ turn'[d] = turn[d]
    <3>1. \/ NextTarget(c)
          \/ turn' = turn /\ \E state \in CallerState : Goto(c, state)
      BY DEF Audit, Identify, AppendEvent, Lookup, AppendSource, CallerState, Ended
    <3>2. QED
      BY <2>2, <3>1 DEF NextTarget, Goto, TypeOK
  <2>5. \A d \in Callers \ {c}, id \in Ids : d \in log'[id] => d \in log[id]
    <3>1. \/ log' = log
          \/ log' = [log EXCEPT ![target[c][turn[c]]] = @ \cup {c}]
      BY DEF Audit, Identify, AppendEvent, Lookup, AppendSource, agentVars
    <3>2. QED
      BY <2>2, <3>1 DEF TypeOK
  <2>6. \A id \in Ids : sources[id] \subseteq sources'[id]
    <3>1. \/ sources' = sources
          \/ sources' = [sources EXCEPT ![target[c][turn[c]]] = @ \cup {source[c]}]
      BY DEF Audit, Identify, AppendEvent, Lookup, AppendSource, agentVars
    <3>2. QED
      BY <2>2, <3>1 DEF TypeOK
  <2>7. QED
    BY <2>3, <2>4, <2>5, <2>6
<1>2. ASSUME NEW d \in Callers \ {c}, NEW id \in Ids
      PROVE  /\ d \in log'[id] => pc'[d] \notin Early
             /\ /\ d \in log'[id]
                /\ source'[d].kind = "manager"
                /\ pc'[d] \in Ended => pc'[d] = "done"
                => \/ source'[d] \in sources'[id]
                   \/ pc'[d] \in {"lookup", "append"} /\ target'[d][turn'[d]] = id
  BY <1>1 DEF SourcesInv, Unrecorded, SourcesKnown, Early
<1>3. ASSUME NEW id \in Ids
      PROVE  /\ c \in log'[id] => pc'[c] \notin Early
             /\ /\ c \in log'[id]
                /\ source'[c].kind = "manager"
                /\ pc'[c] \in Ended => pc'[c] = "done"
                => \/ source'[c] \in sources'[id]
                   \/ pc'[c] \in {"lookup", "append"} /\ target'[c][turn'[c]] = id
  <2>1. /\ TypeOK /\ TypeInv
        /\ pc[c] # "identify" => target[c][turn[c]] \in Ids
    BY TurnTarget
       DEF SourcesInv, TypeInv, Resolved, Recording, Audit, Identify, AppendEvent,
           Lookup, AppendSource
  <2>2. /\ c \in log[id] => pc[c] \notin Early
        /\ c \in log[id] /\ source[c].kind = "manager" /\ pc[c] \notin Ended
           => \/ source[c] \in sources[id]
              \/ pc[c] \in {"lookup", "append"} /\ target[c][turn[c]] = id
    BY DEF SourcesInv, Unrecorded, SourcesKnown, Early
  <2>3. NextTarget(c) => pc'[c] \notin Early
    <3>1. FirstState(command[c]) \notin Early
      BY FirstStateActs DEF Early
    <3>2. QED
      BY <2>1, <3>1 DEF NextTarget, Goto, Early, TypeOK
  <2>4. CASE Identify(c)
    BY <2>1, <2>2, <2>4 DEF Identify, agentVars, Goto, Early, TypeOK
  <2>5. CASE AppendEvent(c)
    <3>1. pc[c] = "event" /\ UNCHANGED <<sources, source>>
      BY <2>5 DEF AppendEvent
    <3>2. CASE Goto(c, "failed") /\ UNCHANGED log
      BY <2>1, <2>2, <3>1, <3>2 DEF Goto, TypeOK, Ended, Early
    <3>3. CASE /\ log' = [log EXCEPT ![target[c][turn[c]]] = @ \cup {c}]
               /\ source[c].kind = "manager" /\ Goto(c, "lookup") /\ UNCHANGED turn
      BY <1>1, <2>1, <2>2, <3>1, <3>3 DEF Goto, TypeOK, Ended, Early
    <3>4. CASE source[c].kind # "manager" /\ NextTarget(c)
      BY <2>3, <3>1, <3>4
    <3>5. QED
      BY <2>5, <3>2, <3>3, <3>4 DEF AppendEvent
  <2>6. CASE Lookup(c)
    <3>1. pc[c] = "lookup" /\ UNCHANGED <<log, sources, source>>
      BY <2>6 DEF Lookup, agentVars
    <3>2. CASE source[c] \in sources[target[c][turn[c]]] /\ NextTarget(c)
      BY <2>2, <2>3, <3>1, <3>2 DEF Ended
    <3>3. CASE Goto(c, "append") /\ UNCHANGED turn
      BY <1>1, <2>1, <2>2, <3>1, <3>3 DEF Goto, TypeOK, Ended, Early
    <3>4. QED
      BY <2>6, <3>2, <3>3 DEF Lookup, SourceRecorded
  <2>7. CASE AppendSource(c)
    <3>1. pc[c] = "append" /\ UNCHANGED <<log, source>>
      BY <2>7 DEF AppendSource
    <3>2. CASE Goto(c, "failed")
      BY <2>1, <2>2, <3>1, <3>2 DEF Goto, TypeOK, Ended, Early
    <3>3. CASE /\ sources' = [sources EXCEPT ![target[c][turn[c]]] = @ \cup {source[c]}]
               /\ NextTarget(c)
      BY <1>1, <2>1, <2>2, <2>3, <3>1, <3>3 DEF TypeOK, Ended
    <3>4. QED
      BY <2>7, <3>2, <3>3 DEF AppendSource
  <2>8. QED
    BY <2>4, <2>5, <2>6, <2>7 DEF Audit
<1>4. QED
  BY <1>2, <1>3 DEF Unrecorded, SourcesKnown, Early

LEMMA PurgeSources ==
  ASSUME SourcesInv, NEW c \in Callers, NEW i \in DOMAIN target[c], Purge(c, i)
  PROVE  Unrecorded' /\ SourcesKnown'
<1>1. /\ UNCHANGED <<pc, target, turn, source>>
      /\ \A id \in Ids : \/ log'[id] = {}
                         \/ log'[id] = log[id] /\ sources'[id] = sources[id]
  BY DEF Purge, SourcesInv, TypeInv, TypeOK
<1>2. QED
  BY <1>1 DEF SourcesInv, Unrecorded, SourcesKnown

LEMMA SourcesStep == SourcesInv /\ [Next]_vars => SourcesInv'
<1> SUFFICES ASSUME SourcesInv, [Next]_vars PROVE Unrecorded' /\ SourcesKnown'
  BY TypeStep DEF SourcesInv
<1> USE DEF Ended, Early
<1>1. TypeOK /\ Unrecorded /\ SourcesKnown
  BY DEF SourcesInv, TypeInv
<1>2. CASE UNCHANGED vars
  BY <1>1, <1>2, SameSources DEF vars, agentVars, callerVars
<1>3. ASSUME NEW c \in Callers, NEW name \in Uses, NEW flags \in Flags,
             NEW envTarget \in EnvTargets, Begin(c, name, flags, envTarget)
      PROVE  Unrecorded' /\ SourcesKnown'
  BY <1>1, <1>3, QuietSources DEF Begin, agentVars, Goto, TypeOK
<1>4. ASSUME NEW c \in Callers, NEW id \in Ids, BeginSpawn(c, id)
      PROVE  Unrecorded' /\ SourcesKnown'
  BY <1>1, <1>4, QuietSources DEF BeginSpawn, Goto, TypeOK
<1>5. ASSUME NEW c \in Callers, NEW i \in DOMAIN target[c], List(c, i) \/ Read(c, i)
      PROVE  Unrecorded' /\ SourcesKnown'
  BY <1>1, <1>5, QuietSources DEF List, Read, agentVars, Goto, TypeOK
<1>6. ASSUME NEW c \in Callers, Audit(c)
      PROVE  Unrecorded' /\ SourcesKnown'
  BY <1>6, AuditSources
<1>7. ASSUME NEW c \in Callers, Launch(c)
      PROVE  Unrecorded' /\ SourcesKnown'
  BY <1>1, <1>7, QuietSources DEF Launch, Goto, TypeOK
<1>8. ASSUME NEW c \in Callers, SendRpc(c)
      PROVE  Unrecorded' /\ SourcesKnown'
  BY <1>1, <1>8, QuietSources
     DEF SendRpc, Compose, EnsureAgentRunning, ReviveAgent, Connect, Request,
         agentVars, Goto, TypeOK
<1>9. ASSUME NEW c \in Callers, NEW i \in DOMAIN target[c], Purge(c, i)
      PROVE  Unrecorded' /\ SourcesKnown'
  BY <1>9, PurgeSources
<1>10. ASSUME NEW c \in Callers, NEW i \in DOMAIN target[c],
              Stop(c, i) \/ SetArchived(c, i) \/ Suspended(c, i) \/ Resume(c, i)
       PROVE  Unrecorded' /\ SourcesKnown'
  BY <1>1, <1>10, SameSources DEF Stop, SetArchived, Suspended, Resume, agentVars
<1>11. ASSUME NEW c \in Callers, Finish(c)
       PROVE  Unrecorded' /\ SourcesKnown'
  BY <1>1, <1>11, QuietSources DEF Finish, agentVars, Goto, TypeOK
<1>12. ASSUME NEW c \in Callers, Kill(c)
       PROVE  Unrecorded' /\ SourcesKnown'
  BY <1>1, <1>12 DEF Kill, agentVars, Goto, TypeOK, Unrecorded, SourcesKnown
<1>13. CASE \E id \in Ids : Die(id)
  BY <1>1, <1>13, SameSources DEF Die
<1>14. QED
  BY <1>2, <1>3, <1>4, <1>5, <1>6, <1>7, <1>8, <1>9, <1>10, <1>11, <1>12, <1>13
     DEF Next, ForEachAgent

\* An event by a source that outlives its command can be explained from
\* sources.jsonl beside it, unless its command ended early: however many
\* callers record the same source at once, and however names are resolved.
THEOREM SourcesAreKnown == Spec => []SourcesKnown
<1>1. Init => SourcesInv
  BY InitTypeInv DEF Init, SourcesInv, Unrecorded, SourcesKnown
<1>2. SourcesInv => SourcesKnown
  BY DEF SourcesInv
<1>3. QED
  BY <1>1, <1>2, SourcesStep, PTL DEF Spec

-----------------------------------------------------------------------------
(* The audit trail.                                                         *)

\* An id that was used and is gone stays gone, and no log is lost but with the
\* directory: a caller that stands in the log of an agent stays there.
LEMMA LoggedStays ==
  ASSUME Unambiguous, TypeInv, [Next]_vars,
         NEW d \in Callers, NEW id \in used, Logged(d, id)
  PROVE  Logged(d, id)'
<1>1. TypeOK /\ id \in Ids
  BY DEF TypeInv, TypeOK
<1>2. ASSUME status[id] = "absent" PROVE status'[id] = "absent"
  <2>1. CASE status' = status
    BY <1>2, <2>1
  <2>2. CASE \E c \in Callers, new \in Ids : BeginSpawn(c, new)
    BY <1>1, <1>2, <2>2 DEF BeginSpawn, Unambiguous, TypeOK
  <2>3. CASE \E c \in Callers : Launch(c)
    BY <1>1, <1>2, <2>3 DEF Launch, TypeOK
  <2>4. CASE \E c \in Callers : ReviveAgent(c)
    BY <1>1, <1>2, <2>4, LoadsOne DEF ReviveAgent, Unarchived, TypeOK
  <2>5. CASE \E c \in Callers : \E i \in DOMAIN target[c] :
               Stop(c, i) \/ SetArchived(c, i) \/ Purge(c, i) \/ Resume(c, i)
    BY <1>1, <1>2, <2>5
       DEF Stop, SetArchived, Purge, Resume, Unarchived, Recorded, TypeOK
  <2>6. CASE \E other \in Ids : Die(other)
    BY <1>1, <1>2, <2>6 DEF Die, TypeOK
  <2>7. QED
    BY <2>1, <2>2, <2>3, <2>4, <2>5, <2>6
       DEF Next, vars, agentVars, Begin, List, Read, Audit, Identify, AppendEvent,
           Lookup, AppendSource, SendRpc, Compose, EnsureAgentRunning, Connect,
           Request, ForEachAgent, Suspended, Finish, Kill
<1>3. ASSUME d \in log[id] PROVE d \in log'[id] \/ status'[id] = "absent"
  <2>1. CASE log' = log
    BY <1>3, <2>1
  <2>2. CASE \E c \in Callers : AppendEvent(c)
    <3>1. PICK c \in Callers : AppendEvent(c)
      BY <2>2
    <3>2. \/ log' = log
          \/ log' = [log EXCEPT ![target[c][turn[c]]] = @ \cup {c}]
      BY <3>1 DEF AppendEvent
    <3>3. QED
      BY <1>1, <1>3, <3>2 DEF TypeOK
  <2>3. CASE \E c \in Callers : \E i \in DOMAIN target[c] : Purge(c, i)
    BY <1>1, <1>3, <2>3 DEF Purge, TypeOK
  <2>4. QED
    BY <2>1, <2>2, <2>3
       DEF Next, vars, agentVars, Begin, BeginSpawn, List, Read, Audit, Identify,
           Lookup, AppendSource, Launch, SendRpc, Compose, EnsureAgentRunning,
           ReviveAgent, Connect, Request, ForEachAgent, Stop, SetArchived, Suspended,
           Resume, Finish, Kill, Die
<1>4. QED
  BY <1>2, <1>3 DEF Logged

\* Whoever is left alone stands where it stood; a connection may be lost.
LEMMA OthersAudit ==
  ASSUME Unambiguous, AuditInv, [Next]_vars, NEW d \in Callers,
         pc'[d] = pc[d], target'[d] = target[d], turn'[d] = turn[d],
         command'[d] = command[d], conn'[d] \in {conn[d], None}
  PROVE  LoggedBy(d)' /\ ConnectedToTarget(d)'
<1>1. ConnectedToTarget(d)'
  BY DEF AuditInv, ConnectedToTarget
<1>2. ASSUME Recorder(d)', Resolved(d) PROVE LoggedBy(d)'
  <2>1. \A id \in used : d \in log[id] \/ status[id] = "absent"
                       => d \in log'[id] \/ status'[id] = "absent"
    BY LoggedStays DEF AuditInv, Logged
  <2>2. \A i \in 1 .. Len(target[d]) : target[d][i] \in used
    BY <1>2, TargetIsId DEF AuditInv
  <2>3. turn[d] \in 1 .. Len(target[d])
    BY <1>2, TurnTarget DEF AuditInv
  <2>4. Recorder(d)
    BY <1>2 DEF Recorder
  <2>5. LoggedBy(d)
    BY DEF AuditInv
  <2>6. QED
    BY <2>1, <2>2, <2>3, <2>4, <2>5 DEF LoggedBy, Logged
<1>3. ASSUME ~Resolved(d) PROVE LoggedBy(d)'
  BY <1>3 DEF LoggedBy, Resolved, Recording
<1>4. QED
  BY <1>1, <1>2, <1>3 DEF LoggedBy

\* A caller that acts goes on acting on the same targets, or ends.
LEMMA ActingAudit ==
  ASSUME Unambiguous, AuditInv, [Next]_vars, NEW c \in Callers, pc[c] \in Acting,
         pc'[c] \in Acting \cup Ended, target'[c] = target[c],
         command'[c] = command[c]
  PROVE  LoggedBy(c)'
<1>1. \A id \in used : c \in log[id] \/ status[id] = "absent"
                     => c \in log'[id] \/ status'[id] = "absent"
  BY LoggedStays DEF AuditInv, Logged
<1>2. \A i \in 1 .. Len(target[c]) : target[c][i] \in used
  BY TargetIsId DEF AuditInv, Resolved
<1>3. LoggedBy(c)
  BY DEF AuditInv
<1>4. pc'[c] \notin Recording
  BY DEF Recording, Acting, Sending, Ended
<1>5. QED
  BY <1>1, <1>2, <1>3, <1>4 DEF LoggedBy, Logged, Recorder, Recording

\* A caller that has the log of its turn behind it takes the next one, or acts.
LEMMA NextTargetAudit ==
  ASSUME Unambiguous, AuditInv, [Next]_vars, NEW c \in Callers,
         pc[c] \in Recording, NextTarget(c), UNCHANGED <<command, target>>,
         \/ c \in log'[target[c][turn[c]]]
         \/ status'[target[c][turn[c]]] = "absent"
  PROVE  LoggedBy(c)'
<1>1. \A id \in used : c \in log[id] \/ status[id] = "absent"
                     => c \in log'[id] \/ status'[id] = "absent"
  BY LoggedStays DEF AuditInv, Logged
<1>2. Resolved(c)
  BY DEF Resolved
<1>3. /\ \A i \in 1 .. Len(target[c]) : target[c][i] \in used
      /\ turn[c] \in 1 .. Len(target[c]) /\ Len(target[c]) \in Nat
  BY <1>2, TargetIsId, TurnTarget DEF AuditInv, TypeInv, TypeOK
<1>4. LoggedBy(c) /\ pc \in [Callers -> CallerState]
  BY DEF AuditInv, TypeInv, TypeOK
<1>5. ASSUME Recorder(c), NEW i \in 1 .. Len(target[c]), i <= turn[c]
      PROVE  c \in log'[target[c][i]] \/ status'[target[c][i]] = "absent"
  <2>1. CASE i = turn[c]
    BY <2>1
  <2>2. CASE i # turn[c]
    BY <1>1, <1>3, <1>4, <1>5, <2>2 DEF LoggedBy, Logged
  <2>3. QED
    BY <2>1, <2>2
<1>6. PICK state \in {"event"} \cup Acting :
        /\ Goto(c, state)
        /\ state # "event" => turn[c] = Len(target[c]) /\ turn' = turn
        /\ state = "event" => turn'[c] = turn[c] + 1
  BY <1>2, NextTargetGoes DEF AuditInv
<1>7. pc'[c] = state
  BY <1>4, <1>6 DEF Goto
<1>8. CASE state = "event"
  BY <1>3, <1>5, <1>6, <1>7, <1>8
     DEF LoggedBy, Logged, Recorder, Acting, Sending
<1>9. CASE state \in Acting /\ state # "event"
  BY <1>3, <1>5, <1>6, <1>7, <1>9
     DEF LoggedBy, Logged, Recorder, Acting, Sending, Recording
<1>10. QED
  BY <1>6, <1>8, <1>9

\* Where no id begins another, a name resolved once stays what it is.
LEMMA ResolvedAgain ==
  ASSUME Unambiguous, TypeInv, NEW c \in Callers, pc[c] \in Sending,
         NEW id \in Loads(target[c][1])
  PROVE  id = target[c][1] /\ [target EXCEPT ![c] = <<id>>] = target
<1>1. Len(target[c]) = 1 /\ target[c][1] \in Ids
  BY FirstTarget
<1>2. id = target[c][1]
  BY <1>1 DEF Loads, Matches, Unambiguous
<1>3. <<id>> = target[c]
  <2>1. target[c] \in Seq(DOMAIN Begins) /\ <<id>> \in Seq(DOMAIN Begins)
    BY <1>1, <1>2, NamesAssumption DEF TypeInv, TypeOK
  <2>2. Len(<<id>>) = 1 /\ \A i \in 1 .. 1 : <<id>>[i] = target[c][i]
    BY <1>2
  <2>3. QED
    BY <1>1, <2>1, <2>2, SeqEqual
<1>4. QED
  BY <1>2, <1>3 DEF TypeInv, TypeOK

\* A step of one caller: the others are left alone, and what it says of itself
\* is enough.
LEMMA CallerAudit ==
  ASSUME Unambiguous, AuditInv, [Next]_vars, NEW c \in Callers,
         LoggedBy(c)', ConnectedToTarget(c)',
         \A d \in Callers \ {c} :
           /\ pc'[d] = pc[d] /\ target'[d] = target[d] /\ turn'[d] = turn[d]
           /\ command'[d] = command[d] /\ conn'[d] \in {conn[d], None}
  PROVE  AuditInv'
<1>1. ASSUME NEW d \in Callers PROVE LoggedBy(d)' /\ ConnectedToTarget(d)'
  <2>1. CASE d = c
    BY <2>1
  <2>2. CASE d # c
    BY <2>2, OthersAudit
  <2>3. QED
    BY <2>1, <2>2
<1>2. TypeInv'
  BY TypeStep DEF AuditInv
<1>3. QED
  BY <1>1, <1>2 DEF AuditInv

LEMMA ResolveAudit ==
  ASSUME Unambiguous, AuditInv, [Next]_vars, NEW c \in Callers,
         \/ \E name \in Uses, flags \in Flags, envTarget \in EnvTargets :
              Begin(c, name, flags, envTarget)
         \/ \E id \in Ids : BeginSpawn(c, id)
         \/ \E i \in DOMAIN target[c] : List(c, i) \/ Read(c, i)
  PROVE  AuditInv'
<1>1. TypeOK
  BY DEF AuditInv, TypeInv
<1>2. /\ UNCHANGED conn /\ pc[c] \in {"idle", "resolve"}
      /\ \A d \in Callers \ {c} :
           /\ pc'[d] = pc[d] /\ target'[d] = target[d] /\ turn'[d] = turn[d]
           /\ command'[d] = command[d]
  BY <1>1 DEF TypeOK, Begin, BeginSpawn, List, Read, Goto, agentVars
<1>3. ConnectedToTarget(c)'
  BY <1>2 DEF AuditInv, ConnectedToTarget
<1>4. LoggedBy(c)'
  <2>1. CASE pc'[c] \in Early \cup Ended
    BY <2>1 DEF LoggedBy, Early, Ended, Recording, Acting, Sending
  <2>2. CASE \E id \in Ids : BeginSpawn(c, id)
    <3>1. \/ pc'[c] \in Early \cup Ended
          \/ c \notin Auditing
      BY <1>1, <2>2 DEF BeginSpawn, Goto, TypeOK, Early, Ended
    <3>2. QED
      BY <2>1, <3>1 DEF LoggedBy, Recorder
  <2>3. CASE \E i \in DOMAIN target[c] : Read(c, i)
    <3>1. \/ pc'[c] \in Early \cup Ended
          \/ command'[c] = command[c] /\ ~Recorder(c)
      BY <1>1, <1>2, <2>3
         DEF Read, AfterResolve, Recorder, Goto, TypeOK, Early, Ended
    <3>2. QED
      BY <2>1, <3>1 DEF LoggedBy, Recorder
  <2>4. QED
    BY <1>1, <1>2, <2>1, <2>2, <2>3 DEF TypeOK, Begin, List, Goto, Early, Ended
<1>5. QED
  BY <1>2, <1>3, <1>4, CallerAudit

LEMMA RecordAudit ==
  ASSUME Unambiguous, AuditInv, [Next]_vars, NEW c \in Callers, Audit(c)
  PROVE  AuditInv'
<1>1. TypeOK /\ TypeInv
  BY DEF AuditInv, TypeInv
<1>2. /\ UNCHANGED <<conn, target, command>>
      /\ pc[c] \in {"identify"} \cup Recording /\ pc[c] # "request"
  BY DEF Audit, Identify, AppendEvent, Lookup, AppendSource, agentVars, Recording
<1>3. \A d \in Callers \ {c} : pc'[d] = pc[d] /\ turn'[d] = turn[d]
  <2>1. \/ NextTarget(c)
        \/ turn' = turn /\ \E state \in CallerState : Goto(c, state)
    BY DEF Audit, Identify, AppendEvent, Lookup, AppendSource, CallerState, Ended
  <2>2. QED
    BY <1>1, <2>1 DEF NextTarget, Goto, TypeOK
<1>4. ConnectedToTarget(c)'
  BY <1>2 DEF AuditInv, ConnectedToTarget
<1> DEFINE id == target[c][turn[c]]
<1>5. pc[c] \in Recording => id \in Ids /\ turn[c] \in Nat \ {0}
  BY <1>1, TurnTarget DEF Resolved, TypeOK
<1>6. LoggedBy(c)
  BY DEF AuditInv
<1> HIDE DEF id
<1>7. LoggedBy(c)'
  <2>1. CASE Identify(c)
    <3>1. pc'[c] = "event" /\ turn'[c] = 1
      BY <1>1, <2>1 DEF Identify, Goto, TypeOK, TypeInv, TurnIsTarget
    <3>2. \A i \in 1 .. Len(target'[c]) : ~(i < 1)
      BY <1>2
    <3>3. QED
      BY <3>1, <3>2 DEF LoggedBy, Acting, Sending
  <2>2. CASE pc'[c] \in Ended
    BY <2>2 DEF LoggedBy, Ended, Recording, Acting, Sending
  <2>3. CASE AppendEvent(c)
    <3>1. pc[c] = "event"
      BY <2>3 DEF AppendEvent
    <3>2. CASE Goto(c, "failed")
      BY <1>1, <2>2, <3>2 DEF Goto, TypeOK, Ended
    <3>3. CASE c \in log'[id] /\ NextTarget(c)
      BY <1>2, <3>1, <3>3, NextTargetAudit DEF id, Recording
    <3>4. CASE c \in log'[id] /\ Goto(c, "lookup") /\ UNCHANGED turn
      <4>1. pc'[c] = "lookup"
        BY <1>1, <3>4 DEF Goto, TypeOK
      <4>2. Recorder(c)' => Recorder(c)
        BY <1>2 DEF Recorder
      <4>3. \A name \in used : c \in log[name] \/ status[name] = "absent"
                             => c \in log'[name] \/ status'[name] = "absent"
        BY <1>1, LoggedStays DEF Logged
      <4>4. \A i \in 1 .. Len(target[c]) : target[c][i] \in used
        BY <1>1, <3>1, TargetIsId DEF Resolved, Recording
      <4>5. QED
        BY <1>2, <1>6, <3>1, <3>4, <4>1, <4>2, <4>3, <4>4
           DEF LoggedBy, Logged, Acting, Sending, Recording, id
    <3>5. Goto(c, "failed") \/ log' = [log EXCEPT ![id] = @ \cup {c}]
      BY <2>3 DEF AppendEvent, id
    <3>6. log' = [log EXCEPT ![id] = @ \cup {c}] => c \in log'[id]
      BY <1>1, <1>5, <3>1 DEF TypeOK, Recording
    <3>7. QED
      BY <2>3, <3>2, <3>3, <3>4, <3>5, <3>6 DEF AppendEvent
  <2>4. CASE Lookup(c) \/ AppendSource(c)
    <3>1. pc[c] \in {"lookup", "append"} /\ UNCHANGED <<status, log>>
      BY <2>4 DEF Lookup, AppendSource, agentVars
    <3>2. CASE Goto(c, "failed")
      BY <1>1, <2>2, <3>2 DEF Goto, TypeOK, Ended
    <3>3. CASE NextTarget(c) /\ Recorder(c)
      <4>1. c \in log'[id] \/ status'[id] = "absent"
        BY <1>6, <3>1, <3>3 DEF LoggedBy, Logged, id
      <4>2. QED
        BY <1>2, <3>1, <3>3, <4>1, NextTargetAudit DEF id, Recording
    <3>4. CASE ~Recorder(c)
      BY <1>2, <3>4 DEF LoggedBy, Recorder
    <3>5. CASE Goto(c, "append") /\ UNCHANGED turn
      <4>1. pc'[c] = "append"
        BY <1>1, <3>5 DEF Goto, TypeOK
      <4>2. QED
        BY <1>2, <1>6, <3>1, <3>5, <4>1
           DEF LoggedBy, Logged, Recorder, Acting, Sending, Recording
    <3>6. QED
      BY <2>4, <3>2, <3>3, <3>4, <3>5 DEF Lookup, AppendSource
  <2>5. QED
    BY <2>1, <2>3, <2>4 DEF Audit
<1>8. QED
  BY <1>2, <1>3, <1>4, <1>7, CallerAudit

LEMMA SendAudit ==
  ASSUME Unambiguous, AuditInv, [Next]_vars, NEW c \in Callers, SendRpc(c)
  PROVE  AuditInv'
<1>1. TypeOK /\ TypeInv
  BY DEF AuditInv, TypeInv
<1>2. /\ pc[c] \in Sending /\ UNCHANGED <<command, turn>>
      /\ \A d \in Callers \ {c} : pc'[d] = pc[d] /\ conn'[d] = conn[d]
      /\ pc'[c] \in Sending \cup {"done", "failed"}
  BY <1>1
     DEF SendRpc, Compose, EnsureAgentRunning, ReviveAgent, Connect, Request,
         Goto, Sending, agentVars, TypeOK
<1>3. UNCHANGED target
  <2>1. \/ UNCHANGED target
        \/ \E id \in Loads(target[c][1]) : target' = [target EXCEPT ![c] = <<id>>]
    BY DEF SendRpc, Compose, EnsureAgentRunning, ReviveAgent, Connect, Request
  <2>2. QED
    BY <1>1, <1>2, <2>1, ResolvedAgain
<1>4. LoggedBy(c)'
  BY <1>2, <1>3, ActingAudit DEF Acting, Sending, Ended
<1>5. ConnectedToTarget(c)'
  <2>1. ConnectedToTarget(c)
    BY DEF AuditInv
  <2>2. CASE Connect(c)
    BY <1>1, <1>3, <2>1, <2>2 DEF Connect, ConnectedToTarget, Goto, TypeOK
  <2>3. CASE Request(c)
    BY <1>1, <2>3 DEF Request, ConnectedToTarget, TypeOK
  <2>4. CASE UNCHANGED conn /\ pc[c] # "request"
    BY <2>1, <2>4 DEF ConnectedToTarget
  <2>5. QED
    BY <2>2, <2>3, <2>4 DEF SendRpc, Compose, EnsureAgentRunning, ReviveAgent
<1>6. QED
  BY <1>2, <1>3, <1>4, <1>5, CallerAudit

LEMMA EachAudit ==
  ASSUME Unambiguous, AuditInv, [Next]_vars, NEW c \in Callers,
         ForEachAgent(c) \/ Launch(c)
  PROVE  AuditInv'
<1>1. TypeOK
  BY DEF AuditInv, TypeInv
<1>2. /\ pc[c] \in {"each", "launch"} /\ UNCHANGED <<command, turn, target>>
      /\ \A d \in Callers \ {c} : pc'[d] = pc[d]
      /\ pc'[c] \in {"each", "done", "failed"}
  BY <1>1
     DEF ForEachAgent, Stop, SetArchived, Purge, Suspended, Resume, Finish, Launch,
         Goto, agentVars, TypeOK
<1>3. \A d \in Callers : conn'[d] \in {conn[d], None}
  BY <1>1
     DEF ForEachAgent, Stop, SetArchived, Purge, Suspended, Resume, Finish, Launch,
         Disconnect, TypeOK
<1>4. LoggedBy(c)'
  BY <1>2, ActingAudit DEF Acting, Ended
<1>5. ConnectedToTarget(c)'
  BY <1>2, <1>3 DEF AuditInv, ConnectedToTarget
<1>6. QED
  BY <1>2, <1>3, <1>4, <1>5, CallerAudit

LEMMA AuditStep == Unambiguous /\ AuditInv /\ [Next]_vars => AuditInv'
<1> SUFFICES ASSUME Unambiguous, AuditInv, [Next]_vars PROVE AuditInv'
  OBVIOUS
<1>1. TypeOK
  BY DEF AuditInv, TypeInv
<1>2. CASE UNCHANGED vars \/ \E id \in Ids : Die(id)
  <2>1. \A d \in Callers :
          /\ pc'[d] = pc[d] /\ target'[d] = target[d] /\ turn'[d] = turn[d]
          /\ command'[d] = command[d] /\ conn'[d] \in {conn[d], None}
    BY <1>2 DEF vars, callerVars, Die, Disconnect
  <2>2. QED
    BY <2>1, OthersAudit, TypeStep DEF AuditInv
<1>3. ASSUME NEW c \in Callers, Kill(c) PROVE AuditInv'
  <2>1. /\ UNCHANGED <<command, target, turn>> /\ pc'[c] = "killed" /\ conn'[c] = None
        /\ \A d \in Callers \ {c} : pc'[d] = pc[d] /\ conn'[d] = conn[d]
    BY <1>1, <1>3 DEF Kill, Goto, TypeOK
  <2>2. LoggedBy(c)' /\ ConnectedToTarget(c)'
    BY <2>1 DEF LoggedBy, ConnectedToTarget, Recording, Acting, Sending
  <2>3. QED
    BY <2>1, <2>2, CallerAudit
<1>4. QED
  BY <1>2, <1>3, ResolveAudit, RecordAudit, SendAudit, EachAudit DEF Next

\* An agent that is changed or asked is one of the targets, or the one that the
\* request goes to, of a caller that has resolved and recorded them all.
LEMMA ActsOnTarget ==
  ASSUME AuditInv, NEW c \in Callers, NEW id \in Ids, [Next]_vars,
         <<c, id>> \in acted' \ acted
  PROVE  pc[c] \in Acting /\ \E i \in 1 .. Len(target[c]) : id = target[c][i]
<1>1. TypeOK /\ TypeInv
  BY DEF AuditInv, TypeInv
<1>2. CASE Launch(c)
  <2>1. pc[c] = "launch" /\ id = target[c][1]
    BY <1>2 DEF Launch
  <2>2. QED
    BY <1>1, <2>1, FirstTarget DEF Acting
<1>3. CASE Request(c)
  <2>1. pc[c] = "request" /\ id = conn[c] /\ conn[c] # None
    BY <1>3 DEF Request
  <2>2. id = target[c][1]
    BY <2>1 DEF AuditInv, ConnectedToTarget
  <2>3. QED
    BY <1>1, <2>1, <2>2, FirstTarget DEF Acting, Sending
<1>4. CASE \E i \in DOMAIN target[c] :
             Stop(c, i) \/ SetArchived(c, i) \/ Purge(c, i) \/ Resume(c, i)
  BY <1>1, <1>4 DEF Stop, SetArchived, Purge, Resume, Acting, TypeOK
<1>5. \/ Launch(c) \/ Request(c)
      \/ \E i \in DOMAIN target[c] :
           Stop(c, i) \/ SetArchived(c, i) \/ Purge(c, i) \/ Resume(c, i)
  <2>1. acted' # acted
    OBVIOUS
  <2>2. PICK d \in Callers :
          \/ Launch(d) \/ Request(d)
          \/ \E i \in DOMAIN target[d] :
               Stop(d, i) \/ SetArchived(d, i) \/ Purge(d, i) \/ Resume(d, i)
    BY <2>1
       DEF Next, vars, agentVars, Begin, BeginSpawn, List, Read, Audit, Identify,
           AppendEvent, Lookup, AppendSource, SendRpc, Compose, EnsureAgentRunning,
           ReviveAgent, Connect, ForEachAgent, Suspended, Finish, Kill, Die
  <2>3. \E other : acted' \subseteq acted \cup {<<d, other>>}
    BY <2>2 DEF Launch, Request, Stop, SetArchived, Purge, Resume
  <2>4. d = c
    BY <2>3
  <2>5. QED
    BY <2>2, <2>4
<1>6. QED
  BY <1>2, <1>3, <1>4, <1>5

\* Whoever changes an agent stands in its audit log before: for any number of
\* callers and agents, purged and revived in between, so long as no id begins
\* another one and none is used twice.  (The run CommandMisdirected shows that
\* the first cannot be left out.)
THEOREM AuditedFirst == Unambiguous => (Spec => AuditedBefore)
<1> SUFFICES ASSUME Unambiguous PROVE Spec => AuditedBefore
  OBVIOUS
<1>1. Init => AuditInv
  BY InitTypeInv
     DEF Init, AuditInv, LoggedBy, ConnectedToTarget, Acting, Sending, Recording
<1>2. AuditInv /\ [Next]_vars => AuditInv'
  BY AuditStep
<1>3. AuditInv /\ [Next]_vars =>
        [\A c \in Callers, id \in Ids :
           /\ <<c, id>> \in acted' \ acted
           /\ c \in Auditing /\ Audited(command[c])
           => c \in log[id] \/ status[id] = "absent"]_vars
  <2> SUFFICES ASSUME AuditInv, [Next]_vars, NEW c \in Callers, NEW id \in Ids,
                      <<c, id>> \in acted' \ acted, c \in Auditing,
                      Audited(command[c])
               PROVE  c \in log[id] \/ status[id] = "absent"
    OBVIOUS
  <2>1. pc[c] \in Acting /\ \E i \in 1 .. Len(target[c]) : id = target[c][i]
    BY ActsOnTarget
  <2>2. QED
    BY <2>1 DEF AuditInv, LoggedBy, Logged, Recorder
<1>4. QED
  BY <1>1, <1>2, <1>3, PTL DEF Spec, AuditedBefore

=============================================================================
