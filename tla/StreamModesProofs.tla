-------------------------- MODULE StreamModesProofs --------------------------
(***************************************************************************)
(* Whatever pi does and however its records are cut into chunks: what      *)
(* tail and prompt write and the cursor they end with agree, a command     *)
(* that waits for a turn has waited for it, and history and live events    *)
(* make one stream.                                                        *)
(***************************************************************************)
EXTENDS StreamModes, SequenceTheorems, WellFoundedInduction, TLAPS

-----------------------------------------------------------------------------
(* Sets of entries in the order of the log.                                 *)

Listing(items, S) ==
  /\ \A n \in S : \E i \in 1 .. Len(items) : items[i] = n
  /\ \A i, j \in 1 .. Len(items) : i < j => items[i] < items[j]

LEMMA LeastOf ==
  ASSUME NEW S, S \subseteq Nat, S # {}
  PROVE  \E m \in S : \A n \in S : m <= n
<1> DEFINE R == {p \in Nat \X Nat : p[1] < p[2]}
<1>1. IsWellFoundedOn(R, Nat)
  BY NatLessThanWellFounded, Zenon DEF OpToRel
<1>2. PICK m \in S : \A n \in S : <<n, m>> \notin R
  <2> HIDE DEF R
  <2> QED BY <1>1, WFMin
<1>3. \A n \in S : ~(n < m)
  BY <1>2
<1>4. QED
  BY <1>3

\* By the least bound for which it fails.
LEMMA ListingExists ==
  ASSUME NEW N \in Nat, NEW S, S \subseteq 1 .. N
  PROVE  \E n \in 0 .. N : \E items \in [1 .. n -> S] : Listing(items, S)
<1> DEFINE Upto(items, n, k) ==
             /\ \A i \in 1 .. n : items[i] <= k
             /\ \A m \in S : m <= k => \E i \in 1 .. n : items[i] = m
             /\ \A i, j \in 1 .. n : i < j => items[i] < items[j]
           Good(k) == \E n \in 0 .. k : \E items \in [1 .. n -> S] : Upto(items, n, k)
           Bad == {k \in 0 .. N : ~Good(k)}
<1>1. Good(0)
  <2> DEFINE none == [i \in 1 .. 0 |-> 1]
  <2>1. none \in [1 .. 0 -> S] /\ Upto(none, 0, 0)
    OBVIOUS
  <2> HIDE DEF none, Upto
  <2>2. \E items \in [1 .. 0 -> S] : Upto(items, 0, 0)
    BY <2>1, Zenon
  <2>3. 0 \in 0 .. 0
    OBVIOUS
  <2>4. QED
    BY <2>2, <2>3, Zenon
<1>2. ASSUME NEW k \in 0 .. N, k # 0, Good(k - 1)
      PROVE  Good(k)
  <2>1. PICK n \in 0 .. k - 1 : \E items \in [1 .. n -> S] : Upto(items, n, k - 1)
    BY <1>2
  <2>2. PICK items \in [1 .. n -> S] : Upto(items, n, k - 1)
    BY <2>1
  <2>3. \A i \in 1 .. n : items[i] \in 1 .. N
    OBVIOUS
  <2>4. CASE k \notin S
    <3>1. Upto(items, n, k)
      BY <2>2, <2>3, <2>4
    <3> HIDE DEF Upto
    <3>2. QED
      BY <3>1
  <2>5. CASE k \in S
    <3> DEFINE more == [i \in 1 .. n + 1 |-> IF i = n + 1 THEN k ELSE items[i]]
    <3>1. more \in [1 .. n + 1 -> S] /\ n + 1 \in 0 .. k
      BY <2>5
    <3>2. \A i \in 1 .. n + 1 : more[i] <= k
      BY <2>2, <2>3
    <3>3. ASSUME NEW m \in S, m <= k
          PROVE  \E i \in 1 .. n + 1 : more[i] = m
      <4>1. CASE m = k
        BY <4>1
      <4>2. CASE m <= k - 1
        <5>1. PICK i \in 1 .. n : items[i] = m
          BY <2>2, <4>2
        <5>2. more[i] = m
          BY <5>1
        <5>3. QED
          BY <5>2
      <4>3. QED
        BY <3>3, <4>1, <4>2
    <3>4. \A i, j \in 1 .. n + 1 : i < j => more[i] < more[j]
      BY <2>2, <2>3
    <3> HIDE DEF more
    <3>5. Upto(more, n + 1, k)
      BY <3>2, <3>3, <3>4
    <3> HIDE DEF Upto
    <3>6. QED
      BY <3>1, <3>5
  <2>6. QED
    BY <2>4, <2>5
<1> HIDE DEF Good
<1>3. Bad = {}
  <2>1. SUFFICES ASSUME Bad # {} PROVE FALSE
    OBVIOUS
  <2>2. PICK k \in Bad : \A m \in Bad : k <= m
    <3>1. Bad \subseteq Nat
      OBVIOUS
    <3> HIDE DEF Bad
    <3>2. QED
      BY <2>1, <3>1, LeastOf
  <2>3. k # 0 /\ k \in 0 .. N /\ ~Good(k)
    BY <1>1
  <2>4. Good(k - 1)
    BY <2>2, <2>3
  <2>5. QED
    BY <1>2, <2>3, <2>4
<1>4. Good(N)
  BY <1>3
<1>5. PICK n \in 0 .. N : \E items \in [1 .. n -> S] : Upto(items, n, N)
  BY <1>4 DEF Good
<1>6. PICK items \in [1 .. n -> S] : Upto(items, n, N)
  BY <1>5
<1>7. Len(items) = n
  OBVIOUS
<1>8. Listing(items, S)
  BY <1>6, <1>7 DEF Listing
<1>9. QED
  BY <1>8

LEMMA InOrderLists ==
  ASSUME Len(log) \in Nat, NEW S, S \subseteq 1 .. Len(log)
  PROVE  InOrder(S) \in Seq(S) /\ Listing(InOrder(S), S)
<1>1. \E items \in UNION {[1 .. n -> S] : n \in 0 .. Len(log)} : Listing(items, S)
  BY ListingExists
<1>2. InOrder(S) = CHOOSE items \in UNION {[1 .. n -> S] : n \in 0 .. Len(log)} :
                     Listing(items, S)
  BY DEF InOrder, Listing
<1>3. /\ InOrder(S) \in UNION {[1 .. n -> S] : n \in 0 .. Len(log)}
      /\ Listing(InOrder(S), S)
  BY <1>1, <1>2
<1>4. QED
  BY <1>3, SeqDef

LEMMA LastIsGreatest ==
  ASSUME NEW S, S \subseteq Nat, NEW items \in Seq(S), Listing(items, S), NEW c
  PROVE  /\ S # {} => LastOf(items, c) \in S /\ \A n \in S : n <= LastOf(items, c)
         /\ S = {} => items = <<>> /\ LastOf(items, c) = c
<1>1. Len(items) \in Nat /\ \A i \in 1 .. Len(items) : items[i] \in S
  BY LenProperties, ElementOfSeq
<1>2. ASSUME S # {}
      PROVE  LastOf(items, c) \in S /\ \A n \in S : n <= LastOf(items, c)
  <2> DEFINE L == Len(items)
  <2>1. L \in 1 .. L
    <3>1. PICK n \in S : \E i \in 1 .. L : items[i] = n
      BY <1>2 DEF Listing
    <3>2. L \in Nat
      BY <1>1
    <3> HIDE DEF L
    <3>3. QED
      BY <3>1, <3>2
  <2>2. LastOf(items, c) = items[L]
    BY <2>1, EmptySeq DEF LastOf
  <2>3. ASSUME NEW n \in S
        PROVE  n <= items[L]
    <3>1. PICK j \in 1 .. L : items[j] = n
      BY DEF Listing
    <3>2. j < L => items[j] < items[L]
      BY <2>1 DEF Listing
    <3>3. items[L] \in Nat /\ n \in Nat /\ L \in Nat
      BY <1>1, <2>1
    <3> HIDE DEF L
    <3>4. QED
      BY <3>1, <3>2, <3>3
  <2>4. QED
    BY <1>1, <2>1, <2>2, <2>3
<1>3. ASSUME S = {}
      PROVE  items = <<>> /\ LastOf(items, c) = c
  <2>1. items = <<>>
    BY <1>1, <1>3, EmptySeq
  <2>2. QED
    BY <2>1 DEF LastOf
<1>4. QED
  BY <1>2, <1>3

\* What -n keeps is the end of it.
LEMMA LimitedTailIsTheEnd ==
  ASSUME cmd \in Commands, NEW S, NEW items \in Seq(S)
  PROVE  /\ LimitedTail(items) \in Seq(S)
         /\ \E d \in 0 .. Len(items) :
              /\ Len(LimitedTail(items)) = Len(items) - d
              /\ \A i \in 1 .. Len(items) - d : LimitedTail(items)[i] = items[i + d]
              /\ items # <<>> => d < Len(items)
<1>1. Len(items) \in Nat /\ (items # <<>> => Len(items) > 0)
  BY LenProperties, EmptySeq
<1>2. cmd.limit \in Nat \cup {None}
  BY CommandsAssumption
<1>3. CASE LimitedTail(items) = items
  BY <1>1, <1>3
<1>4. CASE LimitedTail(items) # items
  <2> DEFINE d == Len(items) - cmd.limit
  <2>1. /\ cmd.limit \in Nat \ {0} /\ cmd.limit < Len(items)
        /\ LimitedTail(items) = SubSeq(items, d + 1, Len(items))
    BY <1>1, <1>2, <1>4 DEF LimitedTail
  <2>2. d \in 0 .. Len(items) /\ d < Len(items)
    BY <1>1, <2>1
  <2>3. \A i \in d + 1 .. Len(items) : items[i] \in S
    BY <2>2, ElementOfSeq
  <2> HIDE DEF d
  <2>4. /\ LimitedTail(items) \in Seq(S)
        /\ Len(LimitedTail(items)) = Len(items) - d
        /\ \A i \in 1 .. Len(items) - d : LimitedTail(items)[i] = items[i + d]
    BY <1>1, <2>1, <2>2, <2>3, SubSeqProperties
  <2>5. QED
    BY <2>2, <2>4
<1>5. QED
  BY <1>3, <1>4

Values(items) == {items[i] : i \in 1 .. Len(items)}

\* The end of a set, in order, after a cursor c.
EndOf(kept, S, c) ==
  /\ Values(kept) \subseteq S /\ kept \in Seq(Values(kept)) /\ Listing(kept, Values(kept))
  /\ \A m \in Values(kept), n \in S : m < n => n \in Values(kept)
  /\ S # {} => LastOf(kept, c) \in Values(kept) /\ \A n \in S : n <= LastOf(kept, c)
  /\ S = {} => kept = <<>> /\ LastOf(kept, c) = c

LEMMA LimitedTailLists ==
  ASSUME cmd \in Commands, NEW S, S \subseteq Nat, NEW items \in Seq(S), Listing(items, S),
         NEW c
  PROVE  EndOf(LimitedTail(items), S, c)
<1> DEFINE kept == LimitedTail(items)
           R == {kept[i] : i \in 1 .. Len(kept)}
<1>1. kept \in Seq(S)
  BY LimitedTailIsTheEnd
<1>2. PICK d \in 0 .. Len(items) :
        /\ Len(kept) = Len(items) - d
        /\ \A i \in 1 .. Len(items) - d : kept[i] = items[i + d]
        /\ items # <<>> => d < Len(items)
  BY LimitedTailIsTheEnd
<1> HIDE DEF kept
<1>3. Len(items) \in Nat /\ Len(kept) \in Nat /\ \A i \in 1 .. Len(items) : items[i] \in S
  BY <1>1, LenProperties, ElementOfSeq
<1>4. R \subseteq S
  BY <1>1, ElementOfSeq
<1>5. kept \in Seq(R)
  BY <1>1, RangeEquality, SeqOfRange
<1>6. Listing(kept, R)
  BY <1>2, <1>3 DEF Listing
<1>7. ASSUME NEW m \in R, NEW n \in S, m < n
      PROVE  n \in R
  <2>1. PICK i \in 1 .. Len(kept) : m = kept[i]
    OBVIOUS
  <2>2. PICK j \in 1 .. Len(items) : n = items[j]
    BY DEF Listing
  <2>3. j > i + d
    <3>1. i + d \in 1 .. Len(items) /\ items[i + d] = m
      BY <1>2, <1>3, <2>1
    <3>2. \A x, y \in 1 .. Len(items) : x < y => items[x] < items[y]
      BY DEF Listing
    <3>3. m \in Nat /\ n \in Nat
      BY <1>4
    <3>4. j # i + d /\ ~(j < i + d)
      BY <1>7, <2>2, <3>1, <3>2, <3>3
    <3>5. QED
      BY <1>3, <3>4
  <2>4. j - d \in 1 .. Len(kept) /\ kept[j - d] = n
    BY <1>2, <1>3, <2>2, <2>3
  <2>5. QED
    BY <2>4
<1>8. ASSUME S # {}
      PROVE  LastOf(kept, c) \in R /\ \A n \in S : n <= LastOf(kept, c)
  <2>1. PICK n \in S : \E i \in 1 .. Len(items) : items[i] = n
    BY <1>8 DEF Listing
  <2>2. kept[Len(kept)] \in R
    BY <1>2, <1>3, <2>1, EmptySeq
  <2>3. LastOf(kept, c) \in R /\ \A m \in R : m <= LastOf(kept, c)
    <3> HIDE DEF R
    <3> QED BY <1>4, <1>5, <1>6, <2>2, LastIsGreatest
  <2> HIDE DEF R
  <2>4. ASSUME NEW m \in S
        PROVE  m <= LastOf(kept, c)
    <3>1. m \in Nat /\ LastOf(kept, c) \in Nat
      BY <1>4, <2>3
    <3>2. LastOf(kept, c) < m => m \in R
      BY <1>7, <2>3
    <3>3. QED
      BY <2>3, <3>1, <3>2
  <2>5. QED
    BY <2>3, <2>4
<1>9. ASSUME S = {}
      PROVE  kept = <<>> /\ LastOf(kept, c) = c
  <2>1. Len(items) = 0
    BY <1>3, <1>9
  <2>2. kept = <<>>
    BY <1>1, <1>2, <1>3, <2>1, EmptySeq
  <2>3. QED
    BY <2>2 DEF LastOf
<1>10. QED
  BY <1>4, <1>5, <1>6, <1>7, <1>8, <1>9 DEF kept, EndOf, Values

LEMMA InOrderLast ==
  ASSUME Len(log) \in Nat, NEW S, S \subseteq 1 .. Len(log), NEW c
  PROVE  /\ S # {} => LastOf(InOrder(S), c) \in S /\ \A n \in S : n <= LastOf(InOrder(S), c)
         /\ S = {} => InOrder(S) = <<>> /\ LastOf(InOrder(S), c) = c
<1>1. InOrder(S) \in Seq(S) /\ Listing(InOrder(S), S)
  BY InOrderLists
<1>2. S \subseteq Nat
  OBVIOUS
<1>3. QED
  BY <1>1, <1>2, LastIsGreatest

-----------------------------------------------------------------------------
(* Type correctness.                                                        *)

EventTypes == {"hello", "session_changed", "queue_update", "agent_start", "message_end",
               "unknown", "agent_end", "agent_settled", "other"}
Events == [type : EventTypes, entry : (Nat \ {0}) \cup {None}, retry : BOOLEAN,
           state : States \cup {None}]
Queued == [event : Events, state : States]

\* What a record of a type carries.
Carries(record) ==
  /\ record.type = "response" => record.to \in Requests
  /\ record.type = "session_changed" => record.state \in States
  /\ record.type \in {"message_end", "unknown"} => record.entry \in Nat \ {0}
  /\ record.type \in EventTypes \ {"message_end", "unknown"} => record.entry = None

Sent(records) ==
  records \in Seq(Events \cup Responses) /\ \A i \in 1 .. Len(records) : Carries(records[i])

PiType ==
  /\ server \in {"absent", "pi", "foreign", "gone"}
  /\ log \in Seq({"message", "other"})
  /\ starts \in Seq(Nat) /\ Len(starts) > 0
  /\ phase \in {"idle", "queued", "running", "ended"}
  /\ turns \in Nat

ClientType ==
  /\ link \in {"none", "hello", "up", "closed"}
  /\ reading \in BOOLEAN
  /\ Sent(chan)
  /\ asked \subseteq [id : Requests, since : Nat \cup {None}]
  /\ state \in States \cup {None} /\ seed \in States \cup {None}
  /\ queue \in Seq(Queued) /\ \A i \in 1 .. Len(queue) : Carries(queue[i].event)
  /\ events \in {"none", "open", "closed"}
  /\ reply \in [Requests -> Responses \cup {None}]

ModeType ==
  /\ cmd \in Commands
  /\ pc \in {"connect", "hello", "history", "leaf", "now", "now-cursor", "seed", "next",
             "drain", "stop", "end", "done", "failed"}
  /\ prompt \in {"none", "sent", "ok", "failed"}
  /\ event \in Queued \cup {None} /\ (pc = "drain" => event \in Queued /\ Entries)
  /\ event # None => Carries(event.event)
  /\ cutoff \in {"done", "timeout", None}
  /\ armed \in BOOLEAN /\ stop \in BOOLEAN
  /\ outcome \in {"done", "timeout", "failed", "closed", None}
  /\ cursor \in Nat \cup {None} /\ lastSession \in Nat \cup {None}
  /\ out \in Seq(Nat)

GhostType ==
  /\ due \in Nat \cup {None} /\ mark \in Nat \cup {None} /\ from \in Nat \cup {None}
  /\ missed \subseteq Nat /\ early \subseteq Nat

TypeInv == PiType /\ ClientType /\ ModeType /\ GhostType

\* Nothing is said of an entry that pi has not appended.
InLog(record, n) ==
  IF record.type = "response" THEN record.entries \subseteq 1 .. n
  ELSE record.entry # None => record.entry <= n

Bounded ==
  /\ \A i \in 1 .. Len(chan) : InLog(chan[i], Len(log))
  /\ \A r \in Requests : reply[r] # None => reply[r].entries \subseteq 1 .. Len(log)
  /\ \A i \in 1 .. Len(queue) : InLog(queue[i].event, Len(log))
  /\ \A i \in 1 .. Len(out) : out[i] <= Len(log)

LEMMA SendsOneMore ==
  ASSUME NEW records, Sent(records), NEW record \in Events \cup Responses, Carries(record)
  PROVE  Sent(Append(records, record))
  BY AppendProperties DEF Sent

LEMMA BroadcastType ==
  ASSUME Sent(chan), NEW record \in Events \cup Responses, Carries(record), Broadcast(record)
  PROVE  Sent(chan')
  BY SendsOneMore DEF Broadcast

LEMMA PiStateType ==
  ASSUME PiType
  PROVE  PiState \in States
  BY DEF PiState, States, PiType

LEMMA PlainEvent ==
  ASSUME NEW type \in EventTypes \ {"message_end", "unknown", "session_changed"}
  PROVE  Event(type) \in Events /\ Carries(Event(type))
  BY DEF Event, Events, EventTypes, Carries

LEMMA EntryEvent ==
  ASSUME NEW type \in {"message_end", "unknown"}, NEW n \in Nat \ {0}
  PROVE  /\ [Event(type) EXCEPT !.entry = n] \in Events
         /\ Carries([Event(type) EXCEPT !.entry = n])
  BY DEF Event, Events, EventTypes, Carries

LEMMA SessionEvent ==
  ASSUME NEW s \in States
  PROVE  /\ [Event("session_changed") EXCEPT !.state = s] \in Events
         /\ Carries([Event("session_changed") EXCEPT !.state = s])
  BY DEF Event, Events, EventTypes, Carries

LEMMA RetryEvent ==
  /\ [Event("agent_end") EXCEPT !.retry = TRUE] \in Events
  /\ Carries([Event("agent_end") EXCEPT !.retry = TRUE])
  BY DEF Event, Events, EventTypes, Carries

LEMMA PiMovesType ==
  ASSUME PiType, Sent(chan),
         \/ PiStartsTurn \/ PiEndsTurn \/ PiSettles
         \/ PiBinds \/ PiAppends \/ PiRetries \/ PiSwitchesSession \/ PiExits \/ PiQueues
  PROVE  PiType' /\ Sent(chan')
<1>1. CASE PiStartsTurn
  BY <1>1, PlainEvent, BroadcastType DEF PiStartsTurn, PiType, EventTypes
<1>2. CASE PiEndsTurn
  BY <1>2, PlainEvent, BroadcastType DEF PiEndsTurn, PiType, EventTypes
<1>3. CASE PiSettles
  BY <1>3, PlainEvent, BroadcastType DEF PiSettles, PiType, EventTypes
<1>4. CASE PiBinds
  BY <1>4 DEF PiBinds, PiType
<1>5. CASE PiAppends
  <2>1. PICK type \in {"message", "other"} :
          /\ log' = Append(log, type)
          /\ Broadcast([Event(IF type = "message" THEN "message_end" ELSE "unknown")
                         EXCEPT !.entry = Len(log')])
    BY <1>5 DEF PiAppends
  <2>2. log' \in Seq({"message", "other"}) /\ Len(log') \in Nat \ {0}
    BY <2>1, AppendProperties, LenProperties DEF PiType
  <2>3. Sent(chan')
    BY <2>1, <2>2, EntryEvent, BroadcastType
  <2>4. QED
    BY <1>5, <2>2, <2>3 DEF PiAppends, PiType
<1>6. CASE PiRetries
  <2>1. log' \in Seq({"message", "other"}) /\ Len(log') \in Nat \ {0}
    BY <1>6, AppendProperties, LenProperties DEF PiType, PiRetries
  <2> DEFINE said == [Event("message_end") EXCEPT !.entry = Len(log')]
             ended == [Event("agent_end") EXCEPT !.retry = TRUE]
  <2>2. said \in Events /\ Carries(said) /\ ended \in Events /\ Carries(ended)
    BY <2>1, EntryEvent, RetryEvent
  <2>3. chan' = chan \/ chan' = chan \o <<said, ended>>
    BY <1>6 DEF PiRetries
  <2> HIDE DEF said, ended
  <2>4. chan \o <<said, ended>> = Append(Append(chan, said), ended)
    BY <2>2 DEF Sent
  <2>5. Sent(chan')
    BY <2>2, <2>3, <2>4, SendsOneMore
  <2>6. QED
    BY <1>6, <2>1, <2>5 DEF PiRetries, PiType
<1>7. CASE PiSwitchesSession
  <2>1. starts' \in Seq(Nat) /\ Len(starts') > 0
    BY <1>7, AppendProperties, LenProperties DEF PiType, PiSwitchesSession
  <2>2. [PiState EXCEPT !.session = @ + 1] \in States
    BY PiStateType DEF States
  <2>3. Sent(chan')
    BY <1>7, <2>2, SessionEvent, BroadcastType DEF PiSwitchesSession
  <2>4. QED
    BY <1>7, <2>1, <2>3 DEF PiSwitchesSession, PiType
<1>8. CASE PiExits
  BY <1>8 DEF PiExits, PiType
<1>9. CASE PiQueues
  BY <1>9, PlainEvent, BroadcastType DEF PiQueues, PiType, EventTypes
<1>10. QED
  BY <1>1, <1>2, <1>3, <1>4, <1>5, <1>6, <1>7, <1>8, <1>9

LEMMA AnswerType ==
  ASSUME PiType, NEW request \in [id : Requests, since : Nat \cup {None}]
  PROVE  Answer(request) \in Responses /\ Carries(Answer(request))
<1>1. LeafId \in Nat \cup {None}
  BY LenProperties DEF LeafId, PiType
<1>2. After(request.since) \subseteq Nat \ {0}
  BY LenProperties DEF After, PiType
<1>3. QED
  BY <1>1, <1>2 DEF Answer, Response, Responses, Carries, EventTypes

LEMMA PromptAnswerType ==
  ASSUME NEW ok \in BOOLEAN, NEW handled \in BOOLEAN
  PROVE  LET response == [Response("prompt", ok) EXCEPT !.handled = handled] IN
         response \in Responses /\ Carries(response)
  BY DEF Response, Responses, Carries, EventTypes, Requests

LEMMA FailureType == Failure \in Responses
  BY DEF Failure, Response, Responses

LEMMA PiAnswersType ==
  ASSUME PiType, ClientType,
         PiAnswers \/ \E how \in {"refused", "handled", "accepted"} : PiAnswersPrompt(how)
  PROVE  PiType' /\ Sent(chan') /\ asked' \subseteq asked
<1>1. CASE PiAnswers
  <2>1. PICK request \in asked : chan' = Append(chan, Answer(request))
                                /\ asked' = asked \ {request}
    BY <1>1 DEF PiAnswers
  <2>2. Sent(chan')
    BY <2>1, AnswerType, SendsOneMore DEF ClientType
  <2>3. QED
    BY <1>1, <2>1, <2>2 DEF PiAnswers, piVars, PiType
<1>2. ASSUME NEW how \in {"refused", "handled", "accepted"}, PiAnswersPrompt(how)
      PROVE  PiType' /\ Sent(chan') /\ asked' \subseteq asked
  <2> DEFINE told == [Response("prompt", how # "refused") EXCEPT !.handled = how = "handled"]
             update == Event("queue_update")
  <2>1. told \in Responses /\ Carries(told) /\ update \in Events /\ Carries(update)
    BY PromptAnswerType, PlainEvent DEF EventTypes
  <2>2. chan' = chan \o <<told>> \/ chan' = Append(chan, update) \o <<told>>
    BY <1>2 DEF PiAnswersPrompt
  <2> HIDE DEF told, update
  <2>3. Sent(Append(chan, update))
    BY <2>1, SendsOneMore DEF ClientType
  <2>4. chan' = Append(chan, told) \/ chan' = Append(Append(chan, update), told)
    BY <2>1, <2>2, <2>3, AppendIsConcat DEF ClientType, Sent
  <2>5. Sent(chan')
    BY <2>1, <2>3, <2>4, SendsOneMore DEF ClientType
  <2>6. QED
    BY <1>2, <2>5 DEF PiAnswersPrompt, PiType
<1>3. QED
  BY <1>1, <1>2

LEMMA AskType ==
  ASSUME ClientType, NEW id \in Requests, NEW since \in Nat \cup {None}, Ask(id, since)
  PROVE  /\ asked' \subseteq [id : Requests, since : Nat \cup {None}]
         /\ reply' \in [Requests -> Responses \cup {None}]
  BY FailureType DEF Ask, ClientType

LEMMA NextSessionStateType ==
  ASSUME NEW s \in States, NEW record \in Events, Carries(record)
  PROVE  NextSessionState(s, record) \in States
<1>1. CASE record.type = "session_changed"
  BY <1>1 DEF NextSessionState, Carries
<1>2. CASE record.type # "session_changed"
  BY <1>2 DEF NextSessionState, States
<1>3. QED
  BY <1>1, <1>2

LEMMA SentTail ==
  ASSUME NEW records, Sent(records), records # <<>>
  PROVE  /\ Sent(Tail(records))
         /\ Head(records) \in Events \cup Responses /\ Carries(Head(records))
         /\ Head(records) = records[1] /\ 1 \in 1 .. Len(records)
<1>1. Len(records) \in Nat \ {0}
  BY EmptySeq DEF Sent
<1>2. QED
  BY <1>1, HeadTailProperties DEF Sent

LEMMA ReceiveType ==
  ASSUME ClientType, Receive
  PROVE  ClientType'
<1> DEFINE record == Head(chan)
<1>1. /\ Sent(Tail(chan)) /\ record \in Events \cup Responses /\ Carries(record)
      /\ chan' = Tail(chan) /\ reading' \in BOOLEAN
      /\ UNCHANGED <<tries, asked, events>>
  BY SentTail DEF ClientType, Receive
<1> HIDE DEF record
<1>2. CASE link = "hello"
  BY <1>1, <1>2 DEF Receive, ClientType
<1>3. CASE link # "hello"
  <2>1. DispatchLine(record) /\ link' = link
    BY <1>3 DEF Receive, record
  <2>2. CASE record.type = "response"
    <3>1. record \in Responses /\ record.to \in Requests
      BY <1>1, <2>2 DEF Events, EventTypes, Carries
    <3>2. QED
      BY <1>1, <2>1, <2>2, <3>1 DEF DispatchLine, ClientType
  <2>3. CASE record.type # "response" /\ state = None
    <3>1. record \in Events
      BY <1>1, <2>3 DEF Responses
    <3>2. state' \in States \cup {None} /\ seed' \in States \cup {None}
      BY <1>1, <2>1, <2>3, <3>1 DEF DispatchLine, ClientType, Carries
    <3>3. UNCHANGED <<queue, reply>>
      BY <2>1, <2>3 DEF DispatchLine
    <3>4. QED
      BY <1>1, <2>1, <3>2, <3>3 DEF ClientType
  <2>4. CASE record.type # "response" /\ state # None
    <3>1. record \in Events
      BY <1>1, <2>4 DEF Responses
    <3>2. state' = NextSessionState(state, record) /\ state' \in States
      BY <1>1, <2>1, <2>4, <3>1, NextSessionStateType DEF DispatchLine, ClientType
    <3>3. UNCHANGED <<seed, reply>>
      BY <2>1, <2>4 DEF DispatchLine
    <3> DEFINE item == [event |-> record, state |-> state']
    <3>4. item \in Queued /\ item.event = record
      BY <3>1, <3>2 DEF Queued
    <3>5. queue' = queue \/ queue' = Append(queue, item)
      BY <2>1, <2>4 DEF DispatchLine
    <3> HIDE DEF item
    <3>6. queue' \in Seq(Queued) /\ \A i \in 1 .. Len(queue') : Carries(queue'[i].event)
      BY <1>1, <3>4, <3>5, AppendProperties, LenProperties DEF ClientType
    <3>7. QED
      BY <1>1, <2>1, <3>2, <3>3, <3>6 DEF ClientType
  <2>5. QED
    BY <2>2, <2>3, <2>4
<1>4. QED
  BY <1>2, <1>3

LEMMA SocketClosedType ==
  ASSUME ClientType, SocketClosed
  PROVE  ClientType'
<1>1. Sent(chan')
  BY EmptySeq DEF SocketClosed, Sent
<1>2. reply' \in [Requests -> Responses \cup {None}]
  BY FailureType DEF SocketClosed, ClientType
<1>3. QED
  BY <1>1, <1>2 DEF SocketClosed, ClientType

LEMMA QueueTail ==
  ASSUME ClientType, queue # <<>>
  PROVE  /\ Head(queue) \in Queued /\ Carries(Head(queue).event) /\ Head(queue) = queue[1]
         /\ 1 \in 1 .. Len(queue) /\ Tail(queue) \in Seq(Queued)
         /\ Len(Tail(queue)) = Len(queue) - 1
         /\ \A i \in 1 .. Len(Tail(queue)) : Tail(queue)[i] = queue[i + 1]
         /\ \A i \in 1 .. Len(Tail(queue)) : Carries(Tail(queue)[i].event)
<1>1. Len(queue) \in Nat \ {0}
  BY EmptySeq DEF ClientType
<1>2. QED
  BY <1>1, HeadTailProperties DEF ClientType

LEMMA EntriesListed ==
  ASSUME PiType, NEW S, S \subseteq 1 .. Len(log)
  PROVE  InOrder(S) \in Seq(S) /\ Listing(InOrder(S), S)
  BY InOrderLists, LenProperties DEF PiType

LEMMA InitTypeInv == Init => TypeInv
<1> SUFFICES ASSUME Init PROVE TypeInv
  OBVIOUS
<1> USE CommandsAssumption, NoneAssumption, EmptySeq
<1>1. PiType
  BY DEF Init, PiInit, PiType
<1>2. ClientType
  <2>1. Sent(chan) /\ queue \in Seq(Queued) /\ \A i \in 1 .. Len(queue) : Carries(queue[i].event)
    BY DEF Init, ClientInit, Sent
  <2>2. asked \subseteq [id : Requests, since : Nat \cup {None}]
    BY DEF Init, ClientInit
  <2>3. reply \in [Requests -> Responses \cup {None}]
    BY DEF Init, ClientInit
  <2>4. QED
    BY <2>1, <2>2, <2>3 DEF Init, ClientInit, ClientType
<1>3. ModeType
  <2>1. cmd \in Commands /\ cmd.since \in Nat \cup {None}
    BY DEF Init
  <2>2. QED
    BY <2>1 DEF Init, ModeType
<1>4. GhostType
  BY DEF Init, GhostType
<1>5. QED
  BY <1>1, <1>2, <1>3, <1>4 DEF TypeInv

LEMMA ConnectingType ==
  ASSUME TypeInv, Connecting
  PROVE  TypeInv'
<1> USE DEF TypeInv
<1>1. PiType'
  BY DEF Connecting, piVars, PiType
<1>2. ClientType'
  <2>1. CASE ConnectRefused
    BY <2>1 DEF ConnectRefused, ClientType
  <2>2. CASE Connect
    <3> DEFINE hello == Event("hello")
               first == [Event("session_changed") EXCEPT !.state = PiState]
               other == Event("other")
    <3>1. /\ hello \in Events /\ Carries(hello) /\ first \in Events /\ Carries(first)
          /\ other \in Events /\ Carries(other)
      BY PlainEvent, SessionEvent, PiStateType DEF EventTypes
    <3>2. chan' = <<other>> \/ chan' = <<hello, first>>
      BY <2>2 DEF Connect
    <3> HIDE DEF hello, first, other
    <3>3. Sent(<<hello, first>>)
      <4>1. \A i \in 1 .. Len(<<hello, first>>) : Carries(<<hello, first>>[i])
        BY <3>1
      <4>2. QED
        BY <3>1, <4>1 DEF Sent
    <3>4. Sent(<<other>>)
      BY <3>1 DEF Sent
    <3>5. QED
      BY <2>2, <3>2, <3>3, <3>4 DEF Connect, ClientType
  <2>3. QED
    BY <2>1, <2>2 DEF Connecting
<1>3. ModeType'
  BY DEF Connecting, ModeType, Entries, loopVars, modeVars, outVars
<1>4. GhostType'
  BY DEF Connecting, GhostType, PiType
<1>5. QED
  BY <1>1, <1>2, <1>3, <1>4

LEMMA SubscribeToType ==
  ASSUME TypeInv, SubscribeTo
  PROVE  /\ ClientType' /\ pc' = "seed" /\ due' \in Nat \cup {None}
         /\ prompt' \in {"none", "sent", "ok", "failed"}
<1> USE DEF TypeInv
<1>1. /\ asked' \subseteq [id : Requests, since : Nat \cup {None}]
      /\ reply' \in [Requests -> Responses \cup {None}]
  BY AskType DEF SubscribeTo, ClientType, Requests
<1>2. ClientType'
  BY <1>1 DEF SubscribeTo, Subscribe, ClientKeeps, ClientType
<1>3. due' \in Nat \cup {None}
  BY DEF SubscribeTo, PiType, GhostType
<1>4. QED
  BY <1>2, <1>3 DEF SubscribeTo, ModeType

LEMMA FailType ==
  ASSUME TypeInv, Fail, UNCHANGED <<piVars, clientVars, ghosts>>
  PROVE  TypeInv'
<1>1. PiType'
  BY DEF TypeInv, PiType, piVars
<1>2. ClientType'
  BY DEF TypeInv, ClientType, clientVars
<1>3. ModeType'
  BY DEF TypeInv, ModeType, Fail, loopVars, modeVars, outVars, Entries
<1>4. GhostType'
  BY DEF TypeInv, GhostType, ghosts
<1>5. QED
  BY <1>1, <1>2, <1>3, <1>4 DEF TypeInv

LEMMA HelloReadType ==
  ASSUME TypeInv, HelloRead
  PROVE  TypeInv'
<1> USE DEF TypeInv
<1>1. PiType'
  BY DEF HelloRead, piVars, PiType
<1>2. cmd.since \in Nat \cup {None}
  BY CommandsAssumption DEF ModeType
<1>3. CASE link = "closed"
  BY <1>3, FailType DEF HelloRead, ghosts
<1>4. CASE link # "closed"
  <2>1. /\ UNCHANGED <<cmd, loopVars, modeVars, outVars, mark, from, missed, early>>
    BY <1>4 DEF HelloRead
  <2>2. CASE SubscribeTo
    BY <1>1, <2>1, <2>2, SubscribeToType
    DEF loopVars, modeVars, outVars, ModeType, GhostType, Entries
  <2>3. CASE Ask("history", cmd.since) /\ ClientKeeps /\ UNCHANGED <<seed, events, prompt, due>>
             /\ pc' \in {"history", "leaf"}
    <3>1. ClientType'
      BY <1>2, <2>3, AskType DEF ClientKeeps, ClientType, Requests
    <3>2. QED
      BY <1>1, <2>1, <2>3, <3>1 DEF loopVars, modeVars, outVars, ModeType, GhostType, Entries
  <2>4. CASE pc' = "now" /\ Subscribe /\ ClientKeeps /\ UNCHANGED <<asked, reply, prompt, due>>
    <3>1. ClientType'
      BY <2>4 DEF Subscribe, ClientKeeps, ClientType
    <3>2. QED
      BY <1>1, <2>1, <2>4, <3>1 DEF loopVars, modeVars, outVars, ModeType, GhostType, Entries
  <2>5. QED
    BY <1>4, <2>2, <2>3, <2>4 DEF HelloRead
<1>5. QED
  BY <1>3, <1>4

LEMMA LogLength ==
  ASSUME TypeInv
  PROVE  Len(log) \in Nat /\ 1 .. Len(log) \subseteq Nat \ {0}
<1>1. Len(log) \in Nat
  BY LenProperties DEF TypeInv, PiType
<1>2. QED
  BY <1>1

\* What the history writes.
LEMMA HistoryItems ==
  ASSUME TypeInv, Bounded, NEW id \in Requests, Answered(id), NEW c,
         NEW S, S = reply[id].entries \/ S = Messages(reply[id].entries)
  PROVE  S \subseteq 1 .. Len(log) /\ EndOf(LimitedTail(InOrder(S)), S, c)
<1>1. S \subseteq 1 .. Len(log)
  BY DEF Bounded, Messages, Answered
<1>2. InOrder(S) \in Seq(S) /\ Listing(InOrder(S), S)
  BY <1>1, EntriesListed DEF TypeInv
<1>3. S \subseteq Nat /\ cmd \in Commands
  BY <1>1, LogLength DEF TypeInv, ModeType
<1>4. QED
  BY <1>1, <1>2, <1>3, LimitedTailLists

LEMMA HistoryAnsweredType ==
  ASSUME TypeInv, Bounded, HistoryAnswered
  PROVE  TypeInv'
<1>1. CASE ~reply["history"].ok
  BY <1>1, FailType DEF HistoryAnswered, ghosts
<1>2. CASE reply["history"].ok
  <2> DEFINE S == IF Entries THEN reply["history"].entries ELSE Messages(reply["history"].entries)
             items == LimitedTail(InOrder(S))
  <2>1. /\ out' = items
        /\ cursor' = IF Entries THEN LastOf(items, cursor) ELSE cursor
        /\ UNCHANGED <<piVars, cmd, loopVars, lastSession, final, mark, from, missed, early>>
    BY <1>2 DEF HistoryAnswered
  <2>2. out' \in Seq(Nat) /\ cursor' \in Nat \cup {None}
    <3>1. Answered("history") /\ "history" \in Requests
      BY DEF HistoryAnswered, Requests
    <3>2. S \subseteq 1 .. Len(log) /\ EndOf(items, S, cursor)
      <4>1. S = reply["history"].entries \/ S = Messages(reply["history"].entries)
        OBVIOUS
      <4> HIDE DEF S
      <4>2. QED
        BY <3>1, <4>1, HistoryItems
    <3> HIDE DEF S, items
    <3>3. Values(items) \subseteq Nat
      <4>1. Len(log) \in Nat
        BY LogLength
      <4>2. Values(items) \subseteq S /\ S \subseteq 1 .. Len(log)
        BY <3>2, Zenon DEF EndOf
      <4>3. \A x \in 1 .. Len(log) : x \in Nat
        BY <4>1
      <4>4. QED
        BY <4>2, <4>3, Zenon
    <3>4. items \in Seq(Nat) /\ LastOf(items, cursor) \in Nat \cup {cursor}
      BY <3>2, <3>3, SeqMonotonic DEF EndOf
    <3>5. QED
      BY <2>1, <3>2, <3>3, <3>4 DEF TypeInv, ModeType
  <2> HIDE DEF S, items
  <2>3. PiType'
    BY <2>1 DEF TypeInv, PiType, piVars
  <2>4. /\ ClientType' /\ pc' \in {"seed", "now", "done"} /\ due' \in Nat \cup {None}
        /\ prompt' \in {"none", "sent", "ok", "failed"}
    <3>1. CASE SubscribeTo
      BY <3>1, SubscribeToType
    <3>2. CASE pc' = "done" /\ UNCHANGED <<clientVars, prompt, due>>
      BY <3>2 DEF TypeInv, ClientType, clientVars, ModeType, GhostType
    <3>3. CASE pc' = "now" /\ Subscribe /\ ClientKeeps /\ UNCHANGED <<asked, reply, prompt, due>>
      BY <3>3 DEF TypeInv, ClientType, Subscribe, ClientKeeps, ModeType, GhostType
    <3>4. QED
      BY <1>2, <3>1, <3>2, <3>3 DEF HistoryAnswered
  <2>5. ModeType'
    BY <2>1, <2>2, <2>4 DEF TypeInv, ModeType, loopVars, Entries
  <2>6. GhostType'
    BY <2>1, <2>4 DEF TypeInv, GhostType
  <2>7. QED
    BY <2>3, <2>4, <2>5, <2>6 DEF TypeInv
<1>3. QED
  BY <1>1, <1>2

LEMMA LeafAnsweredType ==
  ASSUME TypeInv, Bounded, LeafAnswered
  PROVE  TypeInv'
<1>1. CASE ~reply["history"].ok
  BY <1>1, FailType DEF LeafAnswered, ghosts
<1>2. CASE reply["history"].ok
  <2> DEFINE S == reply["history"].entries
  <2>1. /\ cursor' = LastOf(InOrder(S), None) /\ SubscribeTo
        /\ UNCHANGED <<piVars, cmd, loopVars, lastSession, outVars, mark, from, missed, early>>
    BY <1>2 DEF LeafAnswered
  <2>2. S \subseteq 1 .. Len(log)
    BY DEF LeafAnswered, Answered, Bounded, Requests
  <2> HIDE DEF S
  <2>3. cursor' \in Nat \cup {None}
    <3>1. Len(log) \in Nat
      BY LogLength
    <3>2. LastOf(InOrder(S), None) \in S \cup {None}
      BY <2>2, <3>1, InOrderLast
    <3>3. \A x \in 1 .. Len(log) : x \in Nat
      BY <3>1
    <3>4. QED
      BY <2>1, <2>2, <3>2, <3>3
  <2>4. ModeType'
    BY <2>1, <2>3, SubscribeToType DEF TypeInv, ModeType, loopVars, outVars, Entries
  <2>5. QED
    BY <2>1, <2>4, SubscribeToType DEF TypeInv, PiType, piVars, GhostType
<1>3. QED
  BY <1>1, <1>2

LEMMA NowSubscribedType ==
  ASSUME TypeInv, NowSubscribed
  PROVE  TypeInv'
<1>1. CASE seed = None
  BY <1>1, FailType DEF NowSubscribed
<1>2. CASE seed # None
  <2>1. ClientType'
    BY <1>2, AskType DEF NowSubscribed, ClientKeeps, TypeInv, ClientType, Requests
  <2>2. ModeType'
    BY <1>2 DEF NowSubscribed, TypeInv, ModeType, modeVars, outVars, Entries
  <2>3. QED
    BY <1>2, <2>1, <2>2 DEF NowSubscribed, TypeInv, PiType, GhostType, piVars, ghosts
<1>3. QED
  BY <1>1, <1>2

LEMMA NowCursorType ==
  ASSUME TypeInv, NowCursor
  PROVE  TypeInv'
<1>1. CASE ~reply["final"].ok
  BY <1>1, FailType DEF NowCursor
<1>2. CASE reply["final"].ok
  <2>1. ModeType'
    BY <1>2 DEF NowCursor, TypeInv, ModeType, modeVars, loopVars, Entries
  <2>2. QED
    BY <1>2, <2>1 DEF NowCursor, TypeInv, PiType, ClientType, GhostType, piVars, clientVars, ghosts
<1>3. QED
  BY <1>1, <1>2

LEMMA BeginStopType ==
  ASSUME TypeInv, BeginStop
  PROVE  /\ stop' = TRUE
         /\ asked' \subseteq [id : Requests, since : Nat \cup {None}]
         /\ reply' \in [Requests -> Responses \cup {None}]
  BY AskType DEF BeginStop, TypeInv, ClientType, Requests

LEMMA EstablishSourceCutoffType ==
  ASSUME TypeInv, NEW result \in {"done", "timeout"}, EstablishSourceCutoff(result)
  PROVE  /\ events' \in {"none", "open", "closed"} /\ stop' \in BOOLEAN
         /\ cutoff' \in {"done", "timeout", None}
         /\ asked' \subseteq [id : Requests, since : Nat \cup {None}]
         /\ reply' \in [Requests -> Responses \cup {None}]
  BY BeginStopType DEF EstablishSourceCutoff, TypeInv, ClientType, ModeType

\* What the loop of runStream does after an item: it stops or goes on.
LEMMA AfterItemType ==
  ASSUME TypeInv, NEW s,
         \/ StopAt(s)
         \/ Proceed(s) /\ queue' \in {queue, Tail(queue)} /\ armed' \in BOOLEAN
                       /\ (queue = <<>> => queue' = queue),
         seed' \in States \cup {None}
  PROVE  /\ ClientType' /\ pc' \in {"stop", "next"}
         /\ outcome' \in {"done", outcome} /\ armed' \in BOOLEAN /\ stop' \in BOOLEAN
         /\ cutoff' = cutoff
<1>1. CASE StopAt(s)
  <2>1. /\ asked' \subseteq [id : Requests, since : Nat \cup {None}]
        /\ reply' \in [Requests -> Responses \cup {None}]
    BY <1>1, BeginStopType DEF StopAt
  <2>2. queue' \in Seq(Queued) /\ \A i \in 1 .. Len(queue') : Carries(queue'[i].event)
    BY <1>1, EmptySeq DEF StopAt
  <2>3. QED
    BY <1>1, <2>1, <2>2 DEF StopAt, BeginStop, TypeInv, ClientType, ModeType
<1>2. CASE Proceed(s) /\ queue' \in {queue, Tail(queue)} /\ armed' \in BOOLEAN
                      /\ (queue = <<>> => queue' = queue)
  <2>1. queue' \in Seq(Queued) /\ \A i \in 1 .. Len(queue') : Carries(queue'[i].event)
    BY <1>2, QueueTail DEF TypeInv, ClientType
  <2>2. QED
    BY <1>2, <2>1 DEF Proceed, TypeInv, ClientType, ModeType
<1>3. QED
  BY <1>1, <1>2

LEMMA HandleSeedType ==
  ASSUME TypeInv, HandleSeed
  PROVE  TypeInv'
<1>1. CASE seed = None
  BY <1>1, FailType DEF HandleSeed
<1>2. CASE seed # None
  <2>1. /\ seed' = None
        /\ \/ StopAt(seed)
           \/ Proceed(seed) /\ armed' = TRUE /\ queue' = queue
        /\ lastSession' = (IF Entries THEN seed.session ELSE None)
        /\ UNCHANGED <<cmd, prompt, event, cursor, outVars, piVars, ghosts>>
    BY <1>2 DEF HandleSeed
  <2>2. /\ ClientType' /\ pc' \in {"stop", "next"}
        /\ outcome' \in {"done", outcome} /\ armed' \in BOOLEAN /\ stop' \in BOOLEAN
        /\ cutoff' = cutoff
    BY <2>1, AfterItemType
  <2>3. lastSession' \in Nat \cup {None}
    BY <1>2, <2>1 DEF TypeInv, ClientType, States
  <2>4. ModeType'
    BY <2>1, <2>2, <2>3 DEF TypeInv, ModeType, outVars, Entries
  <2>5. QED
    BY <2>1, <2>2, <2>4 DEF TypeInv, PiType, GhostType, piVars, ghosts
<1>3. QED
  BY <1>1, <1>2

LEMMA RecordType ==
  ASSUME NEW e \in Events, Carries(e)
  PROVE  Record(e) \in Seq(Nat)
<1>1. CASE e.type = "message_end"
  BY <1>1 DEF Record, Carries
<1>2. CASE e.type = "session_changed"
  <2>1. Record(e) = <<0>>
    BY <1>2 DEF Record, Carries, EventTypes
  <2>2. QED
    BY <2>1
<1>3. CASE e.type \notin {"message_end", "session_changed"}
  <2>1. e.entry # None => e.entry \in Nat
    BY DEF Events
  <2>2. Record(e) = IF e.entry # None /\ cmd.type = "events" THEN <<e.entry>> ELSE <<>>
    BY <1>3 DEF Record
  <2>3. QED
    BY <2>1, <2>2
<1>4. QED
  BY <1>1, <1>2, <1>3

LEMMA HandleEventType ==
  ASSUME TypeInv, HandleEvent
  PROVE  TypeInv'
<1> DEFINE e == Head(queue)
<1>1. /\ queue # <<>>
      /\ out' = IF HasCursor THEN out \o Record(e.event) ELSE out
      /\ \/ StopAt(e.state)
         \/ Proceed(e.state) /\ queue' = Tail(queue) /\ armed' = armed
      /\ UNCHANGED <<piVars, seed, cmd, prompt, event, modeVars, final, ghosts>>
  BY DEF HandleEvent
<1>2. e \in Queued /\ Carries(e.event)
  BY <1>1, QueueTail DEF TypeInv
<1> HIDE DEF e
<1>3. out' \in Seq(Nat)
  BY <1>1, <1>2, RecordType, ConcatProperties DEF TypeInv, ModeType, Queued
<1>4. /\ ClientType' /\ pc' \in {"stop", "next"}
      /\ outcome' \in {"done", outcome} /\ armed' \in BOOLEAN /\ stop' \in BOOLEAN
      /\ cutoff' = cutoff
  <2>1. seed' \in States \cup {None} /\ armed \in BOOLEAN
    BY <1>1 DEF TypeInv, ClientType, ModeType
  <2>2. QED
    BY <1>1, <2>1, AfterItemType
<1>5. ModeType'
  BY <1>1, <1>3, <1>4 DEF TypeInv, ModeType, modeVars, Entries
<1>6. QED
  BY <1>1, <1>4, <1>5 DEF TypeInv, PiType, GhostType, piVars, ghosts

LEMMA DrainForEventType ==
  ASSUME TypeInv, DrainForEvent
  PROVE  TypeInv'
<1> DEFINE e == Head(queue)
<1>1. /\ queue # <<>> /\ Entries
      /\ event' = e /\ queue' = Tail(queue) /\ cursor' = CursorFor(e)
      /\ lastSession' = e.state.session
      /\ Ask("drain", cursor') /\ pc' = "drain"
      /\ UNCHANGED <<piVars, tries, link, reading, chan, state, seed, events, cmd, prompt,
                     lastState, cutoff, armed, stop, outcome, outVars, ghosts>>
  BY DEF DrainForEvent
<1>2. /\ e \in Queued /\ Carries(e.event)
      /\ Tail(queue) \in Seq(Queued) /\ \A i \in 1 .. Len(Tail(queue)) : Carries(Tail(queue)[i].event)
  BY <1>1, QueueTail DEF TypeInv
<1> HIDE DEF e
<1>3. cursor' \in Nat \cup {None} /\ lastSession' \in Nat
  BY <1>1, <1>2 DEF CursorFor, TypeInv, ModeType, Queued, States
<1>4. /\ asked' \subseteq [id : Requests, since : Nat \cup {None}]
      /\ reply' \in [Requests -> Responses \cup {None}]
  BY <1>1, <1>3, AskType DEF TypeInv, Requests
<1>5. ClientType'
  BY <1>1, <1>2, <1>4 DEF TypeInv, ClientType
<1>6. ModeType'
  BY <1>1, <1>2, <1>3 DEF TypeInv, ModeType, outVars, Entries
<1>7. QED
  BY <1>1, <1>5, <1>6 DEF TypeInv, PiType, GhostType, piVars, ghosts

LEMMA DrainedType ==
  ASSUME TypeInv, Bounded, Drained
  PROVE  TypeInv'
<1>1. CASE ~reply["drain"].ok
  <2>1. /\ event' = None /\ outcome' = "failed" /\ pc' = "end"
        /\ events' = "closed" /\ queue' = <<>>
        /\ UNCHANGED <<piVars, cmd, prompt, lastSession, final, due, mark, from, missed, seed,
                       tries, link, reading, chan, asked, state, reply,
                       lastState, cutoff, armed, stop, cursor, out, early>>
    BY <1>1 DEF Drained
  <2>2. ClientType'
    BY <2>1, EmptySeq DEF TypeInv, ClientType
  <2>3. ModeType'
    BY <2>1 DEF TypeInv, ModeType, Entries
  <2>4. QED
    BY <2>1, <2>2, <2>3 DEF TypeInv, PiType, GhostType, piVars
<1>2. CASE reply["drain"].ok
  <2> DEFINE S == reply["drain"].entries
             items == InOrder(S)
  <2>1. /\ event' = None /\ out' = out \o items /\ cursor' = LastOf(items, cursor)
        /\ early' \subseteq early \cup S
        /\ \/ StopAt(event.state)
           \/ Proceed(event.state) /\ queue' = queue /\ armed' = armed
        /\ UNCHANGED <<piVars, cmd, prompt, lastSession, final, due, mark, from, missed, seed>>
    BY <1>2 DEF Drained
  <2>2. S \subseteq 1 .. Len(log)
    BY DEF Drained, Answered, Bounded, Requests
  <2> HIDE DEF S
  <2>3. items \in Seq(S)
    BY <2>2, EntriesListed DEF TypeInv
  <2>4. LastOf(items, cursor) \in S \cup {cursor}
    BY <2>2, LogLength, InOrderLast
  <2> HIDE DEF items
  <2>5. S \subseteq Nat
    BY <2>2, LogLength
  <2>6. items \in Seq(Nat)
    BY <2>3, <2>5, SeqMonotonic
  <2>7. out' \in Seq(Nat) /\ cursor' \in Nat \cup {None}
    BY <2>1, <2>4, <2>5, <2>6, ConcatProperties DEF TypeInv, ModeType
  <2>8. /\ ClientType' /\ pc' \in {"stop", "next"}
        /\ outcome' \in {"done", outcome} /\ armed' \in BOOLEAN /\ stop' \in BOOLEAN
        /\ cutoff' = cutoff
    <3>1. seed' \in States \cup {None} /\ armed \in BOOLEAN
      BY <2>1 DEF TypeInv, ClientType, ModeType
    <3>2. QED
      BY <2>1, <3>1, AfterItemType
  <2>9. ModeType'
    BY <2>1, <2>7, <2>8 DEF TypeInv, ModeType, Entries
  <2>10. early' \subseteq Nat
    BY <2>1, <2>5 DEF TypeInv, GhostType
  <2>11. QED
    BY <2>1, <2>8, <2>9, <2>10 DEF TypeInv, PiType, GhostType, piVars
<1>3. QED
  BY <1>1, <1>2

LEMMA EndingType ==
  ASSUME TypeInv, SourceEnded \/ FinishAfterStop \/ Return \/ GiveUpConnecting
  PROVE  TypeInv'
<1>1. CASE SourceEnded \/ FinishAfterStop
  <2>1. /\ UNCHANGED <<piVars, clientVars, cmd, prompt, event, cutoff, armed, stop, modeVars,
                       outVars, ghosts>>
        /\ pc' \in {"stop", "end"}
        /\ outcome' \in {"done", "timeout", "failed", "closed", None}
    BY <1>1 DEF SourceEnded, FinishAfterStop, TypeInv, ModeType
  <2>2. ModeType'
    BY <2>1 DEF TypeInv, ModeType, modeVars, outVars, Entries
  <2>3. QED
    BY <2>1, <2>2 DEF TypeInv, PiType, ClientType, GhostType, piVars, clientVars, ghosts
<1>2. CASE Fail /\ UNCHANGED <<piVars, clientVars, ghosts>>
  BY <1>2, FailType
<1>3. CASE /\ pc' = "done" /\ UNCHANGED <<cmd, prompt, loopVars, modeVars, out>>
           /\ UNCHANGED <<piVars, clientVars, ghosts>>
  <2>1. ModeType'
    BY <1>3 DEF TypeInv, ModeType, loopVars, modeVars, Entries
  <2>2. QED
    BY <1>3, <2>1 DEF TypeInv, PiType, ClientType, GhostType, piVars, clientVars, ghosts
<1>4. QED
  BY <1>1, <1>2, <1>3 DEF Return, GiveUpConnecting

LEMMA PromptAnsweredType ==
  ASSUME TypeInv, PromptAnswered
  PROVE  TypeInv'
<1>1. /\ prompt' \in {"ok", "failed"}
      /\ UNCHANGED <<piVars, cmd, pc, event, lastState, armed, outcome, modeVars, outVars, ghosts>>
  BY DEF PromptAnswered
<1>2. ClientType' /\ cutoff' \in {"done", "timeout", None} /\ stop' \in BOOLEAN
  <2>1. CASE SocketClosed /\ UNCHANGED <<cutoff, stop>>
    BY <2>1, SocketClosedType DEF TypeInv, ModeType
  <2>2. CASE /\ EstablishSourceCutoff("done")
             /\ UNCHANGED <<tries, link, reading, chan, state, seed, queue>>
    BY <2>2, EstablishSourceCutoffType DEF TypeInv, ClientType
  <2>3. CASE UNCHANGED <<clientVars, cutoff, stop>>
    BY <2>3 DEF TypeInv, ClientType, ModeType, clientVars
  <2>4. QED
    BY <2>1, <2>2, <2>3 DEF PromptAnswered
<1>3. ModeType'
  BY <1>1, <1>2 DEF TypeInv, ModeType, modeVars, outVars, Entries
<1>4. QED
  BY <1>1, <1>2, <1>3 DEF TypeInv, PiType, GhostType, piVars, ghosts

LEMMA TimerFiresType ==
  ASSUME TypeInv, TimerFires
  PROVE  TypeInv'
<1>1. /\ UNCHANGED <<piVars, tries, link, reading, chan, state, seed, queue, cmd, pc, prompt,
                     event, lastState, armed, outcome, modeVars, outVars, ghosts>>
      /\ EstablishSourceCutoff("timeout") \/ EstablishSourceCutoff("done")
  BY DEF TimerFires
<1>2. ClientType' /\ cutoff' \in {"done", "timeout", None} /\ stop' \in BOOLEAN
  BY <1>1, EstablishSourceCutoffType DEF TypeInv, ClientType
<1>3. ModeType'
  BY <1>1, <1>2 DEF TypeInv, ModeType, modeVars, outVars, Entries
<1>4. QED
  BY <1>1, <1>2, <1>3 DEF TypeInv, PiType, GhostType, piVars, ghosts

LEMMA CommandKeepsType ==
  ASSUME TypeInv, CommandKeeps, Sent(chan'), asked' \subseteq asked
  PROVE  ClientType' /\ ModeType'
<1>1. ClientType'
  BY DEF TypeInv, ClientType, CommandKeeps
<1>2. ModeType'
  BY DEF TypeInv, ModeType, CommandKeeps, loopVars, modeVars, outVars, Entries
<1>3. QED
  BY <1>1, <1>2

LEMMA PiStepType ==
  ASSUME TypeInv, PiWorks \/ PiMay \/ PiReplies \/ PiTakesPrompt
  PROVE  TypeInv'
<1>1. PiType' /\ Sent(chan') /\ asked' \subseteq asked /\ CommandKeeps
  <2>1. CASE PiWorks
    BY <2>1, PiMovesType DEF PiWorks, TypeInv, ClientType
  <2>2. CASE PiMay
    BY <2>2, PiMovesType DEF PiMay, TypeInv, ClientType
  <2>3. CASE PiReplies
    BY <2>3, PiAnswersType DEF PiReplies, TypeInv
  <2>4. CASE PiTakesPrompt
    BY <2>4, PiAnswersType DEF PiTakesPrompt, TypeInv
  <2>5. QED
    BY <2>1, <2>2, <2>3, <2>4
<1>2. ClientType' /\ ModeType'
  BY <1>1, CommandKeepsType
<1>3. GhostType'
  <2>1. mark' \in {mark, Len(log)} /\ from' \in {from, Len(log)} /\ UNCHANGED <<due, missed, early>>
    BY DEF PiWorks, PiMay, PiReplies, PiTakesPrompt, ghosts
  <2>2. QED
    BY <2>1, LogLength DEF TypeInv, GhostType
<1>4. QED
  BY <1>1, <1>2, <1>3 DEF TypeInv

LEMMA DeliverType ==
  ASSUME TypeInv, Deliver
  PROVE  TypeInv'
<1>1. ClientType'
  BY ReceiveType DEF Deliver, TypeInv
<1>2. ModeType'
  BY DEF Deliver, TypeInv, ModeType, loopVars, modeVars, outVars, Entries
<1>3. missed' \subseteq Nat
  <2>1. CASE Head(chan).type # "response" /\ Head(chan).entry # None
    <3>1. Head(chan) \in Events
      BY <2>1, SentTail DEF Deliver, Receive, TypeInv, ClientType, Responses
    <3>2. Head(chan).entry \in Nat
      BY <2>1, <3>1 DEF Events
    <3>3. QED
      BY <3>2 DEF Deliver, TypeInv, GhostType
  <2>2. CASE ~(Head(chan).type # "response" /\ Head(chan).entry # None)
    BY <2>2 DEF Deliver, TypeInv, GhostType
  <2>3. QED
    BY <2>1, <2>2
<1>4. QED
  BY <1>1, <1>2, <1>3 DEF Deliver, TypeInv, PiType, GhostType, piVars

LEMMA PiClosesSocketType ==
  ASSUME TypeInv, PiClosesSocket
  PROVE  TypeInv'
<1>1. ClientType'
  BY SocketClosedType DEF PiClosesSocket, TypeInv
<1>2. ModeType'
  BY DEF PiClosesSocket, TypeInv, ModeType, loopVars, modeVars, outVars, Entries
<1>3. QED
  BY <1>1, <1>2 DEF PiClosesSocket, TypeInv, PiType, GhostType, piVars, ghosts

LEMMA StutterType ==
  ASSUME TypeInv, UNCHANGED vars
  PROVE  TypeInv'
<1> USE DEF vars
<1>1. PiType' /\ GhostType'
  BY DEF TypeInv, PiType, GhostType, piVars, ghosts
<1>2. ClientType'
  BY DEF TypeInv, ClientType, clientVars
<1>3. ModeType'
  BY DEF TypeInv, ModeType, loopVars, modeVars, outVars, Entries
<1>4. QED
  BY <1>1, <1>2, <1>3 DEF TypeInv

LEMMA NextType ==
  ASSUME TypeInv, Bounded, [Next]_vars
  PROVE  TypeInv'
<1>1. CASE Coroutine
  BY <1>1, ConnectingType, HelloReadType, HistoryAnsweredType, LeafAnsweredType,
     NowSubscribedType, NowCursorType, HandleSeedType, HandleEventType, DrainForEventType,
     DrainedType, EndingType, PromptAnsweredType DEF Coroutine
<1>2. CASE Next /\ ~Coroutine
  BY <1>2, PiStepType, DeliverType, PiClosesSocketType, TimerFiresType DEF Next
<1>3. QED
  BY <1>1, <1>2, StutterType

-----------------------------------------------------------------------------
(* What a step of pi does to the log and to what it sends.                  *)

PiStep == PiWorks \/ PiMay \/ PiReplies \/ PiTakesPrompt

Starts == starts' = Append(starts, Len(log))

\* A record that a step of pi has sent.
IsNew(record) ==
  /\ record \in Events \cup Responses /\ Carries(record)
  /\ record.type = "response" =>
       \E q \in asked : /\ asked' = asked \ {q} /\ record.to = q.id
                        /\ q.id # "prompt" => record = Answer(q)
                        /\ q.id = "prompt" => record.entries = {}
  /\ record.type \in {"message_end", "unknown"} =>
       /\ Len(log') = Len(log) + 1 /\ record.entry = Len(log')
       /\ record.type = "message_end" <=> log'[Len(log')] = "message"
  /\ record.type = "session_changed" =>
       /\ Starts /\ record.state = [PiState EXCEPT !.session = @ + 1] /\ phase = "idle"
  /\ record.type = "agent_end" /\ ~record.retry => turns' = turns + 1 /\ log' = log
  /\ record.type = "agent_settled" => phase = "ended"

\* Of two records that are sent together the first is no response, nor does the
\* second carry an entry or a session.
Sends ==
  /\ Len(chan') \in Nat /\ Len(chan) <= Len(chan')
  /\ \A i \in 1 .. Len(chan) : chan'[i] = chan[i]
  /\ \A i \in Len(chan) + 1 .. Len(chan') : IsNew(chan'[i])
  /\ \A i, j \in Len(chan) + 1 .. Len(chan') : i < j =>
       /\ chan'[i].type # "response" /\ chan'[i].type # "session_changed"
       /\ chan'[j].type \in {"response", "agent_end"}

Changes ==
  /\ log' = log \/ /\ Len(log') = Len(log) + 1 /\ phase = "running"
                   /\ UNCHANGED <<starts, phase, turns, asked>>
  /\ \A n \in 1 .. Len(log) : log'[n] = log[n]
  /\ starts' = starts \/ (Starts /\ phase = "idle" /\ UNCHANGED <<log, phase, turns, asked>>)
  /\ turns' = turns \/ /\ turns' = turns + 1 /\ phase = "running" /\ phase' = "ended"
                       /\ UNCHANGED <<log, starts, asked>>
  /\ phase' = phase \/ <<phase, phase'>> \in
       {<<"idle", "queued">>, <<"queued", "running">>, <<"running", "ended">>, <<"ended", "idle">>}
  /\ phase = "running" /\ phase' # phase => turns' # turns
  /\ asked' \subseteq asked
  /\ Connected /\ log' # log =>
       \E i \in Len(chan) + 1 .. Len(chan') :
         chan'[i].type \in {"message_end", "unknown"} /\ chan'[i].entry = Len(log')
  /\ Connected /\ starts' # starts =>
       \E i \in Len(chan) + 1 .. Len(chan') : chan'[i].type = "session_changed"
  /\ turns' # turns => mark' = (IF due # None /\ turns' = due THEN Len(log) ELSE mark)
  /\ turns' = turns => mark' = mark
  /\ UNCHANGED <<due, missed, early>> /\ CommandKeeps

LEMMA SendsOne ==
  ASSUME TypeInv, NEW record, IsNew(record), chan' = Append(chan, record)
  PROVE  Sends /\ Len(chan') = Len(chan) + 1 /\ chan'[Len(chan')] = record
<1>1. chan \in Seq(Events \cup Responses) /\ record \in Events \cup Responses
  BY DEF TypeInv, ClientType, Sent, IsNew
<1>2. Len(chan) \in Nat
  BY <1>1, LenProperties
<1>3. /\ Len(chan') = Len(chan) + 1 /\ chan'[Len(chan) + 1] = record
      /\ \A i \in 1 .. Len(chan) : chan'[i] = chan[i]
  BY <1>1, AppendProperties
<1> HIDE DEF IsNew
<1>4. \A i \in Len(chan) + 1 .. Len(chan') : i = Len(chan) + 1
  BY <1>2, <1>3
<1>5. QED
  BY <1>2, <1>3, <1>4 DEF Sends

LEMMA SendsNothing ==
  ASSUME TypeInv, chan' = chan
  PROVE  Sends
<1>1. Len(chan) \in Nat
  BY LenProperties DEF TypeInv, ClientType, Sent
<1>2. QED
  BY <1>1 DEF Sends

LEMMA SendsTwo ==
  ASSUME TypeInv, NEW r, NEW s, IsNew(r), IsNew(s), chan' = Append(Append(chan, r), s),
         r.type \notin {"response", "session_changed"}, s.type \in {"response", "agent_end"}
  PROVE  Sends /\ Len(chan') = Len(chan) + 2 /\ chan'[Len(chan) + 1] = r
<1>1. /\ chan \in Seq(Events \cup Responses)
      /\ r \in Events \cup Responses /\ s \in Events \cup Responses
  BY DEF TypeInv, ClientType, Sent, IsNew
<1>2. Len(chan) \in Nat
  BY <1>1, LenProperties
<1> DEFINE half == Append(chan, r)
<1>3. /\ half \in Seq(Events \cup Responses) /\ Len(half) = Len(chan) + 1
      /\ half[Len(chan) + 1] = r
      /\ \A i \in 1 .. Len(chan) : half[i] = chan[i]
  BY <1>1, AppendProperties
<1>4. chan' = Append(half, s)
  OBVIOUS
<1> HIDE DEF half
<1>5. /\ Len(chan') = Len(half) + 1 /\ chan'[Len(half) + 1] = s
      /\ \A i \in 1 .. Len(half) : chan'[i] = half[i]
  BY <1>1, <1>3, <1>4, AppendProperties
<1>6. /\ Len(chan') = Len(chan) + 2 /\ chan'[Len(chan) + 1] = r /\ chan'[Len(chan) + 2] = s
      /\ \A i \in 1 .. Len(chan) : chan'[i] = chan[i]
  BY <1>2, <1>3, <1>5
<1> HIDE DEF IsNew
<1>7. \A i \in Len(chan) + 1 .. Len(chan') : i \in {Len(chan) + 1, Len(chan) + 2}
  BY <1>2, <1>6
<1>8. QED
  BY <1>2, <1>6, <1>7 DEF Sends

LEMMA SendsBroadcast ==
  ASSUME TypeInv, NEW record, Connected => IsNew(record), Broadcast(record)
  PROVE  /\ Sends
         /\ Connected => /\ Len(chan) + 1 \in Len(chan) + 1 .. Len(chan')
                         /\ chan'[Len(chan) + 1] = record
<1>1. CASE Connected
  <2>1. Sends /\ Len(chan') = Len(chan) + 1 /\ chan'[Len(chan')] = record
    BY <1>1, SendsOne DEF Broadcast
  <2>2. Len(chan) \in Nat
    BY LenProperties DEF TypeInv, ClientType, Sent
  <2>3. QED
    BY <2>1, <2>2
<1>2. CASE ~Connected
  BY <1>2, SendsNothing DEF Broadcast
<1>3. QED
  BY <1>1, <1>2

LEMMA PlainIsNew ==
  ASSUME NEW type \in {"hello", "queue_update", "agent_start", "other"}
  PROVE  IsNew(Event(type))
<1>1. Event(type) \in Events /\ Carries(Event(type))
  BY PlainEvent DEF EventTypes
<1>2. QED
  BY <1>1 DEF Event, IsNew

LEMMA TurnStepShape ==
  ASSUME TypeInv, PiWorks
  PROVE  Sends /\ Changes
<1>1. /\ mark' = (IF turns' # turns /\ due # None /\ turns' = due THEN Len(log) ELSE mark)
      /\ CommandKeeps /\ UNCHANGED <<asked, due, from, missed, early>>
  BY DEF PiWorks
<1>2. CASE PiStartsTurn
  <2>1. IsNew(Event("agent_start"))
    BY PlainIsNew
  <2>2. Sends
    BY <1>2, <2>1, SendsBroadcast DEF PiStartsTurn
  <2>3. QED
    BY <1>1, <1>2, <2>2 DEF PiStartsTurn, Changes
<1>3. CASE PiEndsTurn
  <2>1. IsNew(Event("agent_end"))
    <3>1. Event("agent_end") \in Events /\ Carries(Event("agent_end"))
      BY PlainEvent DEF EventTypes
    <3>2. QED
      BY <1>3, <3>1 DEF PiEndsTurn, Event, IsNew
  <2>2. Sends
    BY <1>3, <2>1, SendsBroadcast DEF PiEndsTurn
  <2>3. turns' # turns
    BY <1>3 DEF PiEndsTurn, TypeInv, PiType
  <2>4. QED
    BY <1>1, <1>3, <2>2, <2>3 DEF PiEndsTurn, Changes
<1>4. CASE PiSettles
  <2>1. IsNew(Event("agent_settled"))
    <3>1. Event("agent_settled") \in Events /\ Carries(Event("agent_settled"))
      BY PlainEvent DEF EventTypes
    <3>2. QED
      BY <1>4, <3>1 DEF PiSettles, Event, IsNew
  <2>2. Sends
    BY <1>4, <2>1, SendsBroadcast DEF PiSettles
  <2>3. QED
    BY <1>1, <1>4, <2>2 DEF PiSettles, Changes
<1>5. QED
  BY <1>2, <1>3, <1>4 DEF PiWorks

LEMMA LogStep ==
  ASSUME TypeInv, NEW type \in {"message", "other"}, log' = Append(log, type)
  PROVE  /\ Len(log') = Len(log) + 1 /\ Len(log') \in Nat \ {0} /\ log' # log
         /\ log'[Len(log')] = type /\ \A n \in 1 .. Len(log) : log'[n] = log[n]
<1>1. Len(log) \in Nat
  BY LogLength
<1>2. /\ Len(log') = Len(log) + 1 /\ log'[Len(log) + 1] = type
      /\ \A n \in 1 .. Len(log) : log'[n] = log[n]
  BY AppendProperties DEF TypeInv, PiType
<1>3. QED
  BY <1>1, <1>2

LEMMA MayStepShape ==
  ASSUME TypeInv, PiMay
  PROVE  Sends /\ Changes
<1>1. CommandKeeps /\ UNCHANGED <<asked, due, mark, from, missed, early>>
  BY DEF PiMay, ghosts
<1>2. Len(chan) \in Nat
  BY LenProperties DEF TypeInv, ClientType, Sent
<1>3. CASE PiBinds \/ PiExits
  <2>1. UNCHANGED <<log, starts, phase, turns, chan>>
    BY <1>3 DEF PiBinds, PiExits
  <2>2. QED
    BY <1>1, <2>1, SendsNothing DEF Changes
<1>4. CASE PiAppends
  <2>1. PICK type \in {"message", "other"} :
          /\ log' = Append(log, type)
          /\ Broadcast([Event(IF type = "message" THEN "message_end" ELSE "unknown")
                         EXCEPT !.entry = Len(log')])
    BY <1>4 DEF PiAppends
  <2> DEFINE kind == IF type = "message" THEN "message_end" ELSE "unknown"
             record == [Event(kind) EXCEPT !.entry = Len(log')]
  <2>2. /\ Len(log') = Len(log) + 1 /\ Len(log') \in Nat \ {0} /\ log' # log
        /\ log'[Len(log')] = type /\ \A n \in 1 .. Len(log) : log'[n] = log[n]
    BY <2>1, LogStep
  <2>3. record \in Events /\ Carries(record)
    BY <2>2, EntryEvent
  <2>4. record.type = kind /\ record.entry = Len(log')
    BY DEF Event
  <2>5. IsNew(record)
    BY <2>2, <2>3, <2>4 DEF IsNew
  <2>6. Broadcast(record)
    BY <2>1
  <2> HIDE DEF record
  <2>7. /\ Sends
        /\ Connected => /\ Len(chan) + 1 \in Len(chan) + 1 .. Len(chan')
                        /\ chan'[Len(chan) + 1] = record
    BY <2>5, <2>6, SendsBroadcast
  <2>8. /\ UNCHANGED <<starts, phase, turns>> /\ phase = "running"
    BY <1>4 DEF PiAppends
  <2>9. QED
    BY <1>1, <2>2, <2>4, <2>7, <2>8 DEF Changes
<1>5. CASE PiRetries
  <2> DEFINE said == [Event("message_end") EXCEPT !.entry = Len(log')]
             ended == [Event("agent_end") EXCEPT !.retry = TRUE]
  <2>1. /\ Len(log') = Len(log) + 1 /\ Len(log') \in Nat \ {0} /\ log' # log
        /\ log'[Len(log')] = "message" /\ \A n \in 1 .. Len(log) : log'[n] = log[n]
    BY <1>5, LogStep DEF PiRetries
  <2>2. said \in Events /\ Carries(said) /\ ended \in Events /\ Carries(ended)
    BY <2>1, EntryEvent, RetryEvent
  <2>3. /\ said.type = "message_end" /\ said.entry = Len(log')
        /\ ended.type = "agent_end" /\ ended.retry = TRUE
    BY DEF Event
  <2>4. IsNew(said) /\ IsNew(ended)
    BY <2>1, <2>2, <2>3 DEF IsNew
  <2>5. chan' = IF Connected THEN chan \o <<said, ended>> ELSE chan
    BY <1>5 DEF PiRetries
  <2> HIDE DEF said, ended
  <2>6. chan \o <<said, ended>> = Append(Append(chan, said), ended)
    BY <2>2 DEF TypeInv, ClientType, Sent
  <2>7. Connected => Sends /\ Len(chan') = Len(chan) + 2 /\ chan'[Len(chan) + 1] = said
    BY <2>3, <2>4, <2>5, <2>6, SendsTwo
  <2>8. ~Connected => Sends
    BY <2>5, SendsNothing
  <2>9. /\ UNCHANGED <<starts, phase, turns>> /\ phase = "running"
    BY <1>5 DEF PiRetries
  <2>10. Connected => \E i \in Len(chan) + 1 .. Len(chan') :
           chan'[i].type \in {"message_end", "unknown"} /\ chan'[i].entry = Len(log')
    BY <1>2, <2>3, <2>7
  <2>11. QED
    BY <1>1, <2>1, <2>7, <2>8, <2>9, <2>10 DEF Changes
<1>6. CASE PiSwitchesSession
  <2> DEFINE record == [Event("session_changed") EXCEPT
                          !.state = [PiState EXCEPT !.session = @ + 1]]
  <2>1. [PiState EXCEPT !.session = @ + 1] \in States
    BY PiStateType DEF TypeInv, States
  <2>2. record \in Events /\ Carries(record)
    BY <2>1, SessionEvent
  <2>3. record.type = "session_changed" /\ record.state = [PiState EXCEPT !.session = @ + 1]
    BY DEF Event
  <2>4. IsNew(record)
    BY <1>6, <2>2, <2>3 DEF IsNew, PiSwitchesSession, Starts
  <2>5. Broadcast(record)
    BY <1>6 DEF PiSwitchesSession
  <2> HIDE DEF record
  <2>6. /\ Sends
        /\ Connected => /\ Len(chan) + 1 \in Len(chan) + 1 .. Len(chan')
                        /\ chan'[Len(chan) + 1] = record
    BY <2>4, <2>5, SendsBroadcast
  <2>7. QED
    BY <1>1, <1>6, <2>3, <2>6 DEF PiSwitchesSession, Changes, Starts
<1>7. CASE PiQueues
  <2>1. IsNew(Event("queue_update"))
    BY PlainIsNew
  <2>2. Sends
    BY <1>7, <2>1, SendsBroadcast DEF PiQueues
  <2>3. QED
    BY <1>1, <1>7, <2>2 DEF PiQueues, Changes
<1>8. QED
  BY <1>3, <1>4, <1>5, <1>6, <1>7 DEF PiMay

LEMMA ReplyStepShape ==
  ASSUME TypeInv, PiReplies \/ PiTakesPrompt
  PROVE  Sends /\ Changes
<1>1. CASE PiReplies
  <2>1. PICK request \in asked :
          /\ request.id # "prompt" /\ asked' = asked \ {request}
          /\ chan' = Append(chan, Answer(request))
    BY <1>1 DEF PiReplies, PiAnswers
  <2>2. Answer(request) \in Responses /\ Carries(Answer(request))
    BY AnswerType DEF TypeInv, ClientType
  <2>3. Answer(request).type = "response" /\ Answer(request).to = request.id
    BY DEF Answer, Response
  <2>4. IsNew(Answer(request))
    BY <2>1, <2>2, <2>3 DEF IsNew
  <2>5. Sends
    BY <2>1, <2>4, SendsOne
  <2>6. QED
    BY <1>1, <2>1, <2>5 DEF PiReplies, PiAnswers, piVars, ghosts, Changes
<1>2. CASE PiTakesPrompt
  <2>1. PICK how \in {"refused", "handled", "accepted"} : PiAnswersPrompt(how)
    BY <1>2 DEF PiTakesPrompt
  <2>2. PICK request \in asked :
          /\ request.id = "prompt"
          /\ asked' = asked \ {request}
          /\ how = "accepted" => phase \in {"idle", "queued", "running"}
          /\ phase' = IF how = "accepted" /\ phase = "idle" THEN "queued" ELSE phase
          /\ chan' = (IF phase' # phase THEN Append(chan, Event("queue_update")) ELSE chan)
                   \o <<[Response("prompt", how # "refused") EXCEPT !.handled = how = "handled"]>>
    BY <2>1, Zenon DEF PiAnswersPrompt
  <2> DEFINE told == [Response("prompt", how # "refused") EXCEPT !.handled = how = "handled"]
             update == Event("queue_update")
  <2>3. told \in Responses /\ Carries(told) /\ update \in Events /\ Carries(update)
    BY PromptAnswerType, PlainEvent DEF EventTypes
  <2>4. told.type = "response" /\ told.to = "prompt" /\ told.entries = {}
        /\ update.type = "queue_update"
    BY DEF Response, Event
  <2>5. IsNew(told)
    BY <2>2, <2>3, <2>4 DEF IsNew
  <2>6. IsNew(update)
    BY PlainIsNew
  <2>7. chan' = chan \o <<told>> \/ chan' = Append(chan, update) \o <<told>>
    BY <2>2
  <2> HIDE DEF told, update
  <2>8. Sent(Append(chan, update)) /\ Sent(chan)
    BY <2>3, SendsOneMore DEF TypeInv, ClientType
  <2>9. chan' = Append(chan, told) \/ chan' = Append(Append(chan, update), told)
    BY <2>3, <2>7, <2>8, AppendIsConcat DEF Sent
  <2>10. Sends
    BY <2>4, <2>5, <2>6, <2>9, SendsOne, SendsTwo
  <2>11. UNCHANGED <<log, starts, turns, due, mark, missed, early>> /\ CommandKeeps
    BY <1>2, <2>1 DEF PiTakesPrompt, PiAnswersPrompt
  <2>12. QED
    BY <2>2, <2>10, <2>11 DEF Changes
<1>3. QED
  BY <1>1, <1>2

LEMMA PiStepShape ==
  ASSUME TypeInv, PiStep
  PROVE  Sends /\ Changes
  BY TurnStepShape, MayStepShape, ReplyStepShape DEF PiStep

-----------------------------------------------------------------------------
(* Every entry that is mentioned is in the log.                             *)

LEMMA InLogGrows ==
  ASSUME NEW record \in Events \cup Responses, NEW m \in Nat, NEW n \in Nat, m <= n,
         InLog(record, m)
  PROVE  InLog(record, n)
<1>1. CASE record.type = "response"
  BY <1>1 DEF InLog
<1>2. CASE record.type # "response"
  <2>1. record.entry \in Nat \cup {None}
    BY <1>2 DEF Events, Responses
  <2>2. QED
    BY <1>2, <2>1 DEF InLog
<1>3. QED
  BY <1>1, <1>2

LEMMA RepliesGrow ==
  ASSUME TypeInv, Bounded, NEW n \in Nat, Len(log) <= n,
         NEW answers, \A r \in Requests : answers[r] \in {reply[r], Failure, None}
  PROVE  \A r \in Requests : answers[r] # None => answers[r].entries \subseteq 1 .. n
<1>1. TAKE r \in Requests
<1>2. Failure.entries = {}
  BY DEF Failure, Response
<1>3. Len(log) \in Nat
  BY LogLength
<1>4. reply[r] # None => reply[r].entries \subseteq 1 .. n
  BY <1>3 DEF Bounded
<1>5. QED
  BY <1>2, <1>4

\* The part of Bounded about what has arrived, while the log grows.
LEMMA ArrivedStays ==
  ASSUME TypeInv, Bounded, NEW n \in Nat, Len(log) <= n
  PROVE  /\ \A i \in 1 .. Len(chan) : InLog(chan[i], n)
         /\ \A r \in Requests : reply[r] # None => reply[r].entries \subseteq 1 .. n
         /\ \A i \in 1 .. Len(queue) : InLog(queue[i].event, n)
         /\ \A i \in 1 .. Len(out) : out[i] <= n
<1>1. Len(log) \in Nat
  BY LogLength
<1>2. \A i \in 1 .. Len(chan) : chan[i] \in Events \cup Responses
  <2>1. chan \in Seq(Events \cup Responses)
    BY DEF TypeInv, ClientType, Sent
  <2>2. QED
    BY <2>1, ElementOfSeq
<1>3. \A i \in 1 .. Len(queue) : queue[i].event \in Events
  <2>1. queue \in Seq(Queued)
    BY DEF TypeInv, ClientType
  <2>2. \A i \in 1 .. Len(queue) : queue[i] \in Queued
    BY <2>1, ElementOfSeq
  <2>3. QED
    BY <2>2 DEF Queued
<1>4. \A i \in 1 .. Len(out) : out[i] \in Nat
  BY ElementOfSeq DEF TypeInv, ModeType
<1>5. QED
  BY <1>1, <1>2, <1>3, <1>4, InLogGrows, RepliesGrow DEF Bounded

LEMMA AnswerInLog ==
  ASSUME PiType, NEW request \in [id : Requests, since : Nat \cup {None}]
  PROVE  InLog(Answer(request), Len(log))
<1>1. Answer(request).type = "response" /\ Answer(request).entries \subseteq 1 .. Len(log)
  BY DEF Answer, Response, After
<1>2. QED
  BY <1>1 DEF InLog

LEMMA NewIsInLog ==
  ASSUME TypeInv, NEW record, IsNew(record), Len(log') \in Nat, Len(log) <= Len(log')
  PROVE  InLog(record, Len(log'))
<1>1. CASE record.type = "response"
  <2>1. PICK q \in asked :
          /\ q.id # "prompt" => record = Answer(q)
          /\ q.id = "prompt" => record.entries = {}
    BY <1>1 DEF IsNew
  <2>2. InLog(Answer(q), Len(log))
    <3>1. PiType /\ q \in [id : Requests, since : Nat \cup {None}]
      BY DEF TypeInv, ClientType
    <3>2. QED
      BY <3>1, AnswerInLog
  <2>3. InLog(record, Len(log))
    <3>1. CASE q.id = "prompt"
      BY <1>1, <2>1, <3>1 DEF InLog
    <3>2. CASE q.id # "prompt"
      BY <2>1, <2>2, <3>2
    <3>3. QED
      BY <3>1, <3>2
  <2>4. QED
    BY <2>3, InLogGrows, LogLength DEF IsNew
<1>2. CASE record.type # "response"
  BY <1>2 DEF IsNew, InLog, Events, Responses, Carries, EventTypes
<1>3. QED
  BY <1>1, <1>2

LEMMA PiStepBounded ==
  ASSUME TypeInv, Bounded, PiStep
  PROVE  Bounded'
<1>1. Sends /\ Changes
  BY PiStepShape
<1>2. UNCHANGED <<queue, reply, out>>
  BY <1>1 DEF Changes, CommandKeeps, outVars
<1>3. Len(log') \in Nat /\ Len(log) <= Len(log')
  BY <1>1, LogLength DEF Changes
<1>4. \A i \in 1 .. Len(chan') : InLog(chan'[i], Len(log'))
  <2>1. \A i \in 1 .. Len(chan) : InLog(chan[i], Len(log'))
    BY <1>3, ArrivedStays
  <2>2. \A i \in Len(chan) + 1 .. Len(chan') : InLog(chan'[i], Len(log'))
    BY <1>1, <1>3, NewIsInLog DEF Sends
  <2>3. Len(chan) \in Nat
    BY LenProperties DEF TypeInv, ClientType, Sent
  <2>4. QED
    BY <1>1, <2>1, <2>2, <2>3 DEF Sends
<1>5. QED
  BY <1>2, <1>3, <1>4, ArrivedStays DEF Bounded

LEMMA ClientBounded ==
  ASSUME TypeInv, Bounded, UNCHANGED log,
         chan' \in {chan, <<>>},
         queue' \in {queue, <<>>} \/ (queue # <<>> /\ queue' = Tail(queue)),
         \A r \in Requests : reply'[r] \in {reply[r], Failure, None},
         \A i \in 1 .. Len(out') : out'[i] <= Len(log)
  PROVE  Bounded'
<1>1. \A i \in 1 .. Len(chan') : InLog(chan'[i], Len(log'))
  BY DEF Bounded
<1>2. \A i \in 1 .. Len(queue') : InLog(queue'[i].event, Len(log'))
  <2>1. CASE queue' \in {queue, <<>>}
    BY <2>1 DEF Bounded
  <2>2. CASE queue # <<>> /\ queue' = Tail(queue)
    <3>1. /\ Len(queue) \in Nat /\ Len(queue') = Len(queue) - 1
          /\ \A i \in 1 .. Len(queue') : queue'[i] = queue[i + 1]
      BY <2>2, QueueTail, LenProperties DEF TypeInv, ClientType
    <3>2. QED
      BY <3>1 DEF Bounded
  <2>3. QED
    BY <2>1, <2>2
<1>3. \A r \in Requests : reply'[r] # None => reply'[r].entries \subseteq 1 .. Len(log')
  BY RepliesGrow, LogLength
<1>4. QED
  BY <1>1, <1>2, <1>3 DEF Bounded

LEMMA ReceiveBounded ==
  ASSUME TypeInv, Bounded, Receive, UNCHANGED <<log, out>>
  PROVE  Bounded'
<1> DEFINE record == Head(chan)
<1>1. /\ chan # <<>> /\ chan' = Tail(chan)
      /\ record = chan[1] /\ 1 \in 1 .. Len(chan) /\ record \in Events \cup Responses /\ Carries(record)
  BY SentTail DEF Receive, TypeInv, ClientType
<1>2. InLog(record, Len(log))
  BY <1>1 DEF Bounded
<1> HIDE DEF record
<1>3. \A i \in 1 .. Len(chan') : InLog(chan'[i], Len(log'))
  <2>1. /\ Len(chan) \in Nat /\ Len(chan') = Len(chan) - 1
        /\ \A i \in 1 .. Len(chan') : chan'[i] = chan[i + 1]
    BY <1>1, HeadTailProperties, LenProperties DEF TypeInv, ClientType, Sent
  <2>2. QED
    BY <2>1 DEF Bounded
<1>4. /\ \A i \in 1 .. Len(queue') : InLog(queue'[i].event, Len(log'))
      /\ \A r \in Requests : reply'[r] # None => reply'[r].entries \subseteq 1 .. Len(log')
  <2>1. CASE link = "hello" \/ (record.type # "response" /\ state = None)
    <3>1. UNCHANGED <<queue, reply>>
      BY <2>1 DEF Receive, DispatchLine, record
    <3>2. QED
      BY <3>1 DEF Bounded
  <2>2. CASE link # "hello" /\ record.type = "response"
    <3>1. queue' = queue /\ reply' = [reply EXCEPT ![record.to] = record]
      BY <2>2 DEF Receive, DispatchLine, record
    <3>2. record.entries \subseteq 1 .. Len(log)
      BY <1>2, <2>2 DEF InLog
    <3>3. \A r \in Requests : reply'[r] \in {reply[r], record}
      BY <3>1 DEF TypeInv, ClientType
    <3>4. QED
      BY <3>1, <3>2, <3>3 DEF Bounded
  <2>3. CASE link # "hello" /\ record.type # "response" /\ state # None
    <3> DEFINE item == [event |-> record, state |-> state']
    <3>1. reply' = reply /\ (queue' = queue \/ queue' = Append(queue, item))
      BY <2>3 DEF Receive, DispatchLine, record
    <3>2. item \in [event : {record}, state : {state'}] /\ item.event = record
      OBVIOUS
    <3> HIDE DEF item
    <3>3. \A i \in 1 .. Len(queue') : queue'[i] = item \/ (i \in 1 .. Len(queue) /\ queue'[i] = queue[i])
      <4>1. queue \in Seq(Queued \cup {item})
        BY SeqMonotonic DEF TypeInv, ClientType
      <4>2. Len(queue) \in Nat
        BY <4>1, LenProperties
      <4>3. QED
        BY <3>1, <4>1, <4>2, AppendProperties
    <3>4. QED
      BY <1>2, <3>1, <3>2, <3>3 DEF Bounded
  <2>4. QED
    BY <2>1, <2>2, <2>3
<1>5. QED
  BY <1>3, <1>4 DEF Bounded

LEMMA InitBounded == Init => Bounded
  BY EmptySeq DEF Init, ClientInit, Bounded

LEMMA ConnectingBounded ==
  ASSUME TypeInv, Bounded, Connecting
  PROVE  Bounded'
<1>1. UNCHANGED <<log, queue, reply, out>>
  BY DEF Connecting, ConnectRefused, Connect, piVars, outVars
<1>2. chan' = chan \/ \A i \in 1 .. Len(chan') : InLog(chan'[i], Len(log))
  <2>1. CASE ConnectRefused
    BY <2>1 DEF ConnectRefused
  <2>2. CASE Connect
    <3> DEFINE hello == Event("hello")
               first == [Event("session_changed") EXCEPT !.state = PiState]
               other == Event("other")
    <3>1. InLog(hello, Len(log)) /\ InLog(first, Len(log)) /\ InLog(other, Len(log))
      BY DEF Event, InLog
    <3>2. chan' = <<other>> \/ chan' = <<hello, first>>
      BY <2>2 DEF Connect
    <3> HIDE DEF hello, first, other
    <3>3. \A i \in 1 .. Len(<<hello, first>>) : InLog(<<hello, first>>[i], Len(log))
      BY <3>1
    <3>4. QED
      BY <3>1, <3>2, <3>3
  <2>3. QED
    BY <2>1, <2>2 DEF Connecting
<1>3. QED
  BY <1>1, <1>2 DEF Bounded

LEMMA OutBounded ==
  ASSUME TypeInv, Bounded, NEW S, S \subseteq 1 .. Len(log), NEW items \in Seq(S),
         out' = out \o items
  PROVE  \A i \in 1 .. Len(out') : out'[i] <= Len(log)
<1>1. S \subseteq Nat /\ out \in Seq(Nat)
  BY LogLength DEF TypeInv, ModeType
<1>2. items \in Seq(Nat) /\ Len(items) \in Nat /\ Len(out) \in Nat
  BY <1>1, SeqMonotonic, LenProperties
<1>3. /\ Len(out') = Len(out) + Len(items)
      /\ \A i \in 1 .. Len(out) + Len(items) :
           out'[i] = IF i <= Len(out) THEN out[i] ELSE items[i - Len(out)]
  BY <1>1, <1>2, ConcatProperties
<1>4. \A i \in 1 .. Len(items) : items[i] \in S
  BY ElementOfSeq
<1>5. ASSUME NEW i \in 1 .. Len(out')
      PROVE  out'[i] <= Len(log)
  <2>1. CASE i <= Len(out)
    <3>1. out'[i] = out[i] /\ i \in 1 .. Len(out)
      BY <1>2, <1>3, <2>1
    <3>2. QED
      BY <3>1 DEF Bounded
  <2>2. CASE ~(i <= Len(out))
    <3>1. out'[i] = items[i - Len(out)] /\ i - Len(out) \in 1 .. Len(items)
      BY <1>2, <1>3, <2>2
    <3>2. items[i - Len(out)] \in 1 .. Len(log)
      BY <1>4, <3>1
    <3>3. QED
      BY <3>1, <3>2, LogLength
  <2>3. QED
    BY <2>1, <2>2
<1>6. QED
  BY <1>5

LEMMA RecordInLog ==
  ASSUME TypeInv, NEW e \in Events, Carries(e), InLog(e, Len(log))
  PROVE  \/ Record(e) = <<>> \/ Record(e) = <<0>>
         \/ (Record(e) = <<e.entry>> /\ e.entry \in 1 .. Len(log))
<1>1. e.entry # None => e.entry \in 1 .. Len(log)
  <2>1. e.type # "response" /\ e.entry \in (Nat \ {0}) \cup {None}
    BY DEF Events, EventTypes
  <2>2. e.entry # None => e.entry <= Len(log)
    BY <2>1 DEF InLog
  <2>3. SUFFICES ASSUME e.entry # None PROVE e.entry \in 1 .. Len(log)
    OBVIOUS
  <2> DEFINE n == e.entry
             length == Len(log)
  <2>4. n \in Nat \ {0} /\ n <= length /\ length \in Nat
    BY <2>1, <2>2, <2>3, LogLength
  <2> HIDE DEF n, length
  <2>5. n \in 1 .. length
    BY <2>4
  <2>6. QED
    BY <2>5 DEF n, length
<1>2. CASE e.type = "message_end"
  <2>1. Record(e) = <<e.entry>>
    BY <1>2 DEF Record
  <2>2. e.entry # None
    BY <1>2, NoneAssumption DEF Carries
  <2>3. QED
    BY <1>1, <2>1, <2>2
<1>3. CASE e.type = "session_changed"
  BY <1>3 DEF Record, Carries, EventTypes
<1>4. CASE e.type \notin {"message_end", "session_changed"}
  <2>1. Record(e) = IF e.entry # None /\ cmd.type = "events" THEN <<e.entry>> ELSE <<>>
    BY <1>4 DEF Record
  <2>2. QED
    BY <1>1, <2>1
<1>5. QED
  BY <1>2, <1>3, <1>4

LEMMA OutputBounded ==
  ASSUME TypeInv, Bounded, HistoryAnswered \/ HandleEvent \/ Drained
  PROVE  \A i \in 1 .. Len(out') : out'[i] <= Len(log)
<1>1. CASE out' = out
  BY <1>1 DEF Bounded
<1>2. CASE HistoryAnswered /\ out' # out
  <2> DEFINE S == IF Entries THEN reply["history"].entries ELSE Messages(reply["history"].entries)
             items == LimitedTail(InOrder(S))
  <2>1. out' = items /\ Answered("history") /\ "history" \in Requests
    BY <1>2 DEF HistoryAnswered, Fail, outVars, Requests
  <2>2. S = reply["history"].entries \/ S = Messages(reply["history"].entries)
    OBVIOUS
  <2> HIDE DEF S
  <2>3. S \subseteq 1 .. Len(log) /\ EndOf(items, S, cursor)
    BY <2>1, <2>2, HistoryItems
  <2> HIDE DEF items
  <2>4. Values(items) \subseteq S
    BY <2>3, Zenon DEF EndOf
  <2>5. \A i \in 1 .. Len(items) : items[i] \in 1 .. Len(log)
    BY <2>3, <2>4 DEF Values
  <2>6. QED
    BY <2>1, <2>5, LogLength
<1>3. CASE HandleEvent /\ out' # out
  <2> DEFINE e == Head(queue)
  <2>1. queue # <<>> /\ out' = out \o Record(e.event)
    BY <1>3 DEF HandleEvent
  <2>2. e \in Queued /\ Carries(e.event) /\ e = queue[1] /\ 1 \in 1 .. Len(queue)
    BY <2>1, QueueTail DEF TypeInv
  <2>3. e.event \in Events /\ InLog(e.event, Len(log))
    BY <2>2 DEF Bounded, Queued
  <2> HIDE DEF e
  <2>4. \/ Record(e.event) = <<>> \/ Record(e.event) = <<0>>
        \/ (Record(e.event) = <<e.event.entry>> /\ e.event.entry \in 1 .. Len(log))
    BY <2>2, <2>3, RecordInLog
  <2>5. PICK r \in 0 .. Len(log) : Record(e.event) = <<>> \/ Record(e.event) = <<r>>
    BY <2>4, LogLength
  <2>6. out \in Seq(Nat) /\ r \in Nat /\ Len(log) \in Nat
    BY LogLength DEF TypeInv, ModeType
  <2>7. out' = out \/ out' = Append(out, r)
    BY <2>1, <2>5, <2>6, AppendIsConcat, ConcatEmptySeq
  <2>8. CASE out' = Append(out, r)
    <3>1. /\ Len(out) \in Nat /\ Len(out') = Len(out) + 1 /\ out'[Len(out) + 1] = r
          /\ \A i \in 1 .. Len(out) : out'[i] = out[i]
      BY <2>6, <2>8, AppendProperties, LenProperties
    <3>2. QED
      BY <2>6, <3>1 DEF Bounded
  <2>9. QED
    BY <1>3, <2>7, <2>8
<1>4. CASE Drained /\ out' # out
  <2> DEFINE S == reply["drain"].entries
  <2>1. out' = out \o InOrder(S) /\ Answered("drain") /\ "drain" \in Requests
    BY <1>4 DEF Drained, Requests
  <2>2. S \subseteq 1 .. Len(log)
    BY <2>1 DEF Answered, Bounded
  <2> HIDE DEF S
  <2>3. InOrder(S) \in Seq(S)
    BY <2>2, EntriesListed DEF TypeInv
  <2>4. QED
    BY <2>1, <2>2, <2>3, OutBounded
<1>5. QED
  BY <1>1, <1>2, <1>3, <1>4

LEMMA NextBounded ==
  ASSUME TypeInv, Bounded, [Next]_vars
  PROVE  Bounded'
<1> USE DEF Bounded
<1>1. CASE PiStep
  BY <1>1, PiStepBounded
<1>2. CASE Connecting
  BY <1>2, ConnectingBounded
<1>3. CASE Deliver
  BY <1>3, ReceiveBounded DEF Deliver, piVars, outVars
<1>4. CASE HistoryAnswered \/ HandleEvent \/ Drained
  <2>1. \A i \in 1 .. Len(out') : out'[i] <= Len(log)
    BY <1>4, OutputBounded
  <2>2. UNCHANGED log
    BY <1>4 DEF HistoryAnswered, HandleEvent, Drained, piVars
  <2>3. chan' = chan
    BY <1>4 DEF HistoryAnswered, HandleEvent, Drained, ClientKeeps, SubscribeTo, StopAt,
                Proceed, clientVars
  <2>4. queue' \in {queue, <<>>} \/ (queue # <<>> /\ queue' = Tail(queue))
    BY <1>4 DEF HistoryAnswered, HandleEvent, Drained, ClientKeeps, SubscribeTo, StopAt,
                Proceed, clientVars
  <2>5. \A r \in Requests : reply'[r] \in {reply[r], Failure, None}
    BY <1>4 DEF HistoryAnswered, HandleEvent, Drained, ClientKeeps, SubscribeTo, StopAt,
                Proceed, clientVars, BeginStop, Ask, TypeInv, ClientType, Subscribe
  <2>6. QED
    BY <2>1, <2>2, <2>3, <2>4, <2>5, ClientBounded
<1>5. CASE \/ GiveUpConnecting \/ HelloRead \/ LeafAnswered \/ NowSubscribed \/ NowCursor
           \/ HandleSeed \/ DrainForEvent \/ SourceEnded \/ FinishAfterStop \/ Return
           \/ PromptAnswered \/ TimerFires \/ PiClosesSocket \/ UNCHANGED vars
  <2> USE DEF piVars, clientVars, outVars, loopVars, modeVars, ghosts, vars
  <2>1. UNCHANGED <<log, out>>
    BY <1>5 DEF GiveUpConnecting, HelloRead, LeafAnswered, NowSubscribed, NowCursor,
                HandleSeed, DrainForEvent, SourceEnded, FinishAfterStop, Return,
                PromptAnswered, TimerFires, PiClosesSocket, Fail, FinalCursor
  <2>2. chan' \in {chan, <<>>}
    BY <1>5 DEF GiveUpConnecting, HelloRead, LeafAnswered, NowSubscribed, NowCursor,
                HandleSeed, DrainForEvent, SourceEnded, FinishAfterStop, Return,
                PromptAnswered, TimerFires, PiClosesSocket, SocketClosed, ClientKeeps,
                SubscribeTo, StopAt, Proceed
  <2>3. queue' \in {queue, <<>>} \/ (queue # <<>> /\ queue' = Tail(queue))
    BY <1>5 DEF GiveUpConnecting, HelloRead, LeafAnswered, NowSubscribed, NowCursor,
                HandleSeed, DrainForEvent, SourceEnded, FinishAfterStop, Return,
                PromptAnswered, TimerFires, PiClosesSocket, SocketClosed, ClientKeeps,
                SubscribeTo, StopAt, Proceed
  <2>4. \A r \in Requests : reply'[r] \in {reply[r], Failure, None}
    <3> USE DEF TypeInv, ClientType
    <3>1. CASE UNCHANGED reply
      BY <3>1
    <3>2. CASE \E id \in Requests, since \in Nat \cup {None} : Ask(id, since)
      BY <3>2 DEF Ask
    <3>3. CASE SocketClosed
      BY <3>3 DEF SocketClosed
    <3>4. CASE BeginStop
      BY <3>4 DEF BeginStop, Ask
    <3>5. \/ UNCHANGED reply \/ BeginStop \/ SocketClosed
          \/ \E id \in Requests, since \in Nat \cup {None} : Ask(id, since)
      <4>1. CASE HelloRead \/ LeafAnswered
        <5>1. cmd.since \in Nat \cup {None}
          BY CommandsAssumption DEF ModeType
        <5>2. QED
          BY <4>1, <5>1 DEF HelloRead, LeafAnswered, SubscribeTo, Fail, Requests
      <4>2. CASE NowSubscribed
        BY <4>2 DEF NowSubscribed, Requests
      <4>3. CASE HandleSeed
        BY <4>3 DEF HandleSeed, StopAt, Proceed
      <4>4. CASE DrainForEvent
        BY <4>4 DEF DrainForEvent, CursorFor, Requests, ModeType
      <4>5. CASE PromptAnswered \/ TimerFires \/ PiClosesSocket
        BY <4>5 DEF PromptAnswered, TimerFires, PiClosesSocket, EstablishSourceCutoff
      <4>6. CASE \/ GiveUpConnecting \/ NowCursor \/ SourceEnded \/ FinishAfterStop \/ Return
                 \/ UNCHANGED vars
        BY <4>6 DEF GiveUpConnecting, NowCursor, SourceEnded, FinishAfterStop, Return
      <4>7. QED
        BY <1>5, <4>1, <4>2, <4>3, <4>4, <4>5, <4>6
    <3>6. QED
      BY <3>1, <3>2, <3>3, <3>4, <3>5
  <2>5. QED
    BY <2>1, <2>2, <2>3, <2>4, ClientBounded
<1>6. QED
  BY <1>1, <1>2, <1>3, <1>4, <1>5 DEF Next, PiStep, Coroutine

\* Nothing is printed, queued or answered that is not in pi's log, and every
\* variable has its type.
THEOREM OnlyTheLog == Spec => [](TypeInv /\ Bounded)
<1>1. Init => TypeInv /\ Bounded
  BY InitTypeInv, InitBounded
<1>2. TypeInv /\ Bounded /\ [Next]_vars => TypeInv' /\ Bounded'
  BY NextType, NextBounded
<1>3. QED
  BY <1>1, <1>2, PTL DEF Spec

-----------------------------------------------------------------------------
(* The order of a command's steps.                                          *)

Late == {"next", "drain", "stop", "end", "done", "failed"}

Order ==
  /\ armed \/ stop => pc \in Late
  /\ prompt # "none" => pc \in Late \cup {"seed"}
  /\ pc \in {"now", "now-cursor"} => ~Entries
  /\ pc = "now-cursor" \/ stop => events = "closed"
  /\ cutoff # None \/ outcome \in {"done", "timeout"} => stop
  /\ pc \in {"stop", "end"} => events = "closed" /\ outcome # None

LEMMA InitOrder == Init => Order
  BY NoneAssumption DEF Init, ClientInit, Order

LEMMA NextOrder ==
  ASSUME TypeInv, Order, [Next]_vars
  PROVE  Order'
<1> USE DEF Order, Late, loopVars, modeVars, outVars, piVars, clientVars, ghosts
<1>1. CASE PiStep \/ Deliver \/ UNCHANGED vars
  <2>1. UNCHANGED <<events, cmd, pc, prompt, loopVars>>
    <3>1. CASE PiStep
      BY <3>1, PiStepShape DEF Changes, CommandKeeps
    <3>2. CASE Deliver
      BY <3>2 DEF Deliver, Receive
    <3>3. QED
      BY <1>1, <3>1, <3>2 DEF vars
  <2>2. QED
    BY <2>1 DEF Entries
<1>2. CASE Connecting \/ GiveUpConnecting
  BY <1>2 DEF Connecting, GiveUpConnecting, ConnectRefused, Connect, Fail, Entries
<1>3. CASE HelloRead
  BY <1>3 DEF HelloRead, ClientKeeps, SubscribeTo, Fail, IsTail, Entries, Subscribe,
              TypeInv, ModeType
<1>4. CASE HistoryAnswered \/ LeafAnswered
  <2>1. pc \in {"history", "leaf"} /\ UNCHANGED <<cmd, cutoff, armed, stop, outcome>>
    BY <1>4 DEF HistoryAnswered, LeafAnswered, Fail
  <2>2. \/ UNCHANGED prompt /\ pc' \in {"failed", "done"}
        \/ UNCHANGED prompt /\ pc' = "now" /\ ~Entries
        \/ pc' = "seed"
    BY <1>4 DEF HistoryAnswered, LeafAnswered, Fail, SubscribeTo
  <2>3. ~stop /\ ~armed /\ prompt = "none" /\ cutoff = None /\ outcome \notin {"done", "timeout"}
    BY <2>1
  <2>4. QED
    BY <2>1, <2>2, <2>3 DEF Entries
<1>5. CASE NowSubscribed \/ NowCursor
  <2>1. pc \in {"now", "now-cursor"} /\ UNCHANGED <<cmd, prompt, cutoff, armed, stop, outcome>>
    BY <1>5 DEF NowSubscribed, NowCursor, Fail
  <2>2. pc' \in {"failed", "done"} \/ (pc' = "now-cursor" /\ events' = "closed")
    BY <1>5 DEF NowSubscribed, NowCursor, Fail
  <2>3. QED
    BY <2>1, <2>2 DEF Entries
<1>6. CASE HandleSeed \/ HandleEvent \/ Drained \/ DrainForEvent
  <2>1. CASE HandleSeed
    BY <2>1, NoneAssumption DEF HandleSeed, Fail, StopAt, Proceed, BeginStop, Entries
  <2>2. CASE HandleEvent
    BY <2>2, NoneAssumption DEF HandleEvent, StopAt, Proceed, BeginStop, Entries
  <2>3. CASE Drained
    BY <2>3, NoneAssumption DEF Drained, StopAt, Proceed, BeginStop, Entries
  <2>4. CASE DrainForEvent
    BY <2>4 DEF DrainForEvent, Entries
  <2>5. QED
    BY <1>6, <2>1, <2>2, <2>3, <2>4
<1>7. CASE SourceEnded \/ FinishAfterStop \/ Return
  BY <1>7, NoneAssumption DEF SourceEnded, FinishAfterStop, Return, Fail, Entries, StopFailed
<1>8. CASE PromptAnswered \/ TimerFires \/ PiClosesSocket
  BY <1>8 DEF PromptAnswered, TimerFires, PiClosesSocket, EstablishSourceCutoff, BeginStop,
              SocketClosed, Entries
<1>9. QED
  BY <1>1, <1>2, <1>3, <1>4, <1>5, <1>6, <1>7, <1>8 DEF Next, PiStep, Coroutine

-----------------------------------------------------------------------------
(* A request is in flight at most once, and its coroutine waits for it.     *)

AskedFor(id) == \E q \in asked : q.id = id
Answering(i, id) == chan[i].type = "response" /\ chan[i].to = id
InFlight(id) == AskedFor(id) \/ \E i \in 1 .. Len(chan) : Answering(i, id)

Once ==
  \A id \in Requests :
    /\ InFlight(id) => reply[id] = None
    /\ \A p, q \in asked : p.id = id /\ q.id = id => p = q
    /\ AskedFor(id) => \A i \in 1 .. Len(chan) : ~Answering(i, id)
    /\ \A i, j \in 1 .. Len(chan) : Answering(i, id) /\ Answering(j, id) => i = j

Waits ==
  /\ InFlight("history") => pc \in {"history", "leaf"}
  /\ InFlight("drain") => pc = "drain"
  /\ InFlight("prompt") => prompt = "sent"
  /\ InFlight("final") => stop \/ pc = "now-cursor"

OnceInv == Once /\ Waits

AskedBy(id) ==
  \/ id = "history" /\ pc = "hello" /\ pc' \in {"history", "leaf"}
  \/ id = "drain" /\ pc = "next" /\ pc' = "drain"
  \/ id = "prompt" /\ pc \in {"hello", "history", "leaf"} /\ pc' = "seed" /\ prompt' = "sent"
  \/ id = "final" /\ pc = "now" /\ pc' = "now-cursor"
  \/ id = "final" /\ ~stop /\ stop' /\ HasCursor /\ pc \in Late \cup {"seed"}
       /\ events' = "closed" /\ (events = "open" \/ pc' = "stop")

Asking == \E id \in Requests, since \in Nat \cup {None} : Ask(id, since) /\ AskedBy(id)

Requesting == UNCHANGED <<asked, reply>> \/ Asking

\* What a step of the command may do to its requests.
LEMMA CommandSteps ==
  ASSUME TypeInv, Order, [Next]_vars
  PROVE  \/ PiStep \/ Deliver \/ Connecting
         \/ SocketClosed /\ (PromptAnswered \/ PiClosesSocket)
         \/ UNCHANGED <<link, chan, state>> /\ Requesting
<1> USE DEF loopVars, modeVars, outVars, piVars, clientVars, ghosts
<1>1. CASE UNCHANGED vars
  BY <1>1 DEF vars, Requesting
<1>2. CASE GiveUpConnecting \/ NowCursor \/ SourceEnded \/ FinishAfterStop \/ Return
  BY <1>2 DEF GiveUpConnecting, NowCursor, SourceEnded, FinishAfterStop, Return, Requesting
<1>3. CASE PiClosesSocket
  BY <1>3 DEF PiClosesSocket
<1>4. ASSUME BeginStop, pc \in Late \cup {"seed"}, events' = "closed",
             events = "open" \/ pc' = "stop"
      PROVE  Requesting
  BY <1>4 DEF BeginStop, Requesting, Asking, AskedBy, Requests
<1>5. ASSUME SubscribeTo, pc \in {"hello", "history", "leaf"}
      PROVE  UNCHANGED <<link, chan, state>> /\ Requesting
  BY <1>5 DEF SubscribeTo, ClientKeeps, Requesting, Asking, AskedBy, Requests
<1>6. CASE HelloRead
  <2>1. cmd.since \in Nat \cup {None}
    BY CommandsAssumption DEF TypeInv, ModeType
  <2>2. CASE SubscribeTo
    BY <1>5, <1>6, <2>2 DEF HelloRead
  <2>3. CASE ~SubscribeTo
    BY <1>6, <2>1, <2>3 DEF HelloRead, ClientKeeps, Requesting, Asking, AskedBy, Requests
  <2>4. QED
    BY <2>2, <2>3
<1>7. CASE HistoryAnswered \/ LeafAnswered
  <2>1. CASE SubscribeTo
    BY <1>5, <1>7, <2>1 DEF HistoryAnswered, LeafAnswered
  <2>2. CASE ~SubscribeTo
    BY <1>7, <2>2 DEF HistoryAnswered, LeafAnswered, ClientKeeps, Requesting
  <2>3. QED
    BY <2>1, <2>2
<1>8. CASE NowSubscribed
  BY <1>8 DEF NowSubscribed, ClientKeeps, Requesting, Asking, AskedBy, Requests
<1>9. CASE HandleSeed \/ HandleEvent \/ Drained
  <2>1. UNCHANGED <<link, chan, state>> /\ pc \in Late \cup {"seed"}
    BY <1>9 DEF HandleSeed, HandleEvent, Drained, StopAt, Proceed, Late
  <2>2. UNCHANGED <<asked, reply>> \/ (BeginStop /\ events' = "closed" /\ pc' = "stop")
    BY <1>9 DEF HandleSeed, HandleEvent, Drained, StopAt, Proceed
  <2>3. QED
    BY <1>4, <2>1, <2>2 DEF Requesting
<1>10. CASE DrainForEvent
  BY <1>10 DEF DrainForEvent, CursorFor, Requesting, Asking, AskedBy, Requests, TypeInv, ModeType
<1>11. CASE PromptAnswered \/ TimerFires
  <2>1. pc \in Late
    BY <1>11 DEF PromptAnswered, TimerFires, Order, Late
  <2>2. \/ PromptAnswered /\ SocketClosed
        \/ UNCHANGED <<link, chan, state>> /\ EstablishSourceCutoff("done")
        \/ UNCHANGED <<link, chan, state>> /\ EstablishSourceCutoff("timeout")
        \/ UNCHANGED <<link, chan, state, asked, reply>>
    BY <1>11 DEF PromptAnswered, TimerFires
  <2>3. QED
    BY <1>4, <2>1, <2>2 DEF EstablishSourceCutoff, Requesting
<1>12. QED
  BY <1>1, <1>2, <1>3, <1>6, <1>7, <1>8, <1>9, <1>10, <1>11 DEF Next, PiStep, Coroutine

\* A coroutine goes on when its request has been answered.
LEMMA LeavesAnswered ==
  ASSUME TypeInv, Order, [Next]_vars
  PROVE  /\ pc \in {"history", "leaf"} /\ pc' \notin {"history", "leaf"} => Answered("history")
         /\ pc = "drain" /\ pc' # "drain" => Answered("drain")
         /\ prompt = "sent" /\ prompt' # "sent" => Answered("prompt")
         /\ pc = "now-cursor" /\ pc' # "now-cursor" => Answered("final")
         /\ stop => stop'
<1> USE DEF loopVars, modeVars, outVars, piVars, clientVars, ghosts
<1>1. CASE PiStep \/ Deliver \/ UNCHANGED vars \/ Connecting \/ PiClosesSocket \/ TimerFires
  <2>1. CASE PiStep
    BY <2>1, PiStepShape DEF Changes, CommandKeeps
  <2>2. CASE Deliver \/ UNCHANGED vars \/ Connecting \/ PiClosesSocket \/ TimerFires
    BY <2>2 DEF Deliver, vars, Connecting, PiClosesSocket, TimerFires, EstablishSourceCutoff,
                BeginStop
  <2>3. QED
    BY <1>1, <2>1, <2>2
<1>2. CASE GiveUpConnecting \/ HelloRead \/ HistoryAnswered \/ LeafAnswered
  BY <1>2 DEF GiveUpConnecting, HelloRead, HistoryAnswered, LeafAnswered, ClientKeeps,
              SubscribeTo, Fail, Order, Late
<1>3. CASE NowSubscribed \/ NowCursor
  BY <1>3 DEF NowSubscribed, NowCursor, Fail
<1>4. CASE HandleSeed \/ HandleEvent
  BY <1>4 DEF HandleSeed, HandleEvent, Fail, StopAt, Proceed, BeginStop
<1>5. CASE Drained \/ DrainForEvent
  BY <1>5 DEF Drained, DrainForEvent, Fail, StopAt, Proceed, BeginStop
<1>6. CASE SourceEnded \/ FinishAfterStop \/ Return
  BY <1>6 DEF SourceEnded, FinishAfterStop, Return, Fail
<1>7. CASE PromptAnswered
  BY <1>7 DEF PromptAnswered, EstablishSourceCutoff, BeginStop
<1>8. QED
  BY <1>1, <1>2, <1>3, <1>4, <1>5, <1>6, <1>7 DEF Next, PiStep, Coroutine

LEMMA InitOnce == Init => OnceInv
  BY EmptySeq DEF Init, ClientInit, OnceInv, Once, Waits, InFlight, AskedFor, Answering, Requests

\* A response takes the place of its request.
LEMMA PiStepOnce ==
  ASSUME TypeInv, Once, PiStep
  PROVE  Once' /\ reply' = reply /\ \A id \in Requests : InFlight(id)' => InFlight(id)
<1>1. /\ reply' = reply /\ asked' \subseteq asked /\ Sends
      /\ Len(chan) \in Nat
  BY PiStepShape, LenProperties DEF Changes, CommandKeeps, TypeInv, ClientType, Sent
<1>2. \A i \in 1 .. Len(chan') :
        \/ i \in 1 .. Len(chan) /\ chan'[i] = chan[i]
        \/ i \in Len(chan) + 1 .. Len(chan') /\ IsNew(chan'[i])
  BY <1>1 DEF Sends
<1>3. ASSUME NEW i \in Len(chan) + 1 .. Len(chan'), NEW id, Answering(i, id)'
      PROVE  /\ AskedFor(id)
             /\ (\A p, q \in asked : p.id = id /\ q.id = id => p = q) => ~AskedFor(id)'
  <2>1. PICK q \in asked : asked' = asked \ {q} /\ chan'[i].to = q.id
    BY <1>1, <1>3 DEF Sends, IsNew, Answering
  <2>2. q.id = id
    BY <1>3, <2>1 DEF Answering
  <2>3. QED
    BY <2>1, <2>2 DEF AskedFor
<1>4. ASSUME NEW i \in Len(chan) + 1 .. Len(chan'), NEW j \in Len(chan) + 1 .. Len(chan'),
             chan'[i].type = "response", chan'[j].type = "response"
      PROVE  i = j
  BY <1>1, <1>4 DEF Sends
<1>5. ASSUME NEW id \in Requests
      PROVE  /\ InFlight(id)' => InFlight(id)
             /\ \A p, q \in asked' : p.id = id /\ q.id = id => p = q
             /\ AskedFor(id)' => \A i \in 1 .. Len(chan') : ~Answering(i, id)'
             /\ \A i, j \in 1 .. Len(chan') : Answering(i, id)' /\ Answering(j, id)' => i = j
  <2>1. /\ \A p, q \in asked : p.id = id /\ q.id = id => p = q
        /\ AskedFor(id) => \A i \in 1 .. Len(chan) : ~Answering(i, id)
        /\ \A i, j \in 1 .. Len(chan) : Answering(i, id) /\ Answering(j, id) => i = j
    BY DEF Once
  <2>2. AskedFor(id)' => AskedFor(id)
    BY <1>1 DEF AskedFor
  <2>3. \A i \in 1 .. Len(chan') : Answering(i, id)' =>
          \/ i \in 1 .. Len(chan) /\ Answering(i, id)
          \/ i \in Len(chan) + 1 .. Len(chan') /\ AskedFor(id) /\ ~AskedFor(id)'
    BY <1>2, <1>3, <2>1 DEF Answering
  <2>4. InFlight(id)' => InFlight(id)
    BY <2>2, <2>3 DEF InFlight
  <2>5. ASSUME NEW i \in 1 .. Len(chan'), NEW j \in 1 .. Len(chan'),
               Answering(i, id)', Answering(j, id)'
        PROVE  i = j
    <3>1. \/ i \in 1 .. Len(chan) /\ j \in 1 .. Len(chan)
          \/ i \in Len(chan) + 1 .. Len(chan') /\ j \in Len(chan) + 1 .. Len(chan')
      BY <2>1, <2>3, <2>5
    <3>2. QED
      BY <1>4, <2>1, <2>3, <2>5, <3>1 DEF Answering
  <2>6. QED
    BY <1>1, <2>1, <2>2, <2>3, <2>4, <2>5
<1>6. QED
  BY <1>1, <1>5 DEF Once

\* The first record arrives.
Arrives ==
  /\ chan # <<>> /\ 1 \in 1 .. Len(chan) /\ Len(chan) \in Nat
  /\ Head(chan) = chan[1] /\ chan[1] \in Events \cup Responses /\ Carries(chan[1])
  /\ Len(chan') = Len(chan) - 1
  /\ \A i \in 1 .. Len(chan') : i + 1 \in 1 .. Len(chan) /\ chan'[i] = chan[i + 1]

LEMMA ReceiveArrives ==
  ASSUME TypeInv, Receive
  PROVE  Arrives /\ asked' = asked
<1>1. chan # <<>> /\ chan' = Tail(chan) /\ asked' = asked
  BY DEF Receive
<1>2. Sent(chan)
  BY DEF TypeInv, ClientType
<1>3. Len(chan) \in Nat
  BY <1>2, LenProperties DEF Sent
<1>4. /\ Head(chan) = chan[1] /\ 1 \in 1 .. Len(chan)
      /\ chan[1] \in Events \cup Responses /\ Carries(chan[1])
  BY <1>1, <1>2, SentTail
<1>5. Len(chan') = Len(chan) - 1 /\ \A i \in 1 .. Len(chan') : chan'[i] = chan[i + 1]
  BY <1>1, <1>2, HeadTailProperties DEF Sent
<1>6. QED
  BY <1>1, <1>3, <1>4, <1>5 DEF Arrives

\* What it is an answer to has been answered.
LEMMA ReceiveReply ==
  ASSUME TypeInv, Receive
  PROVE  \/ UNCHANGED reply
         \/ /\ chan[1].type = "response" /\ chan[1] \in Responses /\ chan[1].to \in Requests
            /\ reply' = [reply EXCEPT ![chan[1].to] = chan[1]] /\ link # "hello"
            /\ UNCHANGED <<link, state, seed, queue>>
<1>1. Arrives
  BY ReceiveArrives
<1>2. CASE link = "hello" \/ chan[1].type # "response"
  BY <1>1, <1>2 DEF Receive, DispatchLine, Arrives
<1>3. CASE link # "hello" /\ chan[1].type = "response"
  <2>1. chan[1] \in Responses /\ chan[1].to \in Requests
    BY <1>1, <1>3 DEF Arrives, Events, EventTypes, Carries
  <2>2. QED
    BY <1>1, <1>3, <2>1 DEF Receive, DispatchLine, Arrives
<1>4. QED
  BY <1>2, <1>3

LEMMA ReceiveOnce ==
  ASSUME TypeInv, Once, Receive
  PROVE  Once' /\ \A id \in Requests : InFlight(id)' => InFlight(id)
<1>1. Arrives /\ asked' = asked
  BY ReceiveArrives
<1>2. reply \in [Requests -> Responses \cup {None}]
  BY DEF TypeInv, ClientType
<1>3. ASSUME NEW i \in 1 .. Len(chan'), NEW id
      PROVE  i + 1 \in 1 .. Len(chan) /\ i + 1 # 1 /\ (Answering(i, id)' <=> Answering(i + 1, id))
  BY <1>1 DEF Arrives, Answering
<1>4. ASSUME NEW id \in Requests
      PROVE  /\ InFlight(id)' => reply'[id] = None /\ InFlight(id)
             /\ \A p, q \in asked' : p.id = id /\ q.id = id => p = q
             /\ AskedFor(id)' => \A i \in 1 .. Len(chan') : ~Answering(i, id)'
             /\ \A i, j \in 1 .. Len(chan') : Answering(i, id)' /\ Answering(j, id)' => i = j
  <2>1. /\ InFlight(id) => reply[id] = None
        /\ \A p, q \in asked : p.id = id /\ q.id = id => p = q
        /\ AskedFor(id) => \A i \in 1 .. Len(chan) : ~Answering(i, id)
        /\ \A i, j \in 1 .. Len(chan) : Answering(i, id) /\ Answering(j, id) => i = j
    BY DEF Once
  <2>2. AskedFor(id)' <=> AskedFor(id)
    BY <1>1 DEF AskedFor
  <2>3. InFlight(id)' => InFlight(id)
    BY <1>3, <2>2 DEF InFlight
  <2>4. ASSUME Answering(1, id)
        PROVE  ~InFlight(id)'
    <3>1. ~AskedFor(id)
      BY <1>1, <2>1, <2>4 DEF Arrives
    <3>2. \A i \in 1 .. Len(chan') : ~Answering(i, id)'
      BY <1>1, <1>3, <2>1, <2>4 DEF Arrives
    <3>3. QED
      BY <2>2, <3>1, <3>2 DEF InFlight
  <2>5. Answering(1, id) \/ reply'[id] = reply[id]
    BY <1>2, ReceiveReply DEF Answering
  <2>6. \A i, j \in 1 .. Len(chan') : Answering(i, id)' /\ Answering(j, id)' => i = j
    <3>1. TAKE i, j \in 1 .. Len(chan')
    <3>2. i \in Nat /\ j \in Nat
      BY <1>1 DEF Arrives
    <3>3. QED
      BY <1>3, <2>1, <3>2
  <2>7. QED
    BY <1>1, <1>3, <2>1, <2>2, <2>3, <2>4, <2>5, <2>6
<1>5. QED
  BY <1>4 DEF Once

LEMMA ClosedOnce ==
  ASSUME asked' = {}, chan' = <<>>
  PROVE  Once' /\ \A id : ~InFlight(id)'
<1>1. \A id : ~InFlight(id)'
  BY EmptySeq DEF InFlight, AskedFor
<1>2. QED
  BY <1>1, EmptySeq DEF Once, AskedFor

\* At most one request is new, and it is not in flight yet.
LEMMA RequestingOnce ==
  ASSUME TypeInv, Order, OnceInv, Requesting, chan' = chan
  PROVE  Once' /\ \A id \in Requests : InFlight(id)' => InFlight(id) \/ AskedBy(id)
<1>1. CASE UNCHANGED <<asked, reply>>
  BY <1>1 DEF OnceInv, Once, InFlight, AskedFor, Answering
<1>2. CASE Asking
  <2>1. PICK new \in Requests, since \in Nat \cup {None} : Ask(new, since) /\ AskedBy(new)
    BY <1>2 DEF Asking
  <2>2. ~InFlight(new)
    BY <2>1 DEF AskedBy, OnceInv, Waits, Order, Late
  <2>3. ASSUME NEW id \in Requests, id # new
        PROVE  /\ \A q \in asked' : q.id = id => q \in asked
               /\ AskedFor(id)' <=> AskedFor(id)
               /\ reply'[id] = reply[id]
    BY <2>1, <2>3 DEF Ask, AskedFor, TypeInv, ClientType
  <2>4. \A i \in 1 .. Len(chan) : \A id : Answering(i, id)' <=> Answering(i, id)
    BY DEF Answering
  <2>5. ASSUME NEW id \in Requests
        PROVE  /\ InFlight(id)' => reply'[id] = None /\ (InFlight(id) \/ id = new)
               /\ \A p, q \in asked' : p.id = id /\ q.id = id => p = q
               /\ AskedFor(id)' => \A i \in 1 .. Len(chan') : ~Answering(i, id)'
               /\ \A i, j \in 1 .. Len(chan') : Answering(i, id)' /\ Answering(j, id)' => i = j
    <3>1. /\ InFlight(id) => reply[id] = None
          /\ \A p, q \in asked : p.id = id /\ q.id = id => p = q
          /\ AskedFor(id) => \A i \in 1 .. Len(chan) : ~Answering(i, id)
          /\ \A i, j \in 1 .. Len(chan) : Answering(i, id) /\ Answering(j, id) => i = j
      BY DEF OnceInv, Once
    <3>2. CASE id # new
      BY <2>3, <2>4, <3>1, <3>2 DEF InFlight
    <3>3. CASE id = new
      <4>1. \A q \in asked : q.id # new
        BY <2>2 DEF InFlight, AskedFor
      <4>2. \A i \in 1 .. Len(chan') : ~Answering(i, new)'
        BY <2>2, <2>4 DEF InFlight
      <4>3. CASE link = "closed"
        BY <2>1, <3>3, <4>1, <4>2, <4>3 DEF Ask, InFlight, AskedFor
      <4>4. CASE link # "closed"
        BY <2>1, <3>3, <4>1, <4>2, <4>4 DEF Ask, InFlight, AskedFor, TypeInv, ClientType
      <4>5. QED
        BY <4>3, <4>4
    <3>4. QED
      BY <3>2, <3>3
  <2>6. QED
    BY <2>1, <2>5 DEF Once
<1>3. QED
  BY <1>1, <1>2 DEF Requesting

LEMMA NextFlight ==
  ASSUME TypeInv, Order, OnceInv, [Next]_vars
  PROVE  Once' /\ \A id \in Requests : InFlight(id)' => InFlight(id) \/ AskedBy(id)
<1>1. CASE PiStep
  BY <1>1, PiStepOnce DEF OnceInv
<1>2. CASE Deliver
  BY <1>2, ReceiveOnce DEF OnceInv, Deliver
<1>3. CASE Connecting
  <2>1. UNCHANGED <<asked, reply>> /\ (chan' = chan \/ pc = "connect")
    BY <1>3 DEF Connecting, ConnectRefused, Connect
  <2>2. CASE chan' = chan
    BY <2>1, <2>2 DEF OnceInv, Once, InFlight, AskedFor, Answering
  <2>3. CASE chan' # chan
    <3>1. pc = "connect" /\ asked = {}
      <4>1. asked \subseteq [id : Requests, since : Nat \cup {None}]
        BY DEF TypeInv, ClientType
      <4>2. \A id \in Requests : ~AskedFor(id)
        BY <2>1, <2>3 DEF OnceInv, Waits, InFlight, Order, Late, Requests
      <4>3. QED
        BY <2>1, <2>3, <4>1, <4>2 DEF AskedFor
    <3> DEFINE first == [Event("session_changed") EXCEPT !.state = PiState]
    <3>2. /\ Event("other").type # "response" /\ Event("hello").type # "response"
          /\ first.type # "response"
      BY DEF Event
    <3>3. chan' = <<Event("other")>> \/ chan' = <<Event("hello"), first>>
      BY <1>3, <2>3 DEF Connecting, ConnectRefused, Connect
    <3> HIDE DEF first
    <3>4. \A i \in 1 .. Len(chan') : chan'[i].type # "response"
      BY <3>2, <3>3
    <3>5. \A id : ~InFlight(id)' /\ ~AskedFor(id)'
      BY <2>1, <3>1, <3>4 DEF InFlight, AskedFor, Answering
    <3>6. QED
      BY <2>1, <3>1, <3>4, <3>5 DEF Once, Answering
  <2>4. QED
    BY <2>2, <2>3
<1>4. CASE SocketClosed
  BY <1>4, ClosedOnce DEF SocketClosed
<1>5. CASE UNCHANGED <<link, chan, state>> /\ Requesting
  BY <1>5, RequestingOnce
<1>6. QED
  BY <1>1, <1>2, <1>3, <1>4, <1>5, CommandSteps

LEMMA NextOnce ==
  ASSUME TypeInv, Order, OnceInv, [Next]_vars
  PROVE  OnceInv'
<1>1. Once' /\ \A id \in Requests : InFlight(id)' => InFlight(id) \/ AskedBy(id)
  BY NextFlight
<1>2. Waits'
  <2>1. ASSUME NEW id \in Requests, InFlight(id), Answered(id)
        PROVE  FALSE
    BY <2>1 DEF OnceInv, Once, Answered
  <2>2. QED
    BY <1>1, <2>1, LeavesAnswered DEF OnceInv, Waits, AskedBy, Requests
<1>3. QED
  BY <1>1, <1>2 DEF OnceInv

-----------------------------------------------------------------------------
(* The request for the cursor.                                              *)

\* Once the cursor may have been asked for, nothing is queued any more.
CursorAsked == InFlight("final") \/ reply["final"] # None

Places ==
  /\ CursorAsked => ~Entries /\ events = "closed" /\ pc \in Late \cup {"now-cursor"}
  /\ pc = "end" /\ stop /\ HasCursor => reply["final"] # None

Covers(leaf) ==
  leaf # None => /\ \A i \in 1 .. Len(out) : out[i] <= leaf
                 /\ \A i \in 1 .. Len(queue) :
                      queue[i].event.entry # None => queue[i].event.entry <= leaf

CursorInv ==
  /\ \A i \in 1 .. Len(chan) : Answering(i, "final") => Covers(chan[i].leaf)
  /\ reply["final"] # None => Covers(reply["final"].leaf)
  /\ final # None => pc = "done" /\ CursorCoversOutput

\* Past its subscription a command stays there; past its end it prints nothing.
LEMMA StaysLate ==
  ASSUME TypeInv, Order, [Next]_vars
  PROVE  /\ cmd' = cmd
         /\ pc \in Late => pc' \in Late
         /\ pc = "now-cursor" => pc' \in {"now-cursor", "done", "failed"}
         /\ pc \in Late \cup {"now-cursor"} /\ events = "closed" => events' = "closed"
         /\ pc = "done" => UNCHANGED <<pc, out, final>>
         /\ pc = "failed" => pc' = "failed"
<1> USE DEF Late, loopVars, modeVars, outVars, piVars, clientVars, ghosts
<1>1. CASE PiStep \/ Deliver \/ UNCHANGED vars \/ PiClosesSocket
  <2>1. UNCHANGED <<cmd, pc, out, final>> /\ (events' = events \/ events' = "closed")
    <3>1. CASE PiStep
      BY <3>1, PiStepShape DEF Changes, CommandKeeps
    <3>2. CASE Deliver \/ UNCHANGED vars \/ PiClosesSocket
      BY <3>2 DEF Deliver, Receive, vars, PiClosesSocket, SocketClosed
    <3>3. QED
      BY <1>1, <3>1, <3>2
  <2>2. QED
    BY <2>1
<1>2. CASE Connecting \/ GiveUpConnecting \/ HelloRead
  BY <1>2 DEF Connecting, GiveUpConnecting, HelloRead, Fail
<1>3. CASE HistoryAnswered \/ LeafAnswered \/ NowSubscribed \/ NowCursor
  BY <1>3 DEF HistoryAnswered, LeafAnswered, NowSubscribed, NowCursor, Fail
<1>4. CASE HandleSeed \/ HandleEvent
  BY <1>4 DEF HandleSeed, HandleEvent, Fail, StopAt, Proceed
<1>5. CASE Drained \/ DrainForEvent
  BY <1>5 DEF Drained, DrainForEvent, StopAt, Proceed
<1>6. CASE SourceEnded \/ FinishAfterStop \/ Return
  BY <1>6 DEF SourceEnded, FinishAfterStop, Return, Fail
<1>7. CASE PromptAnswered \/ TimerFires
  BY <1>7 DEF PromptAnswered, TimerFires, EstablishSourceCutoff, SocketClosed
<1>8. QED
  BY <1>1, <1>2, <1>3, <1>4, <1>5, <1>6, <1>7 DEF Next, PiStep, Coroutine

\* An answer does not go away before the next request.
LEMMA ReplySteps ==
  ASSUME TypeInv, Order, [Next]_vars, NEW id \in Requests
  PROVE  \/ reply'[id] = reply[id]
         \/ AskedBy(id) /\ reply'[id] \in {None, Failure}
         \/ InFlight(id) /\ reply'[id] = Failure
         \/ Answering(1, id) /\ 1 \in 1 .. Len(chan) /\ reply'[id] = chan[1] /\ chan[1] \in Responses
<1>1. reply \in [Requests -> Responses \cup {None}]
  BY DEF TypeInv, ClientType
<1>2. CASE PiStep
  BY <1>2, PiStepShape DEF Changes, CommandKeeps
<1>3. CASE Deliver
  BY <1>1, <1>3, ReceiveReply, ReceiveArrives DEF Deliver, Answering, Arrives
<1>4. CASE Connecting
  BY <1>4 DEF Connecting, ConnectRefused, Connect
<1>5. CASE SocketClosed
  BY <1>5 DEF SocketClosed, InFlight, AskedFor, Answering
<1>6. CASE Requesting
  BY <1>1, <1>6 DEF Requesting, Asking, Ask
<1>7. QED
  BY <1>2, <1>3, <1>4, <1>5, <1>6, CommandSteps

LEMMA NextPlaces ==
  ASSUME TypeInv, Order, OnceInv, Places, [Next]_vars
  PROVE  Places'
<1> USE DEF Late
<1>1. Order' /\ "final" \in Requests /\ cmd' = cmd
  BY NextOrder, StaysLate DEF Requests
<1>2. CursorAsked' => CursorAsked \/ AskedBy("final")
  <2>1. InFlight("final")' => InFlight("final") \/ AskedBy("final")
    BY <1>1, NextFlight
  <2>2. reply'["final"] # None => CursorAsked \/ AskedBy("final")
    BY <1>1, ReplySteps DEF CursorAsked, InFlight
  <2>3. QED
    BY <2>1, <2>2 DEF CursorAsked
<1>3. ASSUME CursorAsked
      PROVE  ~Entries' /\ events' = "closed" /\ pc' \in Late \cup {"now-cursor"}
  BY <1>1, <1>3, StaysLate DEF Places, Entries
<1>4. ASSUME AskedBy("final")
      PROVE  ~Entries' /\ events' = "closed" /\ pc' \in Late \cup {"now-cursor"}
  <2>1. ~Entries
    BY <1>4 DEF AskedBy, Order, HasCursor, Entries
  <2>2. events' = "closed" /\ pc' \in Late \cup {"now-cursor"}
    BY <1>1, <1>4 DEF AskedBy, Order
  <2>3. QED
    BY <1>1, <2>1, <2>2 DEF Entries
<1>5. pc' = "end" /\ stop' /\ HasCursor' => reply'["final"] # None
  <2>1. SUFFICES ASSUME pc' = "end", stop', HasCursor PROVE reply'["final"] # None
    BY <1>1 DEF HasCursor
  <2>2. CASE pc = "end"
    <3>1. events = "closed" /\ ~AskedBy("final")
      BY <2>1, <2>2 DEF Order, AskedBy
    <3>2. stop
      <4>1. CASE PiStep
        BY <2>1, <4>1, PiStepShape DEF Changes, CommandKeeps, loopVars
      <4>2. CASE ~PiStep
        BY <2>1, <2>2, <3>1, <4>2
           DEF Next, PiStep, Coroutine, Deliver, PiClosesSocket, Connecting, GiveUpConnecting,
               HelloRead, HistoryAnswered, LeafAnswered, NowSubscribed, NowCursor, HandleSeed,
               HandleEvent, DrainForEvent, Drained, SourceEnded, FinishAfterStop, Return, Fail,
               PromptAnswered, TimerFires, EstablishSourceCutoff, vars, loopVars
      <4>3. QED
        BY <4>1, <4>2
    <3>3. reply["final"] # None
      BY <2>1, <2>2, <3>2 DEF Places
    <3>4. Failure # None /\ \A r \in Responses : r # None
      BY FailureType, NoneAssumption
    <3>5. QED
      BY <1>1, <3>1, <3>3, <3>4, ReplySteps
  <2>3. CASE pc # "end"
    <3>1. CASE PiStep \/ Deliver \/ UNCHANGED vars \/ PiClosesSocket \/ TimerFires \/ PromptAnswered
      <4>1. pc' = pc
        BY <3>1, PiStepShape DEF Changes, CommandKeeps, Deliver, vars, PiClosesSocket, TimerFires,
                                PromptAnswered
      <4>2. QED
        BY <2>1, <2>3, <4>1
    <3>2. CASE FinishAfterStop
      BY <2>1, <3>2 DEF FinishAfterStop, Answered, clientVars
    <3>3. CASE Drained
      BY <2>1, <3>3 DEF Drained, TypeInv, ModeType, HasCursor, Entries
    <3>4. CASE Connecting \/ GiveUpConnecting \/ HelloRead \/ HistoryAnswered \/ LeafAnswered
      BY <2>1, <3>4 DEF Connecting, GiveUpConnecting, HelloRead, HistoryAnswered, LeafAnswered,
                        SubscribeTo, Fail
    <3>5. CASE NowSubscribed \/ NowCursor \/ HandleSeed \/ HandleEvent \/ DrainForEvent \/ SourceEnded
               \/ Return
      BY <2>1, <3>5 DEF NowSubscribed, NowCursor, HandleSeed, HandleEvent, DrainForEvent, SourceEnded,
                        Return, Fail, StopAt, Proceed
    <3>6. QED
      BY <3>1, <3>2, <3>3, <3>4, <3>5 DEF Next, PiStep, Coroutine
  <2>4. QED
    BY <2>2, <2>3
<1>6. QED
  BY <1>2, <1>3, <1>4, <1>5 DEF Places

LEMMA RecordKinds ==
  ASSUME NEW e \in Events, Carries(e)
  PROVE  \/ Record(e) = <<>> \/ Record(e) = <<0>>
         \/ (Record(e) = <<e.entry>> /\ e.entry \in Nat)
<1>1. e.entry # None => e.entry \in Nat
  BY DEF Events
<1>2. CASE e.type = "message_end"
  <2>1. Record(e) = <<e.entry>>
    BY <1>2 DEF Record
  <2>2. e.entry # None
    BY <1>2, NoneAssumption DEF Carries
  <2>3. QED
    BY <1>1, <2>1, <2>2
<1>3. CASE e.type = "session_changed"
  BY <1>3 DEF Record, Carries, EventTypes
<1>4. CASE e.type \notin {"message_end", "session_changed"}
  <2>1. Record(e) = IF e.entry # None /\ cmd.type = "events" THEN <<e.entry>> ELSE <<>>
    BY <1>4 DEF Record
  <2>2. QED
    BY <1>1, <2>1
<1>5. QED
  BY <1>2, <1>3, <1>4

\* What is printed from now on was queued when the cursor was asked for.
LEMMA CoversStays ==
  ASSUME TypeInv, Order, Places, CursorAsked, [Next]_vars,
         NEW leaf \in Nat \cup {None}, Covers(leaf)
  PROVE  Covers(leaf)'
<1> USE DEF loopVars, modeVars, outVars, piVars, clientVars, ghosts
<1>1. ~Entries /\ events = "closed" /\ pc \in Late \cup {"now-cursor"}
  BY DEF Places
<1>2. CASE UNCHANGED <<out, queue>>
  BY <1>2 DEF Covers
<1>3. CASE UNCHANGED out /\ (queue' = <<>> \/ (queue # <<>> /\ queue' = Tail(queue)))
  <2>1. \A i \in 1 .. Len(queue') : \E j \in 1 .. Len(queue) : queue'[i] = queue[j]
    <3>1. CASE queue' = <<>>
      BY <3>1, EmptySeq
    <3>2. CASE queue # <<>> /\ queue' = Tail(queue)
      <4>1. /\ Len(queue) \in Nat /\ Len(queue') = Len(queue) - 1
            /\ \A i \in 1 .. Len(queue') : queue'[i] = queue[i + 1]
        BY <3>2, QueueTail, LenProperties DEF TypeInv, ClientType
      <4>2. \A i \in 1 .. Len(queue') : i + 1 \in 1 .. Len(queue)
        BY <4>1
      <4>3. QED
        BY <4>1, <4>2
    <3>3. QED
      BY <1>3, <3>1, <3>2
  <2>2. QED
    BY <1>3, <2>1 DEF Covers
<1>4. CASE HandleEvent
  <2> DEFINE e == Head(queue)
  <2>1. queue # <<>> /\ (out' = out \/ out' = out \o Record(e.event))
    BY <1>4 DEF HandleEvent
  <2>2. e \in Queued /\ Carries(e.event) /\ e = queue[1] /\ 1 \in 1 .. Len(queue)
    BY <2>1, QueueTail DEF TypeInv
  <2>3. queue' = <<>> \/ queue' = Tail(queue)
    BY <1>4 DEF HandleEvent, StopAt, Proceed
  <2>4. \A i \in 1 .. Len(queue') : \E j \in 1 .. Len(queue) : queue'[i] = queue[j]
    <3>1. CASE queue' = <<>>
      BY <3>1, EmptySeq
    <3>2. CASE queue' = Tail(queue)
      <4>1. /\ Len(queue) \in Nat /\ Len(queue') = Len(queue) - 1
            /\ \A i \in 1 .. Len(queue') : queue'[i] = queue[i + 1]
        BY <2>1, <3>2, QueueTail, LenProperties DEF TypeInv, ClientType
      <4>2. \A i \in 1 .. Len(queue') : i + 1 \in 1 .. Len(queue)
        BY <4>1
      <4>3. QED
        BY <4>1, <4>2
    <3>3. QED
      BY <2>3, <3>1, <3>2
  <2>5. e.event \in Events
    BY <2>2 DEF Queued
  <2> HIDE DEF e
  <2>6. \/ Record(e.event) = <<>> \/ Record(e.event) = <<0>>
        \/ (Record(e.event) = <<e.event.entry>> /\ e.event.entry \in Nat)
    BY <2>2, <2>5, RecordKinds
  <2>7. leaf # None => \A i \in 1 .. Len(out') : out'[i] <= leaf
    <3>1. SUFFICES ASSUME leaf # None PROVE \A i \in 1 .. Len(out') : out'[i] <= leaf
      OBVIOUS
    <3>2. leaf \in Nat /\ \A i \in 1 .. Len(out) : out[i] <= leaf
      BY <3>1 DEF Covers
    <3>3. e.event.entry \in Nat => e.event.entry <= leaf
      BY <2>2, <3>1, NoneAssumption DEF Covers
    <3>4. \/ out' = out
          \/ \E r \in Nat : r <= leaf /\ out' = out \o <<r>>
      <4>1. CASE Record(e.event) = <<>>
        BY <2>1, <4>1, ConcatEmptySeq DEF TypeInv, ModeType
      <4>2. CASE Record(e.event) = <<0>>
        BY <2>1, <3>2, <4>2
      <4>3. CASE Record(e.event) = <<e.event.entry>> /\ e.event.entry \in Nat
        BY <2>1, <3>3, <4>3
      <4>4. QED
        BY <2>6, <4>1, <4>2, <4>3
    <3>5. CASE out' # out
      <4>1. PICK r \in Nat : r <= leaf /\ out' = out \o <<r>>
        BY <3>4, <3>5
      <4>2. out \in Seq(Nat)
        BY DEF TypeInv, ModeType
      <4>3. out' = Append(out, r)
        BY <4>1, <4>2, AppendIsConcat
      <4>4. /\ Len(out) \in Nat /\ Len(out') = Len(out) + 1 /\ out'[Len(out) + 1] = r
            /\ \A i \in 1 .. Len(out) : out'[i] = out[i]
        BY <4>2, <4>3, AppendProperties, LenProperties
      <4>5. QED
        BY <3>2, <4>1, <4>4
    <3>6. QED
      BY <3>2, <3>5
  <2>8. QED
    BY <2>4, <2>7 DEF Covers
<1>5. CASE ~HandleEvent
  <2>1. UNCHANGED out
    <3>1. CASE PiStep
      BY <3>1, PiStepShape DEF Changes, CommandKeeps
    <3>2. CASE HistoryAnswered \/ Drained
      BY <1>1, <3>2 DEF HistoryAnswered, Drained, TypeInv, ModeType, Late
    <3>3. CASE ~PiStep /\ ~HistoryAnswered /\ ~Drained
      BY <1>5, <3>3
         DEF Next, PiStep, Coroutine, Deliver, PiClosesSocket, Connecting, GiveUpConnecting,
             HelloRead, LeafAnswered, NowSubscribed, NowCursor, HandleSeed, FinalCursor,
             DrainForEvent, SourceEnded, FinishAfterStop, Return, Fail,
             PromptAnswered, TimerFires, vars
    <3>4. QED
      BY <3>1, <3>2, <3>3
  <2>2. queue' = queue \/ queue' = <<>> \/ (queue # <<>> /\ queue' = Tail(queue))
    <3>1. CASE PiStep
      BY <3>1, PiStepShape DEF Changes, CommandKeeps
    <3>2. CASE Deliver
      BY <1>1, <3>2 DEF Deliver, Receive, DispatchLine
    <3>3. CASE HelloRead \/ HistoryAnswered \/ LeafAnswered \/ Connecting \/ GiveUpConnecting
      BY <1>1, <3>3 DEF HelloRead, HistoryAnswered, LeafAnswered, Connecting, GiveUpConnecting, Late
    <3>4. CASE NowSubscribed \/ NowCursor \/ HandleSeed \/ DrainForEvent \/ Drained \/ SourceEnded
      BY <3>4 DEF NowSubscribed, NowCursor, HandleSeed, DrainForEvent, Drained, SourceEnded,
                  ClientKeeps, StopAt, Proceed
    <3>5. CASE FinishAfterStop \/ Return \/ PromptAnswered \/ TimerFires \/ PiClosesSocket
               \/ UNCHANGED vars
      BY <3>5 DEF FinishAfterStop, Return, PromptAnswered, TimerFires, PiClosesSocket, SocketClosed,
                  vars
    <3>6. QED
      BY <1>5, <3>1, <3>2, <3>3, <3>4, <3>5 DEF Next, PiStep, Coroutine
  <2>3. QED
    BY <1>2, <1>3, <2>1, <2>2
<1>6. QED
  BY <1>4, <1>5

\* pi answers with the leaf of its log, past which nothing was queued.
LEMMA AnswerCovers ==
  ASSUME TypeInv, Bounded, NEW q \in asked, q.id = "final"
  PROVE  Covers(Answer(q).leaf)
<1>1. Answer(q).leaf \in {Len(log), None}
  BY DEF Answer, Response, LeafId
<1>2. \A i \in 1 .. Len(queue) : queue[i].event \in Events
  <2>1. \A i \in 1 .. Len(queue) : queue[i] \in Queued
    BY ElementOfSeq DEF TypeInv, ClientType
  <2>2. QED
    BY <2>1 DEF Queued
<1>3. ASSUME NEW i \in 1 .. Len(queue), queue[i].event.entry # None
      PROVE  queue[i].event.entry <= Len(log)
  <2>1. queue[i].event.type # "response"
    BY <1>2 DEF Events, EventTypes
  <2>2. QED
    BY <1>3, <2>1 DEF Bounded, InLog
<1>4. \A i \in 1 .. Len(out) : out[i] <= Len(log)
  BY DEF Bounded
<1> DEFINE leaf == Answer(q).leaf
<1>5. leaf = Len(log) \/ leaf = None
  BY <1>1
<1> HIDE DEF leaf
<1>6. Covers(leaf)
  BY <1>3, <1>4, <1>5 DEF Covers
<1>7. QED
  BY <1>6 DEF leaf

LEMMA LeafType ==
  ASSUME TypeInv
  PROVE  /\ \A i \in 1 .. Len(chan) : Answering(i, "final") => chan[i].leaf \in Nat \cup {None}
         /\ reply["final"] # None => reply["final"].leaf \in Nat \cup {None}
<1>1. \A i \in 1 .. Len(chan) : chan[i] \in Events \cup Responses
  BY ElementOfSeq DEF TypeInv, ClientType, Sent
<1>2. \A i \in 1 .. Len(chan) : Answering(i, "final") => chan[i] \in Responses
  BY <1>1 DEF Answering, Events, EventTypes
<1>3. reply["final"] \in Responses \cup {None}
  BY DEF TypeInv, ClientType, Requests
<1>4. QED
  BY <1>2, <1>3 DEF Responses

\* The answers that are on their way are old or pi's, or have arrived.
LEMMA AnswerSteps ==
  ASSUME TypeInv, Order, [Next]_vars, NEW i \in 1 .. Len(chan'), NEW id, Answering(i, id)'
  PROVE  \/ \E j \in 1 .. Len(chan) : chan'[i] = chan[j]
         \/ PiStep /\ i \in Len(chan) + 1 .. Len(chan') /\ IsNew(chan'[i])
         \/ Connecting /\ \A r \in Requests : ~Answering(i, r)'
<1>1. CASE PiStep
  <2>1. Sends /\ Len(chan) \in Nat
    BY <1>1, PiStepShape, LenProperties DEF TypeInv, ClientType, Sent
  <2>2. QED
    BY <1>1, <2>1 DEF Sends
<1>2. CASE Deliver
  BY <1>2, ReceiveArrives DEF Deliver, Arrives
<1>3. CASE Connecting /\ chan' # chan
  <2> DEFINE first == [Event("session_changed") EXCEPT !.state = PiState]
  <2>1. /\ Event("other").type # "response" /\ Event("hello").type # "response"
        /\ first.type # "response"
    BY DEF Event
  <2>2. chan' = <<Event("other")>> \/ chan' = <<Event("hello"), first>>
    BY <1>3 DEF Connecting, ConnectRefused, Connect
  <2> HIDE DEF first
  <2>3. chan'[i].type # "response"
    BY <2>1, <2>2
  <2>4. QED
    BY <1>3, <2>3 DEF Answering
<1>4. CASE SocketClosed
  BY <1>4, EmptySeq DEF SocketClosed
<1>5. CASE chan' = chan
  BY <1>5
<1>6. QED
  BY <1>1, <1>2, <1>3, <1>4, <1>5, CommandSteps

LEMMA NextCursorInv ==
  ASSUME TypeInv, Bounded, Order, OnceInv, Places, CursorInv, [Next]_vars
  PROVE  CursorInv'
<1> USE DEF outVars
<1>1. "final" \in Requests
  BY DEF Requests
<1>2. ASSUME NEW i \in 1 .. Len(chan), Answering(i, "final")
      PROVE  CursorAsked /\ chan[i].leaf \in Nat \cup {None} /\ Covers(chan[i].leaf)
  BY <1>2, LeafType DEF CursorInv, CursorAsked, InFlight
<1>3. ASSUME NEW i \in 1 .. Len(chan'), Answering(i, "final")', NEW leaf, leaf = chan'[i].leaf
      PROVE  Covers(leaf)'
  <2>1. CASE \E j \in 1 .. Len(chan) : chan'[i] = chan[j]
    <3>1. PICK j \in 1 .. Len(chan) : chan'[i] = chan[j]
      BY <2>1
    <3>2. Answering(j, "final") /\ leaf = chan[j].leaf
      BY <1>3, <3>1 DEF Answering
    <3>3. CursorAsked /\ leaf \in Nat \cup {None} /\ Covers(leaf)
      BY <1>2, <3>2
    <3>4. QED
      BY <3>3, CoversStays
  <2>2. CASE PiStep /\ i \in Len(chan) + 1 .. Len(chan') /\ IsNew(chan'[i])
    <3>1. PICK q \in asked : /\ chan'[i].to = q.id
                             /\ q.id # "prompt" => chan'[i] = Answer(q)
      BY <1>3, <2>2 DEF IsNew, Answering
    <3>2. q.id = "final" /\ leaf = Answer(q).leaf
      BY <1>3, <3>1 DEF Answering
    <3>3. Covers(leaf)
      BY <3>2, AnswerCovers
    <3>4. UNCHANGED <<out, queue>>
      BY <2>2, PiStepShape DEF Changes, CommandKeeps
    <3>5. QED
      BY <3>3, <3>4 DEF Covers
  <2>3. QED
    BY <1>1, <1>3, <2>1, <2>2, AnswerSteps
<1>4. ASSUME reply'["final"] # None, NEW leaf, leaf = reply'["final"].leaf
      PROVE  Covers(leaf)'
  <2>1. CASE reply'["final"] = Failure
    <3>1. leaf = None
      BY <1>4, <2>1 DEF Failure, Response
    <3>2. QED
      BY <3>1 DEF Covers
  <2>2. CASE \/ reply'["final"] = reply["final"]
             \/ 1 \in 1 .. Len(chan) /\ Answering(1, "final") /\ reply'["final"] = chan[1]
    <3>1. CursorAsked /\ leaf \in Nat \cup {None} /\ Covers(leaf)
      BY <1>2, <1>4, <2>2, LeafType DEF CursorInv, CursorAsked
    <3>2. QED
      BY <3>1, CoversStays
  <2>3. QED
    BY <1>1, <1>4, <2>1, <2>2, ReplySteps
<1>5. final' # None => pc' = "done" /\ CursorCoversOutput'
  <2>1. CASE final' = final
    <3>1. final' # None => pc = "done" /\ CursorCoversOutput
      BY <2>1 DEF CursorInv
    <3>2. final' # None => UNCHANGED <<pc, out, final>>
      BY <3>1, StaysLate
    <3>3. QED
      BY <3>1, <3>2 DEF CursorCoversOutput, Written
  <2>2. CASE final' # final
    <3>1. (NowCursor \/ Return) /\ FinalCursor
      <4>1. CASE PiStep
        BY <2>2, <4>1, PiStepShape DEF Changes, CommandKeeps
      <4>2. CASE ~PiStep
        BY <2>2, <4>2
           DEF Next, PiStep, Coroutine, Deliver, PiClosesSocket, Connecting, GiveUpConnecting,
               HelloRead, HistoryAnswered, LeafAnswered, NowSubscribed, NowCursor, HandleSeed,
               HandleEvent, DrainForEvent, Drained, SourceEnded, FinishAfterStop, Return, Fail,
               PromptAnswered, TimerFires, vars
      <4>3. QED
        BY <4>1, <4>2
    <3>2. pc' = "done" /\ UNCHANGED out
      BY <2>2, <3>1 DEF NowCursor, Return, Fail
    <3>3. reply["final"] # None
      <4>1. CASE NowCursor
        BY <4>1 DEF NowCursor, Answered
      <4>2. CASE Return
        <5>1. pc = "end" /\ HasCursor /\ outcome \notin {"failed", "closed"}
          BY <2>2, <4>2 DEF Return, Fail
        <5>2. outcome \in {"done", "timeout"}
          BY <5>1 DEF Order, TypeInv, ModeType
        <5>3. QED
          BY <5>1, <5>2 DEF Order, Places
      <4>3. QED
        BY <3>1, <4>1, <4>2
    <3>4. Covers(reply["final"].leaf) /\ final'.entry = reply["final"].leaf
      BY <3>1, <3>3 DEF CursorInv, FinalCursor
    <3>5. QED
      BY <3>2, <3>4 DEF Covers, CursorCoversOutput, Written
  <2>3. QED
    BY <2>1, <2>2
<1>6. QED
  BY <1>3, <1>4, <1>5 DEF CursorInv

LEMMA InitCursor == Init => Places /\ CursorInv
<1>1. SUFFICES ASSUME Init PROVE Places /\ CursorInv
  OBVIOUS
<1>2. chan = <<>> /\ asked = {} /\ reply["final"] = None /\ final = None /\ pc = "connect"
  <2>1. ClientInit /\ final = None /\ pc = "connect"
    BY <1>1, Zenon DEF Init
  <2>2. QED
    BY <2>1 DEF ClientInit, Requests
<1>3. QED
  BY <1>2, EmptySeq DEF Places, CursorAsked, InFlight, AskedFor, CursorInv

ConnectionInv == TypeInv /\ Bounded /\ Order /\ OnceInv /\ Places

\* What the other proofs rest on: a request is in flight at most once and only
\* while its coroutine waits for it (request and dispatchLine of
\* pi-socket-client.ts), and a command's steps come in the order of streamTail,
\* streamPrompt and runStream.
THEOREM Connection == Spec => []ConnectionInv
<1>1. Init => ConnectionInv
  BY InitTypeInv, InitBounded, InitOrder, InitOnce, InitCursor DEF ConnectionInv
<1>2. ConnectionInv /\ [Next]_vars => ConnectionInv'
  BY NextType, NextBounded, NextOrder, NextOnce, NextPlaces DEF ConnectionInv
<1>3. QED
  BY <1>1, <1>2, PTL DEF Spec

\* The cursor that tail and prompt end with is never before anything that was
\* printed, although pi is asked for it while events still wait in the queue
\* (stream.ts:186-216, 86-100): tail --since it repeats nothing.
THEOREM CursorIsNotBehind == Spec => []CursorCoversOutput
<1>1. Init => CursorInv
  BY InitCursor
<1>2. ConnectionInv /\ CursorInv /\ [Next]_vars => CursorInv'
  BY NextCursorInv DEF ConnectionInv
<1>3. CursorInv => CursorCoversOutput
  BY DEF CursorInv, CursorCoversOutput
<1>4. QED
  BY <1>1, <1>2, <1>3, Connection, PTL DEF Spec
=============================================================================
