------------------------- MODULE FormatCommandProofs -------------------------
(***************************************************************************)
(* For every command line and whatever comes through the pipe, in chunks   *)
(* of whatever size: format prints what tail prints, refuses with the name *)
(* of the command that takes the input, attributes every block to its      *)
(* speaker, loses no part of a message, and draws a tree that reads back.  *)
(***************************************************************************)
EXTENDS FormatCommand, FormatLemmas

-----------------------------------------------------------------------------
(* Headers.                                                                 *)

HeadersInv ==
  /\ job \in DOMAIN Jobs
  /\ pc \in {"first", "document", "records"} => Job.command # "tree"
  /\ HeaderInv(formatter)

LEMMA ProjectedIsSeq ==
  ASSUME NEW value
  PROVE  IsSeq(MessageRecords(value))
<1>1. \A x : IsSeq(<<>>) /\ IsSeq(<<x>>)
  BY ShortSeqs
<1>2. IsSeq(ContextMessages(value.record))
  BY <1>1 DEF ContextMessages
<1>3. IsSeq(ProjectEntry(previous, value.record))
  <2> DEFINE s == IF previous # None /\ value.record.parentId # previous THEN <<Control>> ELSE <<>>
             t == IF value.record.type # "model_change" THEN ContextMessages(value.record)
                  ELSE IF previous = None THEN <<>> ELSE <<Control>>
  <2>1. IsSeq(s) /\ IsSeq(t)
    BY <1>1, <1>2
  <2> HIDE DEF s, t
  <2>2. IsSeq(s \o t)
    BY <2>1, ConcatAny
  <2>3. QED
    BY <2>2 DEF ProjectEntry, s, t
<1>4. IsSeq(ProjectEvent(value.record))
  BY <1>1 DEF ProjectEvent
<1>5. QED
  BY <1>1, <1>3, <1>4 DEF MessageRecords

LEMMA HeadersShown ==
  ASSUME HeadersInv, NEW n, NEW value, pc = "records", Show(n, value), UNCHANGED job
  PROVE  HeadersInv'
<1>1. Job' = Job
  BY DEF Job
<1>2. Job.command \in {"messages", "entries", "events"}
  BY JobsAssumption DEF HeadersInv, Job
<1>3. HeaderInv(formatter')
  <2>1. CASE Job.command = "messages"
    <3>1. formatter' = PushAll(formatter, MessageRecords(value))
      BY <2>1 DEF Show
    <3>2. HeaderInv(formatter)
      BY DEF HeadersInv
    <3>3. QED
      BY <3>1, <3>2, ProjectedIsSeq, PushAllHeads
  <2>2. CASE Job.command # "messages"
    BY <1>2, <2>2 DEF Show, HeadersInv
  <2>3. QED
    BY <2>1, <2>2
<1>4. QED
  BY <1>1, <1>3 DEF HeadersInv, Show

LEMMA HeadersInitial == Init => HeadersInv
<1> SUFFICES ASSUME Init PROVE HeadersInv
  OBVIOUS
<1>1. HeaderInv(formatter)
  BY NewHeads DEF Init
<1>2. QED
  BY <1>1 DEF Init, HeadersInv

LEMMA HeadersFail ==
  ASSUME HeadersInv, NEW error, Fail(error), UNCHANGED job
  PROVE  HeadersInv'
BY DEF HeadersInv, Fail, output, Job

LEMMA HeadersDecoded ==
  ASSUME HeadersInv, Job.command # "tree", NEW of, NEW records, NEW leafId,
         Decoded(of, records, leafId), UNCHANGED job
  PROVE  HeadersInv'
BY HeadersFail DEF HeadersInv, Decoded, output, Job

LEMMA HeadersInductive ==
  ASSUME HeadersInv, [Next]_vars
  PROVE  HeadersInv'
<1>1. CASE ReadChunk \/ ReadEnd
  BY <1>1 DEF ReadChunk, ReadEnd, HeadersInv, output, Job
<1>2. CASE Classify
  BY <1>2, HeadersDecoded DEF Classify, HeadersInv, output, Job
<1>3. CASE NoLine
  BY <1>3 DEF NoLine, HeadersInv, output, Job
<1>4. CASE DecodeDocument
  <2>1. Job.command # "tree" /\ UNCHANGED job
    BY <1>4 DEF DecodeDocument, HeadersInv
  <2>2. \/ \E error : Fail(error)
        \/ \E of, records, leafId : Decoded(of, records, leafId)
    BY <1>4 DEF DecodeDocument
  <2>3. QED
    BY <2>1, <2>2, HeadersFail, HeadersDecoded
<1>5. CASE TakeLine
  <2>1. pc = "records" /\ UNCHANGED job
    BY <1>5 DEF TakeLine
  <2>2. \/ \E error : Fail(error)
        \/ \E n, value : Show(n, value)
    BY <1>5, Zenon DEF TakeLine, OneRecord
  <2>3. QED
    BY <2>1, <2>2, HeadersFail, HeadersShown
<1>6. CASE TakeOfDocument
  <2>1. pc = "records" /\ UNCHANGED job
    BY <1>6 DEF TakeOfDocument
  <2>2. \/ \E error : Fail(error)
        \/ \E n, value : Show(n, value)
    BY <1>6, Zenon DEF TakeOfDocument
  <2>3. QED
    BY <2>1, <2>2, HeadersFail, HeadersShown
<1>7. CASE Finish
  <2>1. HeaderInv(formatter')
    BY <1>7, FlushRunHeads DEF Finish, HeadersInv, End
  <2>2. QED
    BY <1>7, <2>1 DEF Finish, HeadersInv, Job
<1>8. CASE FormatTree
  <2>1. pc = "whole" /\ UNCHANGED job
    BY <1>8 DEF FormatTree
  <2>2. \/ \E error : Fail(error)
        \/ \E records, leafId : DrawTree(records, leafId)
    BY <1>8, Zenon DEF FormatTree
  <2>3. ASSUME NEW records, NEW leafId, DrawTree(records, leafId)
        PROVE  HeadersInv'
    <3>1. \/ Fail("duplicate")
          \/ pc' = "done" /\ UNCHANGED formatter
      BY <2>3, Zenon DEF DrawTree
    <3>2. QED
      BY <2>1, <3>1, HeadersFail DEF HeadersInv, Job
  <2>4. QED
    BY <2>1, <2>2, <2>3, HeadersFail
<1>9. CASE UNCHANGED vars
  BY <1>9 DEF vars, output, HeadersInv, Job
<1>10. QED
  BY <1>1, <1>2, <1>3, <1>4, <1>5, <1>6, <1>7, <1>8, <1>9 DEF Next

LEMMA HeadedAttributed ==
  ASSUME HeaderInv(formatter)
  PROVE  Attributed
<1> SUFFICES ASSUME NEW j \in 1 .. Len(Blocks), Blocks[j].speaker # None
             PROVE  LET headed == {i \in 1 .. j : Blocks[i].header # None} IN
                    /\ headed # {}
                    /\ Blocks[Max1(headed)].header = Blocks[j].speaker
                    /\ \A i \in Max1(headed) .. j - 1 : ~HasRawTextLine(Blocks[i].body)
  BY DEF Attributed
<1> DEFINE headed == {i \in 1 .. j : Blocks[i].header # None}
<1>1. PICK h \in 1 .. j :
        /\ Blocks[h].header = Blocks[j].speaker
        /\ \A i \in h + 1 .. j : Blocks[i].header = None
        /\ \A i \in h .. j - 1 : ~HasRawTextLine(Blocks[i].body)
  BY DEF HeaderInv, Headed, Blocks
<1>2. h \in headed /\ h \in Int
  BY <1>1
<1>3. \A i \in headed : i \in Int /\ i <= h
  <2> SUFFICES ASSUME NEW i \in headed PROVE i \in Int /\ i <= h
    OBVIOUS
  <2>1. i \in 1 .. j /\ Blocks[i].header # None
    OBVIOUS
  <2>2. i \notin h + 1 .. j
    BY <1>1, <2>1
  <2>3. QED
    BY <1>2, <2>1, <2>2
<1>4. Max1(headed) = h
  <2> HIDE DEF headed
  <2>1. \E n \in headed : \A m \in headed : m <= n
    BY <1>2, <1>3
  <2>2. PICK c : c = Max1(headed)
    OBVIOUS
  <2>3. c \in headed /\ \A m \in headed : m <= c
    BY <2>1, <2>2 DEF Max1
  <2>4. c \in Int /\ c <= h /\ h <= c
    BY <1>2, <1>3, <2>3
  <2>5. QED
    BY <1>2, <2>2, <2>4
<1>5. QED
  BY <1>1, <1>2, <1>4

\* Every block that MessageFormatter prints for format messages stands under
\* the header of its speaker, and no raw text comes between that header and
\* the block (the sticky header of MessageFormatter.block).
THEOREM AttributedSafe == Spec => []Attributed
<1>1. Init => HeadersInv
  BY HeadersInitial
<1>2. HeadersInv /\ [Next]_vars => HeadersInv'
  BY HeadersInductive
<1>3. HeadersInv => Attributed
  BY HeadedAttributed DEF HeadersInv
<1>4. QED
  BY <1>1, <1>2, <1>3, PTL DEF Spec
-----------------------------------------------------------------------------
(* The lines that came.                                                     *)

PipeInv ==
  /\ job \in DOMAIN Jobs /\ eof \in BOOLEAN
  /\ IsSeq(received) /\ Len(received) <= Job.max
  /\ \A i \in 1 .. Len(received) : received[i] \in Job.lines[i]
  /\ torn \in {None} \cup Job.torn

\* The first line is no record, or there is none.
NoStream ==
  Came = <<>> \/ Came[1].text # "json" \/ KindOf(Came[1].value) = None
Stream ==
  Came # <<>> /\ Came[1].text = "json" /\ KindOf(Came[1].value) # None

\* The lines taken, of those that are not blank.
TakenLines == Subsequence(received, {i \in 1 .. taken : received[i].text # "blank"})

Undecided ==
  /\ taken = 0 /\ finished = None /\ lines = <<>>
  /\ formatter = NewFormatter(Job.toolResults)
  /\ pc = "document" => IF failure = "torn" THEN eof /\ Came = <<>>
                        ELSE failure \in {"json", "unrecognized"} /\ Came # <<>> /\ NoStream

OfDocument ==
  /\ eof /\ NoStream /\ taken \in Nat
  /\ \/ kind = "empty" /\ finished = <<>>
     \/ /\ kind \in {"entries", "messages"} /\ Document(WholeText) # None
        /\ Document(WholeText).doc.of = kind /\ Document(WholeText).doc.records = finished
  /\ Job.command = "events" => kind # "entries" /\ lines = <<>>

OfLines ==
  /\ Stream /\ kind = KindOf(Came[1].value) /\ taken \in 0 .. Len(received)
  /\ lines # <<>> => taken > 0
  /\ Job.command = "events" /\ kind = "messages" /\ taken > 0 =>
       Came[1].value.type = "pictl_cursor"
  /\ Job.command = "messages" /\ kind = "messages" =>
       formatter = LET f == PushAll(NewFormatter(Job.toolResults), Records(TakenLines))
                   IN IF pc = "done" THEN End(f) ELSE f
  /\ Job.command # "messages" /\ Job.filter = None => Len(lines) = Len(TakenLines)
  /\ pc = "done" => Queue = {}

DecodedInv ==
  /\ pc \in {"first", "document", "records", "done", "failed"} /\ IsSeq(lines)
  /\ pc \in {"first", "document"} => Undecided
  /\ pc \in {"records", "done"} => IF finished = None THEN OfLines ELSE OfDocument
  /\ pc = "failed" => RoundTrip /\ SwappedPipe

LEMMA KindOfThree ==
  ASSUME NEW value, KindOf(value) # None
  PROVE  KindOf(value) \in {"messages", "entries", "events"} /\ value.type # None
<1>1. KindOf(value) \in {"messages", "entries", "events"}
  BY DEF KindOf
<1>2. ASSUME value.type = None PROVE FALSE
  <2>1. ClassifyRecord(value) = None
    BY <1>2, NoneAssumption DEF ClassifyRecord
  <2>2. ClassifyRecord(value) \notin {"entry", "message", "cursor", "event"}
    BY <2>1, NoneAssumption
  <2>3. KindOf(value) = None
    BY <2>2 DEF KindOf
  <2>4. QED
    BY <2>3
<1>3. QED
  BY <1>1, <1>2

LEMMA JobFacts ==
  ASSUME PipeInv
  PROVE  /\ Job.command \in {"messages", "entries", "events", "tree"}
         /\ Job.max \in Nat /\ Len(received) \in Nat
         /\ \A i \in 1 .. Len(received) : IsLine(received[i])
         /\ torn # None => IsLine(torn)
<1>1. Len(received) \in Nat
  BY IsSeqOf DEF PipeInv, IsSeq
<1>2. /\ Job.command \in {"messages", "entries", "events", "tree"} /\ Job.max \in Nat
      /\ \A n \in 1 .. Job.max : \A line \in Job.lines[n] : IsLine(line)
      /\ \A line \in Job.torn : IsLine(line)
  BY JobsAssumption, Zenon DEF PipeInv, Job
<1>3. \A i \in 1 .. Len(received) : i \in 1 .. Job.max
  BY <1>1, <1>2 DEF PipeInv
<1>4. \A i \in 1 .. Len(received) : received[i] \in Job.lines[i]
  BY DEF PipeInv
<1>5. torn # None => torn \in Job.torn
  BY DEF PipeInv
<1>6. QED
  BY <1>1, <1>2, <1>3, <1>4, <1>5, Zenon

LEMMA NonblankElements ==
  ASSUME NEW s, IsSeq(s)
  PROVE  /\ IsSeq(Nonblank(s)) /\ Len(Nonblank(s)) \in Nat
         /\ \A i \in 1 .. Len(s) : s[i].text # "blank" =>
              \E k \in 1 .. Len(Nonblank(s)) : Nonblank(s)[k] = s[i]
         /\ \A k \in 1 .. Len(Nonblank(s)) :
              \E i \in 1 .. Len(s) : Nonblank(s)[k] = s[i] /\ s[i].text # "blank"
<1> DEFINE I == {i \in 1 .. Len(s) : s[i].text # "blank"}
           t == Subsequence(s, I)
<1>1. t = Nonblank(s)
  BY DEF Nonblank
<1>2. IsSeq(t)
  BY SubsequenceEmbeds
<1>3. PICK pos : Embeds(s, I, t, pos)
  BY SubsequenceEmbeds
<1>4. Len(t) \in Nat
  BY <1>2, IsSeqOf DEF IsSeq
<1> HIDE DEF t
<1>5. \A k \in 1 .. Len(t) : pos[k] \in I /\ t[k] = s[pos[k]]
  <2> HIDE DEF I
  <2> QED BY <1>3 DEF Embeds
<1>6. \A i \in I : \E k \in 1 .. Len(t) : pos[k] = i
  <2> HIDE DEF I
  <2> QED BY <1>3 DEF Embeds
<1>7. \A i \in I : \E k \in 1 .. Len(t) : t[k] = s[i]
  <2> HIDE DEF I
  <2> QED BY <1>5, <1>6
<1>8. QED
  BY <1>1, <1>2, <1>4, <1>5, <1>7

LEMMA NonblankLeast ==
  ASSUME NEW s, IsSeq(s), NEW m \in 1 .. Len(s), s[m].text # "blank",
         \A i \in 1 .. Len(s) : s[i].text # "blank" => m <= i
  PROVE  Nonblank(s) # <<>> /\ Nonblank(s)[1] = s[m]
<1> DEFINE I == {i \in 1 .. Len(s) : s[i].text # "blank"}
<1>1. I \subseteq 1 .. Len(s) /\ m \in I /\ \A i \in I : m <= i
  OBVIOUS
<1> HIDE DEF I
<1>2. Subsequence(s, I) # <<>> /\ Subsequence(s, I)[1] = s[m]
  BY <1>1, SubsequenceFirst
<1>3. QED
  BY <1>2 DEF I, Nonblank

LEMMA NonblankGrows ==
  ASSUME NEW s, IsSeq(s), NEW t, IsSeq(t), Len(s) <= Len(t),
         \A i \in 1 .. Len(s) : s[i] = t[i], Nonblank(s) # <<>>
  PROVE  Nonblank(t) # <<>> /\ Nonblank(t)[1] = Nonblank(s)[1]
<1> DEFINE I == {i \in 1 .. Len(s) : s[i].text # "blank"}
<1>1. Len(s) \in Nat /\ Len(t) \in Nat
  BY IsSeqOf DEF IsSeq
<1>2. I # {}
  <2>1. Subsequence(s, {}) = <<>>
    BY SubsequenceEmpty
  <2>2. QED
    BY <2>1 DEF Nonblank
<1>3. PICK m \in I : \A i \in I : m <= i
  <2>1. I \subseteq Nat
    BY <1>1
  <2> HIDE DEF I
  <2>2. QED
    BY <1>2, <2>1, LeastOf
<1>4. Nonblank(s)[1] = s[m]
  BY <1>3, NonblankLeast
<1>5. m \in 1 .. Len(t) /\ t[m] = s[m] /\ t[m].text # "blank"
  BY <1>1
<1>6. \A i \in 1 .. Len(t) : t[i].text # "blank" => m <= i
  <2> SUFFICES ASSUME NEW i \in 1 .. Len(t), t[i].text # "blank"
               PROVE  m <= i
    OBVIOUS
  <2>1. CASE i <= Len(s)
    <3>1. i \in I
      BY <1>1, <2>1
    <3>2. QED
      BY <1>3, <3>1
  <2>2. CASE ~(i <= Len(s))
    BY <1>1, <2>2
  <2>3. QED
    BY <2>1, <2>2
<1>7. QED
  BY <1>4, <1>5, <1>6, NonblankLeast

LEMMA WholeTextIsSeq ==
  ASSUME PipeInv
  PROVE  /\ IsSeq(WholeText) /\ Len(received) <= Len(WholeText)
         /\ \A i \in 1 .. Len(received) : received[i] = WholeText[i]
         /\ \A i \in 1 .. Len(WholeText) : IsLine(WholeText[i])
<1> DEFINE more == IF torn = None THEN <<>> ELSE <<torn>>
<1>1. IsSeq(more) /\ Len(more) = (IF torn = None THEN 0 ELSE 1)
      /\ (torn # None => more[1] = torn)
  BY ShortSeqs
<1>2. WholeText = received \o more
  BY DEF WholeText
<1>3. IsSeq(received)
  BY DEF PipeInv
<1> HIDE DEF more
<1>4. /\ IsSeq(WholeText) /\ Len(received) \in Nat /\ Len(more) \in Nat
      /\ Len(WholeText) = Len(received) + Len(more)
      /\ \A i \in 1 .. Len(received) : WholeText[i] = received[i]
      /\ \A i \in Len(received) + 1 .. Len(received) + Len(more) :
           WholeText[i] = more[i - Len(received)]
  BY <1>1, <1>2, <1>3, ConcatAny
<1>5. \A i \in 1 .. Len(WholeText) : IsLine(WholeText[i])
  <2> SUFFICES ASSUME NEW i \in 1 .. Len(WholeText)
               PROVE  IsLine(WholeText[i])
    OBVIOUS
  <2>1. CASE i <= Len(received)
    <3>1. i \in 1 .. Len(received)
      BY <1>4, <2>1
    <3>2. WholeText[i] = received[i]
      BY <1>4, <3>1
    <3>3. QED
      BY <3>1, <3>2, JobFacts
  <2>2. CASE ~(i <= Len(received))
    <3>1. i = Len(received) + 1 /\ Len(more) = 1
      BY <1>1, <1>4, <2>2
    <3>2. i \in Len(received) + 1 .. Len(received) + Len(more) /\ i - Len(received) = 1
      BY <1>4, <3>1
    <3>3. WholeText[i] = more[1]
      BY <1>4, <3>2
    <3>4. torn # None /\ more[1] = torn
      BY <1>1, <3>1
    <3>5. QED
      BY <3>3, <3>4, JobFacts, Zenon
  <2>3. QED
    BY <2>1, <2>2
<1>6. QED
  BY <1>4, <1>5

\* What a whole text may be the document of.
LEMMA DocumentFacts ==
  ASSUME PipeInv, Document(WholeText) # None
  PROVE  LET doc == Document(WholeText).doc IN
         /\ doc.of \in {None, "entries", "messages", "tree"}
         /\ IsSeq(doc.records) /\ doc.records # None
         /\ \A i \in 1 .. Len(doc.records) :
              doc.of = "messages" => doc.records[i].type = "message"
<1> DEFINE L == Nonblank(WholeText)
<1>1. Document(WholeText) = L[1].value /\ Len(L) \in {1, 2}
  BY DEF Document
<1>2. PICK i \in 1 .. Len(WholeText) : L[1] = WholeText[i]
  <2>1. 1 \in 1 .. Len(L)
    BY <1>1
  <2>2. QED
    BY <2>1, WholeTextIsSeq, NonblankElements
<1>3. IsLine(L[1])
  BY <1>2, WholeTextIsSeq
<1>4. QED
  BY <1>1, <1>3 DEF IsLine

\* A stream is no document.
LEMMA StreamNoDocument ==
  ASSUME PipeInv, Stream
  PROVE  Document(WholeText) = None \/ Document(WholeText).doc.of = None
<1> SUFFICES ASSUME Document(WholeText) # None
             PROVE  Document(WholeText).doc.of = None
  OBVIOUS
<1> DEFINE L == Nonblank(WholeText)
<1>1. IsSeq(received)
  BY DEF PipeInv
<1>2. L[1] = Came[1]
  BY <1>1, WholeTextIsSeq, NonblankGrows DEF Came, Stream
<1>3. Document(WholeText) = L[1].value /\ Len(L) \in {1, 2}
  BY DEF Document
<1>4. PICK i \in 1 .. Len(WholeText) : L[1] = WholeText[i]
  <2>1. 1 \in 1 .. Len(L)
    BY <1>3
  <2>2. QED
    BY <2>1, WholeTextIsSeq, NonblankElements
<1>5. IsLine(L[1])
  BY <1>4, WholeTextIsSeq
<1>6. L[1].value.type # None
  BY <1>2, KindOfThree DEF Stream
<1>7. QED
  BY <1>3, <1>5, <1>6 DEF IsLine

LEMMA Shapes ==
  ASSUME NEW value
  PROVE  /\ value.keyed /\ value.type \in EntryTypes => ClassifyRecord(value) = "entry"
         /\ ~value.keyed /\ value.type \in MessageRecordTypes => ClassifyRecord(value) = "message"
         /\ value.type = "pictl_cursor" => ClassifyRecord(value) = "cursor"
         /\ value.type \notin EntryTypes \cup MessageRecordTypes \cup {"pictl_cursor", None} =>
              ClassifyRecord(value) = "event"
<1>1. None \notin EntryTypes \cup MessageRecordTypes \cup {"pictl_cursor"}
  BY NoneAssumption
<1>2. "pictl_cursor" \notin EntryTypes \cup MessageRecordTypes
  BY DEF EntryTypes, MessageRecordTypes
<1>3. value.keyed /\ value.type \in EntryTypes => ClassifyRecord(value) = "entry"
  BY <1>1, <1>2 DEF ClassifyRecord
<1>4. ~value.keyed /\ value.type \in MessageRecordTypes => ClassifyRecord(value) = "message"
  BY <1>1, <1>2 DEF ClassifyRecord
<1>5. value.type = "pictl_cursor" => ClassifyRecord(value) = "cursor"
  BY <1>1, <1>2 DEF ClassifyRecord
<1>6. value.type \notin EntryTypes \cup MessageRecordTypes \cup {"pictl_cursor", None} =>
        ClassifyRecord(value) = "event"
  BY DEF ClassifyRecord
<1>7. QED
  BY <1>3, <1>4, <1>5, <1>6

\* What each line of a stream is classified as.
LEMMA StreamShapes ==
  ASSUME NEW type \in {"messages", "entries", "events"}, StreamOf(type),
         NEW i \in 1 .. Len(Came)
  PROVE  LET v == Came[i].value IN
         /\ Came[i].text = "json"
         /\ type = "entries" => ClassifyRecord(v) = "entry" /\ ValidEntry(v)
         /\ type = "messages" =>
              /\ ValidMessage(v)
              /\ \/ ClassifyRecord(v) = "message" /\ v.type # "pictl_cursor"
                 \/ ClassifyRecord(v) = "cursor" /\ Shape(i) = "cursor" /\ i = Len(Came)
         /\ type = "events" =>
              \/ ClassifyRecord(v) = "event" /\ v.type # "pictl_cursor"
              \/ /\ ClassifyRecord(v) = "cursor" /\ v.type = "pictl_cursor"
                 /\ i = Len(Came) /\ ValidMessage(v) /\ Shape(i) = "cursor"
<1> DEFINE v == Came[i].value
<1>1. Came[i].text = "json"
  BY DEF StreamOf
<1>2. ASSUME type = "entries" PROVE ClassifyRecord(v) = "entry" /\ ValidEntry(v)
  <2>1. ValidEntry(v)
    BY <1>2 DEF StreamOf
  <2>2. QED
    BY <2>1, Shapes DEF ValidEntry
<1>3. Shape(i) = "message" =>
        ClassifyRecord(v) = "message" /\ v.type # "pictl_cursor"
  BY Shapes, NoneAssumption DEF Shape, MessageRecordTypes
<1>4. Shape(i) = "cursor" => ClassifyRecord(v) = "cursor" /\ v.type = "pictl_cursor"
  BY Shapes, NoneAssumption DEF Shape
<1>5. Shape(i) = "event" => ClassifyRecord(v) = "event" /\ v.type # "pictl_cursor"
  BY Shapes, NoneAssumption DEF Shape, MessageRecordTypes
<1>6. ASSUME type = "messages"
      PROVE  /\ ValidMessage(v)
             /\ Shape(i) = "message" \/ (Shape(i) = "cursor" /\ i = Len(Came))
  BY <1>6 DEF StreamOf
<1>7. ASSUME type = "events"
      PROVE  Shape(i) = "event" \/ (Shape(i) = "cursor" /\ i = Len(Came) /\ ValidMessage(v))
  BY <1>7 DEF StreamOf
<1>8. QED
  BY <1>1, <1>2, <1>3, <1>4, <1>5, <1>6, <1>7

LEMMA StreamKind ==
  ASSUME PipeInv, Stream, NEW type \in {"messages", "entries", "events"}, StreamOf(type)
  PROVE  \/ KindOf(Came[1].value) = type
         \/ /\ type = "events" /\ KindOf(Came[1].value) = "messages"
            /\ Len(Came) = 1 /\ Came[1].value.type = "pictl_cursor"
            /\ StreamOf("messages")
<1> DEFINE v == Came[1].value
<1>1. Len(Came) \in Nat /\ IsSeq(Came)
  BY NonblankElements DEF PipeInv, Came
<1>2. 1 \in 1 .. Len(Came)
  <2>1. Len(Came) # 0
    <3>1. Came # <<>>
      BY DEF Stream
    <3>2. Len(Came) = 0 => Came = <<>>
      BY <1>1, ShortSeqs, SameSeq
    <3>3. QED
      BY <3>1, <3>2
  <2>2. QED
    BY <1>1, <2>1
<1>3. KindOf(v) # None
  BY DEF Stream
<1>4. CASE type = "entries"
  BY <1>2, <1>4, StreamShapes DEF KindOf
<1>5. CASE type = "messages"
  BY <1>2, <1>5, StreamShapes DEF KindOf
<1>6. CASE type = "events"
  <2>1. CASE ClassifyRecord(v) = "event"
    BY <1>3, <1>6, <2>1 DEF KindOf
  <2>2. CASE ClassifyRecord(v) # "event"
    <3>1. /\ ClassifyRecord(v) = "cursor" /\ v.type = "pictl_cursor"
          /\ 1 = Len(Came) /\ ValidMessage(v) /\ Shape(1) = "cursor"
          /\ Came[1].text = "json"
      BY <1>2, <1>6, <2>2, StreamShapes
    <3>2. KindOf(v) = "messages"
      BY <3>1 DEF KindOf
    <3>3. StreamOf("messages")
      <4>1. \A i \in 1 .. Len(Came) : i = 1
        BY <3>1
      <4>2. \A i \in 1 .. Len(Came) : Came[i].text = "json"
        BY <3>1, <4>1
      <4>3. \A i \in 1 .. Len(Came) :
              /\ ValidMessage(Came[i].value)
              /\ Shape(i) = "message" \/ (Shape(i) = "cursor" /\ i = Len(Came))
        BY <3>1, <4>1
      <4>4. QED
        BY <4>2, <4>3 DEF StreamOf
    <3>4. QED
      BY <1>6, <3>1, <3>2, <3>3
  <2>3. QED
    BY <2>1, <2>2
<1>7. QED
  BY <1>4, <1>5, <1>6

LEMMA NoStreamNoHold ==
  ASSUME PipeInv, NEW type \in {"messages", "entries", "events"}, NoStream,
         StreamOf(type), Recognized
  PROVE  Came = <<>>
<1> SUFFICES ASSUME Came # <<>> PROVE FALSE
  OBVIOUS
<1>1. Len(Came) \in Nat /\ IsSeq(Came)
  BY NonblankElements DEF PipeInv, Came
<1>2. Len(Came) # 0
  <2>1. Len(Came) = 0 => Came = <<>>
    BY <1>1, ShortSeqs, SameSeq
  <2>2. QED
    BY <2>1
<1>3. 1 \in 1 .. Len(Came)
  BY <1>1, <1>2
<1>4. Came[1].text = "json"
  BY <1>3 DEF StreamOf
<1>5. QED
  BY <1>4 DEF NoStream, Recognized

\* Which of the ways to hold a type is possible.
LEMMA HoldsCases ==
  ASSUME PipeInv, NEW type \in {"messages", "entries", "events"}, Holds(type)
  PROVE  /\ Stream => StreamOf(type)
         /\ NoStream => /\ eof /\ Document(WholeText) # None
                        /\ Document(WholeText).doc.of = type
<1>1. Stream => StreamOf(type)
  BY StreamNoDocument, NoneAssumption DEF Holds
<1>2. NoStream /\ StreamOf(type) /\ Recognized => Came = <<>>
  BY NoStreamNoHold
<1>3. QED
  BY <1>1, <1>2 DEF Holds

LEMMA PipeUnchanged ==
  ASSUME UNCHANGED <<job, pipe>>
  PROVE  /\ Job' = Job /\ Came' = Came /\ (NoStream' <=> NoStream) /\ (Stream' <=> Stream)
         /\ (Recognized' <=> Recognized) /\ Document(WholeText)' = Document(WholeText)
         /\ (PipeInv' <=> PipeInv)
         /\ \A type : (StreamOf(type)' <=> StreamOf(type)) /\ (Holds(type)' <=> Holds(type))
<1>1. job' = job /\ received' = received /\ torn' = torn /\ eof' = eof
  BY DEF pipe
<1>2. Job' = Job /\ (PipeInv' <=> PipeInv)
  BY <1>1 DEF Job, PipeInv
<1>3. Came' = Came /\ WholeText' = WholeText
  BY <1>1 DEF Came, WholeText
<1>4. /\ NoStream' <=> NoStream
      /\ Stream' <=> Stream
      /\ Recognized' <=> Recognized
      /\ Document(WholeText)' = Document(WholeText)
  BY <1>3 DEF NoStream, Stream, Recognized
<1>5. \A type : StreamOf(type)' <=> StreamOf(type)
  BY <1>3 DEF StreamOf, Shape
<1>6. \A type : Holds(type)' <=> Holds(type)
  BY <1>1, <1>3, <1>4, <1>5 DEF Holds
<1>7. QED
  BY <1>2, <1>3, <1>4, <1>5, <1>6

\* When it is right to fail.
LEMMA FailedRight ==
  ASSUME UNCHANGED <<job, pipe>>, NEW error, Fail(error),
         error # "invalid" => \A type \in {"messages", "entries", "events"} :
           Holds(type) => /\ error \in {"messages", "entries", "events"}
                          /\ Holds(error) /\ lines = <<>>,
         StreamOf(Job.command) /\ Recognized => Came = <<>>
  PROVE  RoundTrip' /\ SwappedPipe'
<1>1. pc' = "failed" /\ failure' = error /\ lines' = lines
  BY DEF Fail, output
<1>2. ~(Waiting \/ pc = "done")'
  BY <1>1 DEF Waiting
<1>3. RoundTrip'
  BY <1>1, <1>2, PipeUnchanged DEF RoundTrip
<1>4. SwappedPipe'
  BY <1>1, PipeUnchanged DEF SwappedPipe
<1>5. QED
  BY <1>3, <1>4

-----------------------------------------------------------------------------
(* The lines taken.                                                         *)

LEMMA RecordsSteps ==
  ASSUME NEW s, IsSeq(s), NEW x
  PROVE  /\ IsSeq(Records(s)) /\ Records(<<>>) = <<>>
         /\ Records(Append(s, x)) = Append(Records(s), x.value.record)
<1>1. ASSUME NEW t, IsSeq(t)
      PROVE  IsSeq(Records(t)) /\ Len(Records(t)) = Len(t)
             /\ \A i \in 1 .. Len(t) : Records(t)[i] = t[i].value.record
  <2>1. Len(t) \in Nat
    BY <1>1, IsSeqOf DEF IsSeq
  <2>2. Records(t) \in [1 .. Len(t) -> {t[i].value.record : i \in 1 .. Len(t)}]
    BY DEF Records
  <2>3. \A i \in 1 .. Len(t) : Records(t)[i] = t[i].value.record
    BY DEF Records
  <2>4. QED
    BY <2>1, <2>2, <2>3, FunctionIsSeq, Zenon
<1>2. Records(<<>>) = <<>>
  <2>1. IsSeq(<<>>) /\ Len(<<>>) = 0
    BY ShortSeqs
  <2>2. IsSeq(Records(<<>>)) /\ Len(Records(<<>>)) = 0
    BY <1>1, <2>1
  <2>3. QED
    BY <2>1, <2>2, SameSeq
<1>3. Records(Append(s, x)) = Append(Records(s), x.value.record)
  <2> DEFINE t == Append(s, x)
             r == Records(s)
             y == x.value.record
  <2>1. /\ IsSeq(t) /\ Len(s) \in Nat /\ Len(t) = Len(s) + 1
        /\ \A i \in 1 .. Len(s) : t[i] = s[i]
        /\ t[Len(s) + 1] = x
    BY AppendAny
  <2> HIDE DEF t
  <2>2. /\ IsSeq(Records(t)) /\ Len(Records(t)) = Len(t)
        /\ \A i \in 1 .. Len(t) : Records(t)[i] = t[i].value.record
    BY <1>1, <2>1
  <2>3. /\ IsSeq(r) /\ Len(r) = Len(s) /\ \A i \in 1 .. Len(s) : r[i] = s[i].value.record
    BY <1>1
  <2> HIDE DEF r, y
  <2>4. /\ IsSeq(Append(r, y)) /\ Len(Append(r, y)) = Len(r) + 1
        /\ \A i \in 1 .. Len(r) : Append(r, y)[i] = r[i]
        /\ Append(r, y)[Len(r) + 1] = y
    BY <2>3, AppendAny
  <2>5. \A i \in 1 .. Len(t) : Records(t)[i] = Append(r, y)[i]
    <3> SUFFICES ASSUME NEW i \in 1 .. Len(t)
                 PROVE  Records(t)[i] = Append(r, y)[i]
      OBVIOUS
    <3>1. CASE i = Len(s) + 1
      BY <2>1, <2>2, <2>3, <2>4, <3>1 DEF y
    <3>2. CASE i # Len(s) + 1
      <4>1. i \in 1 .. Len(s)
        BY <2>1, <3>2
      <4>2. QED
        BY <2>1, <2>2, <2>3, <2>4, <4>1
    <3>3. QED
      BY <3>1, <3>2
  <2>6. Len(Records(t)) = Len(Append(r, y))
    BY <2>1, <2>2, <2>3, <2>4
  <2>7. Records(t) = Append(r, y)
    BY <2>2, <2>4, <2>5, <2>6, SameSeq
  <2>8. QED
    BY <2>7 DEF t, r, y
<1>4. QED
  BY <1>1, <1>2, <1>3

LEMMA HeadOfQueue ==
  ASSUME PipeInv, taken \in Nat, Queue # {}
  PROVE  /\ Head1 \in taken + 1 .. Len(received) /\ Head1 \in 1 .. Len(received)
         /\ Head1 \in Nat /\ taken < Head1
         /\ received[Head1].text # "blank"
         /\ \A i \in taken + 1 .. Len(received) : received[i].text # "blank" => Head1 <= i
<1>1. Len(received) \in Nat
  BY JobFacts
<1>2. Queue \subseteq Nat
  BY <1>1 DEF Queue
<1>3. \E i \in Queue : \A j \in Queue : i <= j
  BY <1>2, LeastOf
<1>4. PICK h : h = Head1
  OBVIOUS
<1>5. h \in Queue /\ \A j \in Queue : h <= j
  BY <1>3, <1>4 DEF Head1
<1>6. QED
  BY <1>1, <1>4, <1>5 DEF Queue

LEMMA FirstLine ==
  ASSUME PipeInv, taken = 0
  PROVE  /\ Queue = {} => Came = <<>>
         /\ Queue # {} => Came # <<>> /\ Came[1] = received[Head1]
<1>1. IsSeq(received) /\ taken \in Nat
  BY DEF PipeInv
<1>2. ASSUME Queue = {} PROVE Came = <<>>
  <2>1. {i \in 1 .. Len(received) : received[i].text # "blank"} = {}
    BY <1>2 DEF Queue
  <2>2. QED
    BY <1>1, <2>1, SubsequenceEmpty DEF Came, Nonblank
<1>3. ASSUME Queue # {} PROVE Came # <<>> /\ Came[1] = received[Head1]
  <2>1. PICK h : h = Head1
    OBVIOUS
  <2>2. /\ h \in 1 .. Len(received) /\ received[h].text # "blank"
        /\ \A i \in 1 .. Len(received) : received[i].text # "blank" => h <= i
    BY <1>1, <1>3, <2>1, HeadOfQueue
  <2>3. QED
    BY <1>1, <2>1, <2>2, NonblankLeast DEF Came
<1>4. QED
  BY <1>2, <1>3

LEMMA TakenAll ==
  ASSUME PipeInv, taken \in 0 .. Len(received), Queue = {}
  PROVE  TakenLines = Came
<1>1. Len(received) \in Nat
  BY JobFacts
<1>2. \A i \in 1 .. Len(received) : received[i].text # "blank" => i \in 1 .. taken
  BY <1>1 DEF Queue
<1>3. {i \in 1 .. taken : received[i].text # "blank"}
        = {i \in 1 .. Len(received) : received[i].text # "blank"}
  BY <1>1, <1>2
<1>4. QED
  BY <1>3 DEF TakenLines, Came, Nonblank

LEMMA TakenNext ==
  ASSUME PipeInv, taken \in 0 .. Len(received), Queue # {},
         received' = received, taken' = Head1
  PROVE  /\ TakenLines' = Append(TakenLines, received[Head1])
         /\ IsSeq(TakenLines)
<1> DEFINE I == {i \in 1 .. taken : received[i].text # "blank"}
<1>1. Len(received) \in Nat /\ IsSeq(received) /\ taken \in Nat
  BY JobFacts DEF PipeInv
<1>2. PICK h : h = Head1
  OBVIOUS
<1>3. /\ h \in 1 .. Len(received) /\ h \in Nat /\ taken < h
      /\ received[h].text # "blank"
      /\ \A i \in taken + 1 .. Len(received) : received[i].text # "blank" => h <= i
  BY <1>1, <1>2, HeadOfQueue
<1>4. I \subseteq 1 .. h - 1 /\ I \subseteq 1 .. Len(received)
  BY <1>1, <1>3
<1>5. {i \in 1 .. h : received[i].text # "blank"} = I \cup {h}
  <2>1. ASSUME NEW i \in 1 .. h, received[i].text # "blank"
        PROVE  i \in 1 .. taken \/ i = h
    <3>1. CASE i <= taken
      BY <1>1, <3>1
    <3>2. CASE ~(i <= taken)
      <4>1. i \in taken + 1 .. Len(received)
        BY <1>1, <1>3, <3>2
      <4>2. h <= i
        BY <1>3, <2>1, <4>1
      <4>3. QED
        BY <1>3, <4>2
    <3>3. QED
      BY <3>1, <3>2
  <2>2. \A i \in I \cup {h} : i \in 1 .. h /\ received[i].text # "blank"
    BY <1>1, <1>3
  <2>3. QED
    BY <2>1, <2>2
<1> HIDE DEF I
<1>6. Subsequence(received, I \cup {h}) = Append(Subsequence(received, I), received[h])
  BY <1>1, <1>3, <1>4, SubsequenceNext
<1>7. IsSeq(Subsequence(received, I))
  BY <1>1, <1>4, SubsequenceEmbeds
<1>8. TakenLines' = Subsequence(received, I \cup {h})
  BY <1>2, <1>5 DEF TakenLines
<1>9. TakenLines = Subsequence(received, I)
  BY DEF TakenLines, I
<1>10. QED
  BY <1>2, <1>6, <1>7, <1>8, <1>9

LEMMA TakenNone ==
  ASSUME PipeInv, taken = 0
  PROVE  TakenLines = <<>>
<1>1. {i \in 1 .. taken : received[i].text # "blank"} = {}
  OBVIOUS
<1>2. IsSeq(received)
  BY DEF PipeInv
<1>3. QED
  BY <1>1, <1>2, SubsequenceEmpty DEF TakenLines

\* A chunk comes after what there is.
LEMMA ReceivedMore ==
  ASSUME PipeInv, ReadChunk
  PROVE  /\ PipeInv' /\ Len(received) <= Len(received')
         /\ \A i \in 1 .. Len(received) : received[i] = received'[i]
         /\ Came # <<>> => Came' # <<>> /\ Came'[1] = Came[1]
         /\ taken \in 0 .. Len(received) => TakenLines' = TakenLines
                                            /\ taken' \in 0 .. Len(received')
<1>1. PICK n \in 1 .. Job.chunk, first \in Job.lines[Len(received) + 1] :
        \E last \in Job.lines[Len(received) + n] :
          /\ Len(received) + n <= Job.max
          /\ received' = received \o IF n = 1 THEN <<first>> ELSE <<first, last>>
  BY DEF ReadChunk
<1>2. PICK last \in Job.lines[Len(received) + n] :
          /\ Len(received) + n <= Job.max
          /\ received' = received \o IF n = 1 THEN <<first>> ELSE <<first, last>>
  BY <1>1
<1>3. Len(received) \in Nat /\ IsSeq(received) /\ Job.max \in Nat /\ n \in 1 .. 2
  BY JobFacts, JobsAssumption DEF PipeInv, Job
<1> DEFINE more == IF n = 1 THEN <<first>> ELSE <<first, last>>
<1>4. /\ IsSeq(more) /\ Len(more) = n /\ more[1] = first
      /\ n = 2 => more[2] = last
  BY <1>3, ShortSeqs
<1>5. received' = received \o more
  BY <1>2
<1> HIDE DEF more
<1>6. /\ IsSeq(received') /\ Len(received') = Len(received) + n
      /\ \A i \in 1 .. Len(received) : received'[i] = received[i]
      /\ \A i \in Len(received) + 1 .. Len(received) + n :
           received'[i] = more[i - Len(received)]
  BY <1>3, <1>4, <1>5, ConcatAny
<1>7. UNCHANGED <<job, torn, eof, taken>> /\ Job' = Job
  BY DEF ReadChunk, Job
<1>8. \A i \in 1 .. Len(received') : received'[i] \in Job.lines[i]
  <2> SUFFICES ASSUME NEW i \in 1 .. Len(received')
               PROVE  received'[i] \in Job.lines[i]
    OBVIOUS
  <2>1. CASE i <= Len(received)
    <3>1. i \in 1 .. Len(received)
      BY <1>3, <2>1
    <3>2. QED
      BY <1>6, <3>1 DEF PipeInv
  <2>2. CASE i = Len(received) + 1
    <3>1. i \in Len(received) + 1 .. Len(received) + n /\ i - Len(received) = 1
      BY <1>3, <1>6, <2>2
    <3>2. received'[i] = first
      BY <1>4, <1>6, <3>1
    <3>3. QED
      BY <1>1, <2>2, <3>2
  <2>3. CASE i = Len(received) + 2 /\ n = 2
    <3>1. i \in Len(received) + 1 .. Len(received) + n /\ i - Len(received) = 2
      BY <1>3, <2>3
    <3>2. received'[i] = last
      BY <1>4, <1>6, <2>3, <3>1
    <3>3. QED
      BY <1>2, <2>3, <3>2
  <2>4. i <= Len(received) \/ i = Len(received) + 1 \/ (i = Len(received) + 2 /\ n = 2)
    BY <1>3, <1>6
  <2>5. QED
    BY <2>1, <2>2, <2>3, <2>4
<1>9. Len(received') <= Job.max
  BY <1>2, <1>6
<1>10. PipeInv'
  BY <1>6, <1>7, <1>8, <1>9 DEF PipeInv
<1>11. Len(received) <= Len(received')
  BY <1>3, <1>6
<1>12. Came # <<>> => Came' # <<>> /\ Came'[1] = Came[1]
  <2>1. SUFFICES ASSUME NEW t, t = received', Came # <<>>
                 PROVE  Nonblank(t) # <<>> /\ Nonblank(t)[1] = Came[1]
    BY DEF Came
  <2>2. QED
    BY <1>3, <1>6, <1>11, <2>1, NonblankGrows DEF Came
<1>13. ASSUME taken \in 0 .. Len(received)
       PROVE  TakenLines' = TakenLines /\ taken' \in 0 .. Len(received')
  <2> DEFINE I == {i \in 1 .. taken : received[i].text # "blank"}
  <2>1. {i \in 1 .. taken : received'[i].text # "blank"} = I
    BY <1>3, <1>6, <1>13
  <2>2. I \subseteq 1 .. Len(received)
    BY <1>3, <1>13
  <2> HIDE DEF I
  <2>3. Subsequence(received, I) = Subsequence(received', I)
    BY <1>3, <1>6, <1>11, <2>2, SubsequencePrefix
  <2>4. taken' = taken
    BY <1>7
  <2>5. TakenLines' = Subsequence(received', I)
    BY <2>1, <2>4 DEF TakenLines
  <2>6. TakenLines = Subsequence(received, I)
    BY DEF TakenLines, I
  <2>7. taken' \in 0 .. Len(received')
    BY <1>3, <1>6, <1>13, <2>4
  <2>8. QED
    BY <2>3, <2>5, <2>6, <2>7
<1>14. QED
  BY <1>6, <1>10, <1>11, <1>12, <1>13

-----------------------------------------------------------------------------
(* Decoding is right at every step.                                         *)

LEMMA FailedDecoded ==
  ASSUME DecodedInv, UNCHANGED <<job, pipe>>, NEW error, Fail(error),
         error # "invalid" => \A type \in {"messages", "entries", "events"} :
           Holds(type) => /\ error \in {"messages", "entries", "events"}
                          /\ Holds(error) /\ lines = <<>>,
         StreamOf(Job.command) /\ Recognized => Came = <<>>
  PROVE  DecodedInv'
<1>1. pc' = "failed" /\ lines' = lines
  BY DEF Fail, output
<1>2. RoundTrip' /\ SwappedPipe'
  BY FailedRight
<1>3. QED
  BY <1>1, <1>2 DEF DecodedInv

LEMMA DecodedInitial ==
  ASSUME Init
  PROVE  PipeInv /\ (Job.command # "tree" => DecodedInv)
<1>1. IsSeq(<<>>) /\ Len(<<>>) = 0
  BY ShortSeqs
<1>2. job \in DOMAIN Jobs /\ received = <<>> /\ torn = None /\ eof = FALSE
  BY DEF Init
<1>3. Job.max \in Nat
  BY <1>2, JobsAssumption DEF Job
<1>4. PipeInv
  <2>1. IsSeq(received) /\ Len(received) = 0
    BY <1>1, <1>2
  <2>2. \A i \in 1 .. Len(received) : FALSE
    BY <2>1
  <2>3. Len(received) <= Job.max
    BY <1>3, <2>1
  <2>4. QED
    BY <1>2, <2>1, <2>2, <2>3 DEF PipeInv
<1>5. QED
  BY <1>1, <1>4 DEF Init, DecodedInv, Undecided

LEMMA ReadChunkDecoded ==
  ASSUME PipeInv, DecodedInv, ReadChunk
  PROVE  DecodedInv'
<1>1. /\ UNCHANGED <<job, torn, eof, pc, taken, kind, finished, leaf, previous, output, failure>>
      /\ Waiting /\ ~eof
  BY DEF ReadChunk, Waiting
<1>2. Job' = Job /\ UNCHANGED <<formatter, lines, tree>>
  BY <1>1 DEF Job, output
<1>3. CASE pc = "first"
  BY <1>1, <1>2, <1>3 DEF DecodedInv, Undecided
<1>4. CASE pc = "document"
  <2>1. Undecided /\ failure # "torn" /\ NoStream /\ Came # <<>>
        /\ failure \in {"json", "unrecognized"}
    BY <1>1, <1>4 DEF DecodedInv, Undecided
  <2>2. Came' # <<>> /\ Came'[1] = Came[1]
    BY <2>1, ReceivedMore
  <2>3. NoStream'
    BY <2>1, <2>2 DEF NoStream
  <2>4. Undecided'
    BY <1>1, <1>2, <2>1, <2>2, <2>3 DEF Undecided
  <2>5. QED
    BY <1>1, <1>2, <1>4, <2>4 DEF DecodedInv
<1>5. CASE pc = "records"
  <2>1. finished = None /\ OfLines
    BY <1>1, <1>5 DEF DecodedInv, Waiting
  <2>2. Came' # <<>> /\ Came'[1] = Came[1]
        /\ TakenLines' = TakenLines /\ taken' \in 0 .. Len(received')
    BY <2>1, ReceivedMore DEF OfLines, Stream
  <2>3. Stream'
    BY <2>1, <2>2 DEF OfLines, Stream
  <2>4. OfLines'
    BY <1>1, <1>2, <1>5, <2>1, <2>2, <2>3 DEF OfLines
  <2>5. QED
    BY <1>1, <1>2, <1>5, <2>1, <2>4 DEF DecodedInv
<1>6. pc \in {"first", "document", "records"}
  BY <1>1 DEF Waiting, DecodedInv
<1>7. QED
  BY <1>3, <1>4, <1>5, <1>6

LEMMA ReadEndDecoded ==
  ASSUME PipeInv, DecodedInv, ReadEnd
  PROVE  PipeInv' /\ DecodedInv'
<1>1. /\ UNCHANGED <<job, received, pc, taken, kind, finished, leaf, previous, output, failure>>
      /\ Waiting /\ ~eof /\ eof' = TRUE /\ torn' \in {None} \cup Job.torn
  BY DEF ReadEnd, Waiting
<1>2. Job' = Job /\ UNCHANGED <<formatter, lines, tree>> /\ Came' = Came
      /\ TakenLines' = TakenLines
  BY <1>1 DEF Job, output, Came, TakenLines
<1>3. PipeInv'
  BY <1>1, <1>2 DEF PipeInv
<1>4. (NoStream' <=> NoStream) /\ (Stream' <=> Stream)
  BY <1>2 DEF NoStream, Stream
<1>5. CASE pc \in {"first", "document"}
  BY <1>1, <1>2, <1>3, <1>4, <1>5 DEF DecodedInv, Undecided
<1>6. CASE pc = "records"
  <2>1. finished = None /\ OfLines
    BY <1>1, <1>6 DEF DecodedInv, Waiting
  <2>2. OfLines'
    BY <1>1, <1>2, <1>4, <1>6, <2>1 DEF OfLines
  <2>3. QED
    BY <1>1, <1>2, <1>3, <1>6, <2>1, <2>2 DEF DecodedInv
<1>7. pc \in {"first", "document", "records"}
  BY <1>1 DEF Waiting, DecodedInv
<1>8. QED
  BY <1>3, <1>5, <1>6, <1>7

\* What is decoded of a stream and what is decoded of a document.
LEMMA DecodedOfLines ==
  ASSUME PipeInv, DecodedInv, Undecided, UNCHANGED <<job, pipe, taken>>, Stream,
         Job.command \in {"messages", "entries", "events"},
         Decoded(KindOf(Came[1].value), None, None)
  PROVE  DecodedInv'
<1> DEFINE of == KindOf(Came[1].value)
<1>1. of \in {"messages", "entries", "events"} /\ of # None
  BY KindOfThree DEF Stream
<1>2. CASE Refused(of)
  <2>1. Fail(of)
    BY <1>2 DEF Decoded
  <2>2. ASSUME NEW type \in {"messages", "entries", "events"}, Holds(type)
        PROVE  Holds(of)
    <3>1. StreamOf(type)
      BY <2>2, HoldsCases
    <3>2. StreamOf(of)
      BY <3>1, StreamKind
    <3>3. Came # <<>> /\ Recognized
      BY <1>1 DEF Stream, Recognized
    <3>4. QED
      BY <3>2, <3>3 DEF Holds
  <2>3. ASSUME StreamOf(Job.command) PROVE FALSE
    <3>1. of = Job.command \/ (Job.command = "events" /\ of = "messages")
      BY <2>3, StreamKind
    <3>2. QED
      BY <1>2, <3>1 DEF Refused
  <2>4. lines = <<>>
    BY DEF Undecided
  <2> HIDE DEF of
  <2>5. QED
    BY <1>1, <2>1, <2>2, <2>3, <2>4, FailedDecoded
<1>3. CASE ~Refused(of)
  <2>1. /\ pc' = "records" /\ kind' = of /\ finished' = None /\ UNCHANGED <<previous, output>>
        /\ taken' = taken
    BY <1>3 DEF Decoded
  <2>2. UNCHANGED <<formatter, lines, received>>
    BY <2>1 DEF output, pipe
  <2>3. taken = 0 /\ lines = <<>> /\ formatter = NewFormatter(Job.toolResults)
    BY DEF Undecided
  <2>4. /\ Job' = Job /\ Came' = Came /\ Stream'
    BY PipeUnchanged
  <2>5. TakenLines' = <<>>
    <3>1. TakenLines' = TakenLines
      BY <2>1, <2>2 DEF TakenLines
    <3>2. QED
      BY <2>3, <3>1, TakenNone
  <2>6. formatter' = PushAll(NewFormatter(Job'.toolResults), Records(TakenLines'))
    BY <2>2, <2>3, <2>4, <2>5, RecordsSteps, PushAllShort, ShortSeqs
  <2>7. taken' \in 0 .. Len(received')
    BY <2>1, <2>2, <2>3, JobFacts
  <2>8. Len(lines') = 0 /\ Len(TakenLines') = 0 /\ IsSeq(lines') /\ lines' = <<>>
    BY <2>2, <2>3, <2>5, ShortSeqs
  <2>9. OfLines'
    <3>1. (Job.command = "messages" /\ kind = "messages" =>
             formatter = LET f == PushAll(NewFormatter(Job.toolResults), Records(TakenLines))
                         IN IF pc = "done" THEN End(f) ELSE f)'
      BY <2>1, <2>6
    <3>2. kind' = KindOf(Came'[1].value) /\ taken' = 0 /\ pc' # "done"
      BY <2>1, <2>3, <2>4
    <3>3. QED
      BY <2>4, <2>7, <2>8, <3>1, <3>2 DEF OfLines
  <2>10. QED
    BY <2>1, <2>8, <2>9 DEF DecodedInv
<1>4. QED
  BY <1>2, <1>3

LEMMA ClassifyDecoded ==
  ASSUME PipeInv, DecodedInv, Job.command # "tree", Classify
  PROVE  DecodedInv'
<1> DEFINE line == received[Head1]
           of == IF line.text = "json" THEN KindOf(line.value) ELSE None
<1>1. pc = "first" /\ Queue # {} /\ UNCHANGED <<job, pipe, taken>>
  BY DEF Classify
<1>2. Undecided
  BY <1>1 DEF DecodedInv
<1>3. Came # <<>> /\ Came[1] = line
  BY <1>1, <1>2, FirstLine DEF Undecided
<1>4. Job.command \in {"messages", "entries", "events"}
  BY JobFacts
<1> HIDE DEF line
<1>5. CASE of # None
  <2>1. Decoded(of, None, None)
    BY <1>5 DEF Classify, line
  <2>2. of = KindOf(Came[1].value) /\ Stream
    BY <1>3, <1>5 DEF Stream
  <2> HIDE DEF of
  <2>3. QED
    BY <1>1, <1>2, <1>4, <2>1, <2>2, DecodedOfLines
<1>6. CASE of = None
  <2>1. /\ pc' = "document"
        /\ failure' \in {"json", "unrecognized"}
        /\ UNCHANGED <<kind, finished, leaf, previous, output>>
    BY <1>6 DEF Classify, line
  <2>2. NoStream
    BY <1>3, <1>6 DEF NoStream
  <2>3. /\ Job' = Job /\ Came' = Came /\ NoStream'
    BY <1>1, <2>2, PipeUnchanged
  <2>4. UNCHANGED <<taken, finished, formatter, lines>>
    BY <1>1, <2>1 DEF output
  <2>5. Undecided'
    BY <1>2, <1>3, <2>1, <2>3, <2>4 DEF Undecided
  <2>6. QED
    BY <2>1, <2>4, <2>5 DEF DecodedInv
<1>7. QED
  BY <1>5, <1>6

LEMMA NoLineDecoded ==
  ASSUME PipeInv, DecodedInv, NoLine
  PROVE  DecodedInv'
<1>1. /\ pc = "first" /\ Queue = {} /\ eof /\ pc' = "document" /\ failure' = "torn"
      /\ UNCHANGED <<job, pipe, taken, kind, finished, leaf, previous, output>>
  BY DEF NoLine
<1>2. Undecided
  BY <1>1 DEF DecodedInv
<1>3. Came = <<>>
  BY <1>1, <1>2, FirstLine DEF Undecided
<1>4. Job' = Job /\ Came' = Came
  BY <1>1, PipeUnchanged
<1>5. UNCHANGED <<taken, finished, formatter, lines, eof>>
  BY <1>1 DEF output, pipe
<1>6. Undecided'
  BY <1>1, <1>2, <1>3, <1>4, <1>5 DEF Undecided
<1>7. QED
  BY <1>1, <1>5, <1>6 DEF DecodedInv

LEMMA DecodeDocumentDecoded ==
  ASSUME PipeInv, DecodedInv, Job.command # "tree", DecodeDocument
  PROVE  DecodedInv'
<1> DEFINE value == Document(WholeText)
           doc == IF value = None THEN NoDocument ELSE value.doc
           valid(v) == IF doc.of = "entries" THEN ValidEntry(v) ELSE ValidMessage(v)
<1>1. pc = "document" /\ eof /\ UNCHANGED <<job, pipe, taken>>
  BY DEF DecodeDocument
<1>2. Undecided
  BY <1>1 DEF DecodedInv
<1>3. /\ taken = 0 /\ finished = None /\ lines = <<>>
      /\ IF failure = "torn" THEN Came = <<>>
         ELSE failure \in {"json", "unrecognized"} /\ NoStream
  BY <1>1, <1>2 DEF Undecided
<1>4. NoStream
  BY <1>3 DEF NoStream
<1>5. Job.command \in {"messages", "entries", "events"}
  BY JobFacts
<1>6. ASSUME NEW type \in {"messages", "entries", "events"}, Holds(type)
      PROVE  value # None /\ doc.of = type
  BY <1>4, <1>6, HoldsCases
<1>7. StreamOf(Job.command) /\ Recognized => Came = <<>>
  BY <1>1, <1>4, <1>5, HoldsCases, NoStreamNoHold
<1>8. doc.of = None \/ doc.of \in {"entries", "messages", "tree"}
  BY DocumentFacts DEF NoDocument
<1>9. ASSUME NEW error, Fail(error), error = "invalid" \/ doc.of \notin {"entries", "messages"}
      PROVE  DecodedInv'
  <2>1. ASSUME error # "invalid", NEW type \in {"messages", "entries", "events"}, Holds(type)
        PROVE  FALSE
    <3>1. doc.of = type
      BY <1>6, <2>1
    <3>2. QED
      BY <1>8, <1>9, <2>1, <3>1, NoneAssumption
  <2>2. QED
    BY <1>1, <1>7, <1>9, <2>1, FailedDecoded
<1>10. CASE doc.of \in {"entries", "messages"}
  <2>1. value # None /\ doc = value.doc
    BY <1>10, NoneAssumption DEF NoDocument
  <2>2. \/ Decoded(doc.of, doc.records, doc.leafId)
        \/ Fail("invalid")
    BY <1>10 DEF DecodeDocument
  <2>3. CASE Fail("invalid")
    BY <1>9, <2>3
  <2>4. CASE Decoded(doc.of, doc.records, doc.leafId) /\ Refused(doc.of)
    <3>1. Fail(doc.of)
      BY <2>4 DEF Decoded
    <3>2. Holds(doc.of)
      BY <1>1, <2>1 DEF Holds
    <3> HIDE DEF doc
    <3>3. QED
      BY <1>1, <1>3, <1>7, <1>10, <3>1, <3>2, FailedDecoded
  <2>5. CASE Decoded(doc.of, doc.records, doc.leafId) /\ ~Refused(doc.of)
    <3>1. /\ pc' = "records" /\ kind' = doc.of /\ finished' = doc.records
          /\ UNCHANGED output
      BY <2>5 DEF Decoded
    <3>2. UNCHANGED <<formatter, lines, eof>>
      BY <1>1, <3>1 DEF output, pipe
    <3>3. finished' # None
      BY <2>1, <3>1, DocumentFacts
    <3>4. /\ Document(WholeText)' = Document(WholeText) /\ NoStream'
      BY <1>1, <1>4, PipeUnchanged
    <3>5. OfDocument'
      <4>1. eof' /\ lines' = <<>> /\ taken' \in Nat
        BY <1>1, <1>3, <3>2
      <4>4. (Job.command = "events" => kind # "entries")'
        BY <1>1, <2>5, <3>1, PipeUnchanged DEF Refused
      <4>2. /\ kind' \in {"entries", "messages"} /\ Document(WholeText)' # None
            /\ Document(WholeText)'.doc.of = kind' /\ Document(WholeText)'.doc.records = finished'
        BY <1>10, <2>1, <3>1, <3>4
      <4>3. QED
        BY <3>4, <4>1, <4>2, <4>4 DEF OfDocument
    <3>6. IsSeq(lines')
      BY <3>2 DEF DecodedInv
    <3>7. QED
      BY <3>1, <3>3, <3>5, <3>6 DEF DecodedInv
  <2>6. QED
    BY <2>2, <2>3, <2>4, <2>5
<1>11. CASE doc.of = "tree"
  <2>1. Fail("tree")
    BY <1>11 DEF DecodeDocument
  <2>2. QED
    BY <1>9, <1>11, <2>1
<1>12. CASE doc.of = None
  <2>1. IF failure = "torn" THEN Decoded("empty", <<>>, None) ELSE Fail(failure)
    <3>1. doc.of \notin {"entries", "messages"} /\ doc.of # "tree"
      BY <1>12, NoneAssumption
    <3>2. QED
      BY <3>1 DEF DecodeDocument
  <2>2. CASE failure # "torn"
    BY <1>9, <1>12, <2>1, <2>2, NoneAssumption
  <2>3. CASE failure = "torn"
    <3>1. ~Refused("empty")
      BY DEF Refused
    <3>2. /\ pc' = "records" /\ kind' = "empty" /\ finished' = <<>>
          /\ UNCHANGED output
      BY <2>1, <2>3, <3>1 DEF Decoded
    <3>3. UNCHANGED <<formatter, lines, eof>>
      BY <1>1, <3>2 DEF output, pipe
    <3>4. NoStream' /\ finished' # None
      BY <1>1, <1>4, <3>2, PipeUnchanged, NoneAssumption
    <3>5. OfDocument'
      BY <1>1, <1>3, <3>2, <3>3, <3>4 DEF OfDocument
    <3>6. IsSeq(lines')
      BY <3>3 DEF DecodedInv
    <3>7. QED
      BY <3>2, <3>4, <3>5, <3>6 DEF DecodedInv
  <2>4. QED
    BY <2>2, <2>3
<1>13. QED
  BY <1>8, <1>10, <1>11, <1>12

\* A line of a stream is one its kind may hold.
LEMMA LineAccepted ==
  ASSUME PipeInv, OfLines, Queue # {}, NEW type \in {"messages", "entries", "events"},
         StreamOf(type)
  PROVE  LET line == received[Head1]
             value == line.value
         IN /\ StreamOf(kind) /\ kind \in {"messages", "entries", "events"}
            /\ line.text = "json" /\ ClassifyRecord(value) \in Accepted(kind)
            /\ kind = "entries" => ValidEntry(value)
            /\ kind = "messages" => ValidMessage(value)
            /\ kind = type \/ (kind = "messages" /\ value.type = "pictl_cursor")
            /\ kind = "messages" /\ Came[1].value.type = "pictl_cursor" =>
                 value.type = "pictl_cursor"
<1>1. Stream /\ kind = KindOf(Came[1].value) /\ taken \in Nat
  BY JobFacts DEF OfLines
<1>2. IsSeq(Came) /\ Len(Came) \in Nat
  BY NonblankElements DEF PipeInv, Came
<1>3. PICK h : h = Head1
  OBVIOUS
<1>4. h \in 1 .. Len(received) /\ received[h].text # "blank"
  BY <1>1, <1>3, HeadOfQueue
<1>5. PICK k \in 1 .. Len(Came) : Came[k] = received[h]
  BY <1>4, NonblankElements DEF PipeInv, Came
<1>6. 1 \in 1 .. Len(Came)
  BY <1>2, <1>5
<1>7. kind = type \/ (/\ kind = "messages" /\ Len(Came) = 1
                      /\ Came[1].value.type = "pictl_cursor" /\ StreamOf("messages"))
  BY <1>1, StreamKind
<1>8. StreamOf(kind) /\ kind \in {"messages", "entries", "events"}
  BY <1>7
<1>9. ASSUME Len(Came) = 1 PROVE received[h] = Came[1]
  <2>1. k = 1
    BY <1>5, <1>9
  <2>2. QED
    BY <1>5, <2>1
<1>10. Came[k].text = "json" /\ ClassifyRecord(Came[k].value) \in Accepted(kind)
       /\ (kind = "entries" => ValidEntry(Came[k].value))
       /\ (kind = "messages" => ValidMessage(Came[k].value))
  BY <1>8, StreamShapes DEF Accepted
<1>11. ASSUME kind = "messages", Came[1].value.type = "pictl_cursor"
       PROVE  Len(Came) = 1
  BY <1>6, <1>8, <1>11, StreamShapes
<1>12. QED
  BY <1>3, <1>5, <1>7, <1>8, <1>9, <1>10, <1>11

LEMMA LinesSteps ==
  ASSUME NEW s, IsSeq(s), NEW x
  PROVE  IsSeq(Append(s, x)) /\ Len(Append(s, x)) = Len(s) + 1 /\ Len(s) \in Nat
BY AppendAny

LEMMA ShownDecoded ==
  ASSUME PipeInv, DecodedInv, Job.command \in {"messages", "entries", "events"},
         pc = "records", finished = None, Queue # {}, UNCHANGED <<job, pipe>>,
         taken' = Head1, Show(Head1, received[Head1].value),
         ~NotForEvents(received[Head1].value)
  PROVE  DecodedInv'
<1> DEFINE value == received[Head1].value
<1>1. OfLines
  BY DEF DecodedInv
<1>2. taken \in 0 .. Len(received) /\ taken \in Nat /\ Len(received) \in Nat
  BY <1>1, JobFacts DEF OfLines
<1>3. taken' \in 0 .. Len(received) /\ taken' > 0
  BY <1>2, HeadOfQueue
<1>4. /\ Job' = Job /\ Came' = Came /\ Stream' /\ received' = received
      /\ UNCHANGED <<pc, kind, finished>>
  BY <1>1, PipeUnchanged DEF Show, OfLines, pipe
<1>5. TakenLines' = Append(TakenLines, received[Head1]) /\ IsSeq(TakenLines)
  BY <1>2, <1>4, TakenNext
<1>6. ASSUME Job.command = "events", kind = "messages"
      PROVE  Came[1].value.type = "pictl_cursor"
  <2>1. CASE taken = 0
    <3>1. value.type = "pictl_cursor"
      BY <1>6 DEF NotForEvents
    <3>2. QED
      BY <2>1, <3>1, FirstLine
  <2>2. CASE taken > 0
    BY <1>1, <1>6, <2>2 DEF OfLines
  <2>3. QED
    BY <1>2, <2>1, <2>2
<1>7. ASSUME Job.command = "messages", kind = "messages"
      PROVE  formatter' = PushAll(NewFormatter(Job.toolResults), Records(TakenLines'))
  <2>1. formatter = PushAll(NewFormatter(Job.toolResults), Records(TakenLines))
    BY <1>1, <1>7 DEF OfLines
  <2>2. formatter' = PushAll(formatter, <<value.record>>)
    BY <1>7 DEF Show, MessageRecords
  <2> DEFINE r == Records(TakenLines)
             x == value.record
             new == NewFormatter(Job.toolResults)
  <2>3. IsSeq(r) /\ Records(TakenLines') = Append(r, x)
    BY <1>5, RecordsSteps
  <2> HIDE DEF r, x, new
  <2>4. PushAll(PushAll(new, r), <<x>>) = Push(PushAll(new, r), x)
    BY PushAllShort
  <2>5. PushAll(new, Append(r, x)) = Push(PushAll(new, r), x)
    BY <2>3, PushAllAppend
  <2>6. QED
    BY <2>1, <2>2, <2>3, <2>4, <2>5 DEF r, x, new
<1>8. /\ IsSeq(lines')
      /\ Job.command # "messages" /\ Job.filter = None => Len(lines') = Len(TakenLines')
  <2>1. IsSeq(lines) /\ \A x : IsSeq(Append(lines, x)) /\ Len(Append(lines, x)) = Len(lines) + 1
    BY LinesSteps DEF DecodedInv
  <2>2. lines' \in {lines, Append(lines, Head1)}
        /\ (Job.command # "messages" /\ Job.filter = None => lines' = Append(lines, Head1))
    BY DEF Show
  <2>3. Len(TakenLines') = Len(TakenLines) + 1
    BY <1>5, LinesSteps
  <2>4. QED
    BY <1>1, <2>1, <2>2, <2>3 DEF OfLines
<1>9. OfLines'
  <2>1. (Job.command = "messages" /\ kind = "messages" =>
           formatter = LET f == PushAll(NewFormatter(Job.toolResults), Records(TakenLines))
                       IN IF pc = "done" THEN End(f) ELSE f)'
    BY <1>4, <1>7
  <2>2. /\ Job.command' = Job.command /\ kind' = KindOf(Came'[1].value)
        /\ taken' \in 0 .. Len(received')
    BY <1>1, <1>3, <1>4 DEF OfLines
  <2>3. pc' # "done"
    BY <1>4
  <2>4. (Job.command = "events" /\ kind = "messages" /\ taken > 0 =>
           Came[1].value.type = "pictl_cursor")'
    BY <1>4, <1>6
  <2>5. (Job.command # "messages" /\ Job.filter = None => Len(lines) = Len(TakenLines))'
    BY <1>4, <1>8
  <2>6. QED
    BY <1>3, <1>4, <2>1, <2>2, <2>3, <2>4, <2>5 DEF OfLines
<1>10. QED
  BY <1>4, <1>8, <1>9 DEF DecodedInv

LEMMA TakeLineDecoded ==
  ASSUME PipeInv, DecodedInv, Job.command # "tree", TakeLine
  PROVE  DecodedInv'
<1> DEFINE line == received[Head1]
           value == line.value
           valid == CASE kind = "entries"  -> ValidEntry(value)
                      [] kind = "messages" -> ValidMessage(value)
                      [] OTHER             -> TRUE
<1>1. /\ pc = "records" /\ finished = None /\ Queue # {}
      /\ taken' = Head1 /\ UNCHANGED <<job, pipe>>
  BY DEF TakeLine
<1>2. OfLines
  BY <1>1 DEF DecodedInv
<1>3. Job.command \in {"messages", "entries", "events"}
  BY JobFacts
<1>4. Stream
  BY <1>2 DEF OfLines
<1>5. /\ \A type \in {"messages", "entries", "events"} : Holds(type) => StreamOf(type)
      /\ Came # <<>> /\ Recognized
  BY <1>4, HoldsCases DEF Stream, Recognized
<1>6. ASSUME NEW type \in {"messages", "entries", "events"}, StreamOf(type)
      PROVE  line.text = "json" /\ ClassifyRecord(value) \in Accepted(kind) /\ valid
  BY <1>1, <1>2, <1>6, LineAccepted
<1>7. ASSUME line.text # "json" \/ ClassifyRecord(value) \notin Accepted(kind) \/ ~valid,
             NEW error, Fail(error)
      PROVE  DecodedInv'
  <2>1. \A type \in {"messages", "entries", "events"} : ~StreamOf(type)
    BY <1>6, <1>7
  <2>2. \A type \in {"messages", "entries", "events"} : ~Holds(type)
    BY <1>5, <2>1
  <2>3. ~StreamOf(Job.command)
    BY <1>3, <2>1
  <2>4. QED
    BY <1>1, <1>7, <2>2, <2>3, FailedDecoded
<1>8. ASSUME NotForEvents(value), Fail("messages")
      PROVE  DecodedInv'
  <2>1. Job.command = "events" /\ kind = "messages" /\ value.type # "pictl_cursor"
    BY <1>8 DEF NotForEvents
  <2>2. ASSUME NEW type \in {"messages", "entries", "events"}, Holds(type)
        PROVE  Holds("messages") /\ lines = <<>>
    <3>1. StreamOf("messages") /\ Came[1].value.type # "pictl_cursor"
      BY <1>1, <1>2, <1>5, <2>1, <2>2, LineAccepted
    <3>2. ~(taken > 0)
      BY <1>2, <2>1, <3>1 DEF OfLines
    <3>3. QED
      BY <1>2, <1>5, <3>1, <3>2 DEF Holds, OfLines
  <2>3. ~StreamOf(Job.command)
    BY <1>1, <1>2, <2>1, LineAccepted
  <2>4. QED
    BY <1>1, <1>8, <2>2, <2>3, FailedDecoded
<1>9. \/ line.text # "json" /\ Fail("json")
      \/ /\ ClassifyRecord(value) \notin Accepted(kind)
         /\ Fail(CrossPointer(ClassifyRecord(value)))
      \/ ~valid /\ Fail("invalid")
      \/ NotForEvents(value) /\ Fail("messages")
      \/ ~NotForEvents(value) /\ Show(Head1, value)
  BY Zenon DEF TakeLine, OneRecord
<1>10. ASSUME ~NotForEvents(value), Show(Head1, value)
       PROVE  DecodedInv'
  BY <1>1, <1>3, <1>10, ShownDecoded
<1> HIDE DEF valid, value, line
<1>11. QED
  BY <1>7, <1>8, <1>9, <1>10

LEMMA TakeOfDocumentDecoded ==
  ASSUME PipeInv, DecodedInv, Job.command # "tree", TakeOfDocument
  PROVE  DecodedInv'
<1>1. /\ pc = "records" /\ finished # None /\ taken < Len(finished)
      /\ UNCHANGED <<job, pipe>>
  BY DEF TakeOfDocument
<1>2. OfDocument
  BY <1>1 DEF DecodedInv
<1>3. Job.command \in {"messages", "entries", "events"}
  BY JobFacts
<1>4. taken \in Nat /\ NoStream /\ eof
  BY <1>2 DEF OfDocument
<1>5. kind # "empty"
  <2>1. finished = <<>> => Len(finished) = 0
    BY ShortSeqs
  <2>2. CASE finished = <<>>
    BY <1>1, <1>4, <2>1, <2>2
  <2>3. QED
    BY <1>2, <2>2 DEF OfDocument
<1>6. /\ kind \in {"entries", "messages"} /\ Document(WholeText) # None
      /\ Document(WholeText).doc.of = kind /\ Document(WholeText).doc.records = finished
  BY <1>2, <1>5 DEF OfDocument
<1>7. ASSUME NotForEvents(finished[taken + 1]), Fail("messages")
      PROVE  DecodedInv'
  <2>1. Job.command = "events" /\ kind = "messages"
    BY <1>7 DEF NotForEvents
  <2>2. Holds("messages") /\ lines = <<>>
    BY <1>2, <1>4, <1>6, <2>1 DEF Holds, OfDocument
  <2>3. StreamOf(Job.command) /\ Recognized => Came = <<>>
    BY <1>3, <1>4, NoStreamNoHold
  <2>4. QED
    BY <1>1, <1>7, <2>2, <2>3, FailedDecoded
<1>8. ASSUME ~NotForEvents(finished[taken + 1]), Show(taken + 1, finished[taken + 1]),
             taken' = taken + 1
      PROVE  DecodedInv'
  <2>1. Job.command # "events"
    <3>1. kind = "messages" => finished[taken + 1].type = "message"
      <4>1. IsSeq(finished)
            /\ \A i \in 1 .. Len(finished) : kind = "messages" => finished[i].type = "message"
        BY <1>6, DocumentFacts
      <4>2. taken + 1 \in 1 .. Len(finished)
        <5>1. Len(finished) \in Nat
          BY <4>1, IsSeqOf DEF IsSeq
        <5>2. QED
          BY <1>1, <1>4, <5>1
      <4>3. QED
        BY <4>1, <4>2
    <3>2. Job.command = "events" => kind = "messages"
      BY <1>2, <1>6 DEF OfDocument
    <3>3. QED
      BY <1>8, <3>1, <3>2 DEF NotForEvents
  <2>2. UNCHANGED <<pc, finished, kind, eof>>
    BY <1>1, <1>8 DEF Show, pipe
  <2>3. /\ Job' = Job /\ NoStream' /\ Document(WholeText)' = Document(WholeText)
    BY <1>1, <1>4, PipeUnchanged
  <2>4. IsSeq(lines')
    <3>1. lines' \in {lines, Append(lines, taken + 1)}
      BY <1>3, <1>8, <2>1 DEF Show
    <3>2. IsSeq(lines)
      BY DEF DecodedInv
    <3>3. QED
      BY <3>1, <3>2, LinesSteps
  <2>5. taken' \in Nat
    BY <1>4, <1>8
  <2>6. OfDocument'
    <3>1. Document(WholeText)'.doc.of = kind' /\ Document(WholeText)'.doc.records = finished'
          /\ kind' \in {"entries", "messages"} /\ Document(WholeText)' # None
      BY <1>6, <2>2, <2>3
    <3>2. QED
      BY <1>4, <2>1, <2>2, <2>3, <2>5, <3>1 DEF OfDocument
  <2>7. QED
    BY <1>1, <2>2, <2>4, <2>6 DEF DecodedInv
<1>9. QED
  BY <1>7, <1>8 DEF TakeOfDocument

LEMMA FinishDecoded ==
  ASSUME PipeInv, DecodedInv, Finish
  PROVE  DecodedInv'
<1>1. /\ pc = "records" /\ pc' = "done"
      /\ IF finished = None THEN eof /\ Queue = {} ELSE taken = Len(finished)
      /\ formatter' = IF Job.command = "messages" THEN End(formatter) ELSE formatter
      /\ UNCHANGED <<job, pipe, taken, kind, finished, leaf, previous, lines, tree, failure>>
  BY DEF Finish
<1>2. /\ Job' = Job /\ Came' = Came /\ (Stream' <=> Stream) /\ (NoStream' <=> NoStream)
      /\ Document(WholeText)' = Document(WholeText)
  BY <1>1, PipeUnchanged
<1>3. received' = received /\ eof' = eof /\ TakenLines' = TakenLines /\ Queue' = Queue
  BY <1>1 DEF pipe, TakenLines, Queue
<1>4. CASE finished = None
  <2>1. OfLines
    BY <1>1, <1>4 DEF DecodedInv
  <2>2. Job.command = "messages" /\ kind = "messages" =>
          formatter' = End(PushAll(NewFormatter(Job.toolResults), Records(TakenLines)))
    BY <1>1, <2>1 DEF OfLines
  <2>3. (Job.command = "messages" /\ kind = "messages" =>
           formatter = LET f == PushAll(NewFormatter(Job.toolResults), Records(TakenLines))
                       IN IF pc = "done" THEN End(f) ELSE f)'
    BY <1>1, <1>2, <1>3, <2>2
  <2>4. OfLines'
    BY <1>1, <1>2, <1>3, <1>4, <2>1, <2>3 DEF OfLines
  <2>5. QED
    BY <1>1, <1>4, <2>4 DEF DecodedInv
<1>5. CASE finished # None
  <2>1. OfDocument
    BY <1>1, <1>5 DEF DecodedInv
  <2>2. OfDocument'
    BY <1>1, <1>2, <1>3, <2>1 DEF OfDocument
  <2>3. QED
    BY <1>1, <1>5, <2>2 DEF DecodedInv
<1>6. QED
  BY <1>4, <1>5

\* A command that has ended does nothing more.
LEMMA EndedDecoded ==
  ASSUME DecodedInv, UNCHANGED vars
  PROVE  DecodedInv'
<1>1. UNCHANGED <<job, pipe, pc, taken, kind, finished, formatter, lines, failure>>
      /\ UNCHANGED <<received, torn, eof>>
  BY DEF vars, output, pipe
<1>2. /\ Job' = Job /\ Came' = Came /\ (Stream' <=> Stream) /\ (NoStream' <=> NoStream)
      /\ Document(WholeText)' = Document(WholeText) /\ (Recognized' <=> Recognized)
      /\ \A type : (StreamOf(type)' <=> StreamOf(type)) /\ (Holds(type)' <=> Holds(type))
  BY <1>1, PipeUnchanged
<1>3. TakenLines' = TakenLines /\ Queue' = Queue /\ (Waiting' <=> Waiting)
  BY <1>1 DEF TakenLines, Queue, Waiting
<1>4. (Undecided' <=> Undecided) /\ (OfLines' <=> OfLines) /\ (OfDocument' <=> OfDocument)
  BY <1>1, <1>2, <1>3 DEF Undecided, OfLines, OfDocument
<1>5. (Written' <=> Written)
  BY <1>1, <1>2 DEF Written
<1>6. (RoundTrip' <=> RoundTrip) /\ (SwappedPipe' <=> SwappedPipe)
  BY <1>1, <1>2, <1>3, <1>5 DEF RoundTrip, SwappedPipe
<1>7. QED
  BY <1>1, <1>4, <1>6 DEF DecodedInv

FormatInv == PipeInv /\ (Job.command # "tree" => DecodedInv)

LEMMA FormatInductive ==
  ASSUME FormatInv, [Next]_vars
  PROVE  FormatInv'
<1>1. PipeInv
  BY DEF FormatInv
<1>2. PipeInv' /\ Job' = Job
  <2>1. CASE ReadChunk
    BY <1>1, <2>1, ReceivedMore DEF ReadChunk, Job
  <2>2. CASE ReadEnd
    BY <1>1, <2>2 DEF ReadEnd, PipeInv, Job
  <2>3. CASE ~ReadChunk /\ ~ReadEnd
    <3>1. UNCHANGED <<job, pipe>>
      BY <2>3 DEF Next, vars, Classify, NoLine, DecodeDocument, TakeLine, TakeOfDocument,
                  Finish, FormatTree
    <3>2. QED
      BY <1>1, <3>1, PipeUnchanged
  <2>4. QED
    BY <2>1, <2>2, <2>3
<1>3. ASSUME Job.command # "tree" PROVE DecodedInv'
  <2>1. DecodedInv
    BY <1>3 DEF FormatInv
  <2>2. ~FormatTree
    BY <2>1 DEF FormatTree, DecodedInv
  <2>3. CASE ReadChunk
    BY <1>1, <2>1, <2>3, ReadChunkDecoded
  <2>4. CASE ReadEnd
    BY <1>1, <2>1, <2>4, ReadEndDecoded
  <2>5. CASE Classify
    BY <1>1, <1>3, <2>1, <2>5, ClassifyDecoded
  <2>6. CASE NoLine
    BY <1>1, <2>1, <2>6, NoLineDecoded
  <2>7. CASE DecodeDocument
    BY <1>1, <1>3, <2>1, <2>7, DecodeDocumentDecoded
  <2>8. CASE TakeLine
    BY <1>1, <1>3, <2>1, <2>8, TakeLineDecoded
  <2>9. CASE TakeOfDocument
    BY <1>1, <1>3, <2>1, <2>9, TakeOfDocumentDecoded
  <2>10. CASE Finish
    BY <1>1, <2>1, <2>10, FinishDecoded
  <2>11. CASE UNCHANGED vars
    BY <2>1, <2>11, EndedDecoded
  <2>12. QED
    BY <2>2, <2>3, <2>4, <2>5, <2>6, <2>7, <2>8, <2>9, <2>10, <2>11 DEF Next
<1>4. QED
  BY <1>2, <1>3 DEF FormatInv

LEMMA FormatInitial == Init => FormatInv
BY DecodedInitial DEF FormatInv

LEMMA DecodedRoundTrip ==
  ASSUME FormatInv
  PROVE  RoundTrip
<1> SUFFICES ASSUME Job.command # "tree", Job.filter = None, StreamOf(Job.command), Recognized
             PROVE  /\ pc # "failed" \/ Came = <<>>
                    /\ Came # <<>> /\ (Waiting \/ pc = "done") => Written
  BY DEF RoundTrip
<1>1. PipeInv /\ DecodedInv
  BY DEF FormatInv
<1>2. Job.command \in {"messages", "entries", "events"}
  BY <1>1, JobFacts
<1>3. pc # "failed" \/ Came = <<>>
  BY <1>1 DEF DecodedInv, RoundTrip
<1>4. ASSUME Came # <<>>, Waiting \/ pc = "done"
      PROVE  Written
  <2>1. ~NoStream
    BY <1>1, <1>2, <1>4, NoStreamNoHold
  <2>2. pc # "first"
    BY <1>1, <1>4, FirstLine DEF DecodedInv, Undecided, Waiting
  <2>3. pc # "document"
    BY <1>1, <1>4, <2>1 DEF DecodedInv, Undecided
  <2>4. pc \in {"records", "done"}
    BY <1>1, <1>3, <1>4, <2>2, <2>3 DEF DecodedInv
  <2>5. finished = None /\ OfLines
    BY <1>1, <2>1, <2>4 DEF DecodedInv, OfDocument
  <2>6. Queue = {}
    BY <1>4, <2>4, <2>5 DEF Waiting, OfLines
  <2>7. TakenLines = Came
    BY <1>1, <2>5, <2>6, TakenAll DEF OfLines
  <2>8. CASE Job.command = "messages"
    <3>1. kind = "messages"
      BY <1>1, <2>5, <2>8, StreamKind DEF OfLines
    <3>2. QED
      BY <2>5, <2>7, <2>8, <3>1 DEF Written, OfLines, FormatMessageRecords
  <2>9. CASE Job.command # "messages"
    BY <2>5, <2>7, <2>9 DEF Written, OfLines
  <2>10. QED
    BY <2>8, <2>9
<1>5. QED
  BY <1>3, <1>4

\* tail --json piped into format prints what tail prints, and a command that
\* waits for more of the pipe has printed all that tail would have by now
\* (decodeFormatInput and the loops of format/command.ts).
THEOREM RoundTripSafe == Spec => []RoundTrip
<1>1. FormatInv /\ [Next]_vars => FormatInv'
  BY FormatInductive
<1>2. FormatInv => RoundTrip
  BY DecodedRoundTrip
<1>3. QED
  BY <1>1, <1>2, FormatInitial, PTL DEF Spec

\* What one format command refuses of the output of pictl names the command
\* that takes it, and nothing was printed before (crossPointer, entriesOf,
\* eventsOf and messageCursorsOnly).
THEOREM SwappedPipeSafe == Spec => []SwappedPipe
<1>1. FormatInv /\ [Next]_vars => FormatInv'
  BY FormatInductive
<1>2. FormatInv => SwappedPipe
  BY DEF FormatInv, DecodedInv, SwappedPipe
<1>3. QED
  BY <1>1, <1>2, FormatInitial, PTL DEF Spec

-----------------------------------------------------------------------------
(* What is formatted.                                                       *)

Kinds == {"entries", "messages", "events"}

LEMMA ShapeFacts ==
  ASSUME NEW value
  PROVE  /\ ClassifyRecord(value) = "cursor" <=> value.type = "pictl_cursor"
         /\ ValidEntry(value) => ClassifyRecord(value) = "entry"
         /\ value.type = "message" /\ ~value.keyed => ClassifyRecord(value) = "message"
<1>1. value.type = "pictl_cursor" => ClassifyRecord(value) = "cursor"
  <2>1. None # "pictl_cursor"
    BY NoneAssumption
  <2>2. QED
    BY <2>1 DEF ClassifyRecord, EntryTypes, MessageRecordTypes
<1>2. value.type # "pictl_cursor" => ClassifyRecord(value) # "cursor"
  <2>1. None # "cursor"
    BY NoneAssumption
  <2>2. QED
    BY <2>1 DEF ClassifyRecord
<1>3. None \notin EntryTypes
  BY NoneAssumption
<1>4. ValidEntry(value) => ClassifyRecord(value) = "entry"
  BY <1>3 DEF ValidEntry, ClassifyRecord, EntryTypes, MessageRecordTypes
<1>5. value.type = "message" /\ ~value.keyed => ClassifyRecord(value) = "message"
  BY <1>3 DEF ClassifyRecord, EntryTypes, MessageRecordTypes
<1>6. QED
  BY <1>1, <1>2, <1>4, <1>5

\* What the formatter is given for a value that was accepted.
LEMMA RecordsOK ==
  ASSUME NEW value, WellFormed(value), kind \in Kinds,
         ClassifyRecord(value) \in Accepted(kind),
         kind = "entries" => ValidEntry(value)
  PROVE  \A k \in 1 .. Len(MessageRecords(value)) : RecordOK(MessageRecords(value)[k])
<1> DEFINE some(s) == IsSeq(s) /\ \A k \in 1 .. Len(s) : RecordOK(s[k])
<1>1. RecordOK(Control)
  BY DEF RecordOK, Control
<1>2. some(<<>>) /\ \A x : RecordOK(x) => some(<<x>>)
  <2>1. some(<<>>)
    <3>1. IsSeq(<<>>) /\ Len(<<>>) = 0
      BY ShortSeqs
    <3>2. QED
      BY <3>1
  <2>2. ASSUME NEW x, RecordOK(x) PROVE some(<<x>>)
    <3>1. IsSeq(<<x>>) /\ Len(<<x>>) = 1 /\ <<x>>[1] = x
      BY ShortSeqs
    <3>2. QED
      BY <2>2, <3>1
  <2>3. QED
    BY <2>1, <2>2
<1>3. \A m \in MessagesOf(value) : RecordOK(m)
  BY DEF WellFormed, RecordOK
<1>4. CASE kind = "entries"
  <2>1. ClassifyRecord(value) = "entry" /\ ValidEntry(value)
    BY <1>4, ShapeFacts
  <2>2. MessagesOf(value) = {value.record.message} \ {None}
    BY <2>1 DEF MessagesOf
  <2>3. some(ContextMessages(value.record))
    BY <1>2, <1>3, <2>2 DEF ContextMessages
  <2> DEFINE s == IF previous # None /\ value.record.parentId # previous THEN <<Control>> ELSE <<>>
             t == IF value.record.type # "model_change" THEN ContextMessages(value.record)
                  ELSE IF previous = None THEN <<>> ELSE <<Control>>
  <2>4. some(s) /\ some(t)
    BY <1>1, <1>2, <2>3
  <2> HIDE DEF s, t
  <2>5. MessageRecords(value) = s \o t
    BY <1>4 DEF MessageRecords, ProjectEntry, s, t
  <2>6. ASSUME NEW k \in 1 .. Len(s \o t)
        PROVE  RecordOK((s \o t)[k])
    <3>1. /\ Len(s) \in Nat /\ Len(t) \in Nat /\ Len(s \o t) = Len(s) + Len(t)
          /\ \A i \in 1 .. Len(s) : (s \o t)[i] = s[i]
          /\ \A i \in Len(s) + 1 .. Len(s) + Len(t) : (s \o t)[i] = t[i - Len(s)]
      BY <2>4, ConcatAny
    <3>2. CASE k <= Len(s)
      <4>1. k \in 1 .. Len(s)
        BY <3>1, <3>2
      <4>2. QED
        BY <2>4, <3>1, <4>1
    <3>3. CASE ~(k <= Len(s))
      <4>1. k \in Len(s) + 1 .. Len(s) + Len(t) /\ k - Len(s) \in 1 .. Len(t)
        BY <3>1, <3>3
      <4>2. QED
        BY <2>4, <3>1, <4>1
    <3>4. QED
      BY <3>2, <3>3
  <2>7. QED
    BY <2>5, <2>6
<1>5. CASE kind = "events" /\ value.type # "pictl_cursor"
  <2>1. ClassifyRecord(value) = "event"
    BY <1>5, ShapeFacts DEF Accepted
  <2>2. MessagesOf(value) = {value.record.message}
    BY <2>1 DEF MessagesOf
  <2>3. some(ProjectEvent(value.record))
    BY <1>1, <1>2, <1>3, <2>2 DEF ProjectEvent
  <2>4. MessageRecords(value) = ProjectEvent(value.record)
    BY <1>5 DEF MessageRecords
  <2>5. QED
    BY <2>3, <2>4
<1>6. CASE kind = "messages" \/ (kind = "events" /\ value.type = "pictl_cursor")
  <2>1. ClassifyRecord(value) \in {"message", "cursor"}
    BY <1>6, ShapeFacts DEF Accepted
  <2>2. MessagesOf(value) = {value.record}
    BY <2>1 DEF MessagesOf
  <2>3. MessageRecords(value) = <<value.record>>
    BY <1>6 DEF MessageRecords
  <2>4. QED
    BY <1>2, <1>3, <2>2, <2>3
<1>7. QED
  BY <1>4, <1>5, <1>6 DEF Kinds

PartsKept ==
  /\ PartsInv(formatter)
  /\ pc = "records" /\ finished # None /\ kind = "entries" =>
       \A i \in 1 .. Len(finished) : ValidEntry(finished[i])

\* The records of a document, when they are shown.
LEMMA DocumentRecord ==
  ASSUME PipeInv, OfDocument, taken < Len(finished), PartsKept, pc = "records",
         finished # None
  PROVE  LET value == finished[taken + 1] IN
         /\ WellFormed(value) /\ kind \in Kinds
         /\ ClassifyRecord(value) \in Accepted(kind)
         /\ kind = "entries" => ValidEntry(value)
<1>1. taken \in Nat
  BY DEF OfDocument
<1>2. kind # "empty"
  BY <1>1, ShortSeqs DEF OfDocument
<1>3. /\ kind \in {"entries", "messages"} /\ Document(WholeText) # None
      /\ Document(WholeText).doc.of = kind /\ Document(WholeText).doc.records = finished
  BY <1>2 DEF OfDocument
<1> DEFINE L == Nonblank(WholeText)
<1>4. Document(WholeText) = L[1].value /\ Len(L) \in {1, 2}
  BY <1>3 DEF Document
<1>5. IsLine(L[1])
  <2>1. 1 \in 1 .. Len(L)
    BY <1>4
  <2>2. PICK i \in 1 .. Len(WholeText) : L[1] = WholeText[i]
    BY <2>1, WholeTextIsSeq, NonblankElements
  <2>3. QED
    BY <2>2, WholeTextIsSeq
<1>6. /\ IsSeq(finished)
      /\ \A i \in 1 .. Len(finished) :
           /\ WellFormed(finished[i])
           /\ kind = "messages" => finished[i].type = "message" /\ ~finished[i].keyed
  <2>1. L[1].value.doc.of = kind /\ L[1].value.doc.records = finished
    BY <1>3, <1>4
  <2> HIDE DEF L
  <2>2. QED
    BY <1>5, <2>1 DEF IsLine
<1>7. taken + 1 \in 1 .. Len(finished)
  BY <1>1, <1>6, IsSeqOf DEF IsSeq
<1>8. PICK value : value = finished[taken + 1]
  OBVIOUS
<1>9. /\ kind = "entries" => ValidEntry(value)
      /\ kind = "messages" => value.type = "message" /\ ~value.keyed
  BY <1>6, <1>7, <1>8 DEF PartsKept
<1>10. ClassifyRecord(value) \in Accepted(kind)
  <2>1. kind = "entries" => ClassifyRecord(value) = "entry"
    BY <1>9, ShapeFacts
  <2>2. kind = "messages" => ClassifyRecord(value) = "message"
    BY <1>9, ShapeFacts
  <2>3. QED
    BY <1>3, <2>1, <2>2 DEF Accepted
<1>11. WellFormed(value) /\ (kind = "entries" => ValidEntry(value))
  BY <1>6, <1>7, <1>8 DEF PartsKept
<1>12. QED
  BY <1>3, <1>8, <1>10, <1>11 DEF Kinds

LEMMA PartsInitial == Init => PartsKept
<1> SUFFICES ASSUME Init PROVE PartsKept
  OBVIOUS
<1>1. job \in DOMAIN Jobs /\ formatter = NewFormatter(Job.toolResults) /\ finished = None
  BY DEF Init
<1>2. Job.toolResults \in {"summary", "none", "full"}
  BY <1>1, JobsAssumption, Zenon DEF Job
<1>3. QED
  BY <1>1, <1>2, NewParts DEF PartsKept

LEMMA PartsShown ==
  ASSUME PartsKept, NEW n, NEW value, Show(n, value), WellFormed(value), kind \in Kinds,
         ClassifyRecord(value) \in Accepted(kind), kind = "entries" => ValidEntry(value),
         Job.command \in {"messages", "entries", "events"}
  PROVE  PartsKept'
<1>1. UNCHANGED <<pc, kind, finished>>
  BY DEF Show
<1>2. PartsInv(formatter')
  <2>1. CASE Job.command = "messages"
    <3>1. formatter' = PushAll(formatter, MessageRecords(value))
      BY <2>1 DEF Show
    <3>2. \A k \in 1 .. Len(MessageRecords(value)) : RecordOK(MessageRecords(value)[k])
      BY RecordsOK
    <3>3. IsSeq(MessageRecords(value)) /\ PartsInv(formatter) /\ None \notin Nat
      BY ProjectedIsSeq, NoneAssumption DEF PartsKept
    <3>4. QED
      BY <3>1, <3>2, <3>3, PushAllParts
  <2>2. CASE Job.command # "messages"
    BY <2>2 DEF Show, PartsKept
  <2>3. QED
    BY <2>1, <2>2
<1>3. QED
  BY <1>1, <1>2 DEF PartsKept

LEMMA PartsFail ==
  ASSUME PartsKept, NEW error, Fail(error)
  PROVE  PartsKept'
BY DEF PartsKept, Fail, output

LEMMA PartsDecoded ==
  ASSUME PartsKept, NEW of, NEW records, NEW leafId, Decoded(of, records, leafId),
         records # None /\ of = "entries" => \A i \in 1 .. Len(records) : ValidEntry(records[i])
  PROVE  PartsKept'
<1>1. CASE Refused(of)
  BY <1>1, PartsFail DEF Decoded
<1>2. CASE ~Refused(of)
  BY <1>2 DEF Decoded, PartsKept, output
<1>3. QED
  BY <1>1, <1>2

LEMMA PartsTakeLine ==
  ASSUME PipeInv, DecodedInv, HeadersInv, PartsKept, TakeLine
  PROVE  PartsKept'
<1>1. pc = "records" /\ finished = None /\ Queue # {}
  BY DEF TakeLine
<1>2. OfLines
  BY <1>1 DEF DecodedInv
<1>3. taken \in Nat /\ kind \in Kinds
  BY <1>2, JobFacts, KindOfThree DEF OfLines, Stream, Kinds
<1>4. PICK line : line = received[Head1]
  OBVIOUS
<1>5. IsLine(line)
  BY <1>1, <1>3, <1>4, HeadOfQueue, JobFacts
<1>6. WellFormed(line.value)
  BY <1>5 DEF IsLine
<1>7. Job.command \in {"messages", "entries", "events"}
  BY <1>1, JobFacts DEF HeadersInv
<1>8. OneRecord(line)
  BY <1>4 DEF TakeLine
<1>9. \/ \E error : Fail(error)
      \/ /\ Show(Head1, line.value)
         /\ ClassifyRecord(line.value) \in Accepted(kind)
         /\ kind = "entries" => ValidEntry(line.value)
  BY <1>8, Zenon DEF OneRecord
<1>10. QED
  BY <1>3, <1>6, <1>7, <1>9, PartsFail, PartsShown

LEMMA PartsInductive ==
  ASSUME FormatInv, HeadersInv, PartsKept, [Next]_vars
  PROVE  PartsKept'
<1>1. PipeInv /\ (pc \in {"first", "document", "records"} => DecodedInv)
  BY DEF FormatInv, HeadersInv
<1>2. CASE ReadChunk \/ ReadEnd
  BY <1>2 DEF ReadChunk, ReadEnd, PartsKept, output
<1>3. CASE Classify
  <2>1. \/ \E of : Decoded(of, None, None)
        \/ pc' = "document" /\ UNCHANGED formatter
    BY <1>3 DEF Classify, output
  <2>2. QED
    BY <2>1, PartsDecoded DEF PartsKept
<1>4. CASE NoLine
  BY <1>4 DEF NoLine, PartsKept, output
<1>5. CASE DecodeDocument
  <2>1. PICK doc : doc = IF Document(WholeText) = None THEN NoDocument
                         ELSE Document(WholeText).doc
    OBVIOUS
  <2>2. \/ \E error : Fail(error)
        \/ Decoded("empty", <<>>, None)
        \/ /\ Decoded(doc.of, doc.records, doc.leafId)
           /\ \A i \in 1 .. Len(doc.records) :
                IF doc.of = "entries" THEN ValidEntry(doc.records[i])
                ELSE ValidMessage(doc.records[i])
    BY <1>5, <2>1 DEF DecodeDocument
  <2>3. Decoded("empty", <<>>, None) => PartsKept'
    BY PartsDecoded
  <2>4. QED
    BY <2>2, <2>3, PartsFail, PartsDecoded
<1>6. CASE TakeLine
  BY <1>1, <1>6, PartsTakeLine DEF TakeLine
<1>7. CASE TakeOfDocument
  <2>1. pc = "records" /\ finished # None /\ taken < Len(finished)
    BY <1>7 DEF TakeOfDocument
  <2>2. OfDocument
    BY <1>1, <2>1 DEF DecodedInv
  <2>3. PICK value : value = finished[taken + 1]
    OBVIOUS
  <2>4. /\ WellFormed(value) /\ kind \in Kinds
        /\ ClassifyRecord(value) \in Accepted(kind)
        /\ kind = "entries" => ValidEntry(value)
    BY <1>1, <2>1, <2>2, <2>3, DocumentRecord
  <2>5. Job.command \in {"messages", "entries", "events"}
    BY <1>1, <2>1, JobFacts DEF HeadersInv
  <2>6. \/ \E error : Fail(error)
        \/ Show(taken + 1, value)
    BY <1>7, <2>3, Zenon DEF TakeOfDocument
  <2>7. QED
    BY <2>4, <2>5, <2>6, PartsFail, PartsShown
<1>8. CASE Finish
  <2>1. pc' = "done" /\ formatter' = IF Job.command = "messages" THEN End(formatter) ELSE formatter
    BY <1>8 DEF Finish
  <2>2. PartsInv(End(formatter)) /\ PartsInv(formatter)
    BY FlushRunParts DEF PartsKept, End
  <2>3. QED
    BY <2>1, <2>2 DEF PartsKept
<1>9. CASE FormatTree
  <2>1. \/ \E error : Fail(error)
        \/ pc' = "done" /\ UNCHANGED formatter
    BY <1>9, Zenon DEF FormatTree, DrawTree
  <2>2. QED
    BY <2>1, PartsFail DEF PartsKept
<1>10. CASE UNCHANGED vars
  BY <1>10 DEF vars, output, PartsKept
<1>11. QED
  BY <1>2, <1>3, <1>4, <1>5, <1>6, <1>7, <1>8, <1>9, <1>10 DEF Next

\* The elements, and where they are.
LEMMA Places ==
  ASSUME PartsInv(formatter), NEW B, B = BodiesOf(formatter),
         NEW N, N = Len(formatter.printed) + 1
  PROVE  /\ \A i \in 1 .. N : \A k \in 1 .. Len(B[i]) :
              <<i, k>> \in At /\ ElementAt(<<i, k>>) = B[i][k]
         /\ \A at \in At : \E i \in 1 .. N : \E k \in 1 .. Len(B[i]) : at = <<i, k>>
<1>1. IsFormatter(formatter)
  BY DEF PartsInv
<1>2. /\ Len(formatter.printed) \in Nat /\ N \in Nat
      /\ \A i \in 1 .. Len(formatter.printed) : B[i] = formatter.printed[i].body
      /\ B[N] = RunBody(formatter.run)
  BY <1>1, BodiesAre
<1> DEFINE M == Len(formatter.printed)
           s == [i \in 1 .. Len(Blocks) |-> Blocks[i].body]
           t == IF formatter.run = EmptyRun THEN <<>> ELSE <<RunBody(formatter.run)>>
<1>3. IsSeq(s) /\ Len(s) = M /\ \A i \in 1 .. M : s[i] = B[i]
  <2>1. s \in [1 .. M -> {Blocks[i].body : i \in 1 .. M}]
    BY DEF Blocks
  <2>2. \A i \in 1 .. M : s[i] = B[i]
    BY <1>2 DEF Blocks
  <2> HIDE DEF s
  <2>3. QED
    BY <1>2, <2>1, <2>2, FunctionIsSeq
<1>4. IsSeq(t) /\ Len(t) = (IF formatter.run = EmptyRun THEN 0 ELSE 1)
      /\ (formatter.run # EmptyRun => t[1] = B[N])
  BY <1>2, ShortSeqs
<1>5. Bodies = s \o t
  BY DEF Bodies
<1> HIDE DEF s, t
<1>6. /\ Len(Bodies) = M + Len(t)
      /\ \A i \in 1 .. M : Bodies[i] = s[i]
      /\ \A i \in M + 1 .. M + Len(t) : Bodies[i] = t[i - M]
  <2>1. /\ Len(s \o t) = Len(s) + Len(t)
        /\ \A i \in 1 .. Len(s) : (s \o t)[i] = s[i]
        /\ \A i \in Len(s) + 1 .. Len(s) + Len(t) : (s \o t)[i] = t[i - Len(s)]
    <3>1. IsSeq(s) /\ IsSeq(t)
      BY <1>3, <1>4
    <3>2. QED
      BY <3>1, ConcatAny, Zenon
  <2>2. QED
    BY <1>3, <1>5, <2>1
<1>7. formatter.run = EmptyRun => Len(B[N]) = 0
  BY <1>2, EmptyRunIs, ShortSeqs
<1>8. /\ formatter.run = EmptyRun => Len(Bodies) = M
      /\ formatter.run # EmptyRun => Len(Bodies) = N /\ Bodies[N] = B[N]
  <2>1. formatter.run = EmptyRun => Len(Bodies) = M
    BY <1>2, <1>4, <1>6
  <2>2. ASSUME formatter.run # EmptyRun
        PROVE  Len(Bodies) = N /\ Bodies[N] = B[N]
    <3>1. Len(t) = 1 /\ t[1] = B[N] /\ N = M + 1
      BY <1>4, <2>2
    <3>2. N \in M + 1 .. M + Len(t) /\ N - M = 1
      BY <1>2, <3>1
    <3>3. QED
      BY <1>6, <3>1, <3>2
  <2>3. QED
    BY <2>1, <2>2
<1>9. ASSUME NEW i \in 1 .. N, NEW k \in 1 .. Len(B[i])
      PROVE  i \in 1 .. Len(Bodies) /\ Bodies[i] = B[i]
  <2>1. CASE i = N
    BY <1>2, <1>7, <1>8, <1>9, <2>1
  <2>2. CASE i # N
    <3>1. i \in 1 .. M
      BY <1>2, <2>2
    <3>2. QED
      BY <1>2, <1>3, <1>6, <1>8, <3>1
  <2>3. QED
    BY <2>1, <2>2
<1>10. ASSUME NEW i \in 1 .. Len(Bodies)
       PROVE  i \in 1 .. N /\ Bodies[i] = B[i]
  <2>1. CASE i \in 1 .. M
    BY <1>2, <1>3, <1>6, <2>1
  <2>2. CASE i \notin 1 .. M
    BY <1>2, <1>8, <2>2
  <2>3. QED
    BY <2>1, <2>2
<1>11. \A at : at \in At <=> \E i \in 1 .. Len(Bodies) : at \in {i} \X (1 .. Len(Bodies[i]))
  BY DEF At
<1>12. \A i \in 1 .. N : \A k \in 1 .. Len(B[i]) :
         <<i, k>> \in At /\ ElementAt(<<i, k>>) = B[i][k]
  BY <1>9, <1>11 DEF ElementAt
<1>13. \A at \in At : \E i \in 1 .. N : \E k \in 1 .. Len(B[i]) : at = <<i, k>>
  BY <1>10, <1>11
<1>14. QED
  BY <1>12, <1>13

LEMMA PartsNothingLost ==
  ASSUME PartsInv(formatter)
  PROVE  NothingLost
<1> SUFFICES ASSUME AnsweredOnce
             PROVE  /\ \A n \in 1 .. Len(formatter.pushed) : \A part \in Visible(n) :
                         LET shown == {at \in At : part \in ElementAt(at).parts} IN
                         \/ Cardinality(shown) = 1 /\ Answered(n) = {}
                         \/ shown = {} /\ (MayHide(n) \/ Cardinality(Answered(n)) = 1)
                    /\ \A a, b \in At :
                         a[1] < b[1] \/ (a[1] = b[1] /\ a[2] < b[2] /\ ElementAt(a).what # "thought") =>
                           \A p \in ElementAt(a).parts, q \in ElementAt(b).parts :
                             p[1] < q[1] \/ (p[1] = q[1] /\ p[2] < q[2])
  BY DEF NothingLost
<1> DEFINE pushed == formatter.pushed
<1>1. PICK B : B = BodiesOf(formatter)
  OBVIOUS
<1>2. PICK N : N = Len(formatter.printed) + 1
  OBVIOUS
<1>3. /\ \A i \in 1 .. N : \A k \in 1 .. Len(B[i]) :
           <<i, k>> \in At /\ ElementAt(<<i, k>>) = B[i][k]
      /\ \A at \in At : \E i \in 1 .. N : \E k \in 1 .. Len(B[i]) : at = <<i, k>>
  BY <1>1, <1>2, Places
<1>4. None \notin Nat
  BY NoneAssumption
<1>5. /\ \A i, j \in 1 .. N : \A k \in 1 .. Len(B[i]), l \in 1 .. Len(B[j]) :
           \A p \in B[i][k].parts, q \in B[j][l].parts :
             /\ p[1] \in Nat /\ q[1] \in Nat
             /\ p = q => i = j /\ k = l
             /\ i < j => p[1] < q[1]
             /\ i = j /\ k < l /\ B[i][k].what # "thought" => PartBefore(p, q)
      /\ \A i, j \in 1 .. N : \A k \in 1 .. Len(B[i]), l \in 1 .. Len(B[j]) :
           /\ B[i][k].result # None /\ B[i][k].result = B[j][l].result => i = j /\ k = l
           /\ B[i][k].result # None =>
                /\ \A q \in B[j][l].parts : q[1] # B[i][k].result
                /\ ResultOK(B[i][k], pushed)
  <2>1. ShownOnce(pushed, B, N)
    BY <1>1, <1>2, <1>4, ShownWhere
  <2>2. QED
    BY <2>1 DEF ShownOnce
<1>6. ASSUME NEW n \in 1 .. Len(pushed)
      PROVE  Placed(pushed, formatter.toolResults, B, N, n)
  <2>1. OneResult(pushed)
    BY DEF AnsweredOnce, OneResult, ToolResult, IsResult
  <2>2. BodiesOK(pushed, formatter.toolResults, B, N)
    BY <1>1, <1>2 DEF PartsInv
  <2>3. QED
    BY <2>1, <2>2 DEF BodiesOK
<1>7. ASSUME NEW n \in 1 .. Len(pushed), NEW part \in Visible(n),
             NEW shown, shown = {at \in At : part \in ElementAt(at).parts}
      PROVE  \/ Cardinality(shown) = 1 /\ Answered(n) = {}
             \/ shown = {} /\ (MayHide(n) \/ Cardinality(Answered(n)) = 1)
  <2>1. part \in VisibleParts(n, pushed[n]) /\ part[1] = n
    BY DEF Visible, VisibleParts
  <2>2. n \in Nat
    BY DEF PartsInv, IsFormatter, IsSeq
  <2>3. \A at : at \in Answered(n) <=>
          at \in At /\ ElementAt(at).result = n /\ pushed[n].id \in ElementAt(at).ids
    BY DEF Answered
  <2>4. ASSUME NEW at \in shown
        PROVE  shown = {at} /\ Answered(n) = {}
    <3>1. PICK i, k :
            /\ i \in 1 .. N /\ k \in 1 .. Len(B[i])
            /\ at = <<i, k>> /\ part \in B[i][k].parts
      BY <1>3, <1>7
    <3>2. \A b \in shown : b = at
      <4> SUFFICES ASSUME NEW b \in shown PROVE b = at
        OBVIOUS
      <4>1. PICK j, l :
            /\ j \in 1 .. N /\ l \in 1 .. Len(B[j])
            /\ b = <<j, l>> /\ part \in B[j][l].parts
        BY <1>3, <1>7
      <4>2. i = j /\ k = l
        BY <1>5, <3>1, <4>1
      <4>3. QED
        BY <3>1, <4>1, <4>2
    <3>3. ASSUME NEW b \in Answered(n) PROVE FALSE
      <4>1. PICK j, l :
            /\ j \in 1 .. N /\ l \in 1 .. Len(B[j])
            /\ b = <<j, l>> /\ B[j][l].result = n
        BY <1>3, <2>3
      <4>2. B[j][l].result # None
        BY <1>4, <2>2, <4>1
      <4>3. part[1] # n
        BY <1>5, <3>1, <4>1, <4>2
      <4>4. QED
        BY <2>1, <4>3
    <3>4. QED
      BY <3>2, <3>3
  <2>5. ASSUME shown = {}
        PROVE  MayHide(n) \/ Cardinality(Answered(n)) = 1
    <3>1. ~\E i \in 1 .. N : part \in PartsOf(B[i])
      <4> SUFFICES ASSUME NEW i \in 1 .. N, part \in PartsOf(B[i]) PROVE FALSE
        OBVIOUS
      <4>1. PICK k \in 1 .. Len(B[i]) : part \in B[i][k].parts
        BY BodySets
      <4>2. <<i, k>> \in shown
        BY <1>3, <1>7, <4>1
      <4>3. QED
        BY <2>5, <4>2
    <3>2. Accounted(pushed, formatter.toolResults, B, N, n)
      BY <1>6, <2>1, <3>1 DEF Placed
    <3>3. IsResult(pushed[n])
      BY <3>2 DEF Accounted, ToolResult, IsResult
    <3>4. CASE formatter.toolResults = "none"
      BY <3>3, <3>4 DEF MayHide
    <3>5. CASE ~pushed[n].isError /\ \E i \in 1 .. N : pushed[n].id \in ToolIds(B[i])
      <4>1. PICK i, k :
            /\ i \in 1 .. N /\ k \in 1 .. Len(B[i])
            /\ B[i][k].what = "tools" /\ pushed[n].id \in B[i][k].ids
        BY <3>5, BodySets
      <4>2. <<i, k>> \in At /\ ElementAt(<<i, k>>) = B[i][k]
        BY <1>3, <4>1
      <4>3. QED
        BY <3>3, <3>5, <4>1, <4>2 DEF MayHide
    <3>6. CASE \E i \in 1 .. N : n \in ResultsOf(B[i])
      <4>1. PICK i, k :
            /\ i \in 1 .. N /\ k \in 1 .. Len(B[i])
            /\ B[i][k].result = n /\ n # None
        BY <3>6, BodySets
      <4>2. ResultOK(B[i][k], pushed)
        BY <1>5, <4>1
      <4>3. pushed[n].id \in B[i][k].ids
        BY <4>1, <4>2 DEF ResultOK
      <4>4. PICK at : at = <<i, k>>
        OBVIOUS
      <4>5. at \in Answered(n)
        BY <1>3, <2>3, <4>1, <4>3, <4>4
      <4>6. \A b \in Answered(n) : b = at
        <5> SUFFICES ASSUME NEW b \in Answered(n) PROVE b = at
          OBVIOUS
        <5>1. PICK j, l :
            /\ j \in 1 .. N /\ l \in 1 .. Len(B[j])
            /\ b = <<j, l>> /\ B[j][l].result = n
          BY <1>3, <2>3
        <5>2. i = j /\ k = l
          BY <1>5, <4>1, <5>1
        <5>3. QED
          BY <4>4, <5>1, <5>2
      <4>7. Answered(n) = {at}
        BY <4>5, <4>6
      <4>8. QED
        BY <4>7, FS_Singleton
    <3>7. QED
      BY <3>2, <3>4, <3>5, <3>6 DEF Accounted
  <2>6. CASE shown = {}
    BY <2>5, <2>6
  <2>7. CASE shown # {}
    <3>1. PICK at : at \in shown
      BY <2>7
    <3>2. shown = {at} /\ Answered(n) = {}
      BY <2>4, <3>1
    <3>3. QED
      BY <3>2, FS_Singleton
  <2>8. QED
    BY <2>6, <2>7
<1>8. ASSUME NEW a \in At, NEW b \in At,
             a[1] < b[1] \/ (a[1] = b[1] /\ a[2] < b[2] /\ ElementAt(a).what # "thought"),
             NEW p \in ElementAt(a).parts, NEW q \in ElementAt(b).parts
      PROVE  p[1] < q[1] \/ (p[1] = q[1] /\ p[2] < q[2])
  <2>1. PICK i, k :
            /\ i \in 1 .. N /\ k \in 1 .. Len(B[i])
            /\ a = <<i, k>> /\ ElementAt(a) = B[i][k]
    BY <1>3
  <2>2. PICK j, l :
            /\ j \in 1 .. N /\ l \in 1 .. Len(B[j])
            /\ b = <<j, l>> /\ ElementAt(b) = B[j][l]
    BY <1>3
  <2>3. i < j \/ (i = j /\ k < l /\ B[i][k].what # "thought")
    BY <1>8, <2>1, <2>2
  <2>4. p \in B[i][k].parts /\ q \in B[j][l].parts
    BY <2>1, <2>2
  <2>5. p[1] < q[1] \/ PartBefore(p, q)
    BY <1>5, <2>1, <2>2, <2>3, <2>4
  <2>6. QED
    BY <2>5 DEF PartBefore
<1>9. QED
  BY <1>7, <1>8

\* Where no call has two results, every call, text and result that format
\* messages was given is printed or held back once and in order, or is a
\* result that may be left out or is summed up on the line of its call
\* (absorbIntoRun, flushRun and block of MessageFormatter).
THEOREM NothingLostSafe == Spec => []NothingLost
<1> DEFINE Inv == FormatInv /\ HeadersInv /\ PartsKept
<1>1. Init => Inv
  BY FormatInitial, HeadersInitial, PartsInitial
<1>2. Inv /\ [Next]_vars => Inv'
  BY FormatInductive, HeadersInductive, PartsInductive
<1>3. Inv => NothingLost
  BY PartsNothingLost DEF PartsKept
<1>4. QED
  BY <1>1, <1>2, <1>3, PTL DEF Spec

-----------------------------------------------------------------------------
(* The drawing.                                                             *)

\* The rows, as DrawingOf has them.
LEMMA RowsAre ==
  ASSUME NEW entries, NEW cursor, NEW filter, NEW S, NEW shown, NEW up, NEW anc, NEW m, NEW row,
         DrawingOf(entries, cursor, filter, tree, S, shown, up, anc, m, row)
  PROVE  /\ Len(Rows) = Len(shown) /\ Len(shown) \in Nat
         /\ \A i \in 1 .. Len(shown) : Rows[i].id = shown[i] /\ Rows[i].prefix = TreePrefix(row[i])
         /\ RowIds = S /\ S \subseteq Ids(entries)
         /\ Cardinality(RowIds) = Len(Rows)
<1>1. /\ Len(Rows) = Len(shown)
      /\ \A i \in 1 .. Len(shown) : Rows[i].id = shown[i] /\ Rows[i].prefix = TreePrefix(row[i])
      /\ S \subseteq Ids(entries)
      /\ Lists(shown, S)
  BY DEF DrawingOf, Rows, Shown
<1>2. Len(shown) \in Nat
  BY <1>1, IsSeqOf DEF Lists, IsSeq
<1>3. RowIds = S
  BY <1>1 DEF RowIds, Lists
<1>4. Cardinality(S) = Len(shown)
  <2> DEFINE n == Len(shown)
             f == [i \in 1 .. n |-> shown[i]]
  <2>1. f \in Surjection(1 .. n, S)
    BY <1>1 DEF Lists, Surjection
  <2>2. f \in Injection(1 .. n, S)
    <3>1. \A i, j \in 1 .. n : f[i] = f[j] => i = j
      BY <1>1 DEF Lists
    <3>2. f \in [1 .. n -> S]
      BY <1>1 DEF Lists
    <3> HIDE DEF f
    <3>3. QED
      BY <3>1, <3>2 DEF Injection, IsInjective
  <2>3. IsFiniteSet(1 .. n) /\ Cardinality(1 .. n) = n
    BY <1>2, IntervalSize
  <2> HIDE DEF f, n
  <2>4. Cardinality(S) = Cardinality(1 .. n)
    BY <2>1, <2>2, <2>3, FS_Surjection
  <2>5. QED
    BY <2>3, <2>4 DEF n
<1>5. QED
  BY <1>1, <1>2, <1>3, <1>4

\* The visible parent is the nearest ancestor shown.
LEMMA NearestIs ==
  ASSUME NEW entries, Forest(entries), NEW cursor, NEW filter,
         NEW S, NEW shown, NEW up, NEW anc, NEW m, NEW row,
         DrawingOf(entries, cursor, filter, tree, S, shown, up, anc, m, row),
         NEW i \in 1 .. Len(shown)
  PROVE  /\ up[i] \in Nat /\ up[i] < i
         /\ up[i] = 0 <=> ShownAbove(entries, Rows[i].id) = {}
         /\ up[i] # 0 => /\ up[i] \in 1 .. Len(shown)
                         /\ Nearest(entries, Rows[i].id) = Rows[up[i]].id
<1>1. /\ Len(shown) \in Nat /\ Rows[i].id = shown[i] /\ RowIds = S /\ S \subseteq Ids(entries)
      /\ \A j \in 1 .. Len(shown) : Rows[j].id = shown[j]
  BY RowsAre
<1>2. PICK v : v = VisibleParent(entries, S, shown[i])
  OBVIOUS
<1> DEFINE T == Above(entries, shown[i]) \cap S
<1>3. /\ shown[i] \in S
      /\ v = None => up[i] = 0 /\ T = {}
      /\ v # None => /\ up[i] \in 1 .. Len(shown) /\ up[i] < i /\ shown[up[i]] = v
                     /\ v \in Above(entries, shown[i])
                     /\ T = {v} \cup (Above(entries, v) \cap S)
  <2>1. Shown(entries, ActivePath(entries, cursor), shown, S) /\ Positions(entries, shown, S, up, anc)
    BY DEF DrawingOf
  <2>2. QED
    BY <1>1, <1>2, <2>1, UpIs
<1>4. ShownAbove(entries, Rows[i].id) = T
  BY <1>1 DEF ShownAbove
<1>5. CASE v = None
  BY <1>1, <1>3, <1>4, <1>5
<1>6. CASE v # None
  <2>1. v \in Ids(entries) /\ v \notin Above(entries, v) /\ v \in S
    <3>1. v \in Ids(entries)
      BY <1>3, <1>6, ClimbValues DEF Forest
    <3>2. QED
      BY <1>3, <1>6, <3>1 DEF Forest
  <2>2. v \in T /\ ShownAbove(entries, v) = T \ {v}
    BY <1>1, <1>3, <1>6, <2>1 DEF ShownAbove
  <2>3. ASSUME NEW p \in T, ShownAbove(entries, p) = T \ {p}
        PROVE  p = v
    <3>1. ASSUME p # v PROVE FALSE
      <4>1. p \in Above(entries, v)
        BY <1>3, <1>6, <3>1
      <4>2. v \in Above(entries, p)
        BY <2>2, <2>3, <3>1 DEF ShownAbove
      <4>3. v \in Above(entries, v)
        BY <4>1, <4>2, AboveTrans
      <4>4. QED
        BY <2>1, <4>3
    <3>2. QED
      BY <3>1
  <2>4. Nearest(entries, Rows[i].id) =
          IF T = {} THEN None ELSE CHOOSE p \in T : ShownAbove(entries, p) = T \ {p}
    BY <1>4 DEF Nearest
  <2> HIDE DEF T
  <2>5. v = CHOOSE p \in T : ShownAbove(entries, p) = T \ {p}
    BY <2>2, <2>3
  <2>6. Nearest(entries, Rows[i].id) = v
    BY <2>2, <2>4, <2>5
  <2>7. QED
    BY <1>1, <1>3, <1>4, <1>6, <2>2, <2>6
<1>7. QED
  BY <1>5, <1>6

\* A reader finds it.
LEMMA ParentRead ==
  ASSUME NEW entries, Forest(entries), NEW cursor, NEW filter,
         NEW S, NEW shown, NEW up, NEW anc, NEW m, NEW row,
         DrawingOf(entries, cursor, filter, tree, S, shown, up, anc, m, row),
         NEW i \in 1 .. Len(shown), up[i] # 0
  PROVE  ReadParent(i) = Rows[up[i]].id
<1> DEFINE R == Len(shown)
           prefix == Rows[i].prefix
<1>1. /\ R \in Nat
      /\ \A j \in 1 .. R : Rows[j].prefix = TreePrefix(row[j])
  BY RowsAre
<1>2. Drawing(R, up, anc, m, row)
  BY DEF DrawingOf
<1>3. /\ up[i] \in Nat /\ up[i] < i /\ up[i] \in 1 .. R
  BY NearestIs
<1> HIDE DEF R
<1>4. i \in 1 .. R
  BY DEF R
<1>5. \A j \in 1 .. R : /\ Len(Rows[j].prefix) = Display(row[j]) /\ IsSeq(Rows[j].prefix)
                        /\ Display(row[j]) \in Nat
  <2> SUFFICES ASSUME NEW j \in 1 .. R
               PROVE  /\ Len(Rows[j].prefix) = Display(row[j]) /\ IsSeq(Rows[j].prefix)
                      /\ Display(row[j]) \in Nat
    OBVIOUS
  <2>1. row[j].indent \in Nat
    BY <1>2, DrawingRows
  <2>2. QED
    BY <1>1, <2>1, PrefixColumns
<1>6. Display(row[i]) = row[i].indent /\ row[i].indent \in Nat
  BY <1>2, <1>4, DrawingRows
<1>7. prefix = TreePrefix(row[i]) /\ IsSeq(prefix) /\ Len(prefix) = row[i].indent
  BY <1>1, <1>4, <1>5, <1>6
<1> HIDE DEF prefix
<1>8. CASE Branch(R, up, i)
  <2>1. row[i].indent >= 1 /\ TreePrefix(row[i])[row[i].indent] \in {"tee", "corner"}
    BY <1>2, <1>4, <1>8, Connectors
  <2>2. prefix # <<>> /\ Last(prefix) \in {"tee", "corner"}
    BY <1>7, <2>1, ShortSeqs DEF Last
  <2>3. Connector(i)
    BY <2>2 DEF Connector, prefix
  <2> DEFINE J == {j \in 1 .. i - 1 : Len(Rows[j].prefix) < Len(Rows[i].prefix)}
  <2>4. /\ Display(row[up[i]]) < Display(row[i])
        /\ \A j \in up[i] + 1 .. i - 1 : Display(row[i]) <= Display(row[j])
    BY <1>2, <1>4, <1>8, ParentFound
  <2>5. \A j \in 1 .. i - 1 : j \in 1 .. R
    BY <1>1, <1>4
  <2>6. up[i] \in J
    BY <1>3, <1>4, <1>5, <2>4
  <2>7. \A j \in J : j \in Nat /\ j <= up[i]
    <3> SUFFICES ASSUME NEW j \in J, ~(j <= up[i]) PROVE FALSE
      OBVIOUS
    <3>1. j \in up[i] + 1 .. i - 1 /\ j \in 1 .. R
      BY <1>3, <1>4, <2>5
    <3>2. Display(row[j]) < Display(row[i]) /\ Display(row[i]) <= Display(row[j])
      BY <1>4, <1>5, <2>4, <3>1
    <3>3. QED
      BY <1>4, <1>5, <3>1, <3>2
  <2> HIDE DEF J
  <2>8. Max1(J) = up[i]
    <3>1. \A l \in J : (\A j \in J : j <= l) => l = up[i]
      BY <1>3, <2>6, <2>7
    <3>2. QED
      BY <2>6, <2>7, <3>1 DEF Max1
  <2>9. QED
    BY <2>3, <2>8 DEF ReadParent, J
<1>9. CASE ~Branch(R, up, i)
  <2>1. \A k \in 1 .. row[i].indent : TreePrefix(row[i])[k] \notin {"tee", "corner"}
    BY <1>2, <1>4, <1>9, Connectors
  <2>2. ~Connector(i)
    <3>1. CASE prefix = <<>>
      BY <3>1 DEF Connector, prefix
    <3>2. CASE prefix # <<>>
      <4>1. Len(prefix) # 0
        BY <1>7, <3>2, EmptySeq DEF IsSeq
      <4>2. Len(prefix) \in 1 .. row[i].indent
        BY <1>6, <1>7, <4>1
      <4>3. Last(prefix) \notin {"tee", "corner"}
        BY <1>7, <2>1, <4>2 DEF Last
      <4>4. QED
        BY <4>3 DEF Connector, prefix
    <3>3. QED
      BY <3>1, <3>2
  <2>3. up[i] = i - 1
    BY <1>2, <1>4, <1>9, ParentFound
  <2>4. QED
    BY <2>2, <2>3 DEF ReadParent
<1>10. QED
  BY <1>8, <1>9

\* Under one root the lines join.
LEMMA RowsJoined ==
  ASSUME NEW entries, Forest(entries), NEW cursor, NEW filter,
         NEW S, NEW shown, NEW up, NEW anc, NEW m, NEW row,
         DrawingOf(entries, cursor, filter, tree, S, shown, up, anc, m, row),
         Cardinality(RootRows(entries)) = 1,
         NEW i \in 1 .. Len(Rows), NEW k \in 1 .. Len(Rows[i].prefix), Rows[i].prefix[k] # "blank"
  PROVE  Joined(i, k)
<1> DEFINE R == Len(Rows)
<1>1. /\ R \in Nat /\ R = Len(shown)
      /\ \A j \in 1 .. R : Rows[j].prefix = TreePrefix(row[j])
  BY RowsAre
<1>2. /\ Drawing(R, up, anc, m, row) /\ (m <=> SeveralRoots(R, up))
  BY <1>1 DEF DrawingOf
<1>3. \A j \in 1 .. R : up[j] = 0 <=> j \in RootRows(entries)
  <2> SUFFICES ASSUME NEW j \in 1 .. R
               PROVE  up[j] = 0 <=> j \in RootRows(entries)
    OBVIOUS
  <2>1. j \in 1 .. Len(shown)
    BY <1>1
  <2>2. up[j] = 0 <=> ShownAbove(entries, Rows[j].id) = {}
    BY <2>1, NearestIs
  <2>3. QED
    BY <2>2 DEF RootRows
<1> HIDE DEF R
<1>4. i \in 1 .. R
  BY DEF R
<1>5. PICK r : RootRows(entries) = {r}
  <2>1. IsFiniteSet(1 .. R)
    BY <1>1, IntervalSize
  <2>2. RootRows(entries) \in SUBSET (1 .. R)
    BY DEF RootRows, R
  <2>3. IsFiniteSet(RootRows(entries))
    BY <2>1, <2>2, FS_Subset
  <2>4. QED
    BY <2>3, FS_Singleton
<1>6. OneRoot(R, up) /\ ~m
  BY <1>2, <1>3, <1>5 DEF OneRoot, SeveralRoots, Branch
<1>7. \A j \in 1 .. R : Len(Rows[j].prefix) = Display(row[j])
  <2> SUFFICES ASSUME NEW j \in 1 .. R
               PROVE  Len(Rows[j].prefix) = Display(row[j])
    OBVIOUS
  <2>1. row[j].indent \in Nat
    BY <1>2, DrawingRows
  <2>2. QED
    BY <1>1, <2>1, PrefixColumns
<1>8. k \in 1 .. Display(row[i]) /\ TreePrefix(row[i])[k] # "blank"
  BY <1>1, <1>4, <1>7
<1>9. /\ i - 1 \in 1 .. R
      /\ \/ Display(row[i - 1]) = k - 1
         \/ Display(row[i - 1]) >= k /\ TreePrefix(row[i - 1])[k] \in {"bar", "tee"}
      /\ TreePrefix(row[i])[k] \in {"bar", "tee"} =>
           /\ i < R /\ Display(row[i + 1]) >= k
           /\ TreePrefix(row[i + 1])[k] \in {"bar", "tee", "corner"}
  BY <1>2, <1>4, <1>6, <1>8, LinesJoin
<1>10. i < R => i + 1 \in 1 .. R
  BY <1>1, <1>4
<1>11. QED
  BY <1>1, <1>4, <1>7, <1>9, <1>10 DEF Joined, R

\* What DrawTree is given.
LEMMA EntriesGiven ==
  ASSUME PipeInv, NEW records,
         LET value == Document(WholeText)
             L == Nonblank(WholeText)
             doc == IF value = None THEN NoDocument ELSE value.doc
         IN records = IF doc.of = "entries" THEN doc.records
                      ELSE [i \in 1 .. Len(L) |-> L[i].value]
  PROVE  /\ Len(records) \in Nat
         /\ \A i \in 1 .. Len(records) : WellFormed(records[i])
         /\ TreeEntries = [i \in 1 .. Len(records) |-> records[i].record]
<1> DEFINE L == Nonblank(WholeText)
<1>1. PICK value : value = Document(WholeText)
  OBVIOUS
<1>2. /\ Len(L) \in Nat
      /\ \A k \in 1 .. Len(L) : IsLine(L[k])
  BY WholeTextIsSeq, NonblankElements
<1>3. NoDocument.of # "entries"
  BY NoneAssumption DEF NoDocument
<1>4. CASE value # None /\ value.doc.of = "entries"
  <2> DEFINE n == Len(value.doc.records)
             S == [i \in 1 .. n |-> [value |-> value.doc.records[i]]]
  <2>1. records = value.doc.records
    BY <1>1, <1>4
  <2>2. value = L[1].value /\ IsLine(L[1])
    <3>1. value = L[1].value /\ 1 \in 1 .. Len(L)
      BY <1>1, <1>4 DEF Document
    <3>2. QED
      BY <1>2, <3>1
  <2>3. IsSeq(records) /\ \A i \in 1 .. Len(records) : WellFormed(records[i])
    <3> HIDE DEF L
    <3> QED BY <2>1, <2>2 DEF IsLine
  <2>4. Len(records) \in Nat
    BY <2>3, IsSeqOf DEF IsSeq
  <2>5. TreeEntries = Records(S)
    BY <1>1, <1>4 DEF TreeEntries
  <2>6. \A i \in 1 .. n : S[i].value = value.doc.records[i]
    OBVIOUS
  <2>7. Len(S) = n
    <3>1. S \in [1 .. n -> {S[i] : i \in 1 .. n}]
      OBVIOUS
    <3>2. n \in Nat
      BY <2>1, <2>4
    <3> HIDE DEF S, n
    <3>3. QED
      BY <3>1, <3>2, FunctionIsSeq
  <2> HIDE DEF S
  <2>8. QED
    BY <2>1, <2>3, <2>4, <2>5, <2>6, <2>7 DEF Records
<1>5. CASE ~(value # None /\ value.doc.of = "entries")
  <2> DEFINE r == [i \in 1 .. Len(L) |-> L[i].value]
  <2>1. records = r
    BY <1>1, <1>3, <1>5
  <2>2. Len(r) = Len(L)
    <3>1. r \in [1 .. Len(L) -> {r[i] : i \in 1 .. Len(L)}]
      OBVIOUS
    <3> HIDE DEF r, L
    <3>2. QED
      BY <1>2, <3>1, FunctionIsSeq
  <2>3. TreeEntries = Records(L)
    BY <1>1, <1>5 DEF TreeEntries
  <2>4. \A i \in 1 .. Len(L) : r[i] = L[i].value /\ WellFormed(r[i])
    BY <1>2 DEF IsLine
  <2> HIDE DEF r, L
  <2>5. QED
    BY <1>2, <2>1, <2>2, <2>3, <2>4 DEF Records
<1>6. QED
  BY <1>4, <1>5

\* What has been drawn, is drawn of what came.
TreeInv ==
  tree # None =>
    /\ pc = "done" /\ SessionFile(TreeEntries)
    /\ tree = FormatEntriesTree(TreeEntries, tree.cursor, Job.filter)

LEMMA TreeInitial == Init => TreeInv
BY DEF Init, TreeInv

LEMMA TreeFormatted ==
  ASSUME PipeInv, tree = None, FormatTree
  PROVE  TreeInv'
<1> DEFINE value == Document(WholeText)
           L == Nonblank(WholeText)
           doc == IF value = None THEN NoDocument ELSE value.doc
           records == IF doc.of = "entries" THEN doc.records
                      ELSE [i \in 1 .. Len(L) |-> L[i].value]
           lastId == IF records = <<>> THEN None ELSE Last(records).record.id
           cursor == IF doc.hasLeaf THEN doc.leafId ELSE lastId
           entries == [i \in 1 .. Len(records) |-> records[i].record]
<1>1. /\ Len(records) \in Nat
      /\ \A i \in 1 .. Len(records) : WellFormed(records[i])
      /\ TreeEntries = entries
  BY EntriesGiven
<1>2. \/ \E error : Fail(error)
      \/ /\ \A i \in 1 .. Len(records) : ValidEntry(records[i])
         /\ DrawTree(records, cursor)
  BY DEF FormatTree
<1>3. UNCHANGED <<job, pipe>>
  BY DEF FormatTree
<1>4. TreeEntries' = TreeEntries /\ Job' = Job
  BY <1>3 DEF TreeEntries, WholeText, pipe, Job
<1> HIDE DEF cursor, records
<1>5. CASE tree' = tree
  BY <1>5 DEF TreeInv
<1>6. CASE tree' # tree
  <2>1. /\ \A i \in 1 .. Len(records) : ValidEntry(records[i])
        /\ DrawTree(records, cursor)
    BY <1>2, <1>6 DEF Fail, output
  <2>2. /\ ~DuplicateId(entries) /\ pc' = "done"
        /\ tree' = FormatEntriesTree(entries, cursor, Job.filter)
    BY <2>1, <1>6 DEF DrawTree, Fail, output
  <2>3. tree'.cursor = cursor
    BY <2>2 DEF FormatEntriesTree
  <2>4. \A i \in 1 .. Len(records) : records[i].record.id # None
    BY <1>1, <2>1 DEF WellFormed
  <2>5. SessionFile(entries)
    <3>1. entries \in [1 .. Len(records) -> {entries[i] : i \in 1 .. Len(records)}]
      OBVIOUS
    <3>2. \A i \in 1 .. Len(records) : entries[i].id # None
      BY <2>4
    <3> HIDE DEF entries
    <3>3. IsSeq(entries) /\ Len(entries) = Len(records)
      BY <1>1, <3>1, FunctionIsSeq
    <3>4. None \notin Ids(entries)
      BY <3>2, <3>3 DEF Ids
    <3>5. QED
      BY <2>2, <3>3, <3>4 DEF SessionFile
  <2> HIDE DEF entries
  <2>6. QED
    BY <1>1, <1>4, <2>2, <2>3, <2>5 DEF TreeInv
<1>7. QED
  BY <1>5, <1>6

LEMMA TreeInductive ==
  ASSUME PipeInv, TreeInv, [Next]_vars
  PROVE  TreeInv'
<1>1. CASE tree # None
  <2>1. pc = "done"
    BY <1>1 DEF TreeInv
  <2>2. UNCHANGED vars
    BY <2>1 DEF Next, ReadChunk, ReadEnd, Waiting, Classify, NoLine, DecodeDocument,
                TakeLine, TakeOfDocument, Finish, FormatTree
  <2>3. TreeEntries' = TreeEntries /\ Job' = Job /\ tree' = tree /\ pc' = pc
    BY <2>2 DEF vars, pipe, output, TreeEntries, WholeText, Job
  <2>4. QED
    BY <2>3 DEF TreeInv
<1>2. CASE tree = None /\ FormatTree
  BY <1>2, TreeFormatted
<1>3. CASE tree = None /\ ~FormatTree
  <2>1. CASE ReadChunk \/ ReadEnd \/ NoLine \/ Finish \/ UNCHANGED vars
    <3>1. tree' = tree
      BY <2>1 DEF ReadChunk, ReadEnd, NoLine, Finish, vars, output
    <3>2. QED
      BY <1>3, <3>1 DEF TreeInv
  <2>2. CASE Classify \/ DecodeDocument \/ TakeLine \/ TakeOfDocument
    <3>1. \/ \E error : Fail(error)
          \/ \E of, records, leafId : Decoded(of, records, leafId)
          \/ \E n, value : Show(n, value)
          \/ UNCHANGED output
      BY <2>2, Zenon DEF Classify, DecodeDocument, TakeLine, OneRecord, TakeOfDocument
    <3>2. tree' = tree
      BY <3>1 DEF Fail, Decoded, Show, output
    <3>3. QED
      BY <1>3, <3>2 DEF TreeInv
  <2>3. QED
    BY <1>3, <2>1, <2>2 DEF Next
<1>4. QED
  BY <1>1, <1>2, <1>3

LEMMA TreeRead ==
  ASSUME TreeInv
  PROVE  TreeReadsBack
<1> SUFFICES ASSUME tree # None, Acyclic(TreeEntries)
             PROVE  TreeReadsBack
  BY DEF TreeReadsBack
<1>1. PICK entries : entries = TreeEntries
  OBVIOUS
<1>2. PICK cursor : cursor = tree.cursor
  OBVIOUS
<1>3. Forest(entries) /\ tree = FormatEntriesTree(entries, cursor, Job.filter)
  BY <1>1, <1>2 DEF Forest, Acyclic, TreeInv
<1>4. PICK S, shown, up, anc, m, row :
        DrawingOf(entries, cursor, Job.filter, tree, S, shown, up, anc, m, row)
  BY <1>3, TreeDrawn
<1>5. /\ Len(Rows) = Len(shown) /\ RowIds = S /\ Cardinality(RowIds) = Len(Rows)
      /\ \A i \in 1 .. Len(shown) : Rows[i].id = shown[i]
  BY <1>4, RowsAre
<1>6. RowIds = {id \in Ids(entries) :
                  PassesFilter(EntryOf(entries, id), LabelOf(entries, id), tree.cursor, Job.filter)}
  BY <1>2, <1>4, <1>5 DEF DrawingOf
<1>7. \A i \in 1 .. Len(Rows) :
        i \in RootRows(entries) \/ ReadParent(i) = Nearest(entries, Rows[i].id)
  <2> SUFFICES ASSUME NEW i \in 1 .. Len(Rows), i \notin RootRows(entries)
               PROVE  ReadParent(i) = Nearest(entries, Rows[i].id)
    OBVIOUS
  <2>1. i \in 1 .. Len(shown)
    BY <1>5
  <2>2. /\ up[i] = 0 <=> ShownAbove(entries, Rows[i].id) = {}
        /\ up[i] # 0 => Nearest(entries, Rows[i].id) = Rows[up[i]].id
    BY <1>3, <1>4, <2>1, NearestIs
  <2>3. up[i] # 0
    BY <2>2 DEF RootRows
  <2>4. ReadParent(i) = Rows[up[i]].id
    BY <1>3, <1>4, <2>1, <2>3, ParentRead
  <2>5. QED
    BY <2>2, <2>3, <2>4
<1>8. \A i, j \in 1 .. Len(Rows) :
        i < j /\ Rows[j].id \in ActivePath(entries, cursor) => Rows[i].id \in ActivePath(entries, cursor)
  <2>1. PathFirst(shown, ActivePath(entries, cursor))
    BY <1>4 DEF DrawingOf, Shown
  <2>2. QED
    BY <1>5, <2>1 DEF PathFirst
<1>9. Cardinality(RootRows(entries)) = 1 =>
        \A i \in 1 .. Len(Rows) : \A k \in 1 .. Len(Rows[i].prefix) :
          Rows[i].prefix[k] # "blank" => Joined(i, k)
  BY <1>3, <1>4, RowsJoined
<1>10. QED
  BY <1>1, <1>2, <1>5, <1>6, <1>7, <1>8, <1>9 DEF TreeReadsBack

\* Of every session file without a cycle, whatever its entries, the filter and
\* the leaf, the drawing that formatEntriesTree makes reads back: every entry
\* that passes the filter has one row, which hangs where an eye that follows
\* the connectors puts it, below its nearest ancestor shown (treePrefix,
\* recalculateVisibleStructure); the active branch comes first (flattenAll).
THEOREM TreeReadsBackSafe == Spec => []TreeReadsBack
<1>1. Init => FormatInv /\ TreeInv
  BY FormatInitial, TreeInitial
<1>2. FormatInv /\ TreeInv /\ [Next]_vars => FormatInv' /\ TreeInv'
  BY FormatInductive, TreeInductive DEF FormatInv
<1>3. TreeInv => TreeReadsBack
  BY TreeRead
<1>4. QED
  BY <1>1, <1>2, <1>3, PTL DEF Spec
=============================================================================
