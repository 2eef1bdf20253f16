--------------------------- MODULE FormatCommand ----------------------------
(***************************************************************************)
(* pictl format messages, entries, events and tree (format/command.ts) at  *)
(* the end of a pipe: decodeFormatInput takes the lines as they come,      *)
(* decides from the first what the stream is, and hands the records on one *)
(* by one, so that what is formatted keeps up with the pipe.  Documents,   *)
(* and everything format tree gets, are read to the end first.             *)
(***************************************************************************)
EXTENDS FormatInput

CONSTANT Jobs  \* the command lines: what is asked, and what the pipe may hold

\* The messages that are formatted for a value.
MessagesOf(value) ==
  CASE ClassifyRecord(value) = "entry" ->
         IF ValidEntry(value) THEN {value.record.message} \ {None} ELSE {}
    [] ClassifyRecord(value) \in {"message", "cursor"} -> {value.record}
    [] ClassifyRecord(value) = "event" -> {value.record.message}
    [] OTHER -> {}
WellFormed(value) ==
  /\ \A m \in MessagesOf(value) : m.type = "message" => IsSeq(m.blocks)
  /\ ValidEntry(value) => value.record.id # None

\* A value with the type of a record is no document; the messages of a document
\* are made into records (decodeMessagesInput).
IsLine(line) ==
  LET doc == line.value.doc IN
  /\ line # None /\ line.value # None /\ WellFormed(line.value)
  /\ doc.of \in {None, "entries", "messages", "tree"}
  /\ line.value.type # None => doc.of = None
  /\ doc.records # None /\ IsSeq(doc.records)
  /\ \A i \in 1 .. Len(doc.records) :
       /\ WellFormed(doc.records[i])
       /\ doc.of = "messages" => doc.records[i].type = "message" /\ ~doc.records[i].keyed
ASSUME NoneAssumption ==
  /\ None \notin EntryTypes \cup MessageRecordTypes \cup EventTypes \cup {"pictl_cursor"}
  /\ None \notin {"entry", "message", "cursor", "event"}
  /\ None \notin {"entries", "messages", "events", "tree", "empty"}
  /\ None \notin Nat /\ None # <<>>
ASSUME JobsAssumption ==
  \A name \in DOMAIN Jobs :
    LET aJob == Jobs[name] IN
    /\ aJob.command \in {"messages", "entries", "events", "tree"}
    /\ aJob.toolResults \in {"summary", "none", "full"}
    /\ aJob.max \in Nat /\ 1 .. aJob.max \subseteq DOMAIN aJob.lines
    /\ aJob.chunk \in 1 .. 2
    /\ \A n \in 1 .. aJob.max : \A line \in aJob.lines[n] : IsLine(line)
    /\ \A line \in aJob.torn : IsLine(line)

VARIABLES
  job,        \* which of them
  received,   \* the complete lines that have come
  torn,       \* at the end of the input, the text after the last line or None
  eof,
  pc,
  taken,      \* the lines taken
  kind,       \* what the input is, once that is decided
  finished,   \* of a document: its records; None for lines
  leaf,       \* the leaf of a document of entries
  previous,   \* of the entry projector: the last entry
  formatter,  \* the MessageFormatter of format messages
  lines,      \* what format entries and events wrote: the records' numbers
  tree,       \* what format tree wrote
  failure     \* the error

pipe == <<received, torn, eof>>
output == <<formatter, lines, tree>>
vars == <<job, pipe, pc, taken, kind, finished, leaf, previous, output, failure>>

Job == Jobs[job]

Init ==
  /\ job \in DOMAIN Jobs
  /\ received = <<>> /\ torn = None /\ eof = FALSE
  /\ pc = IF Job.command = "tree" THEN "whole" ELSE "first"
  /\ taken = 0 /\ kind = None /\ finished = None /\ leaf = None /\ previous = None
  /\ formatter = NewFormatter(Job.toolResults) /\ lines = <<>> /\ tree = None
  /\ failure = None

\* The next line that is not blank: the head of the queue of nextLine.
Queue_Ahead ==
  {i \in taken + 1 .. Len(received) - (IF eof THEN 0 ELSE 1) : received[i].text # "blank"}
Queue == {i \in taken + 1 .. Len(received) : received[i].text # "blank"}
Head1 == CHOOSE i \in Queue : \A j \in Queue : i <= j

\* The program waits for a chunk.
Waiting ==
  /\ ~eof
  /\ \/ pc \in {"document", "whole"}
     \/ pc \in {"first", "records"} /\ finished = None /\ Queue = {}

\* error: "json", "unrecognized", "invalid", "tree", "duplicate", or the
\* sub-command to use instead.
Fail(error) ==
  pc' = "failed" /\ failure' = error
  /\ UNCHANGED <<kind, finished, leaf, previous, output>>

-----------------------------------------------------------------------------
(* The pipe: a chunk ends one or two lines (Job.lines[n] are the lines that  *)
(* can be the nth).  A line marked once does not come again: no tool call   *)
(* has the id of another.                                                   *)

Fresh(S) == \A i, j \in 1 .. Len(S) : i < j /\ S[i].once => S[i] # S[j]

ReadChunk ==
  /\ Waiting
  /\ \E n \in 1 .. Job.chunk :
       /\ Len(received) + n <= Job.max
       /\ \E first \in Job.lines[Len(received) + 1],
             last \in Job.lines[Len(received) + n] :
            received' = received \o IF n = 1 THEN <<first>> ELSE <<first, last>>
  /\ Fresh(received')
  /\ UNCHANGED <<job, torn, eof, pc, taken, kind, finished, leaf, previous, output, failure>>

ReadEnd ==
  /\ Waiting
  /\ eof' = TRUE
  /\ torn' \in {None} \cup Job.torn
  /\ UNCHANGED <<job, received, pc, taken, kind, finished, leaf, previous, output, failure>>

-----------------------------------------------------------------------------
(* decodeFormatInput.                                                       *)

\* entriesOf, eventsOf and messageRecordsOf: the kinds a sub-command refuses.
Refused(of) ==
  CASE Job.command = "entries" -> of \in {"messages", "events"}
    [] Job.command = "events"  -> of = "entries"
    [] OTHER                   -> FALSE

Decoded(of, records, leafId) ==
  IF Refused(of) THEN Fail(of)
  ELSE /\ pc' = "records" /\ failure' = None
       /\ kind' = of /\ finished' = records /\ leaf' = leafId
       /\ UNCHANGED <<previous, output>>

\* The first record decides.  One that does not may be the beginning of a
\* document; what is thrown if it is none is kept.
Classify ==
  /\ pc = "first" /\ Queue # {}
  /\ LET line == received[Head1]
         of == IF line.text = "json" THEN KindOf(line.value) ELSE None
     IN IF of # None THEN Decoded(of, None, None)
        ELSE /\ pc' = "document"
             /\ failure' = IF line.text = "json" THEN "unrecognized" ELSE "json"
             /\ UNCHANGED <<kind, finished, leaf, previous, output>>
  /\ UNCHANGED <<job, pipe, taken>>

\* There is no complete line: a document without a newline, or nothing.
NoLine ==
  /\ pc = "first" /\ Queue = {} /\ eof
  /\ pc' = "document" /\ failure' = "torn"
  /\ UNCHANGED <<job, pipe, taken, kind, finished, leaf, previous, output>>

\* documentInput, of the whole text.
WholeText == received \o IF torn = None THEN <<>> ELSE <<torn>>
DecodeDocument ==
  /\ pc = "document" /\ eof
  /\ LET value == Document(WholeText)
         doc == IF value = None THEN NoDocument ELSE value.doc
         valid(v) == IF doc.of = "entries" THEN ValidEntry(v) ELSE ValidMessage(v)
     IN CASE doc.of \in {"entries", "messages"} ->
               IF \A i \in 1 .. Len(doc.records) : valid(doc.records[i])
               THEN Decoded(doc.of, doc.records, doc.leafId)
               ELSE Fail("invalid")
          [] doc.of = "tree" -> Fail("tree")
          [] OTHER -> IF failure = "torn" THEN Decoded("empty", <<>>, None)
                      ELSE Fail(failure)
  /\ UNCHANGED <<job, pipe, taken>>

-----------------------------------------------------------------------------
(* One record.                                                              *)

\* formatMessages: what is pushed for a record of each kind.
MessageRecords(value) ==
  CASE kind = "entries" -> ProjectEntry(previous, value.record)
    [] kind = "events" /\ value.type # "pictl_cursor" -> ProjectEvent(value.record)
    [] OTHER -> <<value.record>>

Show(n, value) ==
  /\ CASE Job.command = "messages" ->
            /\ formatter' = PushAll(formatter, MessageRecords(value))
            /\ previous' = IF kind = "entries" THEN value.record.id ELSE previous
            /\ UNCHANGED lines
       [] Job.command = "entries" ->
            /\ lines' = IF Job.filter = None
                           \/ PassesFilter(value.record, None, leaf, Job.filter)
                        THEN Append(lines, n) ELSE lines
            /\ UNCHANGED <<formatter, previous>>
       [] Job.command = "events" ->
            lines' = Append(lines, n) /\ UNCHANGED <<formatter, previous>>
  /\ UNCHANGED <<pc, tree, failure, kind, finished, leaf>>

\* messageCursorsOnly: a cursor alone may come from a stream of events.
NotForEvents(value) ==
  Job.command = "events" /\ kind = "messages" /\ value.type # "pictl_cursor"

\* records, and the loop of the sub-command, for one line.
OneRecord(line) ==
  LET value == line.value
      valid == CASE kind = "entries"  -> ValidEntry(value)
                 [] kind = "messages" -> ValidMessage(value)
                 [] OTHER             -> TRUE
  IN IF line.text # "json" THEN Fail("json")
     ELSE IF ClassifyRecord(value) \notin Accepted(kind)
     THEN Fail(CrossPointer(ClassifyRecord(value)))
     ELSE IF ~valid THEN Fail("invalid")
     ELSE IF NotForEvents(value) THEN Fail("messages")
     ELSE Show(Head1, value)

TakeLine ==
  /\ pc = "records" /\ finished = None /\ Queue # {}
  /\ OneRecord(received[Head1])
  /\ taken' = Head1
  /\ UNCHANGED <<job, pipe>>

TakeOfDocument ==
  /\ pc = "records" /\ finished # None /\ taken < Len(finished)
  /\ IF NotForEvents(finished[taken + 1]) THEN Fail("messages") /\ UNCHANGED taken
     ELSE Show(taken + 1, finished[taken + 1]) /\ taken' = taken + 1
  /\ UNCHANGED <<job, pipe>>

Finish ==
  /\ pc = "records"
  /\ IF finished = None THEN eof /\ Queue = {} ELSE taken = Len(finished)
  /\ pc' = "done"
  /\ formatter' = IF Job.command = "messages" THEN End(formatter) ELSE formatter
  /\ UNCHANGED <<job, pipe, taken, kind, finished, leaf, previous, lines, tree, failure>>

-----------------------------------------------------------------------------
(* format tree: parseEntriesInput and formatEntriesTree.  The text after    *)
(* the last line counts here.                                               *)

DrawTree(records, leafId) ==
  LET entries == [i \in 1 .. Len(records) |-> records[i].record] IN
  IF DuplicateId(entries) THEN Fail("duplicate")
  ELSE /\ pc' = "done"
       /\ tree' = FormatEntriesTree(entries, leafId, Job.filter)
       /\ UNCHANGED <<kind, finished, leaf, previous, formatter, lines, failure>>

FormatTree ==
  /\ pc = "whole" /\ eof
  /\ LET value == Document(WholeText)
         L == Nonblank(WholeText)
         doc == IF value = None THEN NoDocument ELSE value.doc
         records == IF doc.of = "entries" THEN doc.records
                    ELSE [i \in 1 .. Len(L) |-> L[i].value]
         lastId == IF records = <<>> THEN None ELSE Last(records).record.id
     IN IF doc.of = "tree" THEN Fail("tree")
        ELSE IF doc.of # "entries" /\ \E i \in 1 .. Len(L) : L[i].text # "json"
        THEN Fail("json")
        ELSE IF \E i \in 1 .. Len(records) : ~ValidEntry(records[i]) THEN Fail("invalid")
        ELSE DrawTree(records, IF doc.hasLeaf THEN doc.leafId ELSE lastId)
  /\ UNCHANGED <<job, pipe, taken>>

-----------------------------------------------------------------------------
Next ==
  \/ ReadChunk \/ ReadEnd \/ Classify \/ NoLine \/ DecodeDocument
  \/ TakeLine \/ TakeOfDocument \/ Finish \/ FormatTree

Spec == Init /\ [][Next]_vars

-----------------------------------------------------------------------------
(* Properties.                                                              *)

Max1(S) == CHOOSE n \in S : \A m \in S : m <= n

\* What tail --type T --json writes: lines of one kind, and at the end of a
\* finite stream of messages or events a cursor.
Came == Nonblank(received)
Shape(i) ==
  LET v == Came[i].value IN
  IF v.keyed THEN "entry"
  ELSE IF v.type = "pictl_cursor" THEN "cursor"
  ELSE IF v.type \in {"message", "control"} THEN "message"
  ELSE IF v.type = None \/ v.type \in EntryTypes THEN None
  ELSE "event"
StreamOf(type) ==
  /\ \A i \in 1 .. Len(Came) : Came[i].text = "json"
  /\ CASE type = "entries"  -> \A i \in 1 .. Len(Came) :
                                  Shape(i) = "entry" /\ ValidEntry(Came[i].value)
       [] type = "messages" -> \A i \in 1 .. Len(Came) :
                                  /\ ValidMessage(Came[i].value)
                                  /\ \/ Shape(i) = "message"
                                     \/ Shape(i) = "cursor" /\ i = Len(Came)
       [] type = "events"   -> \A i \in 1 .. Len(Came) :
                                  \/ Shape(i) = "event"
                                  \/ /\ Shape(i) = "cursor" /\ i = Len(Came)
                                     /\ ValidMessage(Came[i].value)
\* It is known what the first line is.
Recognized == Came = <<>> \/ KindOf(Came[1].value) # None

\* What tail without --json would have printed for these lines.
Records(S) == [i \in 1 .. Len(S) |-> S[i].value.record]
Written ==
  IF Job.command = "messages"
  THEN formatter = IF pc = "done" THEN FormatMessageRecords(Job.toolResults, Records(Came))
                   ELSE PushAll(NewFormatter(Job.toolResults), Records(Came))
  ELSE Len(lines) = Len(Came)

\* tail --json piped into format prints what tail prints, and whenever the
\* command waits for more it has printed all that tail would have by now
\* (format/input.ts: "so subcommands can render a live pipe as it flows";
\* record-writer.ts: "both render identically").
RoundTrip ==
  Job.command # "tree" /\ Job.filter = None /\ StreamOf(Job.command) /\ Recognized =>
    /\ pc # "failed" \/ Came = <<>>
    /\ Came # <<>> /\ (Waiting \/ pc = "done") => Written

\* The same of every stream of events, also one that begins with an event this
\* version does not know.
EventsRoundTrip ==
  Job.command = "events" /\ StreamOf("events") =>
    pc # "failed" \/ Came = <<>>

\* What one format command refuses at once, of a stream or a document that is
\* output of pictl, names the command that takes it, and nothing has been
\* printed by then.
Holds(type) ==
  \/ Came # <<>> /\ StreamOf(type) /\ Recognized
  \/ eof /\ Document(WholeText) # None /\ Document(WholeText).doc.of = type
SwappedPipe ==
  /\ pc = "failed" /\ Job.command # "tree" /\ failure # "invalid"
  /\ \E type \in {"messages", "entries", "events"} : Holds(type)
  => failure \in {"messages", "entries", "events"} /\ Holds(failure) /\ lines = <<>>

\* A reader who gives every block to the last header shown is right about its
\* speaker, and no text that could be taken for something else comes between
\* that header and the block.
Blocks == formatter.printed
Attributed ==
  \A j \in 1 .. Len(Blocks) : Blocks[j].speaker # None =>
    LET headed == {i \in 1 .. j : Blocks[i].header # None} IN
    /\ headed # {}
    /\ Blocks[Max1(headed)].header = Blocks[j].speaker
    /\ \A i \in Max1(headed) .. j - 1 : ~HasRawTextLine(Blocks[i].body)

\* All that is printed or held back, a body for each block and one for the run.
Bodies ==
  [i \in 1 .. Len(Blocks) |-> Blocks[i].body]
  \o IF formatter.run = EmptyRun THEN <<>> ELSE <<RunBody(formatter.run)>>
At == UNION {{i} \X (1 .. Len(Bodies[i])) : i \in 1 .. Len(Bodies)}
ElementAt(at) == Bodies[at[1]][at[2]]

\* The parts of record n that are there to be seen.
Visible(n) ==
  LET m == formatter.pushed[n] IN
  IF m.type = "message" /\ m.role = "assistant"
  THEN {<<n, i>> : i \in BlocksOf(m, "toolCall")
                         \cup {i \in BlocksOf(m, "text") : m.blocks[i].text \notin {"empty", "blank"}}}
       \cup IF HasThinking(m) THEN {<<n, 0>>} ELSE {}
  ELSE IF m.type = "message" /\ m.text = "empty" /\ m.role # "toolResult" THEN {}
  ELSE {<<n, 1>>}
IsResult(m) == m.type = "message" /\ m.role = "toolResult"
\* A result that was asked not to be shown, or that went well and answers a
\* read-only call of a run.
MayHide(n) ==
  LET m == formatter.pushed[n] IN
  /\ IsResult(m)
  /\ \/ formatter.toolResults = "none"
     \/ ~m.isError /\ \E at \in At : ElementAt(at).what = "tools" /\ m.id \in ElementAt(at).ids
Answered(n) ==
  {at \in At : ElementAt(at).result = n /\ formatter.pushed[n].id \in ElementAt(at).ids}

\* No call has two results.
AnsweredOnce ==
  \A n, k \in 1 .. Len(formatter.pushed) :
    /\ IsResult(formatter.pushed[n]) /\ IsResult(formatter.pushed[k])
    /\ formatter.pushed[n].id = formatter.pushed[k].id
    => n = k

\* No call, text or result is lost or printed twice, and blocks and the calls
\* in a run are in the order of the messages.
NothingLost ==
  AnsweredOnce =>
  /\ \A n \in 1 .. Len(formatter.pushed) : \A part \in Visible(n) :
       LET shown == {at \in At : part \in ElementAt(at).parts} IN
       \/ Cardinality(shown) = 1 /\ Answered(n) = {}
       \/ shown = {} /\ (MayHide(n) \/ Cardinality(Answered(n)) = 1)
  /\ \A a, b \in At :
       a[1] < b[1] \/ (a[1] = b[1] /\ a[2] < b[2] /\ ElementAt(a).what # "thought") =>
         \A p \in ElementAt(a).parts, q \in ElementAt(b).parts :
           p[1] < q[1] \/ (p[1] = q[1] /\ p[2] < q[2])

\* The tree.  A row that begins with a connector hangs from the last row above
\* that begins to the left of it, another from the row before; so read, the
\* drawing gives every row its nearest ancestor that is shown.  Every entry
\* the filter passes has one row, the branch of the leaf comes first, and
\* under one root the lines join.
TreeEntries ==
  LET value == Document(WholeText) IN
  Records(IF value # None /\ value.doc.of = "entries"
          THEN [i \in 1 .. Len(value.doc.records) |-> [value |-> value.doc.records[i]]]
          ELSE Nonblank(WholeText))
Acyclic(entries) == \A id \in Ids(entries) : id \notin Above(entries, id)

Rows == tree.rows
RowIds == {Rows[i].id : i \in 1 .. Len(Rows)}
\* The shown ancestors of a shown entry; the nearest has all the others.
ShownAbove(entries, id) == Above(entries, id) \cap RowIds
Nearest(entries, id) ==
  LET S == ShownAbove(entries, id) IN
  IF S = {} THEN None ELSE CHOOSE p \in S : ShownAbove(entries, p) = S \ {p}
RootRows(entries) == {i \in 1 .. Len(Rows) : ShownAbove(entries, Rows[i].id) = {}}

Connector(i) == Rows[i].prefix # <<>> /\ Last(Rows[i].prefix) \in {"tee", "corner"}
ReadParent(i) ==
  IF Connector(i)
  THEN Rows[Max1({j \in 1 .. i - 1 : Len(Rows[j].prefix) < Len(Rows[i].prefix)})].id
  ELSE Rows[i - 1].id
Joined(i, k) ==
  /\ \/ Len(Rows[i - 1].prefix) = k - 1
     \/ /\ Len(Rows[i - 1].prefix) >= k
        /\ Rows[i - 1].prefix[k] \in {"bar", "tee"}
  /\ Rows[i].prefix[k] \in {"bar", "tee"} =>
       /\ i < Len(Rows) /\ Len(Rows[i + 1].prefix) >= k
       /\ Rows[i + 1].prefix[k] \in {"bar", "tee", "corner"}

TreeReadsBack ==
  tree # None /\ Acyclic(TreeEntries) =>
    LET entries == TreeEntries
        path == ActivePath(entries, tree.cursor)
    IN /\ Cardinality(RowIds) = Len(Rows)
       /\ RowIds = {id \in Ids(entries) :
                      PassesFilter(EntryOf(entries, id), LabelOf(entries, id), tree.cursor, Job.filter)}
       /\ \A i \in 1 .. Len(Rows) :
            i \in RootRows(entries) \/ ReadParent(i) = Nearest(entries, Rows[i].id)
       /\ \A i, j \in 1 .. Len(Rows) :
            /\ i < j /\ Rows[j].id \in path
            /\ Nearest(entries, Rows[i].id) = Nearest(entries, Rows[j].id)
            => Rows[i].id \in path
       /\ Cardinality(RootRows(entries)) = 1 =>
            \A i \in 1 .. Len(Rows) : \A k \in 1 .. Len(Rows[i].prefix) :
              Rows[i].prefix[k] # "blank" => Joined(i, k)
=============================================================================
