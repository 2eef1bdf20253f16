-------------------------- MODULE MessageFormatter --------------------------
(***************************************************************************)
(* MessageFormatter of format/messages.ts, through which tail, prompt and  *)
(* format print messages as they come.  Thinking, read-only calls and bash *)
(* calls are held back and printed as one block, a run; a header names the *)
(* speaker of a block only where a reader could not tell it.               *)
(*                                                                         *)
(* A message is what the layout depends on: its role, its blocks, whether  *)
(* a text has lines that are not bracketed (raw).  A printed block is a    *)
(* header and a body, a sequence of elements; an element names the parts   *)
(* it shows, a part being a record's number and the position of a block in *)
(* it.  How long a thought took is left out.                               *)
(***************************************************************************)
EXTENDS Integers, Sequences, SequencesExt

CONSTANT None  \* undefined

EmptyRun == [items |-> <<>>, thinking |-> {}]

NewFormatter(toolResults) ==
  [toolResults |-> toolResults,  \* --tool-results: "summary", "none" or "full"
   pushed |-> <<>>,              \* the records pushed so far
   run |-> EmptyRun,             \* the open run, which holds something, or EmptyRun
   lastHeader |-> None,
   forceNextHeader |-> FALSE,
   printed |-> <<>>]             \* the blocks printed so far

IsSeq(s) == s \in Seq({s[i] : i \in DOMAIN s})

\* The elements of a sequence at the positions in a set.
Subsequence(s, I) ==
  LET upto[k \in 0 .. Len(s)] ==
        IF k = 0 THEN <<>>
        ELSE IF k \in I THEN Append(upto[k - 1], s[k]) ELSE upto[k - 1]
  IN upto[Len(s)]

-----------------------------------------------------------------------------
(* Messages.                                                                *)

ReadOnlyTools == {"read", "grep", "find", "ls"}

BlocksOf(m, kind) == {i \in 1 .. Len(m.blocks) : m.blocks[i].kind = kind}
HasThinking(m) == BlocksOf(m, "thinking") # {}
Failed(m) == m.stop \in {"aborted", "error"}

\* isCoalescableAssistant.
Coalescable(m) ==
  /\ m.role = "assistant" /\ ~Failed(m)
  /\ \A i \in BlocksOf(m, "text") : m.blocks[i].text \in {"empty", "blank"}
  /\ \A i \in BlocksOf(m, "toolCall") :
       m.blocks[i].tool \in ReadOnlyTools \cup {"bash"}
  /\ BlocksOf(m, "thinking") \cup BlocksOf(m, "toolCall") # {}

\* An element of a body.  Only the bash line of a run gets a result, the number
\* of the record it was taken from.
Element(what, parts, ids, raw) ==
  [what |-> what, parts |-> parts, ids |-> ids, result |-> None, raw |-> raw]

\* formatMessage for an assistant: thinking first and once, then the blocks
\* that are not empty, then how it failed.
AssistantBody(n, m) ==
  LET block(i) ==
        LET b == m.blocks[i] IN
        IF b.kind = "toolCall" THEN Element("call", {<<n, i>>}, {b.id}, FALSE)
        ELSE Element("text", {<<n, i>>}, {}, b.text = "raw")
      shown == BlocksOf(m, "toolCall")
               \cup {i \in BlocksOf(m, "text") : m.blocks[i].text # "empty"}
  IN (IF HasThinking(m) THEN <<Element("thinking", {<<n, 0>>}, {}, FALSE)>> ELSE <<>>)
     \o Subsequence([i \in 1 .. Len(m.blocks) |-> block(i)], shown)
     \o (IF Failed(m) THEN <<Element("failure", {<<n, Len(m.blocks) + 1>>}, {}, FALSE)>>
         ELSE <<>>)

\* formatToolResultText: a bracketed line, and the text of an error or, in
\* full, of every result.
ResultBody(f, n, m) ==
  <<Element("result", {<<n, 1>>}, {m.id},
            m.text = "raw" /\ (f.toolResults = "full" \/ m.isError))>>

\* formatMessageRecord: a header, which controls and cursors do not have, and a
\* body; neither for what renders nothing.  A result speaks as the assistant.
Rendered(f, n, record) ==
  IF record.type # "message"
  THEN [header |-> None, body |-> <<Element(record.type, {<<n, 1>>}, {}, FALSE)>>]
  ELSE CASE record.role = "assistant" ->
              [header |-> "assistant", body |-> AssistantBody(n, record)]
         [] record.role = "toolResult" ->
              IF f.toolResults = "none" THEN [header |-> None, body |-> <<>>]
              ELSE [header |-> "assistant", body |-> ResultBody(f, n, record)]
         [] OTHER ->
              [header |-> record.role,
               body |-> IF record.text = "empty" THEN <<>>
                        ELSE <<Element("text", {<<n, 1>>}, {}, record.text = "raw")>>]

-----------------------------------------------------------------------------
(* Printing.                                                                *)

\* block: no header where it is that of the block before, unless raw text
\* came in between.
HasRawTextLine(body) == \E i \in 1 .. Len(body) : body[i].raw
EmitHeader_Sticky(f, header) == header # None /\ header # f.lastHeader
EmitHeader(f, header) ==
  header # None /\ (f.forceNextHeader \/ header # f.lastHeader)

PrintBlock(f, header, body) ==
  LET emit == EmitHeader(f, header) IN
  [f EXCEPT
     !.lastHeader = IF header = None THEN @ ELSE header,
     !.forceNextHeader = HasRawTextLine(body) \/ (header = None /\ @),
     !.printed = IF ~emit /\ body = <<>> THEN @
                 ELSE Append(@, [header |-> IF emit THEN header ELSE None,
                                 speaker |-> header, body |-> body])]

-----------------------------------------------------------------------------
(* Runs.  Read-only calls next to each other share an element, which shows  *)
(* them by tool; a bash call has its own.                                   *)

AddCall(items, part, call) ==
  IF call.tool = "bash" THEN Append(items, Element("bash", {part}, {call.id}, FALSE))
  ELSE IF items = <<>> \/ Last(items).what # "tools"
  THEN Append(items, Element("tools", {part}, {call.id}, FALSE))
  ELSE [items EXCEPT ![Len(items)].parts = @ \cup {part},
                     ![Len(items)].ids = @ \cup {call.id}]

AddCalls(items, n, m) ==
  LET added[i \in 0 .. Len(m.blocks)] ==
        IF i = 0 THEN items
        ELSE IF i \in BlocksOf(m, "toolCall")
        THEN AddCall(added[i - 1], <<n, i>>, m.blocks[i])
        ELSE added[i - 1]
  IN added[Len(m.blocks)]

\* absorbIntoRun, for an assistant.
Join(f, n, m) ==
  [f EXCEPT !.run =
     [items |-> AddCalls(@.items, n, m),
      thinking |-> @.thinking \cup IF HasThinking(m) THEN {<<n, 0>>} ELSE {}]]

\* absorbIntoRun, for the result of a call of the open run: that of a read is
\* dropped, that of bash is summed up on its line.
CallOf(f, id) ==
  {i \in 1 .. Len(f.run.items) : id \in f.run.items[i].ids}
Answers_Errors(f, record) == record.role = "toolResult" /\ CallOf(f, record.id) # {}
Answers(f, record) ==
  record.role = "toolResult" /\ ~record.isError /\ CallOf(f, record.id) # {}

Answer(f, n, m) ==
  LET i == CHOOSE i \in CallOf(f, m.id) : TRUE IN
  IF f.run.items[i].what = "bash" /\ f.toolResults = "summary"
  THEN [f EXCEPT !.run.items[i].result = n] ELSE f

\* flushRun and renderRunLines.
RunBody(run) ==
  (IF run.thinking = {} THEN <<>>
   ELSE <<Element("thought", run.thinking, {}, FALSE)>>) \o run.items
FlushRun(f) ==
  IF f.run = EmptyRun THEN f
  ELSE PrintBlock([f EXCEPT !.run = EmptyRun], "assistant", RunBody(f.run))

-----------------------------------------------------------------------------
(* push and end.                                                            *)

Push(f, record) ==
  LET n == Len(f.pushed) + 1
      seen == [f EXCEPT !.pushed = Append(@, record)]
      absorbs == f.toolResults # "full" /\ record.type = "message"
      rendered == Rendered(f, n, record)
  IN IF absorbs /\ Coalescable(record) THEN Join(seen, n, record)
     ELSE IF absorbs /\ Answers(f, record) THEN Answer(seen, n, record)
     ELSE PrintBlock(FlushRun(seen), rendered.header, rendered.body)

PushAll(f, records) ==
  LET after[k \in 0 .. Len(records)] ==
        IF k = 0 THEN f ELSE Push(after[k - 1], records[k])
  IN after[Len(records)]

End(f) == FlushRun(f)

\* formatMessageRecords.
FormatMessageRecords(toolResults, records) ==
  End(PushAll(NewFormatter(toolResults), records))
=============================================================================
