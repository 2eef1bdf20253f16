---------------------------- MODULE FormatInput -----------------------------
(***************************************************************************)
(* What format/input.ts makes of a line, of a whole text and of a record,  *)
(* and the projectors of core/streaming/message-records.ts.  A line is     *)
(* blank, broken (not JSON), one JSON value, or the opening or the closing *)
(* line of a document printed over several lines.  A value has the type a  *)
(* record has, None for other JSON; keyed is whether it has the id and the *)
(* timestamp of an entry; content stands for all that is validated: "ok",  *)
(* "null" (which old session files have) or "bad".                         *)
(***************************************************************************)
EXTENDS TreeLayout

Cursor == [type |-> "pictl_cursor"]
Control == [type |-> "control"]

EntryTypes == {"message", "thinking_level_change", "model_change", "usage",
               "context_edit", "compaction", "branch_summary", "custom",
               "custom_message", "label", "session_info"}
MessageRecordTypes == {"message", "control"}
\* Of EVENT_TYPE_MARKERS, those the projector tells apart and one of the rest.
ControlEvents == {"compaction_start", "compaction_end", "tree_navigated",
                  "session_changed", "queue_update", "model_changed"}
EventTypes == ControlEvents \cup {"message_end", "agent_settled", "agent_start"}

\* classifyRecord.
ClassifyRecord_ByType(value) ==
  CASE value.type = None                -> None
    [] value.type = "pictl_cursor"      -> "cursor"
    [] value.type \in EntryTypes        -> "entry"
    [] value.type \in MessageRecordTypes -> "message"
    [] OTHER                            -> "event"
ClassifyRecord(value) ==
  CASE value.type = None                -> None
    [] value.type = "pictl_cursor"      -> "cursor"
    [] value.type \in EntryTypes /\ (value.keyed \/ value.type \notin MessageRecordTypes)
                                        -> "entry"
    [] value.type \in MessageRecordTypes /\ ~(value.keyed /\ value.type \in EntryTypes)
                                        -> "message"
    [] OTHER                            -> "event"

\* decodeSessionEntry and decodeMessageStreamRecord.
ValidEntry(value) ==
  value.type \in EntryTypes /\ value.keyed /\ value.content \in {"ok", "null"}
ValidMessage(value) ==
  value.type \in MessageRecordTypes \cup {"pictl_cursor"} /\ value.content = "ok"

\* The kind of a stream, from its first record; None when that says nothing.
\* A cursor alone is taken for a stream of messages.
KindOf(value) ==
  CASE ClassifyRecord(value) = "entry"                -> "entries"
    [] ClassifyRecord(value) \in {"message", "cursor"} -> "messages"
    [] ClassifyRecord(value) = "event" /\ value.type \in EventTypes -> "events"
    [] OTHER                                          -> None

\* The shapes a stream of a kind may hold, and the sub-command crossPointer
\* names for a shape.
Accepted(kind) ==
  CASE kind = "entries" -> {"entry"} [] kind = "messages" -> {"message", "cursor"}
    [] kind = "events" -> {"event", "cursor"}
CrossPointer(shape) ==
  CASE shape = "entry" -> "entries" [] shape \in {"message", "cursor"} -> "messages"
    [] shape = "event" -> "events" [] OTHER -> "unrecognized"

-----------------------------------------------------------------------------
(* Whole texts.                                                             *)

Nonblank(lines) ==
  Subsequence(lines, {i \in 1 .. Len(lines) : lines[i].text # "blank"})

\* JSON.parse of the whole text: None unless it is one value.
Document(lines) ==
  LET L == Nonblank(lines) IN
  IF Len(L) = 1 /\ L[1].text = "json" THEN L[1].value
  ELSE IF Len(L) = 2 /\ L[1].text = "open" /\ L[2].text = "close" THEN L[1].value
  ELSE None

\* A document is an object with entries (and perhaps a leafId), with messages,
\* or with a tree; NoDocument is the content of every other value.
NoDocument == [of |-> None, records |-> <<>>, hasLeaf |-> FALSE, leafId |-> None]

-----------------------------------------------------------------------------
(* The projectors: the message records of an event, and of an entry that    *)
(* comes after the one with the id previous.                                *)

ProjectEvent(event) ==
  CASE event.type = "message_end"                     -> <<event.message>>
    [] event.type \in ControlEvents                   -> <<Control>>
    [] event.type = "agent_settled" /\ event.aborted  -> <<Control>>
    [] OTHER                                          -> <<>>

\* sessionEntryToContextMessages of pi.
ContextMessages(entry) == IF entry.message = None THEN <<>> ELSE <<entry.message>>

ProjectEntry(previous, entry) ==
  (IF previous # None /\ entry.parentId # previous THEN <<Control>> ELSE <<>>)
  \o (IF entry.type # "model_change" THEN ContextMessages(entry)
      ELSE IF previous = None THEN <<>> ELSE <<Control>>)
=============================================================================
