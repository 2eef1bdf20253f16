--------------------------- MODULE MCFormatCommand --------------------------
(***************************************************************************)
(* Command lines and what their pipes may hold: a conversation with every  *)
(* kind of message; every shape of line in any order, for three of the     *)
(* sub-commands; session trees of up to five entries.                      *)
(***************************************************************************)
EXTENDS FormatCommand

Line(text, once, type, keyed, content, record, doc) ==
  [text |-> text, once |-> once,
   value |-> [type |-> type, keyed |-> keyed, content |-> content,
              record |-> record, doc |-> doc]]
Json(type, keyed, record) == Line("json", FALSE, type, keyed, "ok", record, NoDocument)
Text(text) == Line(text, FALSE, None, FALSE, "bad", None, NoDocument)

\* Messages.
Msg(role, blocks, stop, text) ==
  [type |-> "message", role |-> role, blocks |-> blocks, stop |-> stop,
   id |-> None, isError |-> FALSE, text |-> text]
Thinking == [kind |-> "thinking", tool |-> None, id |-> None, text |-> "empty"]
TextBlock(text) == [kind |-> "text", tool |-> None, id |-> None, text |-> text]
Call(tool, id) == [kind |-> "toolCall", tool |-> tool, id |-> id, text |-> "empty"]
Says(blocks) == Msg("assistant", blocks, "toolUse", "empty")
Result(id, isError) ==
  [Msg("toolResult", <<>>, None, "raw") EXCEPT !.id = id, !.isError = isError]

Record(record) == Json(record.type, FALSE, record)
Once(record) == [Record(record) EXCEPT !.once = TRUE]
Conversation ==
  {Once(Says(<<Thinking, Call("read", "r1"), TextBlock("blank")>>)),
   Once(Says(<<Call("bash", "b1"), Call("grep", "r2")>>)),
   Once(Says(<<Call("bash", "b2")>>)),
   Once(Says(<<TextBlock("raw"), Call("read", "r3")>>)),
   Once(Says(<<Call("write", "w1")>>)),
   Record(Msg("assistant", <<Thinking>>, "aborted", "empty")),
   Record(Msg("user", <<>>, None, "raw")),
   Record(Control), Record(Cursor),
   Once(Result("r1", FALSE)), Once(Result("b1", FALSE)),
   Once(Result("r2", TRUE)), Once(Result("w1", FALSE)),
   Once(Result("b2", FALSE))}

\* Entries and events.
Entry(id, parent, message) ==
  [id |-> id, parentId |-> parent, type |-> "message", message |-> message,
   target |-> None, label |-> None]
EntryLine(entry) == Json(entry.type, TRUE, entry)
User == Msg("user", <<>>, None, "raw")
ToolOnly == Says(<<Call("write", "w1")>>)
Event(type, aborted) == [type |-> type, aborted |-> aborted, message |-> User]
EventLine(type) == Json(type, FALSE, Event(type, TRUE))

Doc(of, records, hasLeaf, leafId) ==
  [of |-> of, records |-> records, hasLeaf |-> hasLeaf, leafId |-> leafId]
DocLine(text, doc) == Line(text, FALSE, None, FALSE, "ok", None, doc)
SomeEntries ==
  Doc("entries", <<EntryLine(Entry(1, None, User)).value, EntryLine(Entry(2, None, ToolOnly)).value>>, TRUE, 2)
SomeMessages == Doc("messages", <<Record(User).value>>, FALSE, None)

Shapes(n) ==
  {Text("blank"), Text("broken"), Text("close"),
   EntryLine(Entry(n, IF n = 1 THEN None ELSE n - 1, User)), EntryLine(Entry(1, None, User)),
   EntryLine([Entry(n, None, None) EXCEPT !.type = "model_change"]),
   Json("label", FALSE, None), Record(User), Record(Control), Record(Cursor),
   [Record(User) EXCEPT !.value.content = "null"],
   [EntryLine(Entry(n, None, User)) EXCEPT !.value.content = "null"],
   EventLine("queue_update"), EventLine("message_end"), EventLine("agent_settled"),
   EventLine("newer"),
   DocLine("json", SomeEntries), DocLine("json", SomeMessages),
   DocLine("json", Doc("tree", <<>>, FALSE, None)), DocLine("open", SomeEntries)}
Torn == {Text("broken"), Record(User), DocLine("json", SomeMessages)}

\* Trees: the parents of an entry, an id that is not in the file included.
TreeEntry(n, parents, messages) ==
  {EntryLine(Entry(n, parent, message)) : parent \in parents, message \in messages}
Labels(n) ==
  TreeEntry(n, {None, 1}, {User})
  \cup {EntryLine([Entry(n, 1, None) EXCEPT !.type = "label", !.target = 2, !.label = label])
        : label \in {None, "x"}}
TreeDoc ==
  {DocLine("json", Doc("entries", [n \in 1 .. 3 |-> EntryLine(Entry(n, p[n], User)).value],
                       TRUE, leafId))
   : p \in [1 .. 3 -> {None, 1, 2}], leafId \in {None, 1, 3, 9}}

Command(command, input, max, chunk, rests, toolResults, filter) ==
  [command |-> command, lines |-> input, max |-> max, chunk |-> chunk, torn |-> rests,
   toolResults |-> toolResults, filter |-> filter]
Talk(toolResults, max) ==
  Command("messages", [n \in 1 .. max |-> Conversation], max, 1, {}, toolResults, None)
Shaped(command, filter) ==
  Command(command, [n \in 1 .. 3 |-> Shapes(n)], 3, 2, Torn, "summary", filter)
Draw(input, max, filter) == Command("tree", input, max, 1, {}, "summary", filter)

AllJobs ==
  [name \in {"talk", "quiet", "full", "messages", "entries", "filtered", "events",
             "tree", "deep", "labels", "leaf", "any"} |->
     CASE name = "talk"     -> Talk("summary", 4)
       [] name = "quiet"    -> Talk("none", 3)
       [] name = "full"     -> Talk("full", 3)
       [] name = "messages" -> Shaped("messages", None)
       [] name = "entries"  -> Shaped("entries", None)
       [] name = "filtered" -> Shaped("entries", "conversation")
       [] name = "events"   -> Shaped("events", None)
       [] name = "tree"     -> Draw([n \in 1 .. 4 |-> TreeEntry(n, {None, 9} \cup (1 .. 4), {User, ToolOnly})],
                                    4, "conversation")
       [] name = "deep"     -> Draw([n \in 1 .. 5 |-> TreeEntry(n, {None} \cup (1 .. n - 1), {User})],
                                    5, "pi-default")
       [] name = "labels"   -> Draw([n \in 1 .. 4 |-> Labels(n)], 4, "pi-labeled-only")
       [] name = "leaf"     -> Draw([n \in 1 .. 1 |-> TreeDoc], 1, "pi-no-tools")
       [] name = "any"      -> [Shaped("tree", "pi-all") EXCEPT !.max = 2]]
=============================================================================
