---------------------------- MODULE MCStreamModes ---------------------------
(* Command lines for model-checking StreamModes.                            *)
EXTENDS StreamModes

Command(name, type, since, limit, until, timeout) ==
  [name |-> name, type |-> type, since |-> since, limit |-> limit,
   until |-> until, timeout |-> timeout]

\* Every mode of every command, with the options that change its path.
AllCommands ==
  {Command("tail", "messages", None, None, "turn-end", None),
   Command("tail", "messages", 1, 1, None, 1),
   Command("tail", "messages", None, 0, None, 0),
   Command("tail", "entries", None, 1, "idle", None),
   Command("tail", "entries", 1, None, "turn-end", None),
   Command("tail", "entries", None, None, None, 0),
   Command("tail", "events", None, None, "no-activity", None),
   Command("prompt", "messages", None, None, "turn-end", None),
   Command("prompt", "entries", None, None, "turn-end", None),
   Command("prompt", "events", None, None, "turn-end", 1),
   Command("wait", None, None, None, "turn-end", 1),
   Command("wait", None, None, None, "idle", None)}

\* The commands of the documented statements that the code does not keep.
TailTurnEnd == {Command("tail", "messages", None, None, "turn-end", None)}
TailEntries == {Command("tail", "entries", None, None, None, None)}
=============================================================================
