-------------------------- MODULE MCAgentCommands --------------------------
(* Values for model-checking AgentCommands: see README.md, "Runs".          *)
EXTENDS AgentCommands, TLC

CONSTANTS a1, b1, a, pane, tool, harness

Agents == {a1, b1}

\* One id is no prefix of another: "a" names the agent a1, and so does a1.
Distinct == (a1 :> {a1}) @@ (b1 :> {b1}) @@ (a :> {a1})

\* The id a1 begins the id b1 too.
Nested == (a1 :> {a1, b1}) @@ (b1 :> {b1})

\* One command of every kind.
EveryKind ==
  {"steer", "bash", "set-auto-retry", "get-state", "spawn", "suspend",
   "archive", "resume", "purge"}
PromptAndPurge == {"prompt", "purge", "spawn"}

NoneOneOrBoth == {<<>>, <<a>>, <<b1>>, <<a1, b1>>}
EachAgent == {<<a1>>, <<b1>>}

B1OrNone == {b1, None}
JustNone == {None}

\* A harness that runs every command in a shell of its own, in a pane.
Tree ==
  (tool :> [shell |-> TRUE, interactive |-> FALSE, parent |-> harness])
    @@ (harness :> [shell |-> FALSE, interactive |-> FALSE, parent |-> pane])
    @@ (pane :> [shell |-> TRUE, interactive |-> TRUE, parent |-> None])
AllTool == [c \in Callers |-> tool]

Symmetry == Permutations(Callers)
=============================================================================
