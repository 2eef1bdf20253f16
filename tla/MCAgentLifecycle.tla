-------------------------- MODULE MCAgentLifecycle --------------------------
(* Instances of AgentLifecycle for TLC: see README.md, "Runs".              *)
EXTENDS AgentLifecycle, TLC

\* Every client may run every command of the set.
Each(commands) == [c \in Clients |-> commands]

\* The commands whose launches all go through the lock or follow a mkdir.
SerializedOps == Each({"spawn", "ensure", "suspend", "archive"})

AllOps == Each(Commands)

\* The commands that do not keep what the documentation says of them.
ResumeOps == Each({"resume"})
EnsureSuspendOps == Each({"ensure", "suspend"})

Symmetry == Permutations(Clients) \cup Permutations(Daemons)
=============================================================================
