---------------------------- MODULE AgentStatus ----------------------------
(***************************************************************************)
(* What the registry promises of one agent id, as classifyAgentDir shows   *)
(* it to list, status and gc: the life of an agent that nobody purges.     *)
(* AgentLifecycle implements it while no purge or gc runs.                 *)
(***************************************************************************)
VARIABLE status

Init == status \in {"absent", "dormant", "archived", "running"}

\* spawn makes the directory; it is "corrupt" until the daemon records itself.
Create == status = "absent" /\ status' = "corrupt"

\* A daemon records itself: the end of a spawn, or a revival.
Run == status \in {"corrupt", "dormant", "archived"} /\ status' = "running"

\* The daemon exits or is killed.  An archive that lost a race with a revival
\* has left its marker.
Stop == status = "running" /\ status' \in {"dormant", "archived"}

Archive == status = "dormant" /\ status' = "archived"

Unarchive == status = "archived" /\ status' = "dormant"

Next == Create \/ Run \/ Stop \/ Archive \/ Unarchive

\* Once recorded, an agent is never again without a readable record; a
\* running one is never replaced by another directory.
Spec == Init /\ [][Next]_status
=============================================================================
