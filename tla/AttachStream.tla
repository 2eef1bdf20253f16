---------------------------- MODULE AttachStream ----------------------------
(***************************************************************************)
(* What tty.sock promises an attacher: its terminal comes up showing all   *)
(* of pi's output so far, and from then on follows it, chunk by chunk,     *)
(* until it leaves.  TtyServer implements it.                              *)
(***************************************************************************)
EXTENDS Naturals

CONSTANTS Connections, None

VARIABLES
  produced,  \* how many chunks of output pi has written
  shown      \* how many of them each terminal shows, None before it shows any

Init ==
  /\ produced = 0
  /\ shown = [c \in Connections |-> None]

\* The attachers that are still there see the new chunk; one that misses a
\* chunk has left, and never sees another.
Produce ==
  /\ produced' = produced + 1
  /\ \E watching \in SUBSET {c \in Connections : shown[c] = produced} :
       shown' = [c \in Connections |->
                   IF c \in watching THEN produced + 1 ELSE shown[c]]

Attach(c) ==
  /\ shown[c] = None
  /\ shown' = [shown EXCEPT ![c] = produced]
  /\ UNCHANGED produced

Next == Produce \/ \E c \in Connections : Attach(c)

\* No terminal ever skips, repeats or invents a chunk.
Spec == Init /\ [][Next]_<<produced, shown>>
=============================================================================
