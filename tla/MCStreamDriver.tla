--------------------------- MODULE MCStreamDriver ---------------------------
(* Values for model-checking StreamDriver.                                  *)
EXTENDS StreamDriver

Timers(quietMs, timeoutMs) == [quiet |-> quietMs, timeout |-> timeoutMs]

\* No timer, either, the same delay for both, and a timeout that can pass
\* between two resets of the quiet timer.
AllOptions ==
  {Timers(None, None), Timers(None, 1), Timers(1, None), Timers(1, 1),
   Timers(2, 2), Timers(1, 2)}
=============================================================================
