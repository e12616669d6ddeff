--------------------------- MODULE CloseHandshake ---------------------------
(***************************************************************************)
(* What the Close() of the ticker, the collector manager and the metric    *)
(* router promises: one unbuffered channel "done" carries a request from   *)
(* the caller to the service loop, and the loop answers by closing it.     *)
(* Close() returns only when the loop will never act again.                *)
(*                                                                         *)
(* The caller is in one of                                                 *)
(*    open      Close() has not been called                                *)
(*    sending   blocked in "done <- true"                                  *)
(*    waiting   the request is taken, blocked in "<-done"                  *)
(*    returned  the receive succeeded because the channel is closed        *)
(* and the loop is running, stopping (in its done() function) or exited.   *)
(***************************************************************************)
VARIABLES closer,   \* where the caller of Close() is
          loop      \* where the goroutine of the service is

hvars == <<closer, loop>>

HandshakeTypeOK ==
  /\ closer \in {"open", "sending", "waiting", "returned"}
  /\ loop \in {"running", "stopping", "exited"}

Init ==
  /\ closer = "open"
  /\ loop = "running"

Call ==
  /\ closer = "open"
  /\ closer' = "sending"
  /\ UNCHANGED loop

\* The rendezvous on the unbuffered channel: both ends move together.
Accept ==
  /\ closer = "sending"
  /\ loop = "running"
  /\ closer' = "waiting"
  /\ loop' = "stopping"

Finish ==
  /\ loop = "stopping"
  /\ loop' = "exited"
  /\ UNCHANGED closer

Return ==
  /\ closer = "waiting"
  /\ loop = "exited"
  /\ closer' = "returned"
  /\ UNCHANGED loop

Next == Call \/ Accept \/ Finish \/ Return

Spec == Init /\ [][Next]_hvars
=============================================================================
