-------------------------- MODULE SessionSkeleton --------------------------
(***************************************************************************)
(* What the manager sees of a receiver, whatever the transport: it dials,  *)
(* tells of a session's start once the handshake is done, tells of its end *)
(* when the stream breaks, backs off and dials again, and is done when it  *)
(* meets its context cancelled.  Every start is told before, and its end   *)
(* before the next dial.  Roster's receivers take these steps.             *)
(***************************************************************************)
VARIABLES
  state,      \* "dial", "handshaken", "stream", "end", "ended", "backoff", "done"
  cancelled   \* the receiver's context is cancelled

Init == state = "dial" /\ cancelled = FALSE

Go(from, to) == state = from /\ state' = to /\ UNCHANGED cancelled

HandshakeDone == Go("dial", "handshaken")
ConnectFails == Go("dial", IF cancelled THEN "done" ELSE "backoff")
Backoff == Go("backoff", "dial") \/ (cancelled /\ Go("backoff", "done"))
SessionStart == Go("handshaken", "stream")
StreamBreaks == Go("stream", "end")
SessionEnd == Go("end", "ended")
SessionOver == Go("ended", IF cancelled THEN "done" ELSE "backoff")

Cancel == cancelled' = TRUE /\ UNCHANGED state

Next ==
  \/ HandshakeDone \/ ConnectFails \/ Backoff \/ SessionStart
  \/ StreamBreaks \/ SessionEnd \/ SessionOver \/ Cancel

Spec == Init /\ [][Next]_<<state, cancelled>>
=============================================================================
