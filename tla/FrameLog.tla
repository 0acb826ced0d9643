------------------------------ MODULE FrameLog ------------------------------
(***************************************************************************)
(* What the history promises about DATA frames, with no queue, batch or    *)
(* connection in it: a log that may lose frames but holds each at most     *)
(* once, those of one PMU in the order they arrived.                       *)
(***************************************************************************)
EXTENDS Integers, Sequences, SequencesExt

CONSTANT PMUs

VARIABLES
  arrived,  \* frames that have arrived from each PMU
  log       \* the frames logged: [pmu |-> p, n |-> the number of arrival, ...]

Init == arrived = [p \in PMUs |-> 0] /\ log = <<>>

Arrive(p) ==
  /\ arrived' = [arrived EXCEPT ![p] = @ + 1]
  /\ UNCHANGED log

(* Each frame after those of its PMU before it, none before it arrived. *)
InOrder(rows) ==
  \A j \in DOMAIN rows :
    /\ rows[j].n \in 1 .. arrived[rows[j].pmu]
    /\ \A i \in 1 .. (j - 1) : rows[i].pmu = rows[j].pmu => rows[i].n < rows[j].n

LogSome ==
  /\ IsPrefix(log, log')
  /\ InOrder(log')
  /\ UNCHANGED arrived

Next == LogSome \/ \E p \in PMUs : Arrive(p)

Spec == Init /\ [][Next]_<<arrived, log>>
=============================================================================
