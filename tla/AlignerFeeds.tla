---------------------------- MODULE AlignerFeeds ----------------------------
(***************************************************************************)
(* The aligner under the feeds PMUs really send: every live PMU stamps its *)
(* frames in order, one per step.  SteadySpec is the feed without loss.    *)
(* In GappySpec a frame may be lost on its way (UDP, a CRC error, the      *)
(* quality check), which leaves a gap in the stamps of its PMU and nothing *)
(* else.  In RetunedSpec stamps only grow, while the data rates the PMUs   *)
(* announce and the buffer capacity change.  Membership stays as it is.    *)
(***************************************************************************)
EXTENDS Aligner

(* Frames stamped within one step of the earliest. *)
FirstStamps == {ts \in Stamps : \A s \in Stamps : ts < s + Step}

SteadyIngest(q, ts) ==
  /\ IF hi[q] = 0 THEN ts \in FirstStamps ELSE ts = hi[q] + Step
  /\ Ingest(q, ts)

GappyIngest(q, ts) ==
  /\ IF hi[q] = 0 THEN ts \in FirstStamps
                   ELSE \E n \in 1..2 : ts = hi[q] + n * Step
  /\ Ingest(q, ts)

InOrderIngest(q, ts) == ts > hi[q] /\ Ingest(q, ts)

(* All PMUs are live from the start and their profiles are known. *)
FeedInit == Init /\ expected = PMUs

SteadyNext == stepOnce \/ \E q \in PMUs, ts \in Stamps : SteadyIngest(q, ts)

GappyNext == stepOnce \/ \E q \in PMUs, ts \in Stamps : GappyIngest(q, ts)

(* Run loops for ever, sleeping at most 5 ms between two stepOnce; a live  *)
(* PMU goes on sending at its rate.                                        *)
SteadySpec ==
  /\ FeedInit /\ [][SteadyNext]_vars
  /\ WF_vars(stepOnce)
  /\ \A q \in PMUs : WF_vars(\E ts \in Stamps : SteadyIngest(q, ts))

GappySpec == FeedInit /\ [][GappyNext]_vars /\ WF_vars(stepOnce)

RetunedNext ==
  \/ stepOnce
  \/ \E q \in PMUs, ts \in Stamps : InOrderIngest(q, ts)
  \/ Tuning

RetunedSpec == FeedInit /\ [][RetunedNext]_vars

(* The ruler never moves past a tick the slowest live PMU has not reached  *)
(* (publish.go, "Do not race ahead of the slowest live PMU").              *)
RulerAwaitsSlowest ==
  [][nextTick # 0 /\ nextTick' > nextTick =>
       \A q \in expected : hi[q] >= nextTick' - Step]_vars

(* When the data rates known change, the new grid may put the ruler before *)
(* a tick already pushed, but never by a whole step of the new grid.       *)
RulerNeverRewindsAStep ==
  [][nextTick' < nextTick => nextTick' = 0 \/ nextTick' + pub.period > nextTick]_vars

(* A PMU's curve only runs forward: what is left in its buffer once a row  *)
(* is done is newer than what the row took, so no sample is charted twice  *)
(* or behind its successor, though a slower announced rate puts the grid   *)
(* off and the ruler back.                                                 *)
CurvesRunForward ==
  pub.pc \notin {"emit", "prune"} =>
    \A q \in DOMAIN row.present : \A k \in byTS[q] : k > row.present[q]

(* No sample at or after the ruler is lost: whatever the lag between PMUs, *)
(* it is charted, in a row of its own PMU.                                 *)
EverySampleCharted ==
  \A q \in PMUs, k \in Stamps :
    (k \in byTS[q] /\ nextTick # 0 /\ k >= nextTick)
      ~> (q \in DOMAIN row.present /\ row.present[q] = k)
=============================================================================
