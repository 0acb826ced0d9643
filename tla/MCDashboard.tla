----------------------------- MODULE MCDashboard -----------------------------
(* Many frames, many events, some of both, or a stream for the rate meter: *)
(* the feed, the inventory and the meter share no state.                   *)
EXTENDS Dashboard

(* Clocks that are off as far as the quality check allows, and further. *)
DashboardKinds ==
  {[fault |-> "garbled", off |-> 0], [fault |-> "unsynced", off |-> 0],
   [fault |-> "none", off |-> 5], [fault |-> "none", off |-> -5],
   [fault |-> "none", off |-> -10]}

DashboardBounds ==
  {[frames |-> 3, events |-> 0, clients |-> {}, rates |-> {0}],
   [frames |-> 1, events |-> 2, clients |-> Clients, rates |-> {0}],
   [frames |-> 0, events |-> 4, clients |-> Clients, rates |-> {0}],
   [frames |-> 0, events |-> 0, clients |-> {}, rates |-> {12, -2}]}
=============================================================================
