----------------------------- MODULE ChartFeed -----------------------------
(***************************************************************************)
(* What the aligner promises the dashboard, with no buffers, locks or      *)
(* concurrency in it: a feed of rows.  Each row stands at a tick, carries  *)
(* one sample for some of the PMUs, none of them further than half a step  *)
(* from the tick, and lists others as missing.  Within a generation (from  *)
(* one reset to the next) ticks only move forward, a step or more at a     *)
(* time, and no PMU's curve ever runs backwards.                           *)
(***************************************************************************)
EXTENDS Integers

CONSTANTS
  PMUs,  \* names a PMU can have
  Step   \* the one step size in use

VARIABLE row

Init == row.tick = 0 /\ row.gen = 0

InWindow(ts, tick) ==
  /\ ts >= tick - Step \div 2
  /\ ts <= tick + Step \div 2

WellFormed(r) ==
  /\ DOMAIN r.present # {}
  /\ DOMAIN r.present \cup r.missing \subseteq PMUs
  /\ DOMAIN r.present \cap r.missing = {}
  /\ \A q \in DOMAIN r.present : InWindow(r.present[q], r.tick)

Follows(r, before) ==
  /\ r.gen >= before.gen
  /\ r.gen = before.gen /\ before.tick # 0 =>
       /\ r.tick >= before.tick + Step
       /\ \A q \in DOMAIN r.present \cap DOMAIN before.present :
            r.present[q] >= before.present[q]

Push == WellFormed(row') /\ Follows(row', row)

Spec == Init /\ [][Push]_row
=============================================================================
