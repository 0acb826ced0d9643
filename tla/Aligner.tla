------------------------------ MODULE Aligner ------------------------------
(***************************************************************************)
(* The time aligner: the Bank of per-PMU sample buffers (aligner/buffer.go)*)
(* and the Publisher that walks a ruler of ticks over it and pushes one    *)
(* chart row per tick (aligner/publish.go).                                *)
(*                                                                         *)
(* Bank and Publisher each have a mutex of their own and stepOnce takes    *)
(* them in turn, once per question it asks, so receivers (Ingest), the     *)
(* membership callbacks (AddExpected, RemoveExpected, SetExpected) and the *)
(* capacity API run between any two of its lock regions.  One action here  *)
(* is one lock region; pub holds the locals of the stepOnce in progress.   *)
(*                                                                         *)
(* A reading is its time stamp: nothing else in it decides what happens.   *)
(***************************************************************************)
EXTENDS Integers, FiniteSets

CONSTANTS
  PMUs,           \* names a PMU can have
  Stamps,         \* measurement stamps a frame can carry (microseconds, scaled)
  Capacities,     \* buffer capacities the API may set
  Rates,          \* ruler steps the CFG-2 data rates stand for; 0: no usable rate
  DefaultPeriod,  \* ruler step before any profile is known
  MaxChurn        \* bound: membership changes in one behaviour

(***************************************************************************)
(* Stamps are Unix times and a step is at most seconds, so no stamp is     *)
(* within the first step of the epoch: tick 0 means "no tick chosen yet".  *)
(***************************************************************************)
ASSUME AlignerAssumption ==
  /\ PMUs # {}
  /\ Capacities # {} /\ Capacities \subseteq Nat \ {0}
  /\ Rates # {} /\ Rates \subseteq Nat
  /\ DefaultPeriod \in Nat \ {0}
  /\ Stamps \subseteq Nat
  /\ \A s \in Stamps : s >= DefaultPeriod /\ \A r \in Rates : s >= r
  /\ MaxChurn \in Nat

VARIABLES
  expected,   \* Bank.expected: the live PMUs rows are built for
  byTS,       \* Bank.buffers[p].byTS: stamps waiting for the publisher
  capacity,   \* Bank.capacity, which every buffer shares
  resetDue,   \* SetExpected calls that have unlocked but not yet called onReset
  period,     \* Publisher.periodUs
  seen,       \* values of periodUs a caller of PeriodUs() may still hold
  nextTick,   \* Publisher.nextTick, 0 when unset
  gen,        \* Publisher.gen
  rate,       \* parser profile of each PMU, as a ruler step
  pub,        \* the stepOnce in progress
  row,        \* the last row pushed to the dashboard
  hi,         \* history: newest stamp accepted since the PMU joined, 0 if none
  fresh,      \* history: PMUs that joined since the publisher last read the head
  anchored,   \* history: the generation in which nextTick was last anchored
  churn       \* membership changes so far

bankVars == <<expected, byTS, capacity>>
histVars == <<hi, fresh, anchored>>
ruler == <<period, seen>>
vars == <<expected, byTS, capacity, resetDue, period, seen, nextTick, gen,
          rate, pub, row, hi, fresh, anchored, churn>>

-----------------------------------------------------------------------------
(* One buffer: a set of stamps. *)

OldestIn(S) == {m \in S : \A x \in S : m <= x}

(* put: a new stamp in a full buffer first pushes the oldest one out, even   *)
(* when the new one is older still.                                          *)
Put(S, ts, cap) ==
  (IF ts \notin S /\ Cardinality(S) >= cap THEN S \ OldestIn(S) ELSE S)
    \cup {ts}

(* setCapacity: only the cap newest stamps stay. *)
Trim(S, cap) == {x \in S : Cardinality({y \in S : y > x}) < cap}

Distance(a, b) == IF a < b THEN b - a ELSE a - b

(* Mutant of Nearest: the window is the whole step on either side. *)
NearestInStep(S, t, half) ==
  {k \in S : /\ Distance(k, t) <= 2 * half
             /\ \A j \in S : Distance(k, t) < Distance(j, t) \/ k <= j}

(* takeNearest: the stamp within half of t that is nearest to it, the earlier *)
(* of two equally near; an exact hit is at distance 0.  At most one element.  *)
Nearest(S, t, half) ==
  {k \in S :
     /\ Distance(k, t) <= half
     /\ \A j \in S : \/ Distance(k, t) < Distance(j, t)
                     \/ Distance(k, t) = Distance(j, t) /\ k <= j}

(* The set that holds MinOldest's result, empty when no PMU has a sample: *)
(* PMUs with an empty buffer do not count.                                *)
MinOldest == OldestIn(UNION {byTS[q] : q \in expected})

(* Mutant of HeadReached: a drained buffer is skipped, as in MinOldest. *)
HeadSkipsEmpty(t) ==
  \A q \in expected : byTS[q] = {} \/ \E y \in byTS[q] : y >= t

(* MinNewest() is known and at least t: no expected buffer is empty and *)
(* every one of them holds a stamp no older than t.                     *)
HeadReached(t) ==
  /\ expected # {}
  /\ \A q \in expected : \E y \in byTS[q] : y >= t

(* The set that holds DerivePeriodUs's result: the step of the fastest     *)
(* known rate among names; 0 stands for a profile without a usable rate.   *)
DerivePeriod(names, fallback) ==
  LET known == {rate[q] : q \in names} \ {0}
  IN  IF known = {} THEN {fallback} ELSE OldestIn(known)

(* Mutant of Floor: one step too low. *)
FloorTooLow(ts, step) == (ts \div step - 1) * step

Floor(ts, step) == (ts \div step) * step

-----------------------------------------------------------------------------
NoSamples == [q \in {} |-> 0]

(* The publisher's locals between two calls of stepOnce. *)
Idle == [pc |-> "idle", tick |-> 0, period |-> 0, gen |-> 0,
         present |-> NoSamples, missing |-> {}]

NoRow == [tick |-> 0, gen |-> 0, present |-> NoSamples, missing |-> {}]

(* Nothing is buffered yet; PMUs may have joined before the publisher's    *)
(* goroutine first runs.                                                   *)
Init ==
  /\ expected \in SUBSET PMUs
  /\ byTS = [q \in PMUs |-> {}]
  /\ capacity \in Capacities
  /\ resetDue = 0
  /\ period = DefaultPeriod
  /\ seen = {DefaultPeriod}
  /\ nextTick = 0
  /\ gen = 0
  /\ rate \in [PMUs -> Rates]
  /\ pub = Idle
  /\ row = NoRow
  /\ hi = [q \in PMUs |-> 0]
  /\ fresh = expected
  /\ anchored = 0
  /\ churn = 0

-----------------------------------------------------------------------------
(* What receivers, membership callbacks and the API do to the bank. *)

Ingest(q, ts) ==
  /\ q \in expected
  /\ byTS' = [byTS EXCEPT ![q] = Put(@, ts, capacity)]
  /\ hi' = [hi EXCEPT ![q] = IF ts > @ THEN ts ELSE @]
  /\ UNCHANGED <<expected, capacity, resetDue, ruler, nextTick, gen, rate,
                 pub, row, fresh, anchored, churn>>

AddExpected(q) ==
  /\ q \notin expected
  /\ churn < MaxChurn
  /\ expected' = expected \cup {q}
  /\ byTS' = [byTS EXCEPT ![q] = {}]
  /\ hi' = [hi EXCEPT ![q] = 0]
  /\ fresh' = fresh \cup {q}
  /\ churn' = churn + 1
  /\ UNCHANGED <<capacity, resetDue, ruler, nextTick, gen, rate, pub, row,
                 anchored>>

(* Mutant of RemoveExpected: the buffer outlives its PMU. *)
RemoveKeepsBuffer(q) ==
  /\ q \in expected
  /\ churn < MaxChurn
  /\ expected' = expected \ {q}
  /\ churn' = churn + 1
  /\ UNCHANGED <<byTS, capacity, resetDue, ruler, nextTick, gen, rate, pub,
                 row, hi, fresh, anchored>>

RemoveExpected(q) ==
  /\ q \in expected
  /\ churn < MaxChurn
  /\ expected' = expected \ {q}
  /\ byTS' = [byTS EXCEPT ![q] = {}]
  /\ churn' = churn + 1
  /\ UNCHANGED <<capacity, resetDue, ruler, nextTick, gen, rate, pub, row,
                 hi, fresh, anchored>>

(* SetExpected rebuilds every buffer under the lock; the onReset callback  *)
(* runs after the unlock (Reset below).                                    *)
SetExpected(names) ==
  /\ churn < MaxChurn
  /\ expected' = names
  /\ byTS' = [q \in PMUs |-> {}]
  /\ resetDue' = resetDue + 1
  /\ hi' = [q \in PMUs |-> IF q \in names THEN 0 ELSE hi[q]]
  /\ fresh' = fresh \cup names
  /\ churn' = churn + 1
  /\ UNCHANGED <<capacity, ruler, nextTick, gen, rate, pub, row, anchored>>

Reset ==
  /\ resetDue > 0
  /\ resetDue' = resetDue - 1
  /\ nextTick' = 0
  /\ gen' = gen + 1
  /\ UNCHANGED <<expected, byTS, capacity, ruler, rate, pub, row, hi, fresh,
                 anchored, churn>>

(* Mutant of SetCapacity: existing buffers are not trimmed. *)
SetCapacityLater(c) ==
  /\ c # capacity
  /\ capacity' = c
  /\ UNCHANGED <<expected, byTS, resetDue, ruler, nextTick, gen, rate, pub,
                 row, hi, fresh, anchored, churn>>

SetCapacity(c) ==
  /\ c # capacity
  /\ capacity' = c
  /\ byTS' = [q \in PMUs |-> Trim(byTS[q], c)]
  /\ UNCHANGED <<expected, resetDue, ruler, nextTick, gen, rate, pub, row,
                 hi, fresh, anchored, churn>>

(* A CFG-2 frame replaces a PMU's profile. *)
CfgUpdate(q, r) ==
  /\ rate[q] # r
  /\ rate' = [rate EXCEPT ![q] = r]
  /\ UNCHANGED <<expected, byTS, capacity, resetDue, ruler, nextTick, gen,
                 pub, row, hi, fresh, anchored, churn>>

(* SyncAlignerExpected retunes the ruler for the live set it was handed;   *)
(* the fallback is the step PeriodUs() returned, perhaps some time ago.    *)
Tune(names) ==
  /\ \E before \in seen : period' \in DerivePeriod(names, before)
  /\ period' # period
  /\ seen' = seen \cup {period'}
  /\ UNCHANGED <<expected, byTS, capacity, resetDue, nextTick, gen, rate,
                 pub, row, hi, fresh, anchored, churn>>

-----------------------------------------------------------------------------
(* stepOnce, one lock region per action. *)

At(pc) == pub.pc = pc

bankAndEnv == <<expected, byTS, capacity, resetDue, rate, churn>>

(* Lock p.mu, copy nextTick, periodUs and gen. *)
ReadRuler ==
  /\ At("idle")
  /\ pub' = [Idle EXCEPT !.pc = "names", !.tick = nextTick, !.period = period,
                         !.gen = gen]
  /\ UNCHANGED <<bankAndEnv, ruler, nextTick, gen, row, histVars>>

(* names := Expected(); nothing to do without PMUs.  A derived step that   *)
(* differs from the copied one is stored before it is used.  Expected and  *)
(* the GetProfile of each name are one action here: a change of membership *)
(* after Expected is one after ReadNames, since the step is not used        *)
(* before; left out is a read of some profiles before and of others after  *)
(* two updates.                                                            *)
ReadNames ==
  /\ At("names")
  /\ IF expected = {}
     THEN pub' = Idle
     ELSE \E derived \in DerivePeriod(expected, pub.period) :
          pub' = [pub EXCEPT
                    !.pc = IF derived # pub.period THEN "setPeriod"
                           ELSE IF pub.tick = 0 THEN "start" ELSE "jump",
                    !.period = derived]
  /\ UNCHANGED <<bankAndEnv, ruler, nextTick, gen, row, histVars>>

(* normalizePeriodUs leaves a step of 1 ms or more as it is.  It takes one  *)
(* that is shorter, of a DATA_RATE above 1000 frames a second, for         *)
(* milliseconds; those rates are left out.                                 *)
SetPeriod ==
  /\ At("setPeriod")
  /\ period' = pub.period
  /\ seen' = seen \cup {period'}
  /\ pub' = [pub EXCEPT !.pc = IF pub.tick = 0 THEN "start" ELSE "jump"]
  /\ UNCHANGED <<bankAndEnv, nextTick, gen, row, histVars>>

(* No tick yet: the first one is at or below the oldest sample. *)
Start ==
  /\ At("start")
  /\ \/ /\ MinOldest = {}
        /\ pub' = Idle
     \/ \E oldest \in MinOldest :
          pub' = [pub EXCEPT !.pc = "anchor", !.tick = Floor(oldest, pub.period)]
  /\ UNCHANGED <<bankAndEnv, ruler, nextTick, gen, row, histVars>>

(* Mutant of StoreTick: the generation is not compared. *)
StoreTickUnchecked(next) ==
  /\ nextTick' = pub.tick
  /\ anchored' = pub.gen
  /\ pub' = [pub EXCEPT !.pc = next]

(* Store the chosen tick unless a Reset came in between. *)
StoreTick(next) ==
  \/ /\ gen # pub.gen
     /\ pub' = Idle
     /\ UNCHANGED <<nextTick, anchored>>
  \/ /\ gen = pub.gen
     /\ nextTick' = pub.tick
     /\ anchored' = gen
     /\ pub' = [pub EXCEPT !.pc = next]

Anchor ==
  /\ At("anchor")
  /\ StoreTick("jump")
  /\ UNCHANGED <<bankAndEnv, ruler, gen, row, hi, fresh>>

(* Every buffered sample is newer than the tick: jump forward. *)
Jump ==
  /\ At("jump")
  /\ \/ /\ \A oldest \in MinOldest : pub.tick >= oldest
        /\ pub' = [pub EXCEPT !.pc = "head"]
     \/ \E oldest \in MinOldest :
          /\ pub.tick < oldest
          /\ pub' = [pub EXCEPT !.pc = "land", !.tick = Floor(oldest, pub.period)]
  /\ UNCHANGED <<bankAndEnv, ruler, nextTick, gen, row, histVars>>

Land ==
  /\ At("land")
  /\ StoreTick("head")
  /\ UNCHANGED <<bankAndEnv, ruler, gen, row, hi, fresh>>

(* Wait until the slowest live PMU has reached the tick. *)
ReadHead ==
  /\ At("head")
  /\ IF HeadReached(pub.tick)
     THEN /\ pub' = [pub EXCEPT !.pc = "take"]
          /\ fresh' = {}
     ELSE /\ pub' = Idle
          /\ UNCHANGED fresh
  /\ UNCHANGED <<bankAndEnv, ruler, nextTick, gen, row, hi, anchored>>

(* TakeTickWindow removes each PMU's sample for the tick from its buffer.  *)
(* A tick nobody has a sample for is passed over without a row.            *)
Hits == {q \in expected : Nearest(byTS[q], pub.tick, pub.period \div 2) # {}}

Taken(q) == CHOOSE k \in Nearest(byTS[q], pub.tick, pub.period \div 2) : TRUE

Take ==
  /\ At("take")
  /\ byTS' = [q \in PMUs |-> IF q \in Hits THEN byTS[q] \ {Taken(q)}
                                           ELSE byTS[q]]
  /\ pub' = [pub EXCEPT !.pc = IF Hits = {} THEN "advance" ELSE "emit",
                        !.present = [q \in Hits |-> Taken(q)],
                        !.missing = expected \ Hits]
  /\ UNCHANGED <<expected, capacity, resetDue, rate, churn, ruler, nextTick,
                 gen, row, histVars>>

Emit ==
  /\ At("emit")
  /\ row' = [tick |-> pub.tick, gen |-> pub.gen, present |-> pub.present,
             missing |-> pub.missing]
  /\ pub' = [pub EXCEPT !.pc = "prune", !.present = NoSamples, !.missing = {}]
  /\ UNCHANGED <<bankAndEnv, ruler, nextTick, gen, histVars>>

(* Mutant of Prune: nothing is dropped. *)
PruneNothing ==
  /\ At("prune")
  /\ pub' = [pub EXCEPT !.pc = "advance"]
  /\ UNCHANGED <<bankAndEnv, ruler, nextTick, gen, row, histVars>>

(* Mutant of Prune: the samples of the next tick go too. *)
PruneAhead ==
  /\ At("prune")
  /\ byTS' = [q \in PMUs |-> {k \in byTS[q] : k > pub.tick + pub.period}]
  /\ pub' = [pub EXCEPT !.pc = "advance"]
  /\ UNCHANGED <<expected, capacity, resetDue, rate, churn, ruler, nextTick,
                 gen, row, histVars>>

(* PruneBefore: samples older than the pushed tick are of no use. *)
Prune ==
  /\ At("prune")
  /\ byTS' = [q \in PMUs |-> IF q \in expected
                             THEN {k \in byTS[q] : k >= pub.tick}
                             ELSE byTS[q]]
  /\ pub' = [pub EXCEPT !.pc = "advance"]
  /\ UNCHANGED <<expected, capacity, resetDue, rate, churn, ruler, nextTick,
                 gen, row, histVars>>

(* Move the ruler on, unless a Reset came in between. *)
Advance ==
  /\ At("advance")
  /\ nextTick' = IF gen = pub.gen THEN pub.tick + pub.period ELSE nextTick
  /\ pub' = Idle
  /\ UNCHANGED <<bankAndEnv, ruler, gen, row, histVars>>

stepOnce ==
  \/ ReadRuler \/ ReadNames \/ SetPeriod \/ Start \/ Anchor \/ Jump \/ Land
  \/ ReadHead \/ Take \/ Emit \/ Prune \/ Advance

Membership ==
  \/ \E q \in PMUs : AddExpected(q) \/ RemoveExpected(q)
  \/ \E names \in SUBSET PMUs : SetExpected(names)
  \/ Reset

Tuning ==
  \/ \E c \in Capacities : SetCapacity(c)
  \/ \E q \in PMUs, r \in Rates : CfgUpdate(q, r)
  \/ \E names \in SUBSET PMUs : Tune(names)

Next ==
  \/ stepOnce
  \/ \E q \in PMUs, ts \in Stamps : Ingest(q, ts)
  \/ Membership
  \/ Tuning

Spec == Init /\ [][Next]_vars

-----------------------------------------------------------------------------
(* Properties. *)

PubStates == {"idle", "names", "setPeriod", "start", "anchor", "jump", "land",
              "head", "take", "emit", "prune", "advance"}

Samples == UNION {[Q -> Stamps] : Q \in SUBSET PMUs}

(* Every variable has its type, and only live PMUs have samples buffered.  *)
TypeOK ==
  /\ expected \subseteq PMUs
  /\ byTS \in [PMUs -> SUBSET Stamps]
  /\ \A q \in PMUs : byTS[q] # {} => q \in expected
  /\ capacity \in Capacities
  /\ resetDue \in Nat /\ gen \in Nat /\ churn \in Nat /\ anchored \in Nat
  /\ period \in seen /\ seen \subseteq Nat \ {0} /\ nextTick \in Nat
  /\ rate \in [PMUs -> Rates]
  /\ pub \in [pc : PubStates, tick : Nat, period : Nat, gen : Nat,
              present : Samples, missing : SUBSET PMUs]
  /\ pub.pc # "idle" => pub.period # 0
  /\ row \in [tick : Nat, gen : Nat, present : Samples, missing : SUBSET PMUs]
  /\ hi \in [PMUs -> Nat]
  /\ fresh \subseteq PMUs

(* No interleaving of Ingest, joins and capacity changes makes a buffer    *)
(* outgrow the capacity in force (buffer.go: put evicts one sample per new *)
(* one, setCapacity trims every buffer under the same lock).               *)
BuffersFit == \A q \in PMUs : Cardinality(byTS[q]) <= capacity

(* A row about to be pushed waited for every live PMU: each PMU it carries *)
(* or calls missing has delivered a stamp no older than the tick, however  *)
(* many joins, evictions and late samples ran between MinNewest and        *)
(* TakeTickWindow.  Only a PMU that joined in that gap may be called       *)
(* missing without having had its chance.                                  *)
RowsAwaitEveryPMU ==
  pub.pc = "emit" =>
    \A q \in (DOMAIN pub.present \cup pub.missing) \ fresh : hi[q] >= pub.tick

(* The ruler never stands on a tick of an earlier generation: a stepOnce   *)
(* that overlaps a Reset cannot write its old tick back, so after a PMU    *)
(* set change the charts start over from the new samples.                  *)
NoStaleTick == nextTick # 0 => anchored = gen

(* The aligner is a chart feed (see ChartFeed) as long as one step size is *)
(* in use.                                                                 *)
Step == DefaultPeriod
Feed == INSTANCE ChartFeed
ChartFeedSpec == Feed!Spec
=============================================================================
