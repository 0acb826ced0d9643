--------------------------- MODULE AlignerProofs ---------------------------
(***************************************************************************)
(* What holds of the aligner for every set of PMUs, stamps, capacities and *)
(* data rates, and any number of membership changes; that it implements    *)
(* ChartFeed; and what holds of the feeds, whose stamps come in order.     *)
(***************************************************************************)
EXTENDS AlignerFeeds, FiniteSetTheorems, WellFoundedInduction, TLAPS

(* ------------------------------------------------------------------- *)
(* The operators Aligner is built from.                                 *)

(* put keeps to the stamps it was given. *)
LEMMA PutMembers ==
  ASSUME NEW S, NEW ts, NEW cap
  PROVE  Put(S, ts, cap) \subseteq S \cup {ts}
BY DEF Put

(* A derived step is a positive number when the fallback is one. *)
LEMMA DerivedType ==
  ASSUME rate \in [PMUs -> Rates], NEW names \in SUBSET PMUs,
         NEW fallback \in Nat \ {0}, NEW r \in DerivePeriod(names, fallback)
  PROVE  r \in Nat \ {0}
<1> DEFINE known == {rate[q] : q \in names} \ {0}
<1>1. known \subseteq Nat \ {0}
  BY AlignerAssumption DEF AlignerAssumption
<1>2. CASE known = {}
  BY <1>2 DEF DerivePeriod
<1>3. CASE known # {}
  <2>1. r \in known
    BY <1>3 DEF DerivePeriod, OldestIn
  <2> QED BY <1>1, <2>1
<1> QED BY <1>2, <1>3

(* Flooring a stamp to a grid gives a tick. *)
LEMMA FloorType ==
  ASSUME NEW ts \in Nat, NEW step \in Nat \ {0}
  PROVE  Floor(ts, step) \in Nat
<1>1. ts \div step \in Nat
  OBVIOUS
<1> QED BY <1>1 DEF Floor

(* The oldest buffered stamp is a stamp. *)
LEMMA MinOldestType ==
  ASSUME byTS \in [PMUs -> SUBSET Stamps], expected \subseteq PMUs,
         NEW m \in MinOldest
  PROVE  m \in Stamps
BY DEF MinOldest, OldestIn

(* A row of samples is a row of stamps. *)
LEMMA TakenType ==
  ASSUME byTS \in [PMUs -> SUBSET Stamps], expected \subseteq PMUs
  PROVE  [q \in Hits |-> Taken(q)] \in Samples
<1>1. Hits \in SUBSET PMUs
  BY DEF Hits
<1>2. ASSUME NEW q \in Hits PROVE Taken(q) \in Stamps
  <2>1. Taken(q) \in Nearest(byTS[q], pub.tick, pub.period \div 2)
    BY DEF Hits, Taken
  <2>2. Taken(q) \in byTS[q]
    BY <2>1 DEF Nearest
  <2> QED BY <2>2, <1>1
<1>3. [q \in Hits |-> Taken(q)] \in [Hits -> Stamps]
  BY <1>2
<1> QED BY <1>1, <1>3 DEF Samples

LEMMA NoSamplesType == NoSamples \in Samples
<1>1. NoSamples \in [{} -> Stamps]
  BY DEF NoSamples
<1> QED BY <1>1 DEF Samples

-----------------------------------------------------------------------------
(* Type correctness. *)

StampsAreNat == Stamps \subseteq Nat

LEMMA StampsNat == StampsAreNat
BY AlignerAssumption DEF AlignerAssumption, StampsAreNat

PubType ==
  {p \in [pc : PubStates, tick : Nat, period : Nat, gen : Nat,
          present : Samples, missing : SUBSET PMUs] : p.pc # "idle" => p.period # 0}

(* StoreTick leaves types alone and goes to the state it is told to. *)
LEMMA StoreTickType ==
  ASSUME TypeOK, pub.pc # "idle", NEW next \in PubStates, StoreTick(next)
  PROVE  /\ nextTick' \in Nat /\ anchored' \in Nat /\ pub' \in PubType
BY NoSamplesType DEF TypeOK, StoreTick, PubType, Idle, PubStates

LEMMA InitType == Init => TypeOK
<1> SUFFICES ASSUME Init PROVE TypeOK
  OBVIOUS
<1>1. DefaultPeriod \in Nat \ {0}
  BY AlignerAssumption DEF AlignerAssumption
<1> QED
  BY <1>1, NoSamplesType DEF Init, TypeOK, Idle, NoRow, PubStates

LEMMA NextType == TypeOK /\ [Next]_vars => TypeOK'
<1> SUFFICES ASSUME TypeOK, [Next]_vars PROVE TypeOK'
  OBVIOUS
<1>1. ASSUME NEW q \in PMUs, NEW ts \in Stamps, Ingest(q, ts) PROVE TypeOK'
  <2>1. Put(byTS[q], ts, capacity) \subseteq byTS[q] \cup {ts}
    BY PutMembers
  <2>2. byTS' \in [PMUs -> SUBSET Stamps]
    BY <1>1, <2>1 DEF Ingest, TypeOK
  <2>3. hi' \in [PMUs -> Nat]
    BY <1>1, StampsNat DEF Ingest, TypeOK, StampsAreNat
  <2>4. \A p \in PMUs : byTS'[p] # {} => p \in expected'
    BY <1>1 DEF Ingest, TypeOK
  <2> QED BY <1>1, <2>2, <2>3, <2>4 DEF Ingest, TypeOK, ruler
<1>2. ASSUME NEW q \in PMUs, AddExpected(q) PROVE TypeOK'
  BY <1>2 DEF AddExpected, TypeOK, ruler
<1>3. ASSUME NEW q \in PMUs, RemoveExpected(q) PROVE TypeOK'
  BY <1>3 DEF RemoveExpected, TypeOK, ruler
<1>4. ASSUME NEW names \in SUBSET PMUs, SetExpected(names) PROVE TypeOK'
  BY <1>4 DEF SetExpected, TypeOK, ruler
<1>5. CASE Reset
  BY <1>5 DEF Reset, TypeOK, ruler
<1>6. ASSUME NEW c \in Capacities, SetCapacity(c) PROVE TypeOK'
  <2>1. \A q \in PMUs : Trim(byTS[q], c) \subseteq byTS[q]
    BY DEF Trim
  <2> QED BY <1>6, <2>1 DEF SetCapacity, TypeOK, ruler
<1>7. ASSUME NEW q \in PMUs, NEW r \in Rates, CfgUpdate(q, r) PROVE TypeOK'
  BY <1>7 DEF CfgUpdate, TypeOK, ruler
<1>8. ASSUME NEW names \in SUBSET PMUs, Tune(names) PROVE TypeOK'
  <2>1. period' \in Nat \ {0}
    BY <1>8, DerivedType DEF Tune, TypeOK
  <2> QED BY <1>8, <2>1 DEF Tune, TypeOK
<1>9. CASE ReadRuler
  <2>1. pub' \in PubType
    BY <1>9, NoSamplesType DEF ReadRuler, Idle, PubType, PubStates, TypeOK
  <2> QED BY <1>9, <2>1 DEF ReadRuler, TypeOK, PubType, bankAndEnv, histVars, ruler
<1>10. CASE ReadNames
  <2>1. pub' \in PubType
    <3>1. CASE expected = {}
      BY <1>10, <3>1, NoSamplesType DEF ReadNames, Idle, PubType, PubStates, TypeOK
    <3>2. CASE expected # {}
      <4>1. \A derived \in DerivePeriod(expected, pub.period) : derived \in Nat \ {0}
        BY <1>10, DerivedType DEF TypeOK, ReadNames, At
      <4> QED BY <1>10, <3>2, <4>1 DEF ReadNames, PubType, PubStates, TypeOK
    <3> QED BY <3>1, <3>2
  <2> QED BY <1>10, <2>1 DEF ReadNames, TypeOK, PubType, bankAndEnv, histVars, ruler
<1>11. CASE SetPeriod
  BY <1>11 DEF SetPeriod, TypeOK, At, PubStates, bankAndEnv, histVars
<1>12. CASE Start
  <2>1. pub' \in PubType
    <3>1. CASE pub' = Idle
      BY <3>1, NoSamplesType DEF Idle, PubType, PubStates
    <3>2. ASSUME NEW m \in MinOldest,
                 pub' = [pub EXCEPT !.pc = "anchor", !.tick = Floor(m, pub.period)]
          PROVE  pub' \in PubType
      <4>1. Floor(m, pub.period) \in Nat
        BY <1>12, MinOldestType, StampsNat, FloorType
        DEF Start, At, TypeOK, StampsAreNat
      <4> QED BY <1>12, <3>2, <4>1 DEF Start, At, TypeOK, PubType, PubStates
    <3> QED BY <1>12, <3>1, <3>2 DEF Start
  <2> QED BY <1>12, <2>1 DEF Start, TypeOK, PubType, bankAndEnv, histVars, ruler
<1>13. CASE Anchor
  <2>1. /\ nextTick' \in Nat /\ anchored' \in Nat /\ pub' \in PubType
    BY <1>13, StoreTickType DEF Anchor, At, PubStates
  <2> QED BY <1>13, <2>1 DEF Anchor, TypeOK, PubType, bankAndEnv, ruler
<1>14. CASE Jump
  <2>1. pub' \in PubType
    <3>1. CASE pub' = [pub EXCEPT !.pc = "head"]
      BY <1>14, <3>1 DEF Jump, At, TypeOK, PubType, PubStates
    <3>2. ASSUME NEW m \in MinOldest,
                 pub' = [pub EXCEPT !.pc = "land", !.tick = Floor(m, pub.period)]
          PROVE  pub' \in PubType
      <4>1. Floor(m, pub.period) \in Nat
        BY <1>14, MinOldestType, StampsNat, FloorType
        DEF Jump, At, TypeOK, StampsAreNat
      <4> QED BY <1>14, <3>2, <4>1 DEF Jump, At, TypeOK, PubType, PubStates
    <3> QED BY <1>14, <3>1, <3>2 DEF Jump
  <2> QED BY <1>14, <2>1 DEF Jump, TypeOK, PubType, bankAndEnv, histVars, ruler
<1>15. CASE Land
  <2>1. /\ nextTick' \in Nat /\ anchored' \in Nat /\ pub' \in PubType
    BY <1>15, StoreTickType DEF Land, At, PubStates
  <2> QED BY <1>15, <2>1 DEF Land, TypeOK, PubType, bankAndEnv, ruler
<1>16. CASE ReadHead
  <2>1. pub' \in PubType /\ fresh' \subseteq PMUs
    BY <1>16, NoSamplesType DEF ReadHead, At, TypeOK, Idle, PubType, PubStates
  <2> QED BY <1>16, <2>1 DEF ReadHead, TypeOK, PubType, bankAndEnv, ruler
<1>17. CASE Take
  <2>1. pub' \in PubType
    <3>1. [q \in Hits |-> Taken(q)] \in Samples
      BY TakenType DEF TypeOK
    <3>2. expected \ Hits \in SUBSET PMUs
      BY DEF TypeOK
    <3> QED BY <1>17, <3>1, <3>2 DEF Take, At, TypeOK, PubType, PubStates
  <2>2. /\ byTS' \in [PMUs -> SUBSET Stamps]
        /\ \A q \in PMUs : byTS'[q] # {} => q \in expected'
    BY <1>17 DEF Take, TypeOK
  <2> QED BY <1>17, <2>1, <2>2 DEF Take, TypeOK, PubType, histVars, ruler
<1>18. CASE Emit
  <2>1. pub' \in PubType
    BY <1>18, NoSamplesType DEF Emit, At, TypeOK, PubType, PubStates
  <2>2. row' \in [tick : Nat, gen : Nat, present : Samples, missing : SUBSET PMUs]
    BY <1>18 DEF Emit, TypeOK
  <2> QED BY <1>18, <2>1, <2>2 DEF Emit, TypeOK, PubType, bankAndEnv, histVars, ruler
<1>19. CASE Prune
  <2>1. pub' \in PubType
    BY <1>19 DEF Prune, At, TypeOK, PubType, PubStates
  <2>2. /\ byTS' \in [PMUs -> SUBSET Stamps]
        /\ \A q \in PMUs : byTS'[q] # {} => q \in expected'
    BY <1>19 DEF Prune, TypeOK
  <2> QED BY <1>19, <2>1, <2>2 DEF Prune, TypeOK, PubType, histVars, ruler
<1>20. CASE Advance
  <2>1. pub' \in PubType
    BY <1>20, NoSamplesType DEF Advance, Idle, PubType, PubStates
  <2>2. nextTick' \in Nat
    BY <1>20 DEF Advance, TypeOK
  <2> QED BY <1>20, <2>1, <2>2 DEF Advance, TypeOK, PubType, bankAndEnv, histVars, ruler
<1>21. CASE UNCHANGED vars
  BY <1>21 DEF vars, TypeOK, ruler
<1> QED
  BY <1>1, <1>2, <1>3, <1>4, <1>5, <1>6, <1>7, <1>8, <1>9, <1>10, <1>11, <1>12,
     <1>13, <1>14, <1>15, <1>16, <1>17, <1>18, <1>19, <1>20, <1>21
  DEF Next, stepOnce, Membership, Tuning

(* In every reachable state each variable has its type, only live PMUs     *)
(* have samples buffered, and a stepOnce in progress has a step to work    *)
(* with (buffer.go: RemoveExpected drops the buffer with the name).        *)
THEOREM TypeCorrect == Spec => []TypeOK
<1>1. Init => TypeOK
  BY InitType
<1>2. TypeOK /\ [Next]_vars => TypeOK'
  BY NextType
<1> QED BY <1>1, <1>2, PTL DEF Spec

-----------------------------------------------------------------------------
(* The ruler and the generations. *)

(* NoStaleTick is not inductive: Advance moves the tick it copied at the   *)
(* start of stepOnce.  So the copy, too, is of the generation in which the *)
(* ruler was last anchored, unless a Reset made it stale.                  *)
GenInv ==
  /\ NoStaleTick
  /\ pub.gen <= gen
  /\ pub.pc \in {"names", "setPeriod"} /\ pub.tick # 0 /\ pub.gen = gen
       => anchored = gen
  /\ pub.pc \in {"jump", "land", "head", "take", "emit", "prune", "advance"}
       /\ pub.gen = gen => anchored = gen

LEMMA NextGen == TypeOK /\ GenInv /\ [Next]_vars => GenInv'
<1> SUFFICES ASSUME TypeOK, GenInv, [Next]_vars PROVE GenInv'
  OBVIOUS
<1> USE DEF GenInv, NoStaleTick
<1>1. ASSUME NEW q \in PMUs, NEW ts \in Stamps, Ingest(q, ts) PROVE GenInv'
  BY <1>1 DEF Ingest
<1>2. ASSUME NEW q \in PMUs, AddExpected(q) PROVE GenInv'
  BY <1>2 DEF AddExpected
<1>3. ASSUME NEW q \in PMUs, RemoveExpected(q) PROVE GenInv'
  BY <1>3 DEF RemoveExpected
<1>4. ASSUME NEW names \in SUBSET PMUs, SetExpected(names) PROVE GenInv'
  BY <1>4 DEF SetExpected
<1>5. CASE Reset
  BY <1>5 DEF Reset, TypeOK
<1>6. ASSUME NEW c \in Capacities, SetCapacity(c) PROVE GenInv'
  BY <1>6 DEF SetCapacity
<1>7. ASSUME NEW q \in PMUs, NEW r \in Rates, CfgUpdate(q, r) PROVE GenInv'
  BY <1>7 DEF CfgUpdate
<1>8. ASSUME NEW names \in SUBSET PMUs, Tune(names) PROVE GenInv'
  BY <1>8 DEF Tune
<1>9. CASE ReadRuler
  BY <1>9 DEF ReadRuler, Idle, TypeOK, bankAndEnv, histVars
<1>10. CASE ReadNames
  <2>1. CASE expected = {}
    BY <1>10, <2>1 DEF ReadNames, Idle, TypeOK, bankAndEnv, histVars
  <2>2. CASE expected # {}
    <3>1. /\ pub'.gen = pub.gen /\ pub'.tick = pub.tick
          /\ \/ pub'.pc = "setPeriod"
             \/ pub'.pc = "start" /\ pub.tick = 0
             \/ pub'.pc = "jump" /\ pub.tick # 0
      BY <1>10, <2>2 DEF ReadNames, TypeOK
    <3> QED BY <1>10, <3>1 DEF ReadNames, At, bankAndEnv, histVars
  <2> QED BY <2>1, <2>2
<1>11. CASE SetPeriod
  BY <1>11 DEF SetPeriod, At, TypeOK, bankAndEnv, histVars
<1>12. CASE Start
  <2>1. pub' = Idle \/ (pub'.gen = pub.gen /\ pub'.pc = "anchor")
    BY <1>12 DEF Start, TypeOK
  <2>2. UNCHANGED <<nextTick, anchored, gen>>
    BY <1>12 DEF Start, histVars
  <2>3. CASE pub' = Idle
    BY <2>2, <2>3 DEF Idle, TypeOK
  <2>4. CASE pub'.gen = pub.gen /\ pub'.pc = "anchor"
    BY <2>2, <2>4
  <2> QED BY <2>1, <2>3, <2>4
<1>13. CASE Anchor
  BY <1>13 DEF Anchor, StoreTick, At, Idle, TypeOK, bankAndEnv
<1>14. CASE Jump
  BY <1>14 DEF Jump, At, TypeOK, bankAndEnv, histVars
<1>15. CASE Land
  BY <1>15 DEF Land, StoreTick, At, Idle, TypeOK, bankAndEnv
<1>16. CASE ReadHead
  BY <1>16 DEF ReadHead, At, Idle, TypeOK, bankAndEnv
<1>17. CASE Take
  BY <1>17 DEF Take, At, TypeOK, histVars
<1>18. CASE Emit
  BY <1>18 DEF Emit, At, TypeOK, bankAndEnv, histVars
<1>19. CASE Prune
  BY <1>19 DEF Prune, At, TypeOK, histVars
<1>20. CASE Advance
  BY <1>20 DEF Advance, At, Idle, TypeOK, bankAndEnv, histVars
<1>21. CASE UNCHANGED vars
  BY <1>21 DEF vars
<1> QED
  BY <1>1, <1>2, <1>3, <1>4, <1>5, <1>6, <1>7, <1>8, <1>9, <1>10, <1>11, <1>12,
     <1>13, <1>14, <1>15, <1>16, <1>17, <1>18, <1>19, <1>20, <1>21
  DEF Next, stepOnce, Membership, Tuning

(* No stepOnce that a Reset overtook writes its tick back (publish.go: the *)
(* p.gen comparisons around nextTick).                                     *)
THEOREM TickIsCurrent == Spec => []NoStaleTick
<1>1. Init => GenInv
  BY DEF Init, GenInv, NoStaleTick, Idle
<1>2. TypeOK /\ GenInv /\ [Next]_vars => GenInv'
  BY NextGen
<1>3. GenInv => NoStaleTick
  BY DEF GenInv
<1> QED BY <1>1, <1>2, <1>3, TypeCorrect, PTL DEF Spec

-----------------------------------------------------------------------------
(* Rows wait for every PMU. *)

(* Between MinNewest and the push, every PMU expected since then has       *)
(* delivered a stamp at or after the tick; what a buffer holds is no newer *)
(* than the newest stamp its PMU delivered.                                *)
AwaitInv ==
  /\ \A q \in expected : \A k \in byTS[q] : k <= hi[q]
  /\ pub.pc = "take" => \A q \in expected \ fresh : hi[q] >= pub.tick
  /\ RowsAwaitEveryPMU

LEMMA NextAwait == TypeOK /\ AwaitInv /\ [Next]_vars => AwaitInv'
<1> SUFFICES ASSUME TypeOK, AwaitInv, [Next]_vars PROVE AwaitInv'
  OBVIOUS
<1> USE DEF AwaitInv, RowsAwaitEveryPMU
<1>1. ASSUME NEW q \in PMUs, NEW ts \in Stamps, Ingest(q, ts) PROVE AwaitInv'
  <2>1. \A p \in PMUs : hi'[p] >= hi[p] /\ hi[p] \in Nat /\ hi'[p] \in Nat
    BY <1>1, StampsNat DEF Ingest, TypeOK, StampsAreNat
  <2>2. ASSUME NEW p \in expected', NEW k \in byTS'[p] PROVE k <= hi'[p]
    <3>1. CASE p = q
      <4>1. k \in byTS[q] \cup {ts}
        BY <1>1, <2>2, <3>1, PutMembers DEF Ingest, TypeOK
      <4>2. byTS[q] \subseteq Nat /\ ts \in Nat
        BY StampsNat DEF TypeOK, StampsAreNat
      <4> QED BY <1>1, <2>1, <3>1, <4>1, <4>2 DEF Ingest, TypeOK
    <3>2. CASE p # q
      BY <1>1, <2>2, <3>2 DEF Ingest, TypeOK
    <3> QED BY <3>1, <3>2
  <2>3. UNCHANGED <<expected, fresh, pub>>
    BY <1>1 DEF Ingest
  <2>4. DOMAIN pub.present \subseteq PMUs /\ pub.missing \subseteq PMUs /\ pub.tick \in Nat
    BY DEF TypeOK, Samples
  <2>5. (pub.pc = "take" => \A p \in expected \ fresh : hi[p] >= pub.tick)'
    BY <2>1, <2>3, <2>4 DEF TypeOK
  <2>6. RowsAwaitEveryPMU'
    BY <2>1, <2>3, <2>4
  <2> QED BY <2>2, <2>5, <2>6
<1>2. ASSUME NEW q \in PMUs, AddExpected(q) PROVE AwaitInv'
  BY <1>2 DEF AddExpected, TypeOK, Samples
<1>3. ASSUME NEW q \in PMUs, RemoveExpected(q) PROVE AwaitInv'
  BY <1>3 DEF RemoveExpected, TypeOK
<1>4. ASSUME NEW names \in SUBSET PMUs, SetExpected(names) PROVE AwaitInv'
  <2>1. DOMAIN pub.present \subseteq PMUs /\ pub.missing \subseteq PMUs
    BY DEF TypeOK, Samples
  <2> QED BY <1>4, <2>1 DEF SetExpected, TypeOK
<1>5. CASE Reset
  BY <1>5 DEF Reset
<1>6. ASSUME NEW c \in Capacities, SetCapacity(c) PROVE AwaitInv'
  <2>1. \A q \in PMUs : byTS'[q] \subseteq byTS[q]
    BY <1>6 DEF SetCapacity, Trim
  <2> QED BY <1>6, <2>1 DEF SetCapacity, TypeOK
<1>7. ASSUME NEW q \in PMUs, NEW r \in Rates, CfgUpdate(q, r) PROVE AwaitInv'
  BY <1>7 DEF CfgUpdate
<1>8. ASSUME NEW names \in SUBSET PMUs, Tune(names) PROVE AwaitInv'
  BY <1>8 DEF Tune
<1>9. CASE ReadRuler
  BY <1>9 DEF ReadRuler, Idle, bankAndEnv, histVars
<1>10. CASE ReadNames
  <2>1. pub'.pc \in {"idle", "setPeriod", "start", "jump"}
    <3>1. CASE expected = {}
      BY <1>10, <3>1 DEF ReadNames, Idle
    <3>2. CASE expected # {}
      BY <1>10, <3>2 DEF ReadNames, TypeOK
    <3> QED BY <3>1, <3>2
  <2> QED BY <1>10, <2>1 DEF ReadNames, bankAndEnv, histVars
<1>11. CASE SetPeriod
  BY <1>11 DEF SetPeriod, At, TypeOK, bankAndEnv, histVars
<1>12. CASE Start
  <2>1. pub'.pc \in {"idle", "anchor"}
    <3>1. pub' = Idle \/ pub'.pc = "anchor"
      BY <1>12 DEF Start, TypeOK
    <3> QED BY <3>1 DEF Idle
  <2> QED BY <1>12, <2>1 DEF Start, bankAndEnv, histVars
<1>13. CASE Anchor
  BY <1>13 DEF Anchor, StoreTick, At, Idle, TypeOK, bankAndEnv
<1>14. CASE Jump
  BY <1>14 DEF Jump, At, TypeOK, bankAndEnv, histVars
<1>15. CASE Land
  BY <1>15 DEF Land, StoreTick, At, Idle, TypeOK, bankAndEnv
<1>16. CASE ReadHead
  <2>1. CASE HeadReached(pub.tick)
    <3>1. ASSUME NEW q \in expected PROVE hi[q] >= pub.tick
      <4>1. PICK y \in byTS[q] : y >= pub.tick
        BY <2>1 DEF HeadReached
      <4>2. y <= hi[q] /\ y \in Nat /\ hi[q] \in Nat /\ pub.tick \in Nat
        BY StampsNat DEF TypeOK, StampsAreNat
      <4> QED BY <4>1, <4>2
    <3>2. pub'.pc = "take" /\ pub'.tick = pub.tick
      BY <1>16, <2>1 DEF ReadHead, TypeOK
    <3> QED BY <1>16, <3>1, <3>2 DEF ReadHead, bankAndEnv
  <2>2. CASE ~ HeadReached(pub.tick)
    BY <1>16, <2>2 DEF ReadHead, Idle, bankAndEnv
  <2> QED BY <2>1, <2>2
<1>17. CASE Take
  <2>1. \A q \in expected : byTS'[q] \subseteq byTS[q]
    BY <1>17 DEF Take, TypeOK
  <2>2. Hits \subseteq expected
    BY DEF Hits
  <2>3. /\ pub'.tick = pub.tick /\ pub'.pc # "take"
        /\ DOMAIN pub'.present = Hits /\ pub'.missing = expected \ Hits
    BY <1>17 DEF Take, TypeOK
  <2> QED BY <1>17, <2>1, <2>2, <2>3 DEF Take, At, histVars
<1>18. CASE Emit
  BY <1>18 DEF Emit, At, TypeOK, bankAndEnv, histVars
<1>19. CASE Prune
  BY <1>19 DEF Prune, At, TypeOK, histVars
<1>20. CASE Advance
  BY <1>20 DEF Advance, At, Idle, bankAndEnv, histVars
<1>21. CASE UNCHANGED vars
  BY <1>21 DEF vars
<1> QED
  BY <1>1, <1>2, <1>3, <1>4, <1>5, <1>6, <1>7, <1>8, <1>9, <1>10, <1>11, <1>12,
     <1>13, <1>14, <1>15, <1>16, <1>17, <1>18, <1>19, <1>20, <1>21
  DEF Next, stepOnce, Membership, Tuning

(* Every PMU a row carries or calls missing had delivered a stamp at or    *)
(* after its tick, but for PMUs that joined after the head was read        *)
(* (publish.go, "Do not race ahead of the slowest live PMU").              *)
THEOREM RowsAwait == Spec => []RowsAwaitEveryPMU
<1>1. Init => AwaitInv
  BY DEF Init, AwaitInv, RowsAwaitEveryPMU, Idle
<1>2. TypeOK /\ AwaitInv /\ [Next]_vars => AwaitInv'
  BY NextAwait
<1>3. AwaitInv => RowsAwaitEveryPMU
  BY DEF AwaitInv
<1> QED BY <1>1, <1>2, <1>3, TypeCorrect, PTL DEF Spec
-----------------------------------------------------------------------------
(* Buffers keep within the capacity. *)

(* A set of stamps has an oldest one. *)
LEMMA HasOldest ==
  ASSUME NEW S \in SUBSET Nat, S # {}
  PROVE  \E m \in S : \A x \in S : m <= x
<1>1. PICK m \in S : \A y \in S : ~ (<<y, m>> \in OpToRel(<, Nat))
  BY NatLessThanWellFounded, WFMin, Zenon
<1>2. ASSUME NEW y \in S, y < m PROVE FALSE
  <2>1. <<y, m>> \in OpToRel(<, Nat)
    BY <1>2 DEF OpToRel
  <2> QED BY <1>1, <2>1
<1>3. \A y \in S : m <= y
  BY <1>2
<1> QED BY <1>3

Fitting(S, cap) == IsFiniteSet(S) /\ Cardinality(S) <= cap

(* What is left of a buffer that fits, fits. *)
LEMMA PartFits ==
  ASSUME NEW S, NEW T \in SUBSET S, NEW cap \in Nat, Fitting(S, cap)
  PROVE  Fitting(T, cap)
<1>1. /\ IsFiniteSet(T)
      /\ Cardinality(T) <= Cardinality(S)
      /\ Cardinality(T) \in Nat /\ Cardinality(S) \in Nat
  BY FS_Subset, FS_CardinalityType DEF Fitting
<1> QED BY <1>1 DEF Fitting

LEMMA NothingFits ==
  ASSUME NEW cap \in Nat
  PROVE  Fitting({}, cap)
BY FS_EmptySet DEF Fitting

(* put makes room before it adds. *)
LEMMA PutFits ==
  ASSUME NEW S \in SUBSET Nat, NEW ts \in Nat, NEW cap \in Nat \ {0}, Fitting(S, cap)
  PROVE  Fitting(Put(S, ts, cap), cap)
<1>1. IsFiniteSet(S) /\ Cardinality(S) \in Nat
  BY FS_CardinalityType DEF Fitting
<1>2. CASE ts \in S
  <2>1. Put(S, ts, cap) = S
    BY <1>2 DEF Put
  <2> QED BY <2>1
<1>3. CASE ts \notin S /\ Cardinality(S) < cap
  <2>1. Put(S, ts, cap) = S \cup {ts}
    BY <1>1, <1>3 DEF Put
  <2>2. IsFiniteSet(S \cup {ts}) /\ Cardinality(S \cup {ts}) = Cardinality(S) + 1
    BY <1>1, <1>3, FS_AddElement
  <2> QED BY <1>1, <1>3, <2>1, <2>2 DEF Fitting
<1>4. CASE ts \notin S /\ Cardinality(S) >= cap
  <2>1. S # {}
    BY <1>1, <1>4, FS_EmptySet
  <2>2. PICK m \in S : \A x \in S : m <= x
    BY <2>1, HasOldest
  <2>3. OldestIn(S) = {m}
    <3>1. \A x \in S : (\A y \in S : x <= y) => x = m
      BY <2>2
    <3> QED BY <2>2, <3>1 DEF OldestIn
  <2>4. Put(S, ts, cap) = (S \ {m}) \cup {ts}
    BY <1>4, <2>3 DEF Put
  <2>5. IsFiniteSet(S \ {m}) /\ Cardinality(S \ {m}) = Cardinality(S) - 1
    BY <1>1, <2>2, FS_RemoveElement
  <2>6. /\ IsFiniteSet((S \ {m}) \cup {ts})
        /\ Cardinality((S \ {m}) \cup {ts}) = Cardinality(S \ {m}) + 1
    BY <1>4, <2>5, FS_AddElement
  <2>7. Cardinality((S \ {m}) \cup {ts}) = Cardinality(S)
    BY <1>1, <2>5, <2>6
  <2> QED BY <2>4, <2>6, <2>7 DEF Fitting
<1> QED BY <1>1, <1>2, <1>3, <1>4

(* setCapacity leaves no more than the new capacity. *)
LEMMA TrimFits ==
  ASSUME NEW S \in SUBSET Nat, IsFiniteSet(S), NEW cap \in Nat
  PROVE  Fitting(Trim(S, cap), cap)
<1> DEFINE T == Trim(S, cap)
<1>1. T \subseteq S
  BY DEF Trim
<1>2. IsFiniteSet(T) /\ Cardinality(T) \in Nat
  BY <1>1, FS_Subset, FS_CardinalityType
<1>3. CASE T = {}
  BY <1>3, NothingFits
<1>4. CASE T # {}
  <2>1. PICK m \in T : \A x \in T : m <= x
    BY <1>1, <1>4, HasOldest
  <2> DEFINE newer == {y \in S : y > m}
  <2>2. Cardinality(newer) < cap
    BY <2>1 DEF Trim
  <2>3. IsFiniteSet(newer) /\ Cardinality(newer) \in Nat
    BY FS_Subset, FS_CardinalityType
  <2>4. T \ {m} \subseteq newer
    <3> SUFFICES ASSUME NEW x \in T, x # m PROVE x \in newer
      OBVIOUS
    <3>1. x \in S /\ x \in Nat /\ m \in Nat /\ m <= x
      BY <1>1, <2>1
    <3> QED BY <3>1
  <2>5. Cardinality(T \ {m}) <= Cardinality(newer)
    BY <2>3, <2>4, FS_Subset
  <2>6. Cardinality(T \ {m}) = Cardinality(T) - 1
    BY <1>2, <2>1, FS_RemoveElement
  <2>7. Cardinality(T) <= cap
    <3> HIDE DEF T, newer
    <3> QED BY <1>2, <2>2, <2>3, <2>5, <2>6
  <2> QED BY <1>2, <2>7 DEF Fitting
<1> QED BY <1>3, <1>4

(* BuffersFit speaks of Cardinality, which says nothing of an infinite set *)
(* (Stamps need not be finite): buffers are finite, too.                   *)
FitInv == \A q \in PMUs : Fitting(byTS[q], capacity)

LEMMA CapacityType ==
  ASSUME TypeOK
  PROVE  capacity \in Nat \ {0}
BY AlignerAssumption DEF AlignerAssumption, TypeOK

(* A step that changes no capacity and only takes stamps out of buffers. *)
LEMMA LessFits ==
  ASSUME TypeOK, FitInv, capacity' = capacity, \A q \in PMUs : byTS'[q] \subseteq byTS[q]
  PROVE  FitInv'
<1> SUFFICES ASSUME NEW q \in PMUs PROVE Fitting(byTS'[q], capacity')
  BY DEF FitInv
<1>1. byTS'[q] \in SUBSET byTS[q] /\ Fitting(byTS[q], capacity) /\ capacity \in Nat
  BY CapacityType DEF FitInv
<1> QED BY <1>1, PartFits

LEMMA NextFit == TypeOK /\ FitInv /\ [Next]_vars => FitInv'
<1> SUFFICES ASSUME TypeOK, FitInv, [Next]_vars PROVE FitInv'
  OBVIOUS
<1>1. ASSUME NEW q \in PMUs, NEW ts \in Stamps, Ingest(q, ts) PROVE FitInv'
  <2> SUFFICES ASSUME NEW p \in PMUs PROVE Fitting(byTS'[p], capacity')
    BY DEF FitInv
  <2>1. capacity' = capacity /\ Fitting(byTS[p], capacity)
    BY <1>1 DEF Ingest, FitInv
  <2>2. CASE p = q
    <3>1. byTS[q] \in SUBSET Nat /\ ts \in Nat /\ capacity \in Nat \ {0}
      BY StampsNat, CapacityType DEF TypeOK, StampsAreNat
    <3>2. byTS'[q] = Put(byTS[q], ts, capacity)
      BY <1>1 DEF Ingest, TypeOK
    <3> QED BY <2>1, <2>2, <3>1, <3>2, PutFits
  <2>3. CASE p # q
    BY <1>1, <2>1, <2>3 DEF Ingest, TypeOK
  <2> QED BY <2>2, <2>3
<1>2. ASSUME NEW q \in PMUs, AddExpected(q) PROVE FitInv'
  BY <1>2, LessFits DEF AddExpected, TypeOK
<1>3. ASSUME NEW q \in PMUs, RemoveExpected(q) PROVE FitInv'
  BY <1>3, LessFits DEF RemoveExpected, TypeOK
<1>4. ASSUME NEW names \in SUBSET PMUs, SetExpected(names) PROVE FitInv'
  BY <1>4, LessFits DEF SetExpected
<1>5. ASSUME NEW c \in Capacities, SetCapacity(c) PROVE FitInv'
  <2> SUFFICES ASSUME NEW p \in PMUs PROVE Fitting(byTS'[p], capacity')
    BY DEF FitInv
  <2>1. capacity' = c /\ byTS'[p] = Trim(byTS[p], c)
    BY <1>5 DEF SetCapacity
  <2>2. byTS[p] \in SUBSET Nat /\ IsFiniteSet(byTS[p]) /\ c \in Nat
    BY StampsNat, AlignerAssumption
    DEF TypeOK, StampsAreNat, FitInv, Fitting, AlignerAssumption
  <2> QED BY <2>1, <2>2, TrimFits
<1>6. ASSUME UNCHANGED <<byTS, capacity>> PROVE FitInv'
  BY <1>6, LessFits
<1>7. CASE Take
  BY <1>7, LessFits DEF Take
<1>8. CASE Prune
  BY <1>8, LessFits DEF Prune
<1>9. CASE Reset
  BY <1>9, <1>6 DEF Reset
<1>10. ASSUME NEW q \in PMUs, NEW r \in Rates, CfgUpdate(q, r) PROVE FitInv'
  BY <1>10, <1>6 DEF CfgUpdate
<1>11. ASSUME NEW names \in SUBSET PMUs, Tune(names) PROVE FitInv'
  BY <1>11, <1>6 DEF Tune
<1>12. CASE \/ ReadRuler \/ ReadNames \/ SetPeriod \/ Start \/ Anchor \/ Jump
            \/ Land \/ ReadHead \/ Emit \/ Advance
  BY <1>12, <1>6 DEF ReadRuler, ReadNames, SetPeriod, Start, Anchor, Jump, Land,
     ReadHead, Emit, Advance, bankAndEnv
<1>13. CASE UNCHANGED vars
  BY <1>13, <1>6 DEF vars
<1> QED
  BY <1>1, <1>2, <1>3, <1>4, <1>5, <1>7, <1>8, <1>9, <1>10, <1>11, <1>12, <1>13
  DEF Next, stepOnce, Membership, Tuning

(* No buffer outgrows the capacity in force, whatever is put, taken, and   *)
(* set (buffer.go: put, setCapacity).                                      *)
THEOREM AlwaysFit == Spec => []BuffersFit
<1>1. Init => FitInv
  <2> SUFFICES ASSUME Init PROVE FitInv
    OBVIOUS
  <2>1. capacity \in Nat
    BY AlignerAssumption DEF AlignerAssumption, Init
  <2> QED BY <2>1, NothingFits DEF Init, FitInv
<1>2. TypeOK /\ FitInv /\ [Next]_vars => FitInv'
  BY NextFit
<1>3. FitInv => BuffersFit
  BY DEF FitInv, Fitting, BuffersFit
<1> QED BY <1>1, <1>2, <1>3, TypeCorrect, PTL DEF Spec

-----------------------------------------------------------------------------
(* The aligner implements ChartFeed while one step size is in use: every   *)
(* PMU's profile announces the rate the ruler started with, or none.       *)

SingleRate == Rates \subseteq {0, DefaultPeriod}

P == DefaultPeriod

OnGrid(t) == \E k \in Nat : t = k * P

Moving == {"names", "setPeriod", "start", "anchor", "jump", "land", "head",
           "take", "emit"}

(* What a row taken from the buffers but not yet pushed looks like. *)
Fits(present, missing, tick) ==
  /\ DOMAIN present # {}
  /\ DOMAIN present \cap missing = {}
  /\ \A q \in DOMAIN present : Feed!InWindow(present[q], tick)

(* One step size is in use. *)
StepInv ==
  /\ period = P /\ seen = {P}
  /\ pub.pc # "idle" => pub.period = P

(* The ruler and its copy in stepOnce stand on the grid, or nowhere yet. *)
GridInv ==
  /\ OnGrid(nextTick) /\ OnGrid(pub.tick)
  /\ pub.pc = "start" => pub.tick = 0

(* Rows never come from the future, and of one generation the ruler is     *)
(* always a step or more beyond the last row, but for the moment between   *)
(* the push and the move.                                                  *)
OrderInv ==
  /\ row.gen <= gen
  /\ pub.pc # "idle" => row.gen <= pub.gen /\ pub.gen <= gen
  /\ row.tick # 0 /\ row.gen = gen /\ pub.pc \notin {"prune", "advance"}
       => nextTick >= row.tick + P
  /\ row.tick # 0 /\ row.gen = pub.gen /\ pub.pc \in Moving
       => pub.tick >= row.tick + P
  /\ row.tick # 0 /\ row.gen = pub.gen /\ pub.pc \in {"prune", "advance"}
       => pub.tick >= row.tick

(* Samples lie within half a step of their tick. *)
RowInv ==
  /\ \A q \in DOMAIN row.present : row.present[q] <= row.tick + P \div 2
  /\ pub.pc = "emit" => Fits(pub.present, pub.missing, pub.tick)

FeedInv == StepInv /\ GridInv /\ OrderInv /\ RowInv

LEMMA PType == P \in Nat \ {0}
BY AlignerAssumption DEF AlignerAssumption, P

LEMMA HalfStep ==
  /\ P \div 2 \in Nat
  /\ 2 * (P \div 2) <= P
BY PType

(* With one rate in use, that is the rate derived. *)
LEMMA OneDerived ==
  ASSUME SingleRate, rate \in [PMUs -> Rates], NEW names \in SUBSET PMUs
  PROVE  DerivePeriod(names, P) \subseteq {P}
<1> DEFINE known == {rate[q] : q \in names} \ {0}
<1>1. known \subseteq {P}
  BY DEF SingleRate, P
<1>2. DerivePeriod(names, P) \subseteq known \cup {P}
  BY DEF DerivePeriod, OldestIn
<1> QED BY <1>1, <1>2

(* Flooring gives a point of the grid, and none below a point of the grid  *)
(* the stamp has passed.                                                   *)
LEMMA FloorOnGrid ==
  ASSUME NEW ts \in Nat
  PROVE  OnGrid(Floor(ts, P))
<1>1. ts \div P \in Nat
  BY PType
<1> QED BY <1>1 DEF Floor, OnGrid

LEMMA FloorAbove ==
  ASSUME NEW ts \in Nat, NEW t \in Nat, OnGrid(t), t <= ts
  PROVE  Floor(ts, P) >= t
<1>1. PICK k \in Nat : t = k * P
  BY DEF OnGrid
<1> DEFINE d == ts \div P
<1>2. d \in Nat /\ ts < (d + 1) * P
  BY PType
<1>3. d >= k
  <2> HIDE DEF d
  <2> SUFFICES ASSUME d < k PROVE FALSE
    BY <1>2
  <2>1. d + 1 <= k
    BY <1>2
  <2>2. (d + 1) * P <= k * P
    BY <2>1, <1>2, PType
  <2>3. (d + 1) * P \in Nat /\ k * P \in Nat
    BY <1>2, PType
  <2> QED BY <1>1, <1>2, <2>2, <2>3
<1>4. d * P >= k * P
  <2> HIDE DEF d
  <2> QED BY <1>2, <1>3, PType
<1> QED BY <1>1, <1>4 DEF Floor

LEMMA GridStep ==
  ASSUME NEW t \in Nat, OnGrid(t)
  PROVE  OnGrid(t + P)
<1>1. PICK k \in Nat : t = k * P
  BY DEF OnGrid
<1>2. t + P = (k + 1) * P
  BY <1>1, PType
<1> QED BY <1>2 DEF OnGrid

-----------------------------------------------------------------------------
(* The invariant. *)

LEMMA InitFeed == Init => FeedInv
<1> SUFFICES ASSUME Init PROVE FeedInv
  OBVIOUS
<1>1. OnGrid(0)
  BY PType DEF OnGrid
<1>2. StepInv
  BY DEF Init, StepInv, Idle, P
<1>3. GridInv
  BY <1>1 DEF Init, GridInv, Idle
<1>4. OrderInv
  BY DEF Init, OrderInv, Idle, NoRow, Moving
<1>5. RowInv
  BY DEF Init, RowInv, Idle, NoRow, NoSamples
<1> QED BY <1>2, <1>3, <1>4, <1>5 DEF FeedInv

(* Nothing but the publisher, Reset and Tune touches what FeedInv is about. *)
LEMMA FeedStable ==
  ASSUME FeedInv, UNCHANGED <<period, seen, nextTick, gen, pub, row>>
  PROVE  FeedInv'
BY DEF FeedInv, StepInv, GridInv, OnGrid, OrderInv, RowInv, Fits

(* A new tick chosen by Start or Jump is on the grid. *)
LEMMA ChosenTick ==
  ASSUME TypeOK, FeedInv, pub.pc # "idle", NEW m \in MinOldest
  PROVE  /\ m \in Nat
         /\ Floor(m, pub.period) \in Nat
         /\ OnGrid(Floor(m, pub.period))
         /\ pub.tick < m => Floor(m, pub.period) >= pub.tick
<1>1. m \in Nat /\ pub.period = P /\ pub.tick \in Nat /\ OnGrid(pub.tick)
  BY MinOldestType, StampsNat DEF TypeOK, StampsAreNat, FeedInv, StepInv, GridInv
<1> QED BY <1>1, PType, FloorType, FloorOnGrid, FloorAbove

(* Storing the chosen tick, or giving it up after a Reset. *)
LEMMA StoreTickFeed ==
  ASSUME TypeOK, FeedInv, NEW next \in {"jump", "head"},
         pub.pc \in {"anchor", "land"}, StoreTick(next),
         UNCHANGED <<period, seen, gen, row>>
  PROVE  FeedInv'
<1>1. CASE gen # pub.gen /\ pub' = Idle /\ UNCHANGED <<nextTick, anchored>>
  <2>1. OnGrid(0)
    BY PType DEF OnGrid
  <2>2. StepInv' /\ GridInv'
    BY <1>1, <2>1 DEF FeedInv, StepInv, GridInv, OnGrid, Idle
  <2>3. OrderInv'
    BY <1>1 DEF FeedInv, OrderInv, Idle, Moving
  <2>4. RowInv'
    BY <1>1 DEF FeedInv, RowInv, Idle
  <2> QED BY <2>2, <2>3, <2>4 DEF FeedInv
<1>2. CASE gen = pub.gen /\ nextTick' = pub.tick /\ pub' = [pub EXCEPT !.pc = next]
  <2>1. /\ pub'.pc = next /\ pub'.tick = pub.tick
        /\ pub'.period = pub.period /\ pub'.gen = pub.gen
    BY <1>2 DEF TypeOK
  <2>2. StepInv' /\ GridInv'
    BY <1>2, <2>1 DEF FeedInv, StepInv, GridInv, OnGrid
  <2>3. OrderInv'
    BY <1>2, <2>1 DEF FeedInv, OrderInv, Moving
  <2>4. RowInv'
    BY <1>2, <2>1 DEF FeedInv, RowInv
  <2> QED BY <2>2, <2>3, <2>4 DEF FeedInv
<1> QED BY <1>1, <1>2 DEF StoreTick

(* Going back to idle before a row is pushed. *)
LEMMA GiveUpFeed ==
  ASSUME TypeOK, FeedInv, pub.pc \in Moving, pub' = Idle,
         UNCHANGED <<period, seen, nextTick, gen, row>>
  PROVE  FeedInv'
<1>1. OnGrid(0)
  BY PType DEF OnGrid
<1>2. StepInv' /\ GridInv'
  BY <1>1 DEF FeedInv, StepInv, GridInv, OnGrid, Idle
<1>3. OrderInv'
  BY DEF FeedInv, OrderInv, Idle, Moving
<1>4. RowInv'
  BY DEF FeedInv, RowInv, Idle
<1> QED BY <1>2, <1>3, <1>4 DEF FeedInv

(* Going on with a tick on the grid that is no earlier than before, or the *)
(* first one.                                                              *)
LEMMA GoOnFeed ==
  ASSUME TypeOK, FeedInv, pub.pc \in Moving, pub'.pc \in Moving \ {"emit"},
         pub'.gen = pub.gen, pub'.period = P, OnGrid(pub'.tick), pub'.tick \in Nat,
         pub'.tick >= pub.tick, pub'.pc = "start" => pub'.tick = 0,
         UNCHANGED <<period, seen, nextTick, gen, row>>
  PROVE  FeedInv'
<1>1. StepInv' /\ GridInv'
  BY DEF FeedInv, StepInv, GridInv, OnGrid
<1>2. pub.tick \in Nat /\ row.tick \in Nat
  BY DEF TypeOK
<1>3. OrderInv'
  BY <1>2, PType DEF FeedInv, OrderInv, Moving
<1>4. RowInv'
  BY DEF FeedInv, RowInv
<1> QED BY <1>1, <1>3, <1>4 DEF FeedInv

(* What TakeTickWindow hands over fits the tick. *)
LEMMA TakeFeed ==
  ASSUME TypeOK, FeedInv, Take
  PROVE  FeedInv'
<1>1. pub.pc = "take" /\ UNCHANGED <<period, seen, nextTick, gen, row>>
  BY DEF Take, At, ruler
<1>2. /\ pub'.tick = pub.tick /\ pub'.period = P /\ pub'.gen = pub.gen
      /\ pub'.pc = (IF Hits = {} THEN "advance" ELSE "emit")
      /\ pub'.present = [q \in Hits |-> Taken(q)]
      /\ pub'.missing = expected \ Hits
  BY <1>1 DEF Take, TypeOK, FeedInv, StepInv
<1>3. StepInv' /\ GridInv'
  BY <1>1, <1>2 DEF FeedInv, StepInv, GridInv, OnGrid
<1>4. OrderInv'
  BY <1>1, <1>2, PType DEF FeedInv, OrderInv, Moving, TypeOK
<1>5. ASSUME NEW q \in Hits PROVE Feed!InWindow(Taken(q), pub.tick)
  <2>1. Taken(q) \in Nearest(byTS[q], pub.tick, P \div 2)
    BY <1>1 DEF Hits, Taken, FeedInv, StepInv
  <2>2. Taken(q) \in Nat /\ Distance(Taken(q), pub.tick) <= P \div 2
    BY <2>1, StampsNat DEF Nearest, Hits, TypeOK, StampsAreNat
  <2>3. pub.tick \in Nat /\ P \div 2 \in Nat
    BY HalfStep DEF TypeOK
  <2> QED BY <2>2, <2>3 DEF Distance, Feed!InWindow, Step, P
<1>6. pub'.pc = "emit" => Fits(pub'.present, pub'.missing, pub'.tick)
  BY <1>2, <1>5 DEF Fits
<1>7. RowInv'
  BY <1>1, <1>6 DEF FeedInv, RowInv
<1> QED BY <1>3, <1>4, <1>7 DEF FeedInv

(* Pushing the row. *)
LEMMA EmitFeed ==
  ASSUME TypeOK, FeedInv, Emit
  PROVE  FeedInv'
<1>1. /\ pub.pc = "emit" /\ UNCHANGED <<period, seen, nextTick, gen>>
      /\ pub'.pc = "prune" /\ pub'.tick = pub.tick
      /\ pub'.period = pub.period /\ pub'.gen = pub.gen
      /\ row'.tick = pub.tick /\ row'.gen = pub.gen /\ row'.present = pub.present
  BY DEF Emit, At, ruler, TypeOK
<1>2. StepInv' /\ GridInv'
  BY <1>1 DEF FeedInv, StepInv, GridInv, OnGrid
<1>3. OrderInv'
  BY <1>1 DEF FeedInv, OrderInv, Moving, TypeOK
<1>4. \A q \in DOMAIN pub.present : pub.present[q] <= pub.tick + P \div 2
  BY <1>1 DEF FeedInv, RowInv, Fits, Feed!InWindow, Step, P
<1>5. RowInv'
  BY <1>1, <1>4 DEF RowInv
<1> QED BY <1>2, <1>3, <1>5 DEF FeedInv

(* Moving the ruler on, unless a Reset has cleared it. *)
LEMMA AdvanceFeed ==
  ASSUME TypeOK, FeedInv, Advance
  PROVE  FeedInv'
<1>1. /\ pub.pc = "advance" /\ pub' = Idle /\ UNCHANGED <<period, seen, gen, row>>
      /\ nextTick' = IF gen = pub.gen THEN pub.tick + P ELSE nextTick
  BY DEF Advance, At, ruler, FeedInv, StepInv
<1>2. OnGrid(0)
  BY PType DEF OnGrid
<1>3. OnGrid(pub.tick + P)
  BY GridStep DEF TypeOK, FeedInv, GridInv
<1>4. StepInv' /\ GridInv'
  BY <1>1, <1>2, <1>3 DEF FeedInv, StepInv, GridInv, OnGrid, Idle
<1>5. /\ row.tick \in Nat /\ row.gen \in Nat /\ pub.tick \in Nat
      /\ pub.gen \in Nat /\ gen \in Nat
  BY DEF TypeOK
<1>6. OrderInv'
  BY <1>1, <1>5, PType DEF FeedInv, OrderInv, Idle, Moving
<1>7. RowInv'
  BY <1>1 DEF FeedInv, RowInv, Idle
<1> QED BY <1>4, <1>6, <1>7 DEF FeedInv

LEMMA NextFeed == SingleRate /\ TypeOK /\ FeedInv /\ [Next]_vars => FeedInv'
<1> SUFFICES ASSUME SingleRate, TypeOK, FeedInv, [Next]_vars PROVE FeedInv'
  OBVIOUS
<1>a. /\ pub.pc # "idle" => pub.period = P
      /\ OnGrid(pub.tick) /\ pub.tick \in Nat /\ pub.period \in Nat
  BY DEF FeedInv, StepInv, GridInv, TypeOK
<1>1. ASSUME NEW q \in PMUs, NEW ts \in Stamps, Ingest(q, ts) PROVE FeedInv'
  BY <1>1, FeedStable DEF Ingest, ruler
<1>2. ASSUME NEW q \in PMUs, AddExpected(q) PROVE FeedInv'
  BY <1>2, FeedStable DEF AddExpected, ruler
<1>3. ASSUME NEW q \in PMUs, RemoveExpected(q) PROVE FeedInv'
  BY <1>3, FeedStable DEF RemoveExpected, ruler
<1>4. ASSUME NEW names \in SUBSET PMUs, SetExpected(names) PROVE FeedInv'
  BY <1>4, FeedStable DEF SetExpected, ruler
<1>5. CASE Reset
  <2>1. OnGrid(0)
    BY PType DEF OnGrid
  <2>2. UNCHANGED <<period, seen, pub, row>> /\ nextTick' = 0 /\ gen' = gen + 1
    BY <1>5 DEF Reset, ruler
  <2>3. StepInv' /\ GridInv'
    BY <2>1, <2>2 DEF FeedInv, StepInv, GridInv, OnGrid
  <2>4. row.gen \in Nat /\ gen \in Nat /\ pub.gen \in Nat
    BY DEF TypeOK
  <2>5. OrderInv'
    BY <2>2, <2>4 DEF FeedInv, OrderInv
  <2>6. RowInv'
    BY <2>2 DEF FeedInv, RowInv, Fits
  <2> QED BY <2>3, <2>5, <2>6 DEF FeedInv
<1>6. ASSUME NEW c \in Capacities, SetCapacity(c) PROVE FeedInv'
  BY <1>6, FeedStable DEF SetCapacity, ruler
<1>7. ASSUME NEW q \in PMUs, NEW r \in Rates, CfgUpdate(q, r) PROVE FeedInv'
  BY <1>7, FeedStable DEF CfgUpdate, ruler
<1>8. ASSUME NEW names \in SUBSET PMUs, Tune(names) PROVE FeedInv'
  <2>1. DerivePeriod(names, P) \subseteq {P}
    BY OneDerived DEF TypeOK
  <2>2. period = P /\ seen = {P}
    BY DEF FeedInv, StepInv
  <2> QED BY <1>8, <2>1, <2>2 DEF Tune
<1>9. CASE ReadRuler
  <2>1. /\ pub'.pc = "names" /\ pub'.tick = nextTick /\ pub'.period = period
        /\ pub'.gen = gen /\ pub.pc = "idle"
    BY <1>9 DEF ReadRuler, At, Idle
  <2>2. UNCHANGED <<period, seen, nextTick, gen, row>>
    BY <1>9 DEF ReadRuler, ruler
  <2>3. StepInv' /\ GridInv'
    BY <2>1, <2>2 DEF FeedInv, StepInv, GridInv, OnGrid
  <2>4. OrderInv'
    BY <2>1, <2>2 DEF FeedInv, OrderInv, Moving, TypeOK
  <2>5. RowInv'
    BY <2>1, <2>2 DEF FeedInv, RowInv
  <2> QED BY <2>3, <2>4, <2>5 DEF FeedInv
<1>10. CASE ReadNames
  <2>1. pub.pc = "names" /\ UNCHANGED <<period, seen, nextTick, gen, row>>
    BY <1>10 DEF ReadNames, At, ruler
  <2>2. CASE expected = {}
    BY <1>10, <2>1, <2>2, GiveUpFeed DEF ReadNames, Moving
  <2>3. CASE expected # {}
    <3>1. DerivePeriod(expected, pub.period) \subseteq {P}
      BY <1>a, <2>1, OneDerived DEF TypeOK
    <3>2. /\ pub'.pc \in {"setPeriod", "start", "jump"} /\ pub'.period = P
          /\ pub'.gen = pub.gen /\ pub'.tick = pub.tick
          /\ pub'.pc = "start" => pub.tick = 0
      BY <1>10, <2>3, <3>1 DEF ReadNames, TypeOK
    <3> QED BY <1>a, <2>1, <3>2, GoOnFeed DEF Moving
  <2> QED BY <2>2, <2>3
<1>11. CASE SetPeriod
  <2>1. /\ pub.pc = "setPeriod" /\ pub'.pc \in {"start", "jump"}
        /\ pub'.period = pub.period /\ pub'.gen = pub.gen /\ pub'.tick = pub.tick
        /\ pub'.pc = "start" => pub.tick = 0
    BY <1>11 DEF SetPeriod, At, TypeOK
  <2>2. UNCHANGED <<period, seen, nextTick, gen, row>>
    BY <1>11, <1>a DEF SetPeriod, At, bankAndEnv, histVars, FeedInv, StepInv
  <2> QED BY <1>a, <2>1, <2>2, GoOnFeed DEF Moving
<1>12. CASE Start
  <2>1. pub.pc = "start" /\ UNCHANGED <<period, seen, nextTick, gen, row>>
    BY <1>12 DEF Start, At, ruler
  <2>2. CASE pub' = Idle
    BY <2>1, <2>2, GiveUpFeed DEF Moving
  <2>3. ASSUME NEW m \in MinOldest,
               pub' = [pub EXCEPT !.pc = "anchor", !.tick = Floor(m, pub.period)]
        PROVE  FeedInv'
    <3>1. /\ pub'.pc = "anchor" /\ pub'.period = P /\ pub'.gen = pub.gen
          /\ pub'.tick = Floor(m, pub.period)
      BY <2>1, <2>3, <1>a DEF TypeOK
    <3>2. pub'.tick \in Nat /\ OnGrid(pub'.tick)
      BY <2>1, <3>1, ChosenTick
    <3>3. pub.tick = 0
      BY <2>1 DEF FeedInv, GridInv
    <3> QED BY <2>1, <2>3, <3>1, <3>2, <3>3, GoOnFeed DEF Moving
  <2> QED BY <1>12, <2>2, <2>3 DEF Start
<1>13. CASE Anchor
  BY <1>13, StoreTickFeed DEF Anchor, At, ruler
<1>14. CASE Jump
  <2>1. pub.pc = "jump" /\ UNCHANGED <<period, seen, nextTick, gen, row>>
    BY <1>14 DEF Jump, At, ruler
  <2>2. CASE pub' = [pub EXCEPT !.pc = "head"]
    <3>1. /\ pub'.pc = "head" /\ pub'.period = P /\ pub'.gen = pub.gen
          /\ pub'.tick = pub.tick
      BY <2>1, <2>2, <1>a DEF TypeOK
    <3> QED BY <1>a, <2>1, <3>1, GoOnFeed DEF Moving
  <2>3. ASSUME NEW m \in MinOldest, pub.tick < m,
               pub' = [pub EXCEPT !.pc = "land", !.tick = Floor(m, pub.period)]
        PROVE  FeedInv'
    <3>1. /\ pub'.pc = "land" /\ pub'.period = P /\ pub'.gen = pub.gen
          /\ pub'.tick = Floor(m, pub.period)
      BY <2>1, <2>3, <1>a DEF TypeOK
    <3>2. pub'.tick \in Nat /\ OnGrid(pub'.tick) /\ pub'.tick >= pub.tick
      BY <2>1, <2>3, <3>1, ChosenTick
    <3> QED BY <1>a, <2>1, <3>1, <3>2, GoOnFeed DEF Moving
  <2> QED BY <1>14, <2>2, <2>3 DEF Jump
<1>15. CASE Land
  BY <1>15, StoreTickFeed DEF Land, At, ruler
<1>16. CASE ReadHead
  <2>1. pub.pc = "head" /\ UNCHANGED <<period, seen, nextTick, gen, row>>
    BY <1>16 DEF ReadHead, At, ruler
  <2>2. CASE pub' = Idle
    BY <2>1, <2>2, GiveUpFeed DEF Moving
  <2>3. CASE pub' = [pub EXCEPT !.pc = "take"]
    <3>1. /\ pub'.pc = "take" /\ pub'.period = P /\ pub'.gen = pub.gen
          /\ pub'.tick = pub.tick
      BY <2>1, <2>3, <1>a DEF TypeOK
    <3> QED BY <1>a, <2>1, <3>1, GoOnFeed DEF Moving
  <2> QED BY <1>16, <2>2, <2>3 DEF ReadHead
<1>17. CASE Take
  BY <1>17, TakeFeed
<1>18. CASE Emit
  BY <1>18, EmitFeed
<1>19. CASE Prune
  <2>1. /\ pub.pc = "prune" /\ pub'.pc = "advance" /\ pub'.period = pub.period
        /\ pub'.gen = pub.gen /\ pub'.tick = pub.tick
        /\ UNCHANGED <<period, seen, nextTick, gen, row>>
    BY <1>19 DEF Prune, At, TypeOK, ruler
  <2>2. StepInv' /\ GridInv'
    BY <2>1 DEF FeedInv, StepInv, GridInv, OnGrid
  <2>3. OrderInv'
    BY <2>1 DEF FeedInv, OrderInv, Moving
  <2>4. RowInv'
    BY <2>1 DEF FeedInv, RowInv
  <2> QED BY <2>2, <2>3, <2>4 DEF FeedInv
<1>20. CASE Advance
  BY <1>20, AdvanceFeed
<1>21. CASE UNCHANGED vars
  BY <1>21, FeedStable DEF vars, ruler
<1> QED
  BY <1>1, <1>2, <1>3, <1>4, <1>5, <1>6, <1>7, <1>8, <1>9, <1>10, <1>11, <1>12,
     <1>13, <1>14, <1>15, <1>16, <1>17, <1>18, <1>19, <1>20, <1>21
  DEF Next, stepOnce, Membership, Tuning

-----------------------------------------------------------------------------
(* The refinement. *)

LEMMA SampleType ==
  ASSUME NEW s \in Samples, NEW q \in DOMAIN s
  PROVE  s[q] \in Nat
<1>1. PICK Q \in SUBSET PMUs : s \in [Q -> Stamps]
  BY DEF Samples
<1>2. s[q] \in Stamps
  BY <1>1
<1> QED BY <1>2, StampsNat DEF StampsAreNat

(* A pushed row is well formed and follows the one before it; every other  *)
(* step leaves the row alone.                                              *)
LEMMA StepPushes ==
  ASSUME TypeOK, FeedInv, [Next]_vars
  PROVE  [Feed!Push]_row
<1>1. CASE Emit
  <2>1. /\ pub.pc = "emit"
        /\ row' = [tick |-> pub.tick, gen |-> pub.gen, present |-> pub.present,
                   missing |-> pub.missing]
    BY <1>1 DEF Emit, At
  <2>2. Fits(pub.present, pub.missing, pub.tick)
    BY <2>1 DEF FeedInv, RowInv
  <2>3. DOMAIN pub.present \subseteq PMUs /\ pub.missing \subseteq PMUs
    BY DEF TypeOK, Samples
  <2>4. Feed!WellFormed(row')
    BY <2>1, <2>2, <2>3 DEF Fits, Feed!WellFormed
  <2>5. row'.gen >= row.gen
    BY <2>1 DEF FeedInv, OrderInv, TypeOK
  <2>6. ASSUME row'.gen = row.gen, row.tick # 0 PROVE row'.tick >= row.tick + P
    BY <2>1, <2>6 DEF FeedInv, OrderInv, Moving
  <2>7. ASSUME row'.gen = row.gen, row.tick # 0,
               NEW q \in DOMAIN row'.present \cap DOMAIN row.present
        PROVE  row'.present[q] >= row.present[q]
    <3>1. row.present[q] <= row.tick + P \div 2
      BY <2>7 DEF FeedInv, RowInv
    <3>2. row'.present[q] >= row'.tick - P \div 2
      BY <2>1, <2>2, <2>7 DEF Fits, Feed!InWindow, Step, P
    <3>3. /\ row.present[q] \in Nat /\ row'.present[q] \in Nat
          /\ row.tick \in Nat /\ row'.tick \in Nat
      <4>1. row.present \in Samples /\ row'.present \in Samples
        BY <2>1 DEF TypeOK
      <4> QED BY <2>1, <2>7, <4>1, SampleType DEF TypeOK
    <3> QED BY <2>6, <2>7, <3>1, <3>2, <3>3, HalfStep, PType
  <2>8. Feed!Follows(row', row)
    BY <2>5, <2>6, <2>7 DEF Feed!Follows, Step, P
  <2> QED BY <2>4, <2>8 DEF Feed!Push
<1>2. CASE ~Emit
  <2>1. UNCHANGED row
    BY <1>2 DEF Next, stepOnce, Membership, Tuning, vars, Ingest, AddExpected,
       RemoveExpected, SetExpected, Reset, SetCapacity, CfgUpdate, Tune,
       ReadRuler, ReadNames, SetPeriod, Start, Anchor, Jump, Land, ReadHead,
       Take, Prune, Advance
  <2> QED BY <2>1
<1> QED BY <1>1, <1>2

(* Whatever receivers, membership callbacks and the API do between the     *)
(* publisher's lock regions, the rows it pushes are a ChartFeed: ticks a   *)
(* step or more apart until the next Reset, no sample more than half a     *)
(* step from its tick, no curve running backwards (publish.go: stepOnce).  *)
THEOREM AlignerIsChartFeed == SingleRate => (Spec => ChartFeedSpec)
<1> SUFFICES ASSUME SingleRate PROVE Spec => ChartFeedSpec
  OBVIOUS
<1>1. Init => TypeOK /\ FeedInv /\ Feed!Init
  BY InitType, InitFeed DEF Init, NoRow, Feed!Init
<1>2. TypeOK /\ FeedInv /\ [Next]_vars => TypeOK' /\ FeedInv'
  BY NextType, NextFeed
<1>3. TypeOK /\ FeedInv /\ [Next]_vars => [Feed!Push]_row
  BY StepPushes
<1> QED BY <1>1, <1>2, <1>3, PTL DEF Spec, ChartFeedSpec, Feed!Spec

-----------------------------------------------------------------------------
(* The feeds: every PMU sends its stamps in order. *)

(* Every step of RetunedSpec is one of the aligner. *)
LEMMA RetunedIsNext == RetunedNext => Next
BY DEF RetunedNext, InOrderIngest, Next

(* In every reachable state of the feeds each variable has its type. *)
THEOREM RetunedTypeCorrect == RetunedSpec => []TypeOK
<1>1. FeedInit => TypeOK
  BY InitType DEF FeedInit
<1>2. TypeOK /\ [RetunedNext]_vars => TypeOK'
  BY NextType, RetunedIsNext
<1> QED BY <1>1, <1>2, PTL DEF RetunedSpec

-----------------------------------------------------------------------------
(* Curves run forward. *)

(* What is left of q's buffer at or after tick is newer than stamp. *)
Beyond(q, tick, stamp) == \A k \in byTS[q] : k >= tick => k > stamp

(* No stamp is as new as the newest accepted one; every PMU is live. *)
NewestInv ==
  /\ expected = PMUs
  /\ \A q \in PMUs : \A k \in byTS[q] : k <= hi[q]
  /\ \A q \in DOMAIN row.present : row.present[q] <= hi[q]
  /\ pub.pc = "emit" => \A q \in DOMAIN pub.present : pub.present[q] <= hi[q]

(* CurvesRunForward is not inductive: while a row is pushed and until the  *)
(* buffers are pruned they may hold older stamps than the row took.  From  *)
(* the tick on, they do not.                                               *)
ForwardInv ==
  /\ CurvesRunForward
  /\ pub.pc = "emit" =>
       \A q \in DOMAIN pub.present : Beyond(q, pub.tick, pub.present[q])
  /\ pub.pc = "prune" =>
       \A q \in DOMAIN row.present : Beyond(q, pub.tick, row.present[q])

CurveInv == NewestInv /\ ForwardInv

(* The sample taken for a tick is the nearest: those left from the tick on *)
(* are newer.                                                              *)
LEMMA TakenIsNearest ==
  ASSUME NEW S \in SUBSET Nat, NEW tick \in Nat, NEW half,
         NEW taken \in Nearest(S, tick, half), NEW k \in S, k # taken, k >= tick
  PROVE  k > taken
<1>1. /\ taken \in Nat /\ k \in Nat
      /\ \/ Distance(taken, tick) < Distance(k, tick)
         \/ Distance(taken, tick) = Distance(k, tick) /\ taken <= k
  BY DEF Nearest
<1> QED BY <1>1 DEF Distance

(* Row and row in hand are rows of stamps of PMUs. *)
LEMMA RowStamps ==
  ASSUME TypeOK
  PROVE  /\ DOMAIN row.present \subseteq PMUs /\ DOMAIN pub.present \subseteq PMUs
         /\ \A q \in DOMAIN row.present : row.present[q] \in Nat
         /\ \A q \in DOMAIN pub.present : pub.present[q] \in Nat
<1>1. ASSUME NEW r \in Samples
      PROVE  DOMAIN r \subseteq PMUs /\ \A q \in DOMAIN r : r[q] \in Nat
  <2>1. PICK Q \in SUBSET PMUs : r \in [Q -> Stamps]
    BY DEF Samples
  <2> QED BY <2>1, StampsNat DEF StampsAreNat
<1>2. row.present \in Samples /\ pub.present \in Samples
  BY DEF TypeOK
<1> QED BY <1>1, <1>2

(* A step that only takes stamps out of buffers, if anything, and leaves   *)
(* rows alone or begins a new stepOnce.                                    *)
LEMMA CurveKept ==
  ASSUME TypeOK, CurveInv, \A q \in PMUs : byTS'[q] \subseteq byTS[q],
         UNCHANGED <<expected, hi, row>>,
         \/ UNCHANGED pub
         \/ pub.pc \notin {"emit", "prune"} /\ pub'.pc \notin {"emit", "prune"}
  PROVE  CurveInv'
<1>1. DOMAIN row.present \subseteq PMUs /\ DOMAIN pub.present \subseteq PMUs
  BY RowStamps
<1>2. NewestInv'
  BY DEF CurveInv, NewestInv
<1>3. CASE UNCHANGED pub
  BY <1>1, <1>3, <1>2 DEF CurveInv, ForwardInv, CurvesRunForward, Beyond
<1>4. CASE pub.pc \notin {"emit", "prune"} /\ pub'.pc \notin {"emit", "prune"}
  BY <1>1, <1>4, <1>2 DEF CurveInv, ForwardInv, CurvesRunForward
<1> QED BY <1>3, <1>4

LEMMA IngestCurve ==
  ASSUME TypeOK, CurveInv, NEW q \in PMUs, NEW ts \in Stamps, InOrderIngest(q, ts)
  PROVE  CurveInv'
<1>1. /\ ts > hi[q] /\ ts \in Nat /\ UNCHANGED <<expected, row, pub>>
      /\ \A p \in PMUs : hi[p] \in Nat
      /\ \A p \in PMUs : byTS[p] \subseteq Nat
  BY StampsNat DEF InOrderIngest, Ingest, TypeOK, StampsAreNat
<1>2. hi' = [hi EXCEPT ![q] = ts]
  BY <1>1 DEF InOrderIngest, Ingest, TypeOK
<1>3. /\ \A p \in PMUs \ {q} : byTS'[p] = byTS[p]
      /\ byTS'[q] \subseteq byTS[q] \cup {ts}
  BY PutMembers DEF InOrderIngest, Ingest, TypeOK
<1>4. \A p \in PMUs : hi'[p] \in Nat /\ hi'[p] >= hi[p]
  BY <1>1, <1>2 DEF TypeOK
<1>5. NewestInv'
  <2>1. ASSUME NEW p \in PMUs, NEW k \in byTS'[p] PROVE k <= hi'[p]
    BY <1>1, <1>2, <1>3, <1>4 DEF CurveInv, NewestInv, TypeOK
  <2>2. \A p \in DOMAIN row.present : row.present[p] <= hi'[p]
    BY <1>1, <1>4, RowStamps DEF CurveInv, NewestInv
  <2>3. pub.pc = "emit" => \A p \in DOMAIN pub.present : pub.present[p] <= hi'[p]
    BY <1>1, <1>4, RowStamps DEF CurveInv, NewestInv
  <2> QED BY <1>1, <2>1, <2>2, <2>3 DEF CurveInv, NewestInv
<1>6. \A p \in DOMAIN row.present : p = q => ts > row.present[p]
  BY <1>1, RowStamps DEF CurveInv, NewestInv
<1>7. pub.pc = "emit" => \A p \in DOMAIN pub.present : p = q => ts > pub.present[p]
  BY <1>1, RowStamps DEF CurveInv, NewestInv
<1>8. CurvesRunForward'
  <2> SUFFICES ASSUME pub'.pc \notin {"emit", "prune"},
                      NEW p \in DOMAIN row'.present, NEW k \in byTS'[p]
               PROVE  k > row'.present[p]
    BY DEF CurvesRunForward
  <2>1. p \in PMUs /\ p \in DOMAIN row.present
    BY <1>1, RowStamps
  <2> QED BY <1>1, <1>3, <1>6, <2>1 DEF CurveInv, ForwardInv, CurvesRunForward
<1>9. ASSUME pub.pc = "emit", NEW p \in DOMAIN pub.present
      PROVE  Beyond(p, pub.tick, pub.present[p])'
  <2>1. p \in PMUs /\ Beyond(p, pub.tick, pub.present[p])
    BY <1>9, RowStamps DEF CurveInv, ForwardInv
  <2> QED BY <1>1, <1>3, <1>7, <1>9, <2>1 DEF Beyond
<1>10. ASSUME pub.pc = "prune", NEW p \in DOMAIN row.present
       PROVE  Beyond(p, pub.tick, row.present[p])'
  <2>1. p \in PMUs /\ Beyond(p, pub.tick, row.present[p])
    BY <1>10, RowStamps DEF CurveInv, ForwardInv
  <2> QED BY <1>1, <1>3, <1>6, <2>1 DEF Beyond
<1> QED BY <1>1, <1>5, <1>8, <1>9, <1>10 DEF CurveInv, ForwardInv

LEMMA TakeCurve ==
  ASSUME TypeOK, CurveInv, Take
  PROVE  CurveInv'
<1>1. /\ pub.pc = "take" /\ UNCHANGED <<expected, hi, row>>
      /\ \A q \in PMUs : byTS'[q] \subseteq byTS[q]
  BY DEF Take, At, histVars
<1>2. /\ pub'.pc = (IF Hits = {} THEN "advance" ELSE "emit")
      /\ pub'.tick = pub.tick /\ pub'.present = [q \in Hits |-> Taken(q)]
  BY DEF Take, TypeOK
<1>3. CASE Hits = {}
  BY <1>1, <1>2, <1>3, CurveKept
<1>4. CASE Hits # {}
  <2>1. pub'.pc = "emit" /\ DOMAIN row.present \subseteq PMUs
    BY <1>2, <1>4, RowStamps
  <2>2. ASSUME NEW q \in Hits
        PROVE  /\ q \in PMUs /\ Taken(q) \in byTS[q]
               /\ Taken(q) \in Nearest(byTS[q], pub.tick, pub.period \div 2)
               /\ byTS'[q] = byTS[q] \ {Taken(q)}
    BY DEF Hits, Taken, Nearest, Take, TypeOK
  <2>3. NewestInv'
    BY <1>1, <1>2, <2>1, <2>2 DEF CurveInv, NewestInv
  <2>4. ASSUME NEW q \in Hits PROVE Beyond(q, pub.tick, pub.present[q])'
    <3>1. byTS[q] \in SUBSET Nat /\ pub.tick \in Nat
      BY <2>2, StampsNat DEF TypeOK, StampsAreNat
    <3>2. \A k \in byTS'[q] : k >= pub.tick => k > Taken(q)
      BY <2>2, <3>1, TakenIsNearest
    <3> QED BY <1>2, <3>2 DEF Beyond
  <2>5. \A q \in DOMAIN pub'.present : Beyond(q, pub.tick, pub.present[q])'
    BY <1>2, <2>4
  <2> QED BY <2>1, <2>3, <2>5 DEF CurveInv, ForwardInv, CurvesRunForward
<1> QED BY <1>3, <1>4

LEMMA EmitCurve ==
  ASSUME TypeOK, CurveInv, Emit
  PROVE  CurveInv'
<1>1. /\ pub.pc = "emit" /\ UNCHANGED <<expected, byTS, hi>>
      /\ pub'.pc = "prune" /\ pub'.tick = pub.tick /\ row'.present = pub.present
  BY DEF Emit, At, TypeOK, bankAndEnv, histVars
<1>2. NewestInv'
  BY <1>1 DEF CurveInv, NewestInv
<1>3. ForwardInv'
  BY <1>1 DEF CurveInv, ForwardInv, CurvesRunForward, Beyond
<1> QED BY <1>2, <1>3 DEF CurveInv

LEMMA PruneCurve ==
  ASSUME TypeOK, CurveInv, Prune
  PROVE  CurveInv'
<1>1. /\ pub.pc = "prune" /\ UNCHANGED <<expected, hi, row>>
      /\ pub'.pc = "advance" /\ expected = PMUs
      /\ \A q \in PMUs : byTS'[q] = {k \in byTS[q] : k >= pub.tick}
  BY DEF Prune, At, TypeOK, histVars, CurveInv, NewestInv
<1>2. NewestInv'
  BY <1>1 DEF CurveInv, NewestInv
<1>3. \A q \in DOMAIN row.present : q \in PMUs /\ Beyond(q, pub.tick, row.present[q])
  BY <1>1, RowStamps DEF CurveInv, ForwardInv
<1>4. ForwardInv'
  BY <1>1, <1>3 DEF ForwardInv, CurvesRunForward, Beyond
<1> QED BY <1>2, <1>4 DEF CurveInv

LEMMA NextCurve == TypeOK /\ CurveInv /\ [RetunedNext]_vars => CurveInv'
<1> SUFFICES ASSUME TypeOK, CurveInv, [RetunedNext]_vars PROVE CurveInv'
  OBVIOUS
<1>1. ASSUME NEW q \in PMUs, NEW ts \in Stamps, InOrderIngest(q, ts) PROVE CurveInv'
  BY <1>1, IngestCurve
<1>2. ASSUME NEW c \in Capacities, SetCapacity(c) PROVE CurveInv'
  BY <1>2, CurveKept DEF SetCapacity, Trim
<1>3. ASSUME NEW q \in PMUs, NEW r \in Rates, CfgUpdate(q, r) PROVE CurveInv'
  BY <1>3, CurveKept DEF CfgUpdate
<1>4. ASSUME NEW names \in SUBSET PMUs, Tune(names) PROVE CurveInv'
  BY <1>4, CurveKept DEF Tune
<1>5. CASE ReadRuler
  BY <1>5, CurveKept DEF ReadRuler, At, Idle, bankAndEnv, histVars
<1>6. CASE ReadNames
  <2>1. pub'.pc \in {"idle", "setPeriod", "start", "jump"}
    <3>1. CASE expected = {}
      BY <1>6, <3>1 DEF ReadNames, Idle
    <3>2. CASE expected # {}
      BY <1>6, <3>2 DEF ReadNames, TypeOK
    <3> QED BY <3>1, <3>2
  <2> QED BY <1>6, <2>1, CurveKept DEF ReadNames, At, bankAndEnv, histVars
<1>7. CASE SetPeriod
  BY <1>7, CurveKept DEF SetPeriod, At, TypeOK, bankAndEnv, histVars
<1>8. CASE Start
  <2>1. pub'.pc \in {"idle", "anchor"}
    <3>1. pub' = Idle \/ pub'.pc = "anchor"
      BY <1>8 DEF Start, TypeOK
    <3> QED BY <3>1 DEF Idle
  <2> QED BY <1>8, <2>1, CurveKept DEF Start, At, bankAndEnv, histVars
<1>9. CASE Anchor
  BY <1>9, CurveKept DEF Anchor, StoreTick, At, Idle, TypeOK, bankAndEnv
<1>10. CASE Jump
  <2>1. pub'.pc \in {"head", "land"}
    BY <1>10 DEF Jump, TypeOK
  <2> QED BY <1>10, <2>1, CurveKept DEF Jump, At, bankAndEnv, histVars
<1>11. CASE Land
  BY <1>11, CurveKept DEF Land, StoreTick, At, Idle, TypeOK, bankAndEnv
<1>12. CASE ReadHead
  <2>1. pub'.pc \in {"idle", "take"}
    BY <1>12 DEF ReadHead, Idle, TypeOK
  <2> QED BY <1>12, <2>1, CurveKept DEF ReadHead, At, bankAndEnv
<1>13. CASE Take
  BY <1>13, TakeCurve
<1>14. CASE Emit
  BY <1>14, EmitCurve
<1>15. CASE Prune
  BY <1>15, PruneCurve
<1>16. CASE Advance
  BY <1>16, CurveKept DEF Advance, At, Idle, bankAndEnv, histVars
<1>17. CASE UNCHANGED vars
  BY <1>17, CurveKept DEF vars
<1> QED
  BY <1>1, <1>2, <1>3, <1>4, <1>5, <1>6, <1>7, <1>8, <1>9, <1>10, <1>11, <1>12,
     <1>13, <1>14, <1>15, <1>16, <1>17
  DEF RetunedNext, stepOnce, Tuning

(* However the announced rates move the grid, and whatever capacity is     *)
(* set, no curve takes a sample twice or one behind its last (publish.go:  *)
(* TakeTickWindow, Push, PruneBefore).                                     *)
THEOREM AlwaysForward == RetunedSpec => []CurvesRunForward
<1>1. FeedInit => CurveInv
  BY DEF FeedInit, Init, CurveInv, NewestInv, ForwardInv, CurvesRunForward, NoRow,
     NoSamples, Idle
<1>2. TypeOK /\ CurveInv /\ [RetunedNext]_vars => CurveInv'
  BY NextCurve
<1>3. CurveInv => CurvesRunForward
  BY DEF CurveInv, ForwardInv
<1> QED BY <1>1, <1>2, <1>3, RetunedTypeCorrect, PTL DEF RetunedSpec

-----------------------------------------------------------------------------
(* The ruler does not rewind by a step. *)

(* The tick stepOnce works with is the ruler's, but where it has found that *)
(* it must choose one: no step of another goroutine moves the ruler        *)
(* meanwhile, for only a reset would.  A tick to jump to is within a step  *)
(* of a sample beyond the ruler.                                           *)
RulerInv ==
  /\ pub.pc \notin {"idle", "start", "anchor", "land"} => pub.tick = nextTick
  /\ pub.pc \in {"start", "anchor"} => nextTick = 0
  /\ pub.pc = "land" => pub.tick + pub.period > nextTick

NoRewind ==
  nextTick' < nextTick => nextTick' = 0 \/ nextTick' + pub.period > nextTick

(* Flooring to a grid goes down by less than a step. *)
LEMMA FloorNear ==
  ASSUME NEW ts \in Nat, NEW step \in Nat \ {0}
  PROVE  Floor(ts, step) + step > ts
<1> DEFINE d == ts \div step
<1>1. d \in Nat /\ ts < (d + 1) * step
  OBVIOUS
<1>2. (d + 1) * step = d * step + step
  <2> HIDE DEF d
  <2> QED BY <1>1
<1> QED BY <1>1, <1>2 DEF Floor

LEMMA RulerKept ==
  ASSUME TypeOK, RulerInv, UNCHANGED <<nextTick, pub>>
  PROVE  RulerInv' /\ NoRewind
BY DEF RulerInv, NoRewind, TypeOK

LEMMA NextRuler ==
  TypeOK /\ RulerInv /\ [RetunedNext]_vars => RulerInv' /\ (NoRewind \/ UNCHANGED vars)
<1> SUFFICES ASSUME TypeOK, RulerInv, [RetunedNext]_vars
             PROVE  RulerInv' /\ (NoRewind \/ UNCHANGED vars)
  OBVIOUS
<1>a. nextTick \in Nat /\ pub.tick \in Nat /\ pub.period \in Nat
  BY DEF TypeOK
<1>1. ASSUME NEW q \in PMUs, NEW ts \in Stamps, InOrderIngest(q, ts)
      PROVE  RulerInv' /\ NoRewind
  BY <1>1, RulerKept DEF InOrderIngest, Ingest
<1>2. ASSUME NEW c \in Capacities, SetCapacity(c) PROVE RulerInv' /\ NoRewind
  BY <1>2, RulerKept DEF SetCapacity
<1>3. ASSUME NEW q \in PMUs, NEW r \in Rates, CfgUpdate(q, r) PROVE RulerInv' /\ NoRewind
  BY <1>3, RulerKept DEF CfgUpdate
<1>4. ASSUME NEW names \in SUBSET PMUs, Tune(names) PROVE RulerInv' /\ NoRewind
  BY <1>4, RulerKept DEF Tune
<1>5. CASE ReadRuler
  <2>1. pub'.pc = "names" /\ pub'.tick = nextTick /\ nextTick' = nextTick
    BY <1>5 DEF ReadRuler, Idle
  <2> QED BY <1>a, <2>1 DEF RulerInv, NoRewind
<1>6. CASE ReadNames
  <2>1. pub.pc = "names" /\ nextTick' = nextTick
    BY <1>6 DEF ReadNames, At
  <2>2. \/ pub'.pc = "idle"
        \/ /\ pub'.pc \in {"setPeriod", "jump"} /\ pub'.tick = pub.tick
        \/ /\ pub'.pc = "start" /\ pub.tick = 0
    <3>1. CASE expected = {}
      BY <1>6, <3>1 DEF ReadNames, Idle
    <3>2. CASE expected # {}
      BY <1>6, <3>2 DEF ReadNames, TypeOK
    <3> QED BY <3>1, <3>2
  <2> QED BY <1>a, <2>1, <2>2 DEF RulerInv, NoRewind
<1>7. CASE SetPeriod
  <2>1. /\ pub.pc = "setPeriod" /\ nextTick' = nextTick /\ pub'.tick = pub.tick
        /\ \/ pub'.pc = "start" /\ pub.tick = 0
           \/ pub'.pc = "jump"
    BY <1>7 DEF SetPeriod, At, TypeOK
  <2> QED BY <1>a, <2>1 DEF RulerInv, NoRewind
<1>8. CASE Start
  <2>1. pub.pc = "start" /\ nextTick' = nextTick
    BY <1>8 DEF Start, At
  <2>2. pub'.pc \in {"idle", "anchor"}
    <3>1. pub' = Idle \/ pub'.pc = "anchor"
      BY <1>8 DEF Start, TypeOK
    <3> QED BY <3>1 DEF Idle
  <2> QED BY <1>a, <2>1, <2>2 DEF RulerInv, NoRewind
<1>9. ASSUME NEW next \in {"jump", "head"}, pub.pc \in {"anchor", "land"},
             StoreTick(next)
      PROVE  RulerInv' /\ NoRewind
  <2>1. CASE pub' = Idle /\ nextTick' = nextTick
    BY <1>a, <2>1 DEF RulerInv, NoRewind, Idle
  <2>2. CASE nextTick' = pub.tick /\ pub' = [pub EXCEPT !.pc = next]
    <3>1. pub'.pc = next /\ pub'.tick = pub.tick
      BY <2>2 DEF TypeOK
    <3> QED BY <1>a, <1>9, <2>2, <3>1 DEF RulerInv, NoRewind
  <2> QED BY <1>9, <2>1, <2>2 DEF StoreTick
<1>10. CASE Anchor
  BY <1>9, <1>10 DEF Anchor, At
<1>11. CASE Land
  BY <1>9, <1>11 DEF Land, At
<1>12. CASE Jump
  <2>1. pub.pc = "jump" /\ nextTick' = nextTick /\ pub.tick = nextTick
    BY <1>12 DEF Jump, At, RulerInv
  <2>2. CASE pub' = [pub EXCEPT !.pc = "head"]
    <3>1. pub'.pc = "head" /\ pub'.tick = pub.tick
      BY <2>2 DEF TypeOK
    <3> QED BY <1>a, <2>1, <3>1 DEF RulerInv, NoRewind
  <2>3. ASSUME NEW oldest \in MinOldest, pub.tick < oldest,
               pub' = [pub EXCEPT !.pc = "land", !.tick = Floor(oldest, pub.period)]
        PROVE  RulerInv' /\ NoRewind
    <3>1. oldest \in Nat /\ pub.period \in Nat \ {0}
      BY <2>1, MinOldestType, StampsNat DEF TypeOK, StampsAreNat
    <3>2. Floor(oldest, pub.period) + pub.period > oldest /\ Floor(oldest, pub.period) \in Nat
      BY <3>1, FloorNear, FloorType
    <3>3. /\ pub'.pc = "land" /\ pub'.tick = Floor(oldest, pub.period)
          /\ pub'.period = pub.period
      BY <2>3 DEF TypeOK
    <3> QED BY <1>a, <2>1, <2>3, <3>1, <3>2, <3>3 DEF RulerInv, NoRewind
  <2> QED BY <1>12, <2>2, <2>3 DEF Jump
<1>13. CASE ReadHead
  <2>1. pub.pc = "head" /\ nextTick' = nextTick
    BY <1>13 DEF ReadHead, At
  <2>2. pub'.pc = "idle" \/ (pub'.pc = "take" /\ pub'.tick = pub.tick)
    BY <1>13 DEF ReadHead, Idle, TypeOK
  <2> QED BY <1>a, <2>1, <2>2 DEF RulerInv, NoRewind
<1>14. CASE Take
  <2>1. /\ pub.pc = "take" /\ nextTick' = nextTick
        /\ pub'.pc \in {"emit", "advance"} /\ pub'.tick = pub.tick
    BY <1>14 DEF Take, At, TypeOK
  <2> QED BY <1>a, <2>1 DEF RulerInv, NoRewind
<1>15. CASE Emit
  <2>1. /\ pub.pc = "emit" /\ nextTick' = nextTick
        /\ pub'.pc = "prune" /\ pub'.tick = pub.tick
    BY <1>15 DEF Emit, At, TypeOK
  <2> QED BY <1>a, <2>1 DEF RulerInv, NoRewind
<1>16. CASE Prune
  <2>1. /\ pub.pc = "prune" /\ nextTick' = nextTick
        /\ pub'.pc = "advance" /\ pub'.tick = pub.tick
    BY <1>16 DEF Prune, At, TypeOK
  <2> QED BY <1>a, <2>1 DEF RulerInv, NoRewind
<1>17. CASE Advance
  <2>1. /\ pub.pc = "advance" /\ pub'.pc = "idle" /\ pub.tick = nextTick
        /\ nextTick' = pub.tick + pub.period \/ nextTick' = nextTick
    BY <1>17 DEF Advance, At, Idle, RulerInv
  <2> QED BY <1>a, <2>1 DEF RulerInv, NoRewind
<1>18. CASE UNCHANGED vars
  BY <1>18, RulerKept DEF vars
<1> QED
  BY <1>1, <1>2, <1>3, <1>4, <1>5, <1>6, <1>7, <1>8, <1>10, <1>11, <1>12,
     <1>13, <1>14, <1>15, <1>16, <1>17, <1>18
  DEF RetunedNext, stepOnce, Tuning

(* Wherever a new rate puts the grid, the ruler never goes back by a whole *)
(* step of it (publish.go: floorTick, the jump, nextTick = tick + period). *)
THEOREM NeverRewindsAStep == RetunedSpec => RulerNeverRewindsAStep
<1>1. FeedInit => RulerInv
  BY DEF FeedInit, Init, RulerInv, Idle
<1>2. TypeOK /\ RulerInv /\ [RetunedNext]_vars =>
        RulerInv' /\ [NoRewind]_vars
  BY NextRuler
<1> QED BY <1>1, <1>2, RetunedTypeCorrect, PTL
        DEF RetunedSpec, RulerNeverRewindsAStep, NoRewind

-----------------------------------------------------------------------------
(* The ruler waits for the slowest PMU. *)

(* A full buffer drops its oldest samples, and the ruler then jumps to the *)
(* oldest one left, whoever has not sent that far yet.  So no buffer may   *)
(* overflow.                                                               *)
DropsNothing ==
  \A q \in PMUs, ts \in Stamps : SteadyIngest(q, ts) => byTS'[q] = byTS[q] \cup {ts}

(* The tick before which everything has been consumed, a step beyond the   *)
(* one being worked on.                                                    *)
Reach ==
  IF pub.pc \in {"emit", "prune", "advance"} THEN pub.tick + P ELSE nextTick

(* The stamp q sends next, once it has begun. *)
Coming(q) == IF hi[q] = 0 THEN {} ELSE {hi[q] + P}

(* Some stamp in the buffers is within a step of tick t. *)
HeldNear(t) == \E r \in PMUs : \E f \in byTS[r] : f < t + P

Settled == expected = PMUs /\ gen = 0 /\ pub.gen = 0

(* Buffered stamps are whole steps apart. *)
Spaced ==
  \A q \in PMUs :
    /\ hi[q] # 0 => hi[q] \in Stamps
    /\ \A k \in byTS[q] : \E n \in Nat : k + n * P = hi[q]

(* A buffer has no gap but where rows have been: the predecessor of each   *)
(* stamp, and of the next to come, is there, or was consumed, or never was.*)
Gapless ==
  \A q \in PMUs : \A k \in byTS[q] \cup Coming(q) :
    k \in FirstStamps \/ k - P \in byTS[q] \/ k <= Reach + P \div 2

(* Before every PMU has begun, the sample the ruler was anchored at is     *)
(* still there.                                                            *)
Waiting ==
  /\ (\E q \in PMUs : hi[q] = 0) /\ nextTick # 0 => HeldNear(nextTick)
  /\ pub.pc = "anchor" => HeldNear(pub.tick)

(* A tick past the head, or jumped to, is one every PMU has come near. *)
Awaited ==
  /\ pub.pc \in {"take", "emit", "prune", "advance"} =>
       \A q \in PMUs : hi[q] >= pub.tick
  /\ pub.pc \notin {"idle", "names", "setPeriod", "start"} => pub.tick > 0
  /\ pub.pc = "land" =>
       /\ nextTick # 0 /\ pub.tick >= nextTick
       /\ pub.tick > nextTick => \A q \in PMUs : hi[q] >= pub.tick - P

LagInv == Settled /\ Spaced /\ Gapless /\ Waiting /\ Awaited

NoRace ==
  nextTick # 0 /\ nextTick' > nextTick => \A q \in expected : hi[q] >= nextTick' - P

(* Numbers. *)

LEMMA FloorLow ==
  ASSUME NEW ts \in Nat
  PROVE  Floor(ts, P) <= ts
<1> DEFINE d == ts \div P
<1>1. d \in Nat /\ d * P <= ts
  BY PType
<1> QED BY <1>1 DEF Floor

(* Between a point of the grid and the next there is none. *)
LEMMA GridGap ==
  ASSUME NEW a \in Nat, NEW b \in Nat, OnGrid(a), OnGrid(b), b < a + P
  PROVE  b <= a
<1>1. PICK i \in Nat : a = i * P
  BY DEF OnGrid
<1>2. PICK j \in Nat : b = j * P
  BY DEF OnGrid
<1>3. j <= i
  <2> SUFFICES ASSUME j >= i + 1 PROVE FALSE
    BY <1>1, <1>2
  <2>1. j * P >= (i + 1) * P
    BY <1>1, <1>2, PType
  <2>2. (i + 1) * P = i * P + P
    BY <1>1, PType
  <2> QED BY <1>1, <1>2, <2>1, <2>2, PType
<1>4. j * P <= i * P
  BY <1>1, <1>2, <1>3, PType
<1> QED BY <1>1, <1>2, <1>4

(* What the feed is made of. *)
LEMMA LagTypes ==
  ASSUME TypeOK
  PROVE  /\ \A q \in PMUs : hi[q] \in Nat /\ byTS[q] \in SUBSET Nat
         /\ \A q \in PMUs : \A k \in byTS[q] : k \in Nat /\ k \in Stamps
         /\ nextTick \in Nat /\ pub.tick \in Nat /\ P \in Nat \ {0}
         /\ P \div 2 \in Nat /\ P \div 2 < P
<1>1. P \div 2 < P
  BY HalfStep, PType
<1> QED BY <1>1, HalfStep, PType, StampsNat DEF TypeOK, StampsAreNat

LEMMA StampsBig == \A s \in Stamps : s \in Nat /\ s >= P
BY AlignerAssumption DEF AlignerAssumption, P

(* A step of stepOnce that leaves buffers and ruler alone. *)
LEMMA LagKept ==
  ASSUME TypeOK, LagInv, UNCHANGED <<expected, byTS, gen, hi, nextTick>>,
         pub'.gen = 0, Reach' = Reach,
         pub'.pc = "anchor" => HeldNear(pub'.tick),
         Awaited'
  PROVE  LagInv' /\ NoRace
<1>1. Settled' /\ Spaced'
  BY DEF LagInv, Settled, Spaced
<1>2. Gapless'
  BY DEF LagInv, Gapless, Coming
<1>3. Waiting'
  BY DEF LagInv, Waiting, HeldNear
<1>4. NoRace
  BY LagTypes DEF NoRace
<1> QED BY <1>1, <1>2, <1>3, <1>4 DEF LagInv

LEMMA IngestLag ==
  ASSUME DropsNothing, TypeOK, LagInv, NEW q \in PMUs, NEW ts \in Stamps,
         SteadyIngest(q, ts)
  PROVE  LagInv' /\ NoRace
<1>1. /\ UNCHANGED <<expected, gen, nextTick, pub>>
      /\ \A p \in PMUs \ {q} : byTS'[p] = byTS[p] /\ hi'[p] = hi[p]
      /\ byTS'[q] = byTS[q] \cup {ts}
  BY DEF DropsNothing, SteadyIngest, Ingest, TypeOK
<1>2. ts \in Nat /\ ts >= P /\ P \in Nat \ {0} /\ hi[q] \in Nat
  BY StampsBig, LagTypes
<1>3. IF hi[q] = 0 THEN ts \in FirstStamps ELSE ts = hi[q] + P
  BY DEF SteadyIngest, Step, P
<1>4. hi'[q] = ts /\ ts > hi[q]
  BY <1>2, <1>3 DEF SteadyIngest, Ingest, TypeOK
<1>5. \A p \in PMUs : hi'[p] \in Nat /\ hi[p] \in Nat /\ hi'[p] >= hi[p]
  BY <1>1, <1>2, <1>4, LagTypes
<1>6. Spaced'
  <2>1. ASSUME NEW p \in PMUs, hi'[p] # 0 PROVE hi'[p] \in Stamps
    BY <1>1, <1>4, <2>1 DEF LagInv, Spaced
  <2>2. ASSUME NEW p \in PMUs, NEW k \in byTS'[p]
        PROVE  \E n \in Nat : k + n * P = hi'[p]
    <3>1. CASE p # q
      BY <1>1, <2>2, <3>1 DEF LagInv, Spaced
    <3>2. CASE p = q /\ k = ts
      <4>1. ts + 0 * P = ts
        BY <1>2
      <4> QED BY <1>4, <3>2, <4>1
    <3>3. CASE p = q /\ k \in byTS[q]
      <4>1. PICK n \in Nat : k + n * P = hi[q]
        BY <3>3 DEF LagInv, Spaced
      <4>2. k \in Nat /\ k >= P
        BY <3>3, LagTypes, StampsBig
      <4>3. n * P \in Nat /\ (n + 1) * P = n * P + P
        BY <1>2, <4>1
      <4>4. hi[q] # 0
        BY <1>2, <4>1, <4>2, <4>3
      <4>5. k + (n + 1) * P = ts
        BY <1>2, <1>3, <4>1, <4>2, <4>3, <4>4
      <4> QED BY <1>4, <3>3, <4>1, <4>5
    <3> QED BY <1>1, <2>2, <3>1, <3>2, <3>3
  <2> QED BY <2>1, <2>2 DEF Spaced
<1>7. Gapless'
  <2> SUFFICES ASSUME NEW p \in PMUs, NEW k \in byTS'[p] \cup Coming(p)'
               PROVE  k \in FirstStamps \/ k - P \in byTS'[p] \/ k <= Reach + P \div 2
    BY <1>1 DEF Gapless, Reach
  <2>1. CASE p # q
    BY <1>1, <2>1 DEF LagInv, Gapless, Coming
  <2>2. CASE p = q /\ k \in byTS[q]
    BY <1>1, <2>2 DEF LagInv, Gapless
  <2>3. CASE p = q /\ k = ts
    BY <1>1, <1>3, <2>3 DEF LagInv, Gapless, Coming
  <2>4. CASE p = q /\ k \in Coming(q)'
    <3>1. k = ts + P
      BY <1>2, <1>4, <2>4 DEF Coming
    <3>2. k - P = ts
      BY <1>2, <3>1
    <3> QED BY <1>1, <2>4, <3>2
  <2> QED BY <1>1, <2>1, <2>2, <2>3, <2>4
<1>8. Waiting'
  <2>1. ASSUME NEW t, HeldNear(t) PROVE HeldNear(t)'
    BY <1>1, <2>1 DEF HeldNear
  <2>2. (\E p \in PMUs : hi'[p] = 0) => \E p \in PMUs : hi[p] = 0
    BY <1>1, <1>2, <1>4
  <2>3. (\E p \in PMUs : hi'[p] = 0) /\ nextTick # 0 => HeldNear(nextTick)
    BY <2>2 DEF LagInv, Waiting
  <2>4. pub.pc = "anchor" => HeldNear(pub.tick)
    BY DEF LagInv, Waiting
  <2>5. UNCHANGED <<nextTick, pub>>
    BY <1>1
  <2>6. nextTick \in Nat /\ pub.tick \in Nat
    BY LagTypes
  <2>7. PICK t \in {nextTick} : TRUE
    OBVIOUS
  <2>8. PICK u \in {pub.tick} : TRUE
    OBVIOUS
  <2>9. (\E p \in PMUs : hi'[p] = 0) /\ nextTick' # 0 => HeldNear(t)'
    BY <2>1, <2>3, <2>5, <2>7
  <2>10. pub'.pc = "anchor" => HeldNear(u)'
    BY <2>1, <2>4, <2>5, <2>8
  <2> QED BY <2>5, <2>7, <2>8, <2>9, <2>10 DEF Waiting, HeldNear
<1>9. Awaited'
  BY <1>1, <1>5, LagTypes DEF LagInv, Awaited
<1>10. Settled' /\ NoRace
  BY <1>1, LagTypes DEF LagInv, Settled, NoRace
<1> QED BY <1>6, <1>7, <1>8, <1>9, <1>10 DEF LagInv

(* The first tick is close to a buffered sample, and not 0. *)
LEMMA StartLag ==
  ASSUME TypeOK, FeedInv, LagInv, Start
  PROVE  LagInv' /\ NoRace
<1>1. /\ pub.pc = "start" /\ pub.gen = 0 /\ pub.period = P
      /\ UNCHANGED <<expected, byTS, gen, hi, nextTick>>
  BY DEF Start, At, bankAndEnv, histVars, LagInv, Settled, FeedInv, StepInv
<1>2. CASE pub' = Idle
  <2>1. pub'.gen = 0 /\ pub'.pc = "idle" /\ Reach' = Reach
    BY <1>1, <1>2 DEF Idle, Reach
  <2>2. Awaited'
    BY <2>1 DEF Awaited
  <2> QED BY <1>1, <2>1, <2>2, LagKept
<1>3. ASSUME NEW m \in MinOldest,
             pub' = [pub EXCEPT !.pc = "anchor", !.tick = Floor(m, pub.period)]
      PROVE  LagInv' /\ NoRace
  <2>1. PICK r \in PMUs : m \in byTS[r]
    BY DEF MinOldest, OldestIn, LagInv, Settled
  <2>2. m \in Nat /\ m >= P /\ P \in Nat \ {0}
    BY <2>1, LagTypes, StampsBig
  <2>3. Floor(m, P) \in Nat /\ Floor(m, P) + P > m
    BY <2>2, FloorType, FloorNear
  <2>4. pub'.pc = "anchor" /\ pub'.tick = Floor(m, P) /\ pub'.gen = 0
    BY <1>1, <1>3 DEF TypeOK
  <2>5. Reach' = Reach
    BY <1>1, <2>4 DEF Reach
  <2>6. HeldNear(pub'.tick)
    BY <2>1, <2>3, <2>4 DEF HeldNear
  <2>7. Awaited'
    BY <2>2, <2>3, <2>4 DEF Awaited
  <2> QED BY <1>1, <2>4, <2>5, <2>6, <2>7, LagKept
<1> QED BY <1>2, <1>3 DEF Start

(* A tick jumped to is the ruler's own, or one every PMU has come near. *)
LEMMA JumpLag ==
  ASSUME TypeOK, RulerInv, FeedInv, LagInv, Jump
  PROVE  LagInv' /\ NoRace
<1>1. /\ pub.pc = "jump" /\ pub.gen = 0 /\ pub.period = P
      /\ pub.tick = nextTick /\ pub.tick > 0 /\ OnGrid(nextTick)
      /\ UNCHANGED <<expected, byTS, gen, hi, nextTick>>
  BY DEF Jump, At, bankAndEnv, histVars, LagInv, Settled, Awaited, FeedInv,
     StepInv, GridInv, RulerInv
<1>t. nextTick \in Nat /\ P \in Nat \ {0} /\ P \div 2 \in Nat /\ P \div 2 < P
  BY LagTypes
<1>2. CASE pub' = [pub EXCEPT !.pc = "head"]
  <2>1. pub'.gen = 0 /\ pub'.pc = "head" /\ pub'.tick = pub.tick
    BY <1>1, <1>2 DEF TypeOK
  <2>2. Reach' = Reach
    BY <1>1, <2>1 DEF Reach
  <2>3. Awaited'
    BY <1>1, <2>1 DEF Awaited
  <2> QED BY <1>1, <2>1, <2>2, <2>3, LagKept
<1>3. ASSUME NEW m \in MinOldest, pub.tick < m,
             pub' = [pub EXCEPT !.pc = "land", !.tick = Floor(m, pub.period)]
      PROVE  LagInv' /\ NoRace
  <2>1. PICK r \in PMUs : m \in byTS[r]
    BY DEF MinOldest, OldestIn, LagInv, Settled
  <2>2. \A q \in PMUs : \A k \in byTS[q] : m <= k
    BY DEF MinOldest, OldestIn, LagInv, Settled
  <2>3. m \in Nat /\ m \in Stamps
    BY <2>1, LagTypes
  <2> DEFINE f == Floor(m, P)
  <2>4. /\ f \in Nat /\ f <= m /\ f + P > m /\ OnGrid(f) /\ f >= nextTick
    BY <1>1, <1>t, <1>3, <2>3, FloorType, FloorLow, FloorNear, FloorOnGrid, FloorAbove
  <2>5. ASSUME f > nextTick, NEW q \in PMUs PROVE hi[q] >= f - P
    <3> HIDE DEF f
    <3>1. ~ (m < nextTick + P)
      <4>1. m < nextTick + P => f < nextTick + P
        BY <1>t, <2>3, <2>4
      <4> QED BY <1>1, <1>t, <2>4, <2>5, <4>1, GridGap
    <3>2. m - P \notin byTS[r]
      BY <1>t, <2>2, <2>3
    <3>3. ~ (m <= Reach + P \div 2)
      BY <1>1, <1>t, <2>3, <3>1 DEF Reach
    <3>4. m \in FirstStamps
      BY <2>1, <3>2, <3>3 DEF LagInv, Gapless
    <3>5. hi[q] # 0
      <4> SUFFICES ASSUME hi[q] = 0 PROVE FALSE
        OBVIOUS
      <4>1. PICK p \in PMUs : \E g \in byTS[p] : g < nextTick + P
        BY <1>1, <1>t DEF LagInv, Waiting, HeldNear
      <4>2. PICK g \in byTS[p] : g < nextTick + P
        BY <4>1
      <4>3. m <= g /\ g \in Nat
        BY <2>2, <4>2, LagTypes
      <4> QED BY <1>t, <2>3, <3>1, <4>2, <4>3
    <3>6. hi[q] \in Stamps /\ hi[q] \in Nat
      BY <3>5, LagTypes DEF LagInv, Spaced
    <3>7. m < hi[q] + P
      BY <3>4, <3>6 DEF FirstStamps, Step, P
    <3> QED BY <1>t, <2>3, <2>4, <3>6, <3>7
  <2>6. pub'.pc = "land" /\ pub'.tick = f /\ pub'.gen = 0
    BY <1>1, <1>3 DEF TypeOK
  <2>7. Reach' = Reach
    BY <1>1, <2>6 DEF Reach
  <2>8. Awaited'
    <3> HIDE DEF f
    <3> QED BY <1>1, <1>t, <2>4, <2>5, <2>6 DEF Awaited
  <2> HIDE DEF f
  <2> QED BY <1>1, <2>6, <2>7, <2>8, LagKept
<1> QED BY <1>2, <1>3 DEF Jump

(* Storing the tick brings the ruler to it, or a reset was in between, and *)
(* here none is.                                                           *)
LEMMA StoreTickLag ==
  ASSUME TypeOK, RulerInv, LagInv, NEW next \in {"jump", "head"},
         pub.pc \in {"anchor", "land"}, StoreTick(next),
         UNCHANGED <<expected, byTS, gen, hi>>
  PROVE  LagInv' /\ NoRace
<1>1. /\ gen = 0 /\ pub.gen = 0 /\ nextTick' = pub.tick
      /\ pub' = [pub EXCEPT !.pc = next]
  BY DEF StoreTick, LagInv, Settled
<1>2. pub'.pc = next /\ pub'.tick = pub.tick /\ pub'.gen = 0
  BY <1>1 DEF TypeOK
<1>3. /\ nextTick \in Nat /\ pub.tick \in Nat /\ P \in Nat \ {0} /\ P \div 2 \in Nat
      /\ \A q \in PMUs : \A k \in byTS[q] \cup Coming(q) : k \in Nat
  BY LagTypes DEF Coming
<1>4. pub.tick > 0 /\ pub.tick >= nextTick
  BY <1>3 DEF LagInv, Awaited, RulerInv
<1>5. Reach = nextTick /\ Reach' = pub.tick
  BY <1>1, <1>2 DEF Reach
<1>6. Settled' /\ Spaced'
  BY <1>1, <1>2 DEF LagInv, Settled, Spaced
<1>7. Gapless'
  <2> SUFFICES ASSUME NEW q \in PMUs, NEW k \in byTS[q] \cup Coming(q)
               PROVE  k \in FirstStamps \/ k - P \in byTS[q] \/ k <= pub.tick + P \div 2
    BY <1>5 DEF Gapless, Coming
  <2>1. k \in FirstStamps \/ k - P \in byTS[q] \/ k <= nextTick + P \div 2
    BY <1>5 DEF LagInv, Gapless
  <2> QED BY <1>3, <1>4, <2>1
<1>8. Waiting'
  <2>1. ASSUME \E q \in PMUs : hi[q] = 0 PROVE HeldNear(pub.tick)
    <3>1. CASE pub.pc = "anchor"
      BY <3>1 DEF LagInv, Waiting
    <3>2. CASE pub.pc = "land"
      <4>1. HeldNear(nextTick)
        BY <2>1, <3>2 DEF LagInv, Waiting, Awaited
      <4> QED BY <1>3, <1>4, <4>1 DEF HeldNear
    <3> QED BY <3>1, <3>2
  <2> QED BY <1>1, <1>2, <2>1 DEF Waiting, HeldNear
<1>9. Awaited'
  BY <1>2, <1>4 DEF Awaited
<1>10. NoRace
  <2> SUFFICES ASSUME nextTick # 0, nextTick' > nextTick, NEW q \in PMUs
               PROVE  hi[q] >= nextTick' - P
    BY DEF NoRace, LagInv, Settled
  <2>1. pub.pc = "land"
    BY DEF RulerInv
  <2> QED BY <1>1, <2>1 DEF LagInv, Awaited
<1> QED BY <1>6, <1>7, <1>8, <1>9, <1>10 DEF LagInv

(* The head is reached once every PMU has a sample at or after the tick.   *)
LEMMA ReadHeadLag ==
  ASSUME TypeOK, LagInv, ReadHead
  PROVE  LagInv' /\ NoRace
<1>1. /\ pub.pc = "head" /\ pub.gen = 0
      /\ UNCHANGED <<expected, byTS, gen, hi, nextTick>>
  BY DEF ReadHead, At, bankAndEnv, LagInv, Settled
<1>2. CASE pub' = Idle
  <2>1. pub'.gen = 0 /\ pub'.pc = "idle" /\ Reach' = Reach
    BY <1>1, <1>2 DEF Idle, Reach
  <2>2. Awaited'
    BY <2>1 DEF Awaited
  <2> QED BY <1>1, <2>1, <2>2, LagKept
<1>3. CASE HeadReached(pub.tick) /\ pub' = [pub EXCEPT !.pc = "take"]
  <2>1. pub'.gen = 0 /\ pub'.pc = "take" /\ pub'.tick = pub.tick
    BY <1>1, <1>3 DEF TypeOK
  <2>2. Reach' = Reach
    BY <1>1, <2>1 DEF Reach
  <2>3. ASSUME NEW q \in PMUs PROVE hi[q] >= pub.tick
    <3>1. PICK k \in byTS[q] : k >= pub.tick
      BY <1>3 DEF HeadReached, LagInv, Settled
    <3>2. PICK n \in Nat : k + n * P = hi[q]
      BY DEF LagInv, Spaced
    <3>3. k \in Nat /\ pub.tick \in Nat /\ n * P \in Nat
      BY LagTypes
    <3> QED BY <3>1, <3>2, <3>3
  <2>4. Awaited'
    BY <1>1, <2>1, <2>3 DEF LagInv, Awaited
  <2> QED BY <1>1, <2>1, <2>2, <2>4, LagKept
<1> QED BY <1>2, <1>3 DEF ReadHead

(* What a row takes lies within half a step of its tick, so the stamp that *)
(* follows it is within half a step of the next.                           *)
LEMMA TakeLag ==
  ASSUME TypeOK, RulerInv, FeedInv, LagInv, Take
  PROVE  LagInv' /\ NoRace
<1>1. /\ pub.pc = "take" /\ pub.gen = 0 /\ pub.period = P /\ pub.tick = nextTick
      /\ UNCHANGED <<expected, gen, hi, nextTick>>
      /\ \A q \in PMUs : byTS'[q] = IF q \in Hits THEN byTS[q] \ {Taken(q)} ELSE byTS[q]
  BY DEF Take, At, ruler, histVars, LagInv, Settled, FeedInv, StepInv, RulerInv
<1>2. /\ pub'.pc \in {"emit", "advance"} /\ pub'.tick = pub.tick /\ pub'.gen = 0
  BY <1>1 DEF Take, TypeOK
<1>3. /\ pub.tick \in Nat /\ P \in Nat \ {0} /\ P \div 2 \in Nat
      /\ \A q \in PMUs : \A k \in byTS[q] \cup Coming(q) : k \in Nat
      /\ \A q \in PMUs : byTS'[q] \subseteq byTS[q]
  <2>1. \A q \in PMUs : byTS'[q] \subseteq byTS[q]
    BY <1>1
  <2> QED BY <2>1, LagTypes DEF Coming
<1>4. Reach = pub.tick /\ Reach' = pub.tick + P
  BY <1>1, <1>2 DEF Reach
<1>5. Settled' /\ Spaced'
  BY <1>1, <1>2, <1>3 DEF LagInv, Settled, Spaced
<1>6. ASSUME NEW q \in Hits PROVE Taken(q) \in Nat /\ Taken(q) <= pub.tick + P \div 2
  <2>1. /\ q \in PMUs /\ Taken(q) \in byTS[q]
        /\ Distance(Taken(q), pub.tick) <= P \div 2
    BY <1>1 DEF Hits, Taken, Nearest, LagInv, Settled
  <2>2. Taken(q) \in Nat
    BY <2>1, LagTypes
  <2> QED BY <1>3, <2>1, <2>2 DEF Distance
<1>7. Gapless'
  <2> SUFFICES ASSUME NEW q \in PMUs, NEW k \in byTS[q] \cup Coming(q)
               PROVE  \/ k \in FirstStamps \/ k - P \in byTS'[q]
                      \/ k <= pub.tick + P + P \div 2
    BY <1>1, <1>3, <1>4 DEF Gapless, Coming
  <2>1. k \in FirstStamps \/ k - P \in byTS[q] \/ k <= pub.tick + P \div 2
    BY <1>4 DEF LagInv, Gapless
  <2>2. CASE k - P \in byTS[q] /\ k - P \notin byTS'[q]
    <3>1. q \in Hits /\ k - P = Taken(q)
      BY <1>1, <2>2
    <3> QED BY <1>3, <1>6, <3>1
  <2> QED BY <1>3, <2>1, <2>2
<1>8. \A q \in PMUs : hi[q] # 0
  BY <1>1, <1>3 DEF LagInv, Awaited
<1>9. Waiting'
  BY <1>1, <1>2, <1>8 DEF Waiting
<1>10. Awaited'
  BY <1>1, <1>2 DEF LagInv, Awaited
<1>11. NoRace
  BY <1>1, <1>3 DEF NoRace
<1> QED BY <1>5, <1>7, <1>9, <1>10, <1>11 DEF LagInv

(* What is pruned is older than the tick, so what follows it is older than *)
(* the next.                                                               *)
LEMMA PruneLag ==
  ASSUME TypeOK, RulerInv, LagInv, Prune
  PROVE  LagInv' /\ NoRace
<1>1. /\ pub.pc = "prune" /\ pub.gen = 0 /\ pub.tick = nextTick
      /\ UNCHANGED <<expected, gen, hi, nextTick>>
      /\ \A q \in PMUs : byTS'[q] = {k \in byTS[q] : k >= pub.tick}
  BY DEF Prune, At, ruler, histVars, LagInv, Settled, RulerInv
<1>2. pub'.pc = "advance" /\ pub'.tick = pub.tick /\ pub'.gen = 0
  BY <1>1 DEF Prune, TypeOK
<1>3. /\ pub.tick \in Nat /\ P \in Nat \ {0} /\ P \div 2 \in Nat
      /\ \A q \in PMUs : \A k \in byTS[q] \cup Coming(q) : k \in Nat
      /\ \A q \in PMUs : byTS'[q] \subseteq byTS[q]
  BY <1>1, LagTypes DEF Coming
<1>4. Reach = pub.tick + P /\ Reach' = pub.tick + P
  BY <1>1, <1>2 DEF Reach
<1>5. Settled' /\ Spaced'
  BY <1>1, <1>2, <1>3 DEF LagInv, Settled, Spaced
<1>6. Gapless'
  <2> SUFFICES ASSUME NEW q \in PMUs, NEW k \in byTS[q] \cup Coming(q)
               PROVE  \/ k \in FirstStamps \/ k - P \in byTS'[q]
                      \/ k <= pub.tick + P + P \div 2
    BY <1>1, <1>3, <1>4 DEF Gapless, Coming
  <2>1. k \in FirstStamps \/ k - P \in byTS[q] \/ k <= pub.tick + P + P \div 2
    BY <1>4 DEF LagInv, Gapless
  <2>2. CASE k - P \in byTS[q] /\ k - P \notin byTS'[q]
    <3>1. ~ (k - P >= pub.tick)
      BY <1>1, <2>2
    <3> QED BY <1>3, <3>1
  <2> QED BY <1>3, <2>1, <2>2
<1>7. \A q \in PMUs : hi[q] # 0
  BY <1>1, <1>3 DEF LagInv, Awaited
<1>8. Waiting'
  BY <1>1, <1>2, <1>7 DEF Waiting
<1>9. Awaited'
  BY <1>1, <1>2 DEF LagInv, Awaited
<1>10. NoRace
  BY <1>1, <1>3 DEF NoRace
<1> QED BY <1>5, <1>6, <1>8, <1>9, <1>10 DEF LagInv

(* The ruler moves a step on from a tick that every PMU has reached.       *)
LEMMA AdvanceLag ==
  ASSUME TypeOK, RulerInv, FeedInv, LagInv, Advance
  PROVE  LagInv' /\ NoRace
<1>1. /\ pub.pc = "advance" /\ pub.tick = nextTick /\ pub.tick > 0
      /\ UNCHANGED <<expected, byTS, gen, hi>>
      /\ pub' = Idle /\ nextTick' = pub.tick + P
  BY DEF Advance, At, bankAndEnv, histVars, LagInv, Settled, Awaited, FeedInv,
     StepInv, RulerInv
<1>2. pub'.pc = "idle" /\ pub'.gen = 0
  BY <1>1 DEF Idle
<1>3. Reach' = Reach
  BY <1>1, <1>2 DEF Reach
<1>4. pub.tick \in Nat /\ P \in Nat \ {0} /\ \A q \in PMUs : hi[q] >= pub.tick /\ hi[q] \in Nat
  BY <1>1, LagTypes DEF LagInv, Awaited
<1>5. Settled' /\ Spaced'
  BY <1>1, <1>2 DEF LagInv, Settled, Spaced
<1>6. Gapless'
  BY <1>1, <1>3 DEF LagInv, Gapless, Coming
<1>7. Waiting'
  BY <1>1, <1>2, <1>4 DEF Waiting
<1>8. Awaited'
  BY <1>2 DEF Awaited
<1>9. NoRace
  BY <1>1, <1>4 DEF NoRace, LagInv, Settled
<1> QED BY <1>5, <1>6, <1>7, <1>8, <1>9 DEF LagInv

LEMMA NextLag ==
  ASSUME [DropsNothing]_vars, TypeOK, RulerInv, FeedInv, LagInv, [SteadyNext]_vars
  PROVE  LagInv' /\ NoRace
<1>a. /\ nextTick \in Nat /\ pub.tick \in Nat
      /\ \A q \in PMUs : hi[q] \in Nat
  BY LagTypes
<1>1. ASSUME NEW q \in PMUs, NEW ts \in Stamps, SteadyIngest(q, ts), vars' # vars
      PROVE  LagInv' /\ NoRace
  BY <1>1, IngestLag
<1>2. CASE ReadRuler
  <2>1. /\ UNCHANGED <<expected, byTS, gen, hi, nextTick>> /\ pub.pc = "idle"
        /\ pub'.pc = "names" /\ pub'.gen = 0
    BY <1>2 DEF ReadRuler, At, Idle, bankAndEnv, histVars, LagInv, Settled
  <2>2. Reach' = Reach /\ Awaited'
    BY <2>1 DEF Reach, Awaited
  <2> QED BY <2>1, <2>2, LagKept
<1>3. CASE ReadNames
  <2>1. /\ UNCHANGED <<expected, byTS, gen, hi, nextTick>> /\ pub.pc = "names"
        /\ pub.gen = 0 /\ expected # {}
    BY <1>3, AlignerAssumption
    DEF ReadNames, At, bankAndEnv, histVars, LagInv, Settled, AlignerAssumption
  <2>2. /\ pub'.gen = 0 /\ pub'.tick = pub.tick
        /\ \/ pub'.pc \in {"setPeriod", "start"}
           \/ pub'.pc = "jump" /\ pub.tick # 0
    BY <1>3, <2>1 DEF ReadNames, TypeOK
  <2>3. Reach' = Reach /\ Awaited'
    BY <1>a, <2>1, <2>2 DEF Reach, Awaited
  <2> QED BY <2>1, <2>2, <2>3, LagKept
<1>4. CASE SetPeriod
  <2>1. /\ UNCHANGED <<expected, byTS, gen, hi, nextTick>> /\ pub.pc = "setPeriod"
    BY <1>4 DEF SetPeriod, At, bankAndEnv, histVars
  <2>2. /\ pub'.gen = 0 /\ pub'.tick = pub.tick
        /\ \/ pub'.pc = "start"
           \/ pub'.pc = "jump" /\ pub.tick # 0
    BY <1>4, <2>1 DEF SetPeriod, TypeOK, LagInv, Settled
  <2>3. Reach' = Reach /\ Awaited'
    BY <1>a, <2>1, <2>2 DEF Reach, Awaited
  <2> QED BY <2>1, <2>2, <2>3, LagKept
<1>5. CASE Start
  BY <1>5, StartLag
<1>6. CASE Anchor
  BY <1>6, StoreTickLag DEF Anchor, At, bankAndEnv
<1>7. CASE Jump
  BY <1>7, JumpLag
<1>8. CASE Land
  BY <1>8, StoreTickLag DEF Land, At, bankAndEnv
<1>9. CASE ReadHead
  BY <1>9, ReadHeadLag
<1>10. CASE Take
  BY <1>10, TakeLag
<1>11. CASE Emit
  <2>1. /\ UNCHANGED <<expected, byTS, gen, hi, nextTick>> /\ pub.pc = "emit"
        /\ pub'.pc = "prune" /\ pub'.tick = pub.tick /\ pub'.gen = 0
    BY <1>11 DEF Emit, At, bankAndEnv, histVars, TypeOK, LagInv, Settled
  <2>2. Reach' = Reach /\ Awaited'
    BY <2>1 DEF LagInv, Reach, Awaited
  <2> QED BY <2>1, <2>2, LagKept
<1>12. CASE Prune
  BY <1>12, PruneLag
<1>13. CASE Advance
  BY <1>13, AdvanceLag
<1>14. CASE UNCHANGED vars
  <2>1. /\ UNCHANGED <<expected, byTS, gen, hi, nextTick, pub>> /\ pub.gen = 0
    BY <1>14 DEF vars, LagInv, Settled
  <2>2. Reach' = Reach /\ Awaited'
    BY <2>1 DEF LagInv, Reach, Awaited
  <2>3. pub.pc = "anchor" => HeldNear(pub.tick)
    BY DEF LagInv, Waiting
  <2> QED BY <2>1, <2>2, <2>3, LagKept
<1> QED
  BY <1>1, <1>2, <1>3, <1>4, <1>5, <1>6, <1>7, <1>8, <1>9, <1>10, <1>11, <1>12,
     <1>13, <1>14
  DEF SteadyNext, stepOnce

(* Every step of SteadySpec is one of RetunedSpec. *)
LEMMA SteadyIsRetuned == TypeOK /\ [SteadyNext]_vars => [RetunedNext]_vars
<1> SUFFICES ASSUME TypeOK, NEW q \in PMUs, NEW ts \in Stamps, SteadyIngest(q, ts)
             PROVE  InOrderIngest(q, ts)
  BY DEF SteadyNext, RetunedNext
<1>1. ts > hi[q]
  BY StampsBig, LagTypes DEF SteadyIngest, Step, P
<1> QED BY <1>1 DEF SteadyIngest, InOrderIngest

SlowInv == TypeOK /\ RulerInv /\ FeedInv /\ LagInv

LEMMA InitSlow == SingleRate /\ FeedInit => SlowInv
<1> SUFFICES ASSUME SingleRate, FeedInit PROVE SlowInv
  OBVIOUS
<1>1. TypeOK /\ FeedInv
  BY InitType, InitFeed DEF FeedInit
<1>2. RulerInv /\ LagInv
  BY DEF FeedInit, Init, RulerInv, Idle, LagInv, Settled, Spaced, Gapless, Coming,
     Waiting, Awaited
<1> QED BY <1>1, <1>2 DEF SlowInv

LEMMA NextSlow ==
  SingleRate /\ SlowInv /\ [SteadyNext]_vars /\ [DropsNothing]_vars => SlowInv' /\ NoRace
<1> SUFFICES ASSUME SingleRate, SlowInv, [SteadyNext]_vars, [DropsNothing]_vars
             PROVE  SlowInv' /\ NoRace
  OBVIOUS
<1>1. TypeOK /\ RulerInv /\ FeedInv /\ LagInv
  BY DEF SlowInv
<1>2. [RetunedNext]_vars /\ [Next]_vars
  BY <1>1, SteadyIsRetuned, RetunedIsNext
<1>3. TypeOK' /\ RulerInv' /\ FeedInv'
  BY <1>1, <1>2, NextType, NextRuler, NextFeed
<1> QED BY <1>1, <1>3, NextLag DEF SlowInv

(* While one step size is in use and no buffer overflows, the ruler never  *)
(* moves past a tick that some PMU has not reached, however many PMUs send *)
(* for however long (publish.go, "Do not race ahead of the slowest live    *)
(* PMU").                                                                  *)
THEOREM AwaitsSlowest ==
  SingleRate => (SteadySpec /\ [][DropsNothing]_vars => RulerAwaitsSlowest)
<1> SUFFICES ASSUME SingleRate
             PROVE  SteadySpec /\ [][DropsNothing]_vars => RulerAwaitsSlowest
  OBVIOUS
<1>1. FeedInit => SlowInv
  BY InitSlow
<1>2. SlowInv /\ [SteadyNext]_vars /\ [DropsNothing]_vars => SlowInv' /\ [NoRace]_vars
  BY NextSlow
<1>3. NoRace <=> (nextTick # 0 /\ nextTick' > nextTick =>
                    \A q \in expected : hi[q] >= nextTick' - Step)
  BY DEF NoRace, Step, P
<1> QED BY <1>1, <1>2, <1>3, PTL DEF SteadySpec, RulerAwaitsSlowest
=============================================================================
