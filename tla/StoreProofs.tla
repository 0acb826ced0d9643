---------------------------- MODULE StoreProofs ----------------------------
(***************************************************************************)
(* The address book of Store, for any sets of endpoints and nicknames and  *)
(* however often Postgres goes away or the program crashes.                *)
(***************************************************************************)
EXTENDS Store, TLAPS

TypeOK ==
  /\ DOMAIN table \subseteq Names /\ table \in [DOMAIN table -> Rows]
  /\ index \in BOOLEAN /\ up \in BOOLEAN /\ pool \in BOOLEAN /\ pools \in Nat
  /\ loop \in {"starting", "ticking", "ended"}
  /\ opening \in {"no", "connect", "schema", "list", "migrate"}
  /\ todo \subseteq Names /\ blocked \subseteq Names
  /\ closing \in {"no", "cancelled", "closed"}
  /\ crashes \in Nat /\ requests \in Nat
  /\ enabled \subseteq Endpoints /\ shadowed \subseteq enabled

(* An attempt is only under way in a store that is neither open nor over.  *)
Phases ==
  /\ pool => opening = "no"
  /\ opening # "no" => loop # "ended"
  /\ closing = "closed" => loop = "ended" /\ ~ pool

Pools == pools = (IF pool \/ opening \notin {"no", "connect"} THEN 1 ELSE 0)

(* What the unique index guarantees, and from when on there is one. *)
Indexed ==
  /\ index => Indexable(table)
  /\ opening \in {"list", "migrate"} => index

(* While rows are renamed: what is neither listed nor blocked is done.     *)
Migrating ==
  /\ opening = "migrate" =>
       /\ todo \cup blocked \subseteq Active(table)
       /\ \A n \in Active(table) : n = table[n].endpoint \/ n \in todo \cup blocked
  /\ opening # "migrate" => blocked = {}
  /\ todo \cap blocked = {}
  /\ \A old \in blocked :
       /\ blocked = {old}
       /\ table[old].endpoint # old /\ table[old].endpoint \in DOMAIN table

(* An endpoint that was active after the last request, and nothing stood in *)
(* its way, has an active row, and no other row has taken its name.  Where  *)
(* a row did it still does, and no other endpoint has an active row.       *)
Untouched ==
  /\ \A e \in enabled \ shadowed :
       /\ \E n \in Active(table) : table[n].endpoint = e
       /\ e \in DOMAIN table => e \in Active(table)
  /\ \A e \in shadowed : e \in DOMAIN table \ Active(table)
  /\ \A n \in Active(table) : table[n].endpoint \in enabled

Inv == TypeOK /\ Phases /\ Pools /\ Indexed /\ NamedByEndpoint /\ Migrating /\ Untouched

-----------------------------------------------------------------------------
(* The rows of a table after each of the statements that change it.        *)

LEMMA RowsHaveEndpoints ==
  ASSUME TypeOK
  PROVE  \A n \in DOMAIN table : table[n] \in Rows /\ table[n].endpoint \in Endpoints
BY DEF TypeOK, Rows

LEMMA SavedRows ==
  ASSUME TypeOK, NEW e \in Endpoints, NEW label \in BOOLEAN, SavePMU(e, label)
  PROVE  /\ DOMAIN table' = DOMAIN table \cup {e}
         /\ table' \in [DOMAIN table' -> Rows]
         /\ table'[e].endpoint = e
         /\ \A n \in DOMAIN table : n # e => table'[n] = table[n]
         /\ Change(table')
<1> DEFINE new == [endpoint |-> e, active |-> TRUE,
                   labelled |-> label \/ (e \in DOMAIN table /\ table[e].labelled)]
           rows == [n \in DOMAIN table \cup {e} |-> IF n = e THEN new ELSE table[n]]
<1>1. Change(rows) /\ table' = rows
  BY DEF SavePMU, Change
<1>2. new \in Rows
  BY DEF TypeOK, Rows
<1>3. \A n \in DOMAIN table : table[n] \in Rows
  BY DEF TypeOK
<1>4. rows \in [DOMAIN table \cup {e} -> Rows]
  BY <1>2, <1>3
<1> QED
  BY <1>1, <1>4

LEMMA StationRows ==
  ASSUME TypeOK, NEW e \in Endpoints, UpdateStation(e)
  PROVE  /\ DOMAIN table' = DOMAIN table
         /\ table' \in [DOMAIN table' -> Rows]
         /\ \A n \in DOMAIN table : /\ table'[n].endpoint = table[n].endpoint
                                    /\ table'[n].active = table[n].active
         /\ Change(table')
<1>1. /\ Change([table EXCEPT ![e].labelled = TRUE])
      /\ table' = [table EXCEPT ![e].labelled = TRUE]
  BY DEF UpdateStation, Change
<1>2. \A n \in DOMAIN table : table[n] \in Rows
  BY DEF TypeOK
<1> QED
  BY <1>1, <1>2 DEF Rows

LEMMA ActiveRows ==
  ASSUME TypeOK, NEW name \in Names, NEW active \in BOOLEAN, SetPMUActive(name, active)
  PROVE  /\ DOMAIN table' = DOMAIN table
         /\ table' \in [DOMAIN table' -> Rows]
         /\ \A n \in DOMAIN table : table'[n].endpoint = table[n].endpoint
         /\ Change(table')
<1>1. /\ Change([table EXCEPT ![name].active = active])
      /\ table' = [table EXCEPT ![name].active = active]
  BY DEF SetPMUActive, Change
<1>2. \A n \in DOMAIN table : table[n] \in Rows
  BY DEF TypeOK
<1> QED
  BY <1>1, <1>2 DEF Rows

(* The requests, as one kind of step: endpoints keep their rows. *)
Request ==
  \/ \E e \in Endpoints, label \in BOOLEAN : SavePMU(e, label)
  \/ \E e \in Endpoints : UpdateStation(e)
  \/ \E n \in Names, a \in BOOLEAN : SetPMUActive(n, a)

LEMMA RequestRows ==
  ASSUME TypeOK, Request
  PROVE  /\ DOMAIN table \subseteq DOMAIN table' /\ DOMAIN table' \subseteq Names
         /\ table' \in [DOMAIN table' -> Rows]
         /\ Change(table')
<1>1. ASSUME NEW e \in Endpoints, NEW label \in BOOLEAN, SavePMU(e, label)
      PROVE  DOMAIN table' = DOMAIN table \cup {e} /\ Change(table')
             /\ table' \in [DOMAIN table' -> Rows]
  BY <1>1, SavedRows
<1>2. CASE \E e \in Endpoints, label \in BOOLEAN : SavePMU(e, label)
  BY <1>1, <1>2 DEF Names, TypeOK
<1>3. CASE \E e \in Endpoints : UpdateStation(e)
  BY <1>3, StationRows DEF TypeOK
<1>4. CASE \E n \in Names, a \in BOOLEAN : SetPMUActive(n, a)
  BY <1>4, ActiveRows DEF TypeOK
<1> QED
  BY <1>2, <1>3, <1>4 DEF Request

LEMMA RenamedRows ==
  ASSUME TypeOK, NEW old \in DOMAIN table, NEW new \in Endpoints,
         new \notin DOMAIN table, table' = Renamed(table, old, new)
  PROVE  /\ DOMAIN table' = (DOMAIN table \ {old}) \cup {new}
         /\ table' \in [DOMAIN table' -> Rows]
         /\ table'[new] = table[old]
         /\ \A n \in DOMAIN table \ {old} : table'[n] = table[n]
<1>1. \A n \in DOMAIN table : table[n] \in Rows
  BY DEF TypeOK
<1> QED
  BY <1>1 DEF Renamed

LEMMA DeactivatedRows ==
  ASSUME TypeOK, NEW old \in DOMAIN table, table' = [table EXCEPT ![old].active = FALSE]
  PROVE  /\ DOMAIN table' = DOMAIN table
         /\ table' \in [DOMAIN table' -> Rows]
         /\ \A n \in DOMAIN table : table'[n].endpoint = table[n].endpoint
         /\ \A n \in DOMAIN table \ {old} : table'[n] = table[n]
         /\ ~ table'[old].active
<1>1. \A n \in DOMAIN table : table[n] \in Rows
  BY DEF TypeOK
<1> QED
  BY <1>1 DEF Rows

-----------------------------------------------------------------------------
(* The invariant holds at the start, and no step breaks a part of it.      *)

(* What the history says of a table holds of this table. *)
LEMMA FreshHistory ==
  ASSUME DOMAIN table \subseteq Names, table \in [DOMAIN table -> Rows],
         enabled = Enabled(table), shadowed = Shadowed(table)
  PROVE  enabled \subseteq Endpoints /\ shadowed \subseteq enabled /\ Untouched
<1>1. \A n \in Active(table) : table[n].endpoint \in Endpoints
  BY DEF Active, Rows
<1>2. enabled \subseteq Endpoints /\ shadowed \subseteq enabled
  BY <1>1 DEF Enabled, Shadowed
<1>3. Untouched
  BY DEF Untouched, Enabled, Shadowed
<1> QED
  BY <1>2, <1>3

LEMMA InitInv == Init => Inv
<1> SUFFICES ASSUME Init PROVE Inv
  OBVIOUS
<1>1. DOMAIN table \subseteq Names /\ table \in [DOMAIN table -> Rows] /\ NamedByEndpoint
  <2>1. PICK names \in SUBSET Names : table \in [names -> Rows] /\ NamedByEndpoint
    BY DEF Init
  <2>2. DOMAIN table = names
    BY <2>1
  <2> QED
    BY <2>1, <2>2
<1>2. enabled \subseteq Endpoints /\ shadowed \subseteq enabled /\ Untouched
  BY <1>1, FreshHistory DEF Init
<1>3. TypeOK
  BY <1>1, <1>2 DEF Init, TypeOK
<1>4. Phases /\ Pools
  BY DEF Init, Phases, Pools
<1>5. Indexed /\ Migrating
  BY DEF Init, Indexed, Migrating
<1> QED
  BY <1>1, <1>2, <1>3, <1>4, <1>5 DEF Inv

(* A request starts the history anew. *)
LEMMA RequestHistory ==
  ASSUME TypeOK, Request
  PROVE  enabled' \subseteq Endpoints /\ shadowed' \subseteq enabled' /\ Untouched'
<1>1. /\ DOMAIN table' \subseteq Names /\ table' \in [DOMAIN table' -> Rows]
      /\ enabled' = Enabled(table') /\ shadowed' = Shadowed(table')
  BY RequestRows DEF Change
<1>2. \A n \in Active(table') : table'[n].endpoint \in Endpoints
  BY <1>1 DEF Active, Rows
<1>3. enabled' \subseteq Endpoints /\ shadowed' \subseteq enabled'
  BY <1>1, <1>2 DEF Enabled, Shadowed
<1>4. Untouched'
  BY <1>1 DEF Untouched, Enabled, Shadowed
<1> QED
  BY <1>3, <1>4

(* The steps that change no row. *)
Quiet ==
  \/ UpOrDown \/ Tick \/ Connect \/ Fail \/ ensureSchema \/ List \/ Publish
  \/ Cancel \/ LoopEnds \/ Close \/ Restart \/ UNCHANGED storeVars

LEMMA StepKinds ==
  [Next]_storeVars => Quiet \/ Deactivate \/ Request \/ \E old \in Names : Rename(old)
BY DEF Next, Try, Quiet, Request

LEMMA QuietRows == Quiet => UNCHANGED <<table, enabled, shadowed>>
BY DEF Quiet, UpOrDown, Tick, Connect, Fail, ensureSchema, List, Publish, Cancel,
       LoopEnds, Close, Restart, storeVars, dbVars, history

(* What a rename finds and leaves, according to the name it is to give. *)
Moved(old, new) ==
  /\ new \notin DOMAIN table
  /\ DOMAIN table' = (DOMAIN table \ {old}) \cup {new}
  /\ table' \in [DOMAIN table' -> Rows]
  /\ table'[new] = table[old]
  /\ \A n \in DOMAIN table \ {old} : table'[n] = table[n]

LEMMA RenameRow ==
  ASSUME Inv, NEW old \in Names, Rename(old)
  PROVE  /\ opening = "migrate" /\ blocked = {} /\ todo' = todo \ {old}
         /\ old \in Active(table) /\ old \in DOMAIN table /\ table[old].active
         /\ UNCHANGED <<index, up, pool, pools, loop, opening, closing, crashes,
                        requests, enabled, shadowed>>
         /\ \/ table[old].endpoint = old /\ table' = table /\ blocked' = {}
            \/ /\ \E new \in Endpoints : table[old].endpoint = new /\ Moved(old, new)
               /\ blocked' = {}
            \/ /\ table[old].endpoint # old /\ table[old].endpoint \in DOMAIN table
               /\ table' = table /\ blocked' = {old}
<1> DEFINE new == table[old].endpoint
<1>1. /\ opening = "migrate" /\ blocked = {} /\ todo' = todo \ {old}
      /\ old \in Active(table) /\ old \in DOMAIN table /\ table[old].active
      /\ UNCHANGED <<index, up, pool, pools, loop, opening, closing, crashes,
                     requests, enabled, shadowed>>
  BY DEF Inv, Migrating, Rename, Active, history
<1>2. CASE new = old /\ UNCHANGED <<table, blocked>>
  BY <1>1, <1>2
<1>3. CASE new \notin DOMAIN table /\ table' = Renamed(table, old, new) /\ blocked' = blocked
  <2>1. TypeOK /\ new \in Endpoints
    BY <1>1, RowsHaveEndpoints DEF Inv
  <2>2. Moved(old, new)
    BY <1>1, <1>3, <2>1, RenamedRows DEF Moved
  <2> QED
    BY <1>1, <1>3, <2>1, <2>2
<1>4. CASE new # old /\ new \in DOMAIN table /\ blocked' = {old} /\ table' = table
  BY <1>1, <1>4
<1> QED
  BY <1>2, <1>3, <1>4 DEF Rename

(* What setting a blocked row aside finds and leaves. *)
LEMMA DeactivateRow ==
  ASSUME Inv, Deactivate
  PROVE  \E old \in DOMAIN table :
           /\ opening = "migrate" /\ blocked = {old} /\ blocked' = {}
           /\ old \in Active(table) /\ old \notin todo
           /\ table[old].endpoint # old /\ table[old].endpoint \in DOMAIN table
           /\ DOMAIN table' = DOMAIN table
           /\ table' \in [DOMAIN table' -> Rows]
           /\ \A n \in DOMAIN table : table'[n].endpoint = table[n].endpoint
           /\ \A n \in DOMAIN table \ {old} : table'[n] = table[n]
           /\ ~ table'[old].active
           /\ UNCHANGED <<index, up, pool, pools, loop, opening, todo, closing,
                          crashes, requests, enabled, shadowed>>
<1>1. PICK old \in blocked : table' = [table EXCEPT ![old].active = FALSE]
  BY DEF Deactivate
<1>2. /\ opening = "migrate" /\ blocked = {old} /\ blocked' = {}
      /\ old \in Active(table) /\ old \notin todo /\ old \in DOMAIN table
      /\ table[old].endpoint # old /\ table[old].endpoint \in DOMAIN table
      /\ UNCHANGED <<index, up, pool, pools, loop, opening, todo, closing,
                     crashes, requests, enabled, shadowed>>
  BY <1>1 DEF Inv, Migrating, Deactivate, Active, history
<1> QED
  BY <1>1, <1>2, DeactivatedRows DEF Inv

LEMMA NextType == Inv /\ [Next]_storeVars => TypeOK'
<1> SUFFICES ASSUME Inv, [Next]_storeVars PROVE TypeOK'
  OBVIOUS
<1>t. TypeOK /\ Phases /\ Pools
  BY DEF Inv
<1>1. CASE Quiet
  <2> USE <1>t DEF TypeOK, dbVars, tryVars, history
  <2>1. CASE UpOrDown
    BY <2>1 DEF UpOrDown
  <2>2. CASE Tick
    BY <2>2 DEF Tick
  <2>3. CASE Connect
    BY <2>3 DEF Connect
  <2>4. CASE Fail
    BY <2>4 DEF Fail, AttemptOver, Phases, Pools
  <2>5. CASE ensureSchema
    BY <2>5 DEF ensureSchema
  <2>6. CASE List
    BY <2>6 DEF List, Active
  <2>7. CASE Publish
    BY <2>7 DEF Publish, AttemptOver
  <2>8. CASE Cancel \/ LoopEnds
    BY <2>8 DEF Cancel, LoopEnds
  <2>9. CASE Close
    <3>1. pool' \in BOOLEAN /\ closing' \in {"no", "cancelled", "closed"}
      BY <2>9 DEF Close
    <3>2. pools' \in Nat
      BY <2>9 DEF Close, Pools
    <3> QED
      BY <2>9, <3>1, <3>2 DEF Close
  <2>10. CASE Restart
    <3>1. pool' \in BOOLEAN
      BY <2>10 DEF Restart
    <3> QED
      BY <2>10, <3>1 DEF Restart
  <2>11. CASE UNCHANGED storeVars
    BY <2>11 DEF storeVars
  <2> QED
    BY <1>1, <2>1, <2>2, <2>3, <2>4, <2>5, <2>6, <2>7, <2>8, <2>9, <2>10, <2>11
       DEF Quiet
<1>2. CASE Request
  <2>1. /\ DOMAIN table' \subseteq Names /\ table' \in [DOMAIN table' -> Rows]
        /\ Change(table')
    BY <1>t, <1>2, RequestRows
  <2>2. enabled' \subseteq Endpoints /\ shadowed' \subseteq enabled'
    BY <1>t, <1>2, RequestHistory
  <2> QED
    BY <1>t, <2>1, <2>2 DEF TypeOK, Change, tryVars
<1>3. ASSUME NEW old \in Names, Rename(old) PROVE TypeOK'
  <2>1. DOMAIN table' \subseteq Names /\ table' \in [DOMAIN table' -> Rows]
    <3>1. ASSUME NEW new \in Endpoints, Moved(old, new)
          PROVE  DOMAIN table' \subseteq Names /\ table' \in [DOMAIN table' -> Rows]
      BY <1>t, <3>1 DEF Moved, Names, TypeOK
    <3>2. CASE table' = table
      BY <1>t, <3>2 DEF TypeOK
    <3> QED
      BY <1>3, <3>1, <3>2, RenameRow
  <2>2. blocked' \subseteq Names /\ todo' \subseteq Names
    BY <1>t, <1>3, RenameRow DEF TypeOK
  <2> QED
    BY <1>t, <1>3, <2>1, <2>2, RenameRow DEF TypeOK
<1>4. CASE Deactivate
  <2>1. DOMAIN table' \subseteq Names /\ table' \in [DOMAIN table' -> Rows]
    BY <1>t, <1>4, DeactivateRow DEF TypeOK
  <2> QED
    BY <1>t, <1>4, <2>1, DeactivateRow DEF TypeOK
<1> QED
  BY <1>1, <1>2, <1>3, <1>4, StepKinds

LEMMA NextPhases == Inv /\ [Next]_storeVars => Phases' /\ Pools'
<1> SUFFICES ASSUME Inv, [Next]_storeVars PROVE Phases' /\ Pools'
  OBVIOUS
<1>t. TypeOK /\ Phases /\ Pools
  BY DEF Inv
<1> USE DEF Phases, Pools
<1>1. CASE Quiet
  <2> USE <1>t DEF TypeOK, dbVars, tryVars, history
  <2>1. CASE UpOrDown
    BY <2>1 DEF UpOrDown
  <2>2. CASE Tick
    BY <2>2 DEF Tick
  <2>3. CASE Connect
    BY <2>3 DEF Connect
  <2>4. CASE Fail
    BY <2>4 DEF Fail, AttemptOver
  <2>5. CASE ensureSchema
    BY <2>5 DEF ensureSchema
  <2>6. CASE List
    BY <2>6 DEF List
  <2>7. CASE Publish
    BY <2>7 DEF Publish, AttemptOver
  <2>8. CASE Cancel \/ LoopEnds
    BY <2>8 DEF Cancel, LoopEnds
  <2>9. CASE Close
    BY <2>9 DEF Close
  <2>10. CASE Restart
    BY <2>10 DEF Restart
  <2>11. CASE UNCHANGED storeVars
    BY <2>11 DEF storeVars
  <2> QED
    BY <1>1, <2>1, <2>2, <2>3, <2>4, <2>5, <2>6, <2>7, <2>8, <2>9, <2>10, <2>11
       DEF Quiet
<1>2. CASE Request
  <2>1. Change(table')
    BY <1>t, <1>2, RequestRows
  <2> QED
    BY <1>t, <2>1 DEF Change, tryVars
<1>3. CASE \E old \in Names : Rename(old)
  BY <1>t, <1>3, RenameRow
<1>4. CASE Deactivate
  BY <1>t, <1>4, DeactivateRow
<1> QED
  BY <1>1, <1>2, <1>3, <1>4, StepKinds

LEMMA NextIndexed == Inv /\ [Next]_storeVars => Indexed'
<1> SUFFICES ASSUME Inv, [Next]_storeVars PROVE Indexed'
  OBVIOUS
<1>t. TypeOK /\ Indexed
  BY DEF Inv
<1>1. CASE Quiet
  <2>1. Indexable(table') <=> Indexable(table)
    BY <1>1, QuietRows DEF Indexable, Active
  <2>2. index' => Indexable(table)
    BY <1>1, <1>t DEF Quiet, Indexed, UpOrDown, Tick, Connect, Fail, ensureSchema, List,
                     Publish, Cancel, LoopEnds, Close, Restart, storeVars, dbVars
  <2>3. opening' \in {"list", "migrate"} => index'
    BY <1>1, <1>t DEF Quiet, Indexed, UpOrDown, Tick, Connect, Fail, AttemptOver,
                     ensureSchema, List, Publish, Cancel, LoopEnds, Close, Restart,
                     storeVars, dbVars, tryVars
  <2> QED
    BY <2>1, <2>2, <2>3 DEF Indexed
<1>2. CASE Request
  <2>1. Change(table')
    BY <1>t, <1>2, RequestRows
  <2> QED
    BY <1>t, <2>1 DEF Change, tryVars, Indexed
<1>3. ASSUME NEW old \in Names, Rename(old) PROVE Indexed'
  <2>1. Indexable(table) => Indexable(table')
    <3>1. ASSUME NEW new \in Endpoints, table[old].endpoint = new, Moved(old, new),
                 table[old].active, old \in DOMAIN table
          PROVE  Indexable(table) => Indexable(table')
      BY <3>1 DEF Moved, Indexable, Active
    <3> QED
      BY <1>3, <3>1, RenameRow
  <2> QED
    BY <1>t, <1>3, <2>1, RenameRow DEF Indexed
<1>4. CASE Deactivate
  <2>1. Indexable(table) => Indexable(table')
    BY <1>4, DeactivateRow DEF Indexable, Active
  <2> QED
    BY <1>t, <1>4, <2>1, DeactivateRow DEF Indexed
<1> QED
  BY <1>1, <1>2, <1>3, <1>4, StepKinds

LEMMA NextNamed == Inv /\ [Next]_storeVars => NamedByEndpoint'
<1> SUFFICES ASSUME Inv, [Next]_storeVars PROVE NamedByEndpoint'
  OBVIOUS
<1>t. TypeOK /\ NamedByEndpoint
  BY DEF Inv
<1>1. CASE Quiet
  BY <1>t, <1>1, QuietRows DEF NamedByEndpoint
<1>2. CASE Request
  <2>1. ASSUME NEW e \in Endpoints, NEW label \in BOOLEAN, SavePMU(e, label)
        PROVE  NamedByEndpoint'
    <3>1. /\ DOMAIN table' = DOMAIN table \cup {e}
          /\ table'[e].endpoint = e
          /\ \A n \in DOMAIN table : n # e => table'[n] = table[n]
      BY <1>t, <2>1, SavedRows
    <3> QED
      BY <1>t, <3>1 DEF NamedByEndpoint
  <2>2. ASSUME NEW e \in Endpoints, UpdateStation(e) PROVE NamedByEndpoint'
    BY <1>t, <2>2, StationRows DEF NamedByEndpoint
  <2>3. ASSUME NEW n \in Names, NEW a \in BOOLEAN, SetPMUActive(n, a)
        PROVE  NamedByEndpoint'
    BY <1>t, <2>3, ActiveRows DEF NamedByEndpoint
  <2> QED
    BY <1>2, <2>1, <2>2, <2>3 DEF Request
<1>3. ASSUME NEW old \in Names, Rename(old) PROVE NamedByEndpoint'
  <2>1. ASSUME NEW new \in Endpoints, table[old].endpoint = new, Moved(old, new)
        PROVE  NamedByEndpoint'
    BY <1>t, <2>1 DEF Moved, NamedByEndpoint
  <2>2. CASE table' = table
    BY <1>t, <2>2 DEF NamedByEndpoint
  <2> QED
    BY <1>3, <2>1, <2>2, RenameRow
<1>4. CASE Deactivate
  BY <1>t, <1>4, DeactivateRow DEF NamedByEndpoint
<1> QED
  BY <1>1, <1>2, <1>3, <1>4, StepKinds

LEMMA NextMigrating == Inv /\ [Next]_storeVars => Migrating'
<1> SUFFICES ASSUME Inv, [Next]_storeVars PROVE Migrating'
  OBVIOUS
<1>t. TypeOK /\ Phases /\ Migrating /\ Indexed
  BY DEF Inv
<1>1. CASE Quiet
  <2> USE <1>t DEF Migrating, dbVars, tryVars
  <2>0. Active(table') = Active(table)
    BY <1>1, QuietRows
  <2>1. CASE List
    BY <2>0, <2>1 DEF List
  <2>2. CASE Publish \/ Fail \/ Restart
    BY <2>0, <2>2 DEF Publish, Fail, AttemptOver, Restart
  <2>3. CASE Tick \/ Connect \/ ensureSchema
    BY <2>0, <2>3 DEF Tick, Connect, ensureSchema
  <2>4. CASE UpOrDown \/ Cancel \/ LoopEnds \/ Close \/ UNCHANGED storeVars
    BY <2>0, <2>4 DEF UpOrDown, Cancel, LoopEnds, Close, storeVars
  <2> QED
    BY <1>1, <2>1, <2>2, <2>3, <2>4 DEF Quiet
<1>2. CASE Request
  <2>1. pool /\ UNCHANGED <<opening, todo, blocked>>
    BY <1>t, <1>2, RequestRows DEF Change, tryVars
  <2>2. opening = "no"
    BY <1>t, <2>1 DEF Phases
  <2> QED
    BY <1>t, <2>1, <2>2 DEF Migrating
<1>3. ASSUME NEW old \in Names, Rename(old) PROVE Migrating'
  <2>1. /\ opening = "migrate" /\ blocked = {} /\ todo' = todo \ {old} /\ opening' = opening
        /\ old \in todo /\ old \in DOMAIN table /\ table[old].active
    BY <1>3, RenameRow DEF Rename
  <2>2. CASE table' = table
    <3>0. ~ \E new \in Endpoints : table[old].endpoint = new /\ Moved(old, new)
      BY <2>1, <2>2 DEF Moved
    <3>1. \/ table[old].endpoint = old /\ blocked' = {}
          \/ /\ table[old].endpoint # old /\ table[old].endpoint \in DOMAIN table
             /\ blocked' = {old}
      BY <1>3, <3>0, RenameRow
    <3>2. Active(table') = Active(table)
      BY <2>2
    <3> QED
      BY <1>t, <2>1, <2>2, <3>1, <3>2 DEF Migrating
  <2>3. ASSUME NEW new \in Endpoints, table[old].endpoint = new, Moved(old, new),
               blocked' = {}
        PROVE  Migrating'
    <3>1. todo' \subseteq Active(table')
      BY <1>t, <2>1, <2>3 DEF Migrating, Moved, Active
    <3>2. \A n \in Active(table') : n = table'[n].endpoint \/ n \in todo'
      BY <1>t, <2>1, <2>3 DEF Migrating, Moved, Active
    <3> QED
      BY <1>t, <2>1, <2>3, <3>1, <3>2 DEF Migrating
  <2> QED
    BY <1>3, <2>2, <2>3, RenameRow
<1>4. CASE Deactivate
  <2>1. todo' \subseteq Active(table')
    BY <1>t, <1>4, DeactivateRow DEF Migrating, Active
  <2>2. \A n \in Active(table') : n = table'[n].endpoint \/ n \in todo'
    BY <1>t, <1>4, DeactivateRow DEF Migrating, Active
  <2> QED
    BY <1>t, <1>4, <2>1, <2>2, DeactivateRow DEF Migrating
<1> QED
  BY <1>1, <1>2, <1>3, <1>4, StepKinds

LEMMA NextUntouched == Inv /\ [Next]_storeVars => Untouched'
<1> SUFFICES ASSUME Inv, [Next]_storeVars PROVE Untouched'
  OBVIOUS
<1>t. TypeOK /\ Migrating /\ Indexed /\ NamedByEndpoint /\ Untouched
  BY DEF Inv
<1>1. CASE Quiet
  BY <1>t, <1>1, QuietRows DEF Untouched
<1>2. CASE Request
  BY <1>t, <1>2, RequestHistory
<1>3. ASSUME NEW old \in Names, Rename(old) PROVE Untouched'
  <2>1. ASSUME NEW new \in Endpoints, table[old].endpoint = new, Moved(old, new),
               table[old].active, old \in DOMAIN table,
               UNCHANGED <<enabled, shadowed>>
        PROVE  Untouched'
    <3>1. /\ DOMAIN table' = (DOMAIN table \ {old}) \cup {new} /\ new \notin DOMAIN table
          /\ table'[new] = table[old] /\ \A n \in DOMAIN table \ {old} : table'[n] = table[n]
      BY <2>1 DEF Moved
    <3>2. Active(table') = (Active(table) \ {old}) \cup {new}
      BY <2>1, <3>1 DEF Active
    <3>3. \A e \in enabled \ shadowed : \E n \in Active(table') : table'[n].endpoint = e
      BY <1>t, <2>1, <3>1, <3>2 DEF Untouched, Active
    <3>4. \A e \in enabled \ shadowed : e \in DOMAIN table' => e \in Active(table')
      BY <1>t, <2>1, <3>1, <3>2 DEF Untouched
    <3>5. \A e \in shadowed : e \in DOMAIN table' \ Active(table')
      BY <1>t, <2>1, <3>1, <3>2 DEF Untouched, Active
    <3>6. \A n \in Active(table') : table'[n].endpoint \in enabled
      BY <1>t, <2>1, <3>1, <3>2 DEF Untouched, Active
    <3> QED
      BY <2>1, <3>3, <3>4, <3>5, <3>6 DEF Untouched
  <2>2. CASE table' = table /\ UNCHANGED <<enabled, shadowed>>
    BY <1>t, <2>2 DEF Untouched
  <2> QED
    BY <1>3, <2>1, <2>2, RenameRow
<1>4. CASE Deactivate
  <2>1. PICK old \in DOMAIN table :
          /\ opening = "migrate" /\ old \in Active(table)
          /\ table[old].endpoint # old /\ table[old].endpoint \in DOMAIN table
          /\ DOMAIN table' = DOMAIN table
          /\ \A n \in DOMAIN table : table'[n].endpoint = table[n].endpoint
          /\ \A n \in DOMAIN table \ {old} : table'[n] = table[n]
          /\ ~ table'[old].active
          /\ UNCHANGED <<enabled, shadowed>>
    BY <1>4, DeactivateRow
  <2>2. table[old].endpoint \notin enabled \ shadowed
    <3>1. table[old].endpoint \in Endpoints
      BY <1>t, RowsHaveEndpoints
    <3> DEFINE new == table[old].endpoint
    <3>2. table[new].endpoint = new
      BY <1>t, <2>1, <3>1 DEF NamedByEndpoint
    <3>3. new \notin Active(table)
      BY <1>t, <2>1, <3>2 DEF Indexed, Indexable
    <3> QED
      BY <1>t, <2>1, <3>3 DEF Untouched
  <2>3. \A e \in enabled : e # old
    BY <1>t, <2>1 DEF NamedByEndpoint, TypeOK
  <2>4. Active(table') = Active(table) \ {old}
    BY <2>1 DEF Active
  <2> QED
    <3>1. \A e \in enabled \ shadowed : \E n \in Active(table') : table'[n].endpoint = e
      BY <1>t, <2>1, <2>2, <2>4 DEF Untouched, Active
    <3>2. \A e \in enabled \ shadowed : e \in DOMAIN table' => e \in Active(table')
      BY <1>t, <2>1, <2>3, <2>4 DEF Untouched
    <3>3. \A e \in shadowed : e \in DOMAIN table' \ Active(table')
      BY <1>t, <2>1, <2>4 DEF Untouched
    <3>4. \A n \in Active(table') : table'[n].endpoint \in enabled
      BY <1>t, <2>1, <2>4 DEF Untouched, Active
    <3> QED
      BY <2>1, <3>1, <3>2, <3>3, <3>4 DEF Untouched
<1> QED
  BY <1>1, <1>2, <1>3, <1>4, StepKinds

LEMMA NextInv == Inv /\ [Next]_storeVars => Inv'
BY NextType, NextPhases, NextIndexed, NextNamed, NextMigrating, NextUntouched DEF Inv

(* The inductive invariant holds of every address book, whichever          *)
(* statement of tryConnect fails or is the last before a crash             *)
(* (store.go:204).                                                         *)
THEOREM AlwaysInv == Spec => []Inv
BY InitInv, NextInv, PTL DEF Spec

(* However often an attempt of tryConnect fails half-way, the program      *)
(* crashes or Close meets the loop, at most one pool is open, the store's  *)
(* own if it has one, and none after Close (store.go:204, 338).            *)
THEOREM NoPoolLeaks == Spec => []PoolsAreClosed
<1>1. Inv => PoolsAreClosed
  BY DEF Inv, Phases, Pools, PoolsAreClosed
<1> QED
  BY <1>1, AlwaysInv, PTL

-----------------------------------------------------------------------------
(* The store opens in Publish alone, which finds nothing left to rename.   *)
LEMMA OpensByPublish ==
  [Next]_storeVars /\ TypeOK /\ ~ pool /\ pool' => Publish
<1> SUFFICES ASSUME [Next]_storeVars, TypeOK, ~ pool, pool' PROVE Publish
  OBVIOUS
<1>1. CASE Request
  BY <1>1, RequestRows DEF Change
<1>2. CASE Deactivate \/ \E old \in Names : Rename(old)
  BY <1>2 DEF Deactivate, Rename
<1>3. CASE Quiet
  BY <1>3 DEF Quiet, UpOrDown, Tick, Connect, Fail, ensureSchema, List, Cancel, LoopEnds,
              Close, Restart, storeVars
<1> QED
  BY <1>1, <1>2, <1>3, StepKinds

LEMMA PublishMigrated == Inv /\ Publish => Migrated'
<1> SUFFICES ASSUME Inv, Publish PROVE Migrated'
  OBVIOUS
<1>1. /\ opening = "migrate" /\ todo = {} /\ blocked = {}
      /\ UNCHANGED <<table, enabled, shadowed>>
  BY DEF Publish, dbVars, history
<1>2. \A n \in Active(table) : n = table[n].endpoint
  BY <1>1 DEF Inv, Migrating
<1>3. enabled \ shadowed \subseteq Active(table)
  BY <1>2 DEF Inv, Untouched
<1>4. Active(table) \subseteq enabled \ shadowed
  BY <1>2 DEF Inv, Untouched
<1> QED
  BY <1>1, <1>2, <1>3, <1>4 DEF Migrated

(* From every table of rows under nicknames and under endpoints, active or  *)
(* not, and whichever attempts were cut short before, by Postgres or by a  *)
(* crash: when the address book opens every active row is named by its     *)
(* endpoint, and the endpoints with one are those that had one after the   *)
(* last request, but for those whose own row stood inactive beside it      *)
(* (migrateEndpointIdentities, store.go:281).                              *)
THEOREM AlwaysOpensMigrated == Spec => OpensMigrated
<1>1. Inv /\ [Next]_storeVars => [~ pool /\ pool' => Migrated']_storeVars
  BY OpensByPublish, PublishMigrated DEF Inv
<1> QED
  BY <1>1, AlwaysInv, PTL DEF Spec, OpensMigrated
=============================================================================
