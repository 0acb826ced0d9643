-------------------------------- MODULE Store --------------------------------
(***************************************************************************)
(* The PMU address book (store/store.go): a connection to Postgres that is *)
(* tried again until Close, and on every attempt the schema and the        *)
(* migration of rows from before PMUs were named by their endpoints.       *)
(*                                                                         *)
(* Every statement commits by itself, Postgres may go away between any two *)
(* of them, and the program may crash.  A row is its name, its endpoint,   *)
(* whether it is active and whether it has the station label of CFG-2; the *)
(* other columns are left out.                                             *)
(***************************************************************************)
EXTENDS Integers

CONSTANTS
  Endpoints,  \* ip:port names
  Nicknames,  \* names of rows from before
  MaxCrashes, MaxRequests  \* bounds

ASSUME NamesAssumption == Endpoints \cap Nicknames = {}

VARIABLES
  table,    \* pmu_config: name -> row
  index,    \* pmu_config_endpoint_uidx exists
  up,       \* Postgres answers, within tryConnect's 10 s
  pool,     \* s.pool is set
  pools,    \* open connection pools
  loop,     \* "starting" in NewStore, "ticking" in reconnectLoop, "ended"
  opening,  \* where tryConnect is, "no" outside of it
  todo,     \* active rows that migrateEndpointIdentities has listed: names
  blocked,  \* the row whose new name is taken, if any
  closing,  \* Close: "no", "cancelled", "closed"
  crashes, requests, \* counted for the bounds
  enabled,  \* history: the endpoints active after the last request
  shadowed  \* history: those whose own row stood inactive beside the active one

dbVars == <<table, index, up>>
tryVars == <<opening, todo, blocked>>
history == <<enabled, shadowed>>
storeVars == <<dbVars, pool, pools, loop, tryVars, closing, crashes, requests, history>>

Names == Endpoints \cup Nicknames

Rows == [endpoint : Endpoints, active : BOOLEAN, labelled : BOOLEAN]

Active(rows) == {name \in DOMAIN rows : rows[name].active}

(* What the unique index says: active rows have different endpoints. *)
Indexable(rows) ==
  \A m, n \in Active(rows) : rows[m].endpoint = rows[n].endpoint => m = n

Enabled(rows) == {rows[n].endpoint : n \in Active(rows)}

Shadowed(rows) == {e \in Enabled(rows) : e \in DOMAIN rows \ Active(rows)}

(* A row that is named by an endpoint has this endpoint. *)
NamedByEndpoint == \A n \in DOMAIN table : n \in Endpoints => table[n].endpoint = n

(* Rows from before and rows that are named by their endpoints, as requests *)
(* and earlier migrations leave them, with the index or without.           *)
Init ==
  /\ \E names \in SUBSET Names : table \in [names -> Rows] /\ NamedByEndpoint
  /\ index \in {i \in BOOLEAN : i => Indexable(table)}
  /\ up \in BOOLEAN
  /\ pool = FALSE /\ pools = 0
  /\ loop = "starting" /\ opening = "connect" /\ todo = {} /\ blocked = {}
  /\ closing = "no" /\ crashes = 0 /\ requests = 0
  /\ enabled = Enabled(table) /\ shadowed = Shadowed(table)

-----------------------------------------------------------------------------
(* Postgres comes and goes. *)
UpOrDown ==
  /\ up' = ~ up
  /\ UNCHANGED <<table, index, pool, pools, loop, tryVars, closing, crashes,
                 requests, history>>

-----------------------------------------------------------------------------
(* tryConnect, in NewStore and then whenever the loop ticks without a pool. *)

Tick ==
  /\ loop = "ticking" /\ opening = "no" /\ ~ pool
  /\ opening' = "connect"
  /\ UNCHANGED <<dbVars, pool, pools, loop, todo, blocked, closing, crashes,
                 requests, history>>

Connect ==
  /\ opening = "connect"
  /\ opening' = "schema" /\ pools' = pools + 1
  /\ UNCHANGED <<dbVars, pool, loop, todo, blocked, closing, crashes, requests,
                 history>>

(* Mutant of AttemptOver: reconnectLoop returns where it should continue. *)
AttemptOverReturns ==
  /\ opening' = "no" /\ todo' = {} /\ blocked' = {}
  /\ loop' = IF loop = "starting" THEN "ticking" ELSE "ended"

(* The attempt is over; NewStore starts the loop after the first one. *)
AttemptOver ==
  /\ opening' = "no" /\ todo' = {} /\ blocked' = {}
  /\ loop' = "ticking"

(* Mutant of Fail: the pool of a failed attempt stays open. *)
FailLeaks ==
  /\ opening \in {"schema", "list", "migrate"}
  /\ ~ up \/ (opening = "schema" /\ ~ Indexable(table))
  /\ AttemptOver
  /\ UNCHANGED <<dbVars, pools, pool, closing, crashes, requests, history>>

(* The ping or a statement fails. *)
Fail ==
  /\ opening \in {"schema", "list", "migrate"}
  /\ ~ up \/ (opening = "schema" /\ ~ Indexable(table))
  /\ AttemptOver
  /\ pools' = pools - 1
  /\ UNCHANGED <<dbVars, pool, closing, crashes, requests, history>>

ensureSchema ==
  /\ opening = "schema" /\ up /\ Indexable(table)
  /\ index' = TRUE
  /\ opening' = "list"
  /\ UNCHANGED <<table, up, pool, pools, loop, todo, blocked, closing, crashes,
                 requests, history>>

(* Mutant of List: what is listed is sorted out by name already. *)
ListNone ==
  /\ opening = "list" /\ up
  /\ todo' = Active(table) \cap Endpoints
  /\ opening' = "migrate"
  /\ UNCHANGED <<dbVars, pool, pools, loop, blocked, closing, crashes, requests, history>>

(* migrateEndpointIdentities: SELECT, then row by row. *)
List ==
  /\ opening = "list" /\ up
  /\ todo' = Active(table)
  /\ opening' = "migrate"
  /\ UNCHANGED <<dbVars, pool, pools, loop, blocked, closing, crashes, requests, history>>

Renamed(rows, old, new) ==
  [n \in (DOMAIN rows \ {old}) \cup {new} |-> IF n = new THEN rows[old] ELSE rows[n]]

Rename(old) ==
  /\ opening = "migrate" /\ blocked = {} /\ old \in todo
  /\ LET new == table[old].endpoint
     IN \/ /\ new = old
           /\ UNCHANGED <<table, blocked>>
        \/ /\ new # old /\ up /\ new \notin DOMAIN table
           /\ table' = Renamed(table, old, new)
           /\ UNCHANGED blocked
        \/ /\ new # old /\ up /\ new \in DOMAIN table
           /\ blocked' = {old}
           /\ UNCHANGED table
  /\ todo' = todo \ {old}
  /\ UNCHANGED <<index, up, pool, pools, loop, opening, closing, crashes,
                 requests, history>>

Deactivate ==
  /\ opening = "migrate" /\ up
  /\ \E old \in blocked : table' = [table EXCEPT ![old].active = FALSE]
  /\ blocked' = {}
  /\ UNCHANGED <<index, up, pool, pools, loop, opening, todo, closing, crashes,
                 requests, history>>

Publish ==
  /\ opening = "migrate" /\ todo = {} /\ blocked = {}
  /\ pool' = TRUE
  /\ AttemptOver
  /\ UNCHANGED <<dbVars, pools, closing, crashes, requests, history>>

-----------------------------------------------------------------------------
(* Requests, once there is a pool.  What a statement may not do, for the    *)
(* index or because Postgres is away, is an error and changes nothing; one *)
(* that commits and reports an error all the same is a request like others. *)

Change(rows) ==
  /\ pool /\ up /\ requests < MaxRequests
  /\ Indexable(rows)
  /\ table' = rows
  /\ requests' = requests + 1
  /\ enabled' = Enabled(rows) /\ shadowed' = Shadowed(rows)
  /\ UNCHANGED <<index, up, pool, pools, loop, tryVars, closing, crashes>>

(* An upsert, with a label or without, which then keeps the one there is. *)
SavePMU(e, label) ==
  Change([n \in DOMAIN table \cup {e} |->
            IF n = e THEN [endpoint |-> e, active |-> TRUE,
                           labelled |-> label \/ (e \in DOMAIN table /\ table[e].labelled)]
            ELSE table[n]])

(* After a handshake. *)
UpdateStation(e) ==
  e \in Active(table) /\ Change([table EXCEPT ![e].labelled = TRUE])

(* By any name a row has, a nickname that some client still uses too. *)
SetPMUActive(name, active) ==
  name \in DOMAIN table /\ Change([table EXCEPT ![name].active = active])

-----------------------------------------------------------------------------
(* Close, and crashes. *)

Cancel ==
  /\ closing = "no" /\ loop # "starting"
  /\ closing' = "cancelled"
  /\ UNCHANGED <<dbVars, pool, pools, loop, tryVars, crashes, requests, history>>

LoopEnds ==
  /\ closing = "cancelled" /\ loop = "ticking" /\ opening = "no"
  /\ loop' = "ended"
  /\ UNCHANGED <<dbVars, pool, pools, tryVars, closing, crashes, requests, history>>

Close ==
  /\ closing = "cancelled" /\ loop = "ended"
  /\ closing' = "closed" /\ pool' = FALSE
  /\ pools' = IF pool THEN pools - 1 ELSE pools
  /\ UNCHANGED <<dbVars, loop, tryVars, crashes, requests, history>>

(* The program ends, anywhere, and is started again. *)
Restart ==
  /\ crashes < MaxCrashes
  /\ crashes' = crashes + 1
  /\ pool' = FALSE /\ pools' = 0
  /\ loop' = "starting" /\ opening' = "connect" /\ todo' = {} /\ blocked' = {}
  /\ closing' = "no"
  /\ UNCHANGED <<dbVars, requests, history>>

-----------------------------------------------------------------------------
Try == Connect \/ Fail \/ ensureSchema \/ List \/ Deactivate \/ Publish
         \/ \E old \in Names : Rename(old)

Next ==
  \/ UpOrDown \/ Tick \/ Try \/ Cancel \/ LoopEnds \/ Close \/ Restart
  \/ \E e \in Endpoints, label \in BOOLEAN : SavePMU(e, label)
  \/ \E e \in Endpoints : UpdateStation(e)
  \/ \E n \in Names, a \in BOOLEAN : SetPMUActive(n, a)

(* The ticker ticks and an attempt takes its steps. *)
Spec == Init /\ [][Next]_storeVars /\ WF_storeVars(Tick) /\ WF_storeVars(Try)

-----------------------------------------------------------------------------
(* "Rewrites legacy nickname PKs to endpoint identities" (store.go:281):    *)
(* whichever attempts failed or crashed half-way since the last request,   *)
(* when the address book opens every active row is named by its endpoint,  *)
(* none is active that was not, and none is lost but where an inactive row  *)
(* of the endpoint's own name stood beside the active one.                 *)
Migrated ==
  /\ \A n \in Active(table) : n = table[n].endpoint
  /\ Active(table) = enabled \ shadowed

OpensMigrated == [][~ pool /\ pool' => Migrated']_storeVars

(* Stronger: what is active stays active, under its endpoint's name.  It    *)
(* does not where an inactive row has this name already: of the two the one *)
(* that is active is set inactive (store.go:327), and none is left.  No run *)
(* checks this one, see the README.                                        *)
NoneSetAside == [][~ pool /\ pool' => enabled \subseteq Active(table')]_storeVars

(* However often an attempt fails, at most one pool is open, the store's    *)
(* own if it has one, and none after Close (store.go:204, 338).            *)
PoolsAreClosed ==
  /\ pools = (IF pool \/ opening \notin {"no", "connect"} THEN 1 ELSE 0)
  /\ closing = "closed" => pools = 0

(* "A background loop retries until Close" (store.go:167): once Postgres    *)
(* stays up and nothing forbids the index, the store becomes ready.        *)
ComesBack ==
  <>[](up /\ Indexable(table)) => []<>(pool \/ closing # "no")

(* "Kept in the address book for reconnect" (config/config.go:32): a PMU is *)
(* found under the name the list shows it by, its endpoint.  The migration *)
(* leaves rows alone that are not active.                                  *)
ShownIsFound == pool => \A n \in DOMAIN table : table[n].endpoint \in DOMAIN table
=============================================================================
