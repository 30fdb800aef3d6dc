------------------------- MODULE InventoryActivation -------------------------
(***************************************************************************)
(* Materialization and activation of inventory bundles:                    *)
(* ml/src/retail_ml/inventory_publish/postgres.py over the tables and the  *)
(* view of db/migrations/versions/0010.  The forecast authority moves on   *)
(* its own, as ForecastAuthority promises it does; the inventory           *)
(* transactions run at READ COMMITTED, so each statement may see a         *)
(* different forecast version serving.                                     *)
(***************************************************************************)
EXTENDS Naturals, FiniteSets

CONSTANTS
    Versions,        \* forecast versions
    Bundles,         \* inventory runs
    ForecastOf,      \* the forecast version a bundle consumed
    Actors,          \* operators, each with a connection of its own
    NoBundle,        \* no bundle
    MaxCalls,        \* bound: operator calls in a behaviour
    MaxSwitches      \* bound: moves of the forecast authority in a behaviour

ASSUME ForecastOfAssumption == ForecastOf \in [Bundles -> Versions]
ASSUME NoBundleAssumption == NoBundle \notin Bundles
ASSUME BoundsAssumption == MaxCalls \in Nat /\ MaxSwitches \in Nat

VARIABLES
    materialized,  \* forecast versions with an accepted materialization
    serving,       \* forecast versions the active view returns
    switches,      \* moves of the forecast authority so far
    loaded,        \* bundles with committed materialization, version and rows
    log,           \* committed rows of inventory_activation_events
    pointer,       \* committed active_inventory_state.active_event_id, 0: no row
    nextId,        \* the next value of the event_id identity column
    pc,            \* operator -> the statement it executes next
    bundle,        \* operator -> the inventory_run_id of its call
    current,       \* operator -> the event (if any) the pointer led to
    prior,         \* operator -> prior_event_id, 0 for NULL
    pending,       \* operator -> its uncommitted events
    receipt,       \* operator -> what its last call returned or raised
    calls          \* calls started so far

forecastVars == <<materialized, serving, switches>>
sessionVars == <<pc, bundle, current, prior, pending, receipt>>
vars == <<forecastVars, loaded, log, pointer, nextId, sessionVars, calls>>

Forecast == INSTANCE ForecastAuthority WITH Deployable <- Versions

Event == [id : Nat \ {0}, run : Bundles, type : {"active", "superseded"},
          prior : Nat]

Loading == {"load_lock", "load_existing", "load_forecast", "load_commit"}
Activating == {"lock", "find", "current", "supersede", "insert", "assert",
               "commit"}

----------------------------------------------------------------------------

\* active_inventory_versions: the joins hold, or the view is empty.
ActiveInventoryVersions(L, p) ==
    {e.run : e \in {f \in L : /\ f.id = p
                              /\ f.type = "active"
                              /\ ForecastOf[f.run] \in serving}}

\* Seeded fault in SameLock: the surface lock is not shared between operators.
MutNoSurfaceLock(a, b) == FALSE

\* One advisory lock per run id for materialization, one lock for the whole
\* surface for activation.
SameLock(a, b) ==
    \/ pc[a] \in Activating /\ pc[b] \in Activating
    \/ pc[a] \in Loading /\ pc[b] \in Loading /\ bundle[a] = bundle[b]

InTransaction(a) == pc[a] \notin {"idle", "lock", "load_lock"}

LockFree(a) == \A b \in Actors : InTransaction(b) => ~ SameLock(a, b)

----------------------------------------------------------------------------
Init ==
    /\ Forecast!Init
    /\ switches = 0
    /\ loaded = {}
    /\ log = {}
    /\ pointer = 0
    /\ nextId = 1
    /\ pc = [a \in Actors |-> "idle"]
    /\ bundle = [a \in Actors |-> NoBundle]
    /\ current = [a \in Actors |-> {}]
    /\ prior = [a \in Actors |-> 0]
    /\ pending = [a \in Actors |-> {}]
    /\ receipt = [a \in Actors |-> "none"]
    /\ calls = 0

Goto(a, from, to) == pc[a] = from /\ pc' = [pc EXCEPT ![a] = to]

EndTransaction(a, result) ==
    /\ pc' = [pc EXCEPT ![a] = "idle"]
    /\ bundle' = [bundle EXCEPT ![a] = NoBundle]
    /\ current' = [current EXCEPT ![a] = {}]
    /\ prior' = [prior EXCEPT ![a] = 0]
    /\ pending' = [pending EXCEPT ![a] = {}]
    /\ receipt' = [receipt EXCEPT ![a] = result]
    /\ UNCHANGED <<forecastVars, nextId, calls>>

Rollback(a) == EndTransaction(a, "failed") /\ UNCHANGED <<loaded, log, pointer>>

Insert(a, rows) ==
    /\ pending' = [pending EXCEPT ![a] = @ \cup rows]
    /\ nextId' = nextId + 1

\* The forecast side: a run is materialized, or a version becomes the authority.
MaterializeForecast(v) ==
    /\ Forecast!Materialize(v)
    /\ UNCHANGED <<switches, loaded, log, pointer, nextId, sessionVars, calls>>

SwitchForecast(v) ==
    /\ switches < MaxSwitches
    /\ v \notin serving
    /\ Forecast!Activate(v)
    /\ switches' = switches + 1
    /\ UNCHANGED <<loaded, log, pointer, nextId, sessionVars, calls>>

\* A call of materialize_inventory_run or activate_inventory_version: the
\* schema check passes and the operator asks for its lock.
Begin(a, b, first) ==
    /\ calls < MaxCalls
    /\ Goto(a, "idle", first)
    /\ bundle' = [bundle EXCEPT ![a] = b]
    /\ receipt' = [receipt EXCEPT ![a] = "none"]
    /\ calls' = calls + 1
    /\ UNCHANGED <<forecastVars, loaded, log, pointer, nextId, current, prior,
                   pending>>

AcquireLock(a) ==
    /\ Goto(a, "lock", "find") \/ Goto(a, "load_lock", "load_existing")
    /\ LockFree(a)
    /\ UNCHANGED <<forecastVars, loaded, log, pointer, nextId, bundle, current,
                   prior, pending, receipt, calls>>

----------------------------------------------------------------------------
(* materialize_inventory_run                                               *)

\* An identical materialization exists: the call returns it.
ReturnExisting(a) ==
    /\ pc[a] = "load_existing"
    /\ bundle[a] \in loaded
    /\ EndTransaction(a, "already_materialized")
    /\ UNCHANGED <<loaded, log, pointer>>

FindNoExisting(a) ==
    /\ Goto(a, "load_existing", "load_forecast")
    /\ bundle[a] \notin loaded
    /\ UNCHANGED <<forecastVars, loaded, log, pointer, nextId, bundle, current,
                   prior, pending, receipt, calls>>

ForecastIsActive(b) == ForecastOf[b] \in serving

\* The consumed forecast is the active authority: rows are loaded.
LoadRows(a) ==
    /\ Goto(a, "load_forecast", "load_commit")
    /\ ForecastIsActive(bundle[a])
    /\ UNCHANGED <<forecastVars, loaded, log, pointer, nextId, bundle, current,
                   prior, pending, receipt, calls>>

\* Seeded fault in RefuseStaleForecast: the call waits for its forecast.
MutPollForecast(a) ==
    /\ pc[a] = "load_forecast"
    /\ ~ ForecastIsActive(bundle[a])
    /\ UNCHANGED vars

RefuseStaleForecast(a) ==
    /\ pc[a] = "load_forecast"
    /\ ~ ForecastIsActive(bundle[a])
    /\ Rollback(a)

\* The reply to the COMMIT may be lost, and the operator then sees an error.
CommitLoad(a) ==
    /\ pc[a] = "load_commit"
    /\ loaded' = loaded \cup {bundle[a]}
    /\ \E result \in {"materialized", "failed"} : EndTransaction(a, result)
    /\ UNCHANGED <<log, pointer>>

----------------------------------------------------------------------------
(* activate_inventory_version                                              *)

\* Seeded fault in FindVersion: the materialization is not looked up.
MutNoLookup(a) ==
    /\ Goto(a, "find", "current")
    /\ UNCHANGED <<forecastVars, loaded, log, pointer, nextId, bundle, current,
                   prior, pending, receipt, calls>>

FindVersion(a) ==
    /\ Goto(a, "find", "current")
    /\ bundle[a] \in loaded
    /\ UNCHANGED <<forecastVars, loaded, log, pointer, nextId, bundle, current,
                   prior, pending, receipt, calls>>

RefuseUnmaterialized(a) ==
    /\ pc[a] = "find"
    /\ bundle[a] \notin loaded
    /\ Rollback(a)

PointedTo == {e \in log : e.id = pointer}

\* The pointer already names this version: the call returns before it looks at
\* the active view.
ReturnAlreadyActive(a) ==
    /\ pc[a] = "current"
    /\ \E e \in PointedTo : e.run = bundle[a]
    /\ EndTransaction(a, "already_active")
    /\ UNCHANGED <<loaded, log, pointer>>

ReadCurrent(a) ==
    /\ Goto(a, "current", "supersede")
    /\ \A e \in PointedTo : e.run # bundle[a]
    /\ current' = [current EXCEPT ![a] = PointedTo]
    /\ UNCHANGED <<forecastVars, loaded, log, pointer, nextId, bundle, prior,
                   pending, receipt, calls>>

\* Seeded fault in Supersession: the predecessor stays unretired.
MutNoSupersession(a) == {}

Supersession(a) ==
    {[id |-> nextId, run |-> e.run, type |-> "superseded", prior |-> e.id]
       : e \in current[a]}

SupersedeCurrent(a) ==
    /\ Goto(a, "supersede", "insert")
    /\ current[a] # {}
    /\ Insert(a, Supersession(a))
    /\ prior' = [prior EXCEPT ![a] = nextId]
    /\ UNCHANGED <<forecastVars, loaded, log, pointer, bundle, current, receipt,
                   calls>>

FirstActivation(a) ==
    /\ Goto(a, "supersede", "insert")
    /\ current[a] = {}
    /\ UNCHANGED <<forecastVars, loaded, log, pointer, nextId, bundle, current,
                   prior, pending, receipt, calls>>

\* The activation row and the upsert of the singleton pointer that names it.
InsertActivation(a) ==
    /\ Goto(a, "insert", "assert")
    /\ Insert(a, {[id |-> nextId, run |-> bundle[a], type |-> "active",
                   prior |-> prior[a]]})
    /\ UNCHANGED <<forecastVars, loaded, log, pointer, bundle, current, prior,
                   receipt, calls>>

\* The pointer as this transaction has set it.
OwnPointer(a) ==
    CHOOSE i \in {e.id : e \in {f \in pending[a] : f.type = "active"}} : TRUE

BundleServes(a) ==
    ActiveInventoryVersions(log \cup pending[a], OwnPointer(a)) # {}

AssertOneActive(a) ==
    /\ Goto(a, "assert", "commit")
    /\ BundleServes(a)
    /\ UNCHANGED <<forecastVars, loaded, log, pointer, nextId, bundle, current,
                   prior, pending, receipt, calls>>

RefuseUnservable(a) ==
    /\ pc[a] = "assert"
    /\ ~ BundleServes(a)
    /\ Rollback(a)

Commit(a) ==
    /\ pc[a] = "commit"
    /\ log' = log \cup pending[a]
    /\ pointer' = OwnPointer(a)
    /\ \E result \in {"activated", "failed"} : EndTransaction(a, result)
    /\ UNCHANGED loaded

\* The process dies or a statement raises: the transaction is rolled back.
Crash(a) == pc[a] # "idle" /\ Rollback(a)

----------------------------------------------------------------------------
Work(a) ==
    \/ ReturnExisting(a) \/ FindNoExisting(a)
    \/ LoadRows(a) \/ RefuseStaleForecast(a) \/ CommitLoad(a)
    \/ FindVersion(a) \/ RefuseUnmaterialized(a)
    \/ ReturnAlreadyActive(a) \/ ReadCurrent(a)
    \/ SupersedeCurrent(a) \/ FirstActivation(a) \/ InsertActivation(a)
    \/ AssertOneActive(a) \/ RefuseUnservable(a) \/ Commit(a)

Next ==
    \/ \E v \in Versions : MaterializeForecast(v) \/ SwitchForecast(v)
    \/ \E a \in Actors :
         \/ \E b \in Bundles, first \in {"lock", "load_lock"} : Begin(a, b, first)
         \/ AcquireLock(a)
         \/ Work(a)
         \/ Crash(a)

Spec == Init /\ [][Next]_vars

\* PostgreSQL executes what it was sent, and grants an advisory lock to a
\* waiter that keeps finding it free.
Fairness == \A a \in Actors : WF_vars(Work(a)) /\ SF_vars(AcquireLock(a))

FairSpec == Spec /\ Fairness

----------------------------------------------------------------------------
\* The activation history is one sequence of decisions ending at the pointer:
\* every event names the one just before it, a superseded event ends the
\* activation it names, and only the activation the pointer names is not ended.
HistoryIsOneSequence ==
    /\ \A e \in log :
         LET earlier == {f.id : f \in {g \in log : g.id < e.id}}
         IN  /\ earlier = {} => e.prior = 0 /\ e.type = "active"
             /\ earlier # {} => e.prior \in earlier /\ \A i \in earlier : i <= e.prior
             /\ e.type = "superseded" =>
                  \E f \in log : f.id = e.prior /\ f.type = "active" /\ f.run = e.run
    /\ \A e \in log :
         e.type = "active" /\ e.id # pointer
           => \E f \in log : f.type = "superseded" /\ f.prior = e.id
    /\ log # {} => \E e \in log : /\ e.id = pointer
                                  /\ e.type = "active"
                                  /\ \A f \in log : f.id <= pointer

\* A repeated call, also one retried after a lost COMMIT reply, changes nothing:
\* a step that moves the pointer moves it to another bundle.
RetryMovesNothing ==
    [][pointer' # pointer
         => {e.run : e \in PointedTo} \cap {e.run : e \in PointedTo'} = {}]_vars

\* Every call ends.
CallsEnd == \A a \in Actors : pc[a] # "idle" ~> pc[a] = "idle"

Authority == INSTANCE BundleAuthority
    WITH chosen <- IF PointedTo = {} THEN NoBundle
                   ELSE (CHOOSE e \in PointedTo : TRUE).run

\* Loads and activations implement one atomic move of the chosen bundle.
ImplementsAuthority == Authority!Spec
=============================================================================
