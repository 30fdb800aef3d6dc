------------------------- MODULE ForecastActivation -------------------------
(***************************************************************************)
(* The append-only activation log of the forecast serving schema and the   *)
(* transaction that writes it: activate_forecast_version in                *)
(* ml/src/retail_ml/serving/postgres.py, over the tables and the view of   *)
(* db/migrations/versions/0001 and 0007.                                   *)
(*                                                                         *)
(* Each operator runs one READ COMMITTED transaction at a time, one action *)
(* per SQL statement: a statement sees the committed events and the        *)
(* operator's own uncommitted ones.  Identity values are drawn when a row  *)
(* is inserted, not when it commits, and a rolled back transaction burns   *)
(* them.                                                                   *)
(***************************************************************************)
EXTENDS Naturals, FiniteSets

CONSTANTS
    Scopes,          \* activation scope fingerprints
    Runs,            \* forecast run ids
    Actors,          \* operators, each with a connection of its own
    ScopeOf,         \* the scope a run was materialized under
    LegacyRuns,      \* runs materialized under an older verification contract
    RetireModes,     \* the values of retire_other_scopes operators pass
    TableLock,       \* the lock name "retail_serving.forecast_activation_events"
    NoRequest,       \* an operator with no call in progress
    MaxActivations   \* bound: calls of activate_forecast_version in a behaviour

ASSUME ScopeAssumption == ScopeOf \in [Runs -> Scopes]
ASSUME LegacyAssumption == LegacyRuns \subseteq Runs
ASSUME ModeAssumption == RetireModes \subseteq BOOLEAN
ASSUME LockAssumption == TableLock \notin Scopes
ASSUME RequestAssumption == NoRequest \notin [run : Runs, retire : BOOLEAN]
ASSUME BoundAssumption == MaxActivations \in Nat

VARIABLES
    accepted,   \* runs with an accepted row in forecast_materializations
    log,        \* committed rows of forecast_activation_events
    nextId,     \* the next value of the event_id identity column
    pc,         \* operator -> the statement it executes next
    req,        \* operator -> the arguments of its call
    current,    \* operator -> the row (if any) its "latest event" query returned
    prior,      \* operator -> prior_event_id, 0 for NULL
    others,     \* operator -> rows of other scopes still to be superseded
    pending,    \* operator -> its uncommitted rows
    receipt,    \* operator -> what its last call returned or raised
    attempts    \* calls started so far

vars == <<accepted, log, nextId, pc, req, current, prior, others, pending,
          receipt, attempts>>

Requests == [run : Runs, retire : RetireModes]

Event == [id : Nat \ {0}, scope : Scopes, run : Runs,
          type : {"active", "superseded"}, prior : Nat]

----------------------------------------------------------------------------
(* What a statement sees, and the view it may query.                       *)

Visible(a) == log \cup pending[a]

LatestOf(L, s) ==
    {e \in L : e.scope = s /\ \A f \in L : f.scope = s => f.id <= e.id}

ActiveForecastVersions(L) ==
    {e \in L : /\ e.type = "active"
               /\ e.run \notin LegacyRuns
               /\ \A f \in L : f.scope = e.scope => f.id <= e.id}

ActiveElsewhere(L, s) ==
    {e \in L : /\ e.scope # s
               /\ e.type = "active"
               /\ \A f \in L : f.scope = e.scope => f.id <= e.id}

\* Seeded fault in LockKey: every activation locks its own scope only.
MutScopeLock(a) == ScopeOf[req[a].run]

LockKey(a) == IF req[a].retire THEN TableLock ELSE ScopeOf[req[a].run]

\* A transaction-scoped advisory lock is held from the statement that
\* acquires it until the transaction ends.
InTransaction(a) == pc[a] \notin {"idle", "lock"}

LockFree(a) == \A b \in Actors : InTransaction(b) => LockKey(b) # LockKey(a)

NewEvent(s, r, t, p) ==
    [id |-> nextId, scope |-> s, run |-> r, type |-> t, prior |-> p]

----------------------------------------------------------------------------
Init ==
    /\ accepted = LegacyRuns
    /\ log = {}
    /\ nextId = 1
    /\ pc = [a \in Actors |-> "idle"]
    /\ req = [a \in Actors |-> NoRequest]
    /\ current = [a \in Actors |-> {}]
    /\ prior = [a \in Actors |-> 0]
    /\ others = [a \in Actors |-> {}]
    /\ pending = [a \in Actors |-> {}]
    /\ receipt = [a \in Actors |-> "none"]
    /\ attempts = 0

Goto(a, from, to) == pc[a] = from /\ pc' = [pc EXCEPT ![a] = to]

\* The transaction is over: its locks and its local state are gone.
EndTransaction(a, result) ==
    /\ pc' = [pc EXCEPT ![a] = "idle"]
    /\ req' = [req EXCEPT ![a] = NoRequest]
    /\ current' = [current EXCEPT ![a] = {}]
    /\ prior' = [prior EXCEPT ![a] = 0]
    /\ others' = [others EXCEPT ![a] = {}]
    /\ pending' = [pending EXCEPT ![a] = {}]
    /\ receipt' = [receipt EXCEPT ![a] = result]
    /\ UNCHANGED <<accepted, attempts>>

\* Seeded fault in Rollback: the connection is in autocommit mode, so what was
\* executed before the failure stays.
MutKeepPartial(a) ==
    /\ EndTransaction(a, "failed")
    /\ log' = Visible(a)
    /\ UNCHANGED nextId

Rollback(a) ==
    /\ EndTransaction(a, "failed")
    /\ UNCHANGED <<log, nextId>>

Insert(a, e) ==
    /\ pending' = [pending EXCEPT ![a] = @ \cup {e}]
    /\ nextId' = nextId + 1

\* materialize_forecast_run: one transaction of its own, under a lock on the
\* run id; it makes an accepted row of the current verification contract.
MaterializeForecastRun(r) ==
    /\ r \notin accepted
    /\ accepted' = accepted \cup {r}
    /\ UNCHANGED <<log, nextId, pc, req, current, prior, others, pending,
                   receipt, attempts>>

\* The call: the schema check passes and the operator asks for the lock.
Begin(a, r, retire) ==
    /\ attempts < MaxActivations
    /\ Goto(a, "idle", "lock")
    /\ req' = [req EXCEPT ![a] = [run |-> r, retire |-> retire]]
    /\ receipt' = [receipt EXCEPT ![a] = "none"]
    /\ attempts' = attempts + 1
    /\ UNCHANGED <<accepted, log, nextId, current, prior, others, pending>>

AcquireLock(a) ==
    /\ Goto(a, "lock", "materialization")
    /\ LockFree(a)
    /\ UNCHANGED <<accepted, log, nextId, req, current, prior, others, pending,
                   receipt, attempts>>

FindMaterialization(a) ==
    /\ Goto(a, "materialization", "current")
    /\ req[a].run \in accepted
    /\ UNCHANGED <<accepted, log, nextId, req, current, prior, others, pending,
                   receipt, attempts>>

\* Seeded fault in RefuseUnmaterialized: the call polls for the
\* materialization.
MutPollMaterialization(a) ==
    /\ pc[a] = "materialization"
    /\ req[a].run \notin accepted
    /\ UNCHANGED vars

RefuseUnmaterialized(a) ==
    /\ pc[a] = "materialization"
    /\ req[a].run \notin accepted
    /\ Rollback(a)

IsActiveRow(a, e) == e.run = req[a].run /\ e.type = "active"

\* The requested version already is the latest activation of its scope: the
\* call returns before it looks at any other scope.
ReturnAlreadyActive(a) ==
    /\ pc[a] = "current"
    /\ \E e \in LatestOf(Visible(a), ScopeOf[req[a].run]) : IsActiveRow(a, e)
    /\ EndTransaction(a, "already_active")
    /\ UNCHANGED <<log, nextId>>

\* Seeded fault in ReadCurrent: the early return is gone, an active version is
\* superseded and activated again.
MutNoEarlyReturn(a) ==
    /\ Goto(a, "current", "supersede")
    /\ current' = [current EXCEPT ![a] = LatestOf(Visible(a), ScopeOf[req[a].run])]
    /\ UNCHANGED <<accepted, log, nextId, req, prior, others, pending, receipt,
                   attempts>>

ReadCurrent(a) ==
    /\ Goto(a, "current", "supersede")
    /\ LET latest == LatestOf(Visible(a), ScopeOf[req[a].run])
       IN  /\ \A e \in latest : ~ IsActiveRow(a, e)
           /\ current' = [current EXCEPT ![a] = latest]
    /\ UNCHANGED <<accepted, log, nextId, req, prior, others, pending, receipt,
                   attempts>>

\* Seeded fault in PriorOf: the activation is chained to the row that was read even
\* when a superseded row was inserted after it.
MutPriorOf(a) ==
    IF current[a] = {} THEN 0 ELSE (CHOOSE e \in current[a] : TRUE).id - 1

\* prior_event_id as it stands after the "latest event" query.
PriorOf(a) == IF current[a] = {} THEN 0 ELSE (CHOOSE e \in current[a] : TRUE).id

NextStatement(a) == IF req[a].retire THEN "others" ELSE "insert"

SupersedeCurrent(a) ==
    /\ Goto(a, "supersede", NextStatement(a))
    /\ \E e \in current[a] :
         /\ e.type = "active"
         /\ Insert(a, NewEvent(e.scope, e.run, "superseded", PriorOf(a)))
    /\ prior' = [prior EXCEPT ![a] = nextId]
    /\ UNCHANGED <<accepted, log, req, current, others, receipt, attempts>>

KeepCurrent(a) ==
    /\ Goto(a, "supersede", NextStatement(a))
    /\ \A e \in current[a] : e.type # "active"
    /\ prior' = [prior EXCEPT ![a] = PriorOf(a)]
    /\ UNCHANGED <<accepted, log, nextId, req, current, others, pending,
                   receipt, attempts>>

FindOtherScopes(a) ==
    /\ Goto(a, "others", "retire")
    /\ others' = [others EXCEPT
                    ![a] = ActiveElsewhere(Visible(a), ScopeOf[req[a].run])]
    /\ UNCHANGED <<accepted, log, nextId, req, current, prior, pending,
                   receipt, attempts>>

RetireOtherScope(a, e) ==
    /\ pc[a] = "retire"
    /\ e \in others[a]
    /\ Insert(a, NewEvent(e.scope, e.run, "superseded", e.id))
    /\ others' = [others EXCEPT ![a] = @ \ {e}]
    /\ UNCHANGED <<accepted, log, pc, req, current, prior, receipt, attempts>>

FinishRetiring(a) ==
    /\ others[a] = {}
    /\ Goto(a, "retire", "insert")
    /\ UNCHANGED <<accepted, log, nextId, req, current, prior, others, pending,
                   receipt, attempts>>

InsertActivation(a) ==
    /\ Goto(a, "insert", "assert")
    /\ Insert(a, NewEvent(ScopeOf[req[a].run], req[a].run, "active", prior[a]))
    /\ UNCHANGED <<accepted, log, req, current, prior, others, receipt,
                   attempts>>

\* Seeded fault in ExactlyOneActive: the decision #90 assertion is dropped.
MutNoAssertion(L) == TRUE

\* SELECT count(*) FROM active_forecast_versions = 1
ExactlyOneActive(L) ==
    \E e \in ActiveForecastVersions(L) : ActiveForecastVersions(L) = {e}

AssertSingleAuthority(a) ==
    /\ Goto(a, "assert", "commit")
    /\ ExactlyOneActive(Visible(a))
    /\ UNCHANGED <<accepted, log, nextId, req, current, prior, others, pending,
                   receipt, attempts>>

RefuseCompetingAuthority(a) ==
    /\ pc[a] = "assert"
    /\ ~ ExactlyOneActive(Visible(a))
    /\ Rollback(a)

\* The COMMIT is applied; the operator may lose the connection before it
\* hears so, and then sees an error.
Commit(a) ==
    /\ pc[a] = "commit"
    /\ log' = Visible(a)
    /\ \E result \in {"activated", "failed"} : EndTransaction(a, result)
    /\ UNCHANGED nextId

\* The process dies, or a statement raises psycopg.Error: the server rolls
\* the transaction back.
Crash(a) == pc[a] # "idle" /\ Rollback(a)

----------------------------------------------------------------------------
Work(a) ==
    \/ FindMaterialization(a)
    \/ RefuseUnmaterialized(a)
    \/ ReturnAlreadyActive(a)
    \/ ReadCurrent(a)
    \/ SupersedeCurrent(a)
    \/ KeepCurrent(a)
    \/ FindOtherScopes(a)
    \/ \E e \in others[a] : RetireOtherScope(a, e)
    \/ FinishRetiring(a)
    \/ InsertActivation(a)
    \/ AssertSingleAuthority(a)
    \/ RefuseCompetingAuthority(a)
    \/ Commit(a)

Next ==
    \/ \E r \in Runs : MaterializeForecastRun(r)
    \/ \E a \in Actors :
         \/ \E r \in Runs, retire \in RetireModes : Begin(a, r, retire)
         \/ AcquireLock(a)
         \/ Work(a)
         \/ Crash(a)

Spec == Init /\ [][Next]_vars

\* PostgreSQL keeps executing the statements it was sent, and grants an
\* advisory lock to a waiter that keeps finding it free.
Fairness == \A a \in Actors : WF_vars(Work(a)) /\ SF_vars(AcquireLock(a))

FairSpec == Spec /\ Fairness

----------------------------------------------------------------------------
TypeOK ==
    /\ accepted \subseteq Runs
    /\ log \subseteq Event
    /\ nextId \in Nat \ {0}
    /\ pc \in [Actors -> {"idle", "lock", "materialization", "current",
                          "supersede", "others", "retire", "insert", "assert",
                          "commit"}]
    /\ req \in [Actors -> Requests \cup {NoRequest}]
    /\ \A a \in Actors : pc[a] # "idle" => req[a] \in Requests
    /\ current \in [Actors -> SUBSET Event]
    /\ prior \in [Actors -> Nat]
    /\ others \in [Actors -> SUBSET Event]
    /\ pending \in [Actors -> SUBSET Event]
    /\ receipt \in [Actors -> {"none", "activated", "already_active", "failed"}]
    /\ attempts \in 0 .. MaxActivations

\* Decision #90: the committed log never names two serving forecast versions
\* (the closing assertion of activate_forecast_version is about the rows one
\* transaction sees; this is about what every reader sees).
SingleAuthority == \A e, f \in ActiveForecastVersions(log) : e = f

\* The audit trail of a scope is one chain: every event names the event just
\* before it in its scope, and a superseded event names the activation of the
\* same run that it ends.
LinearHistory ==
    \A e \in log :
      LET earlier == {f \in log : f.scope = e.scope /\ f.id < e.id}
      IN  /\ earlier = {} => e.prior = 0 /\ e.type = "active"
          /\ earlier # {} => \E f \in LatestOf(earlier, e.scope) : e.prior = f.id
          /\ e.type = "superseded" =>
               \E f \in earlier : f.id = e.prior /\ f.type = "active"
                                                 /\ f.run = e.run

\* "serving never passes through a window with zero active versions": once a
\* forecast version is served, no step leaves none served.
NoServingGap ==
    [][ActiveForecastVersions(log) # {} => ActiveForecastVersions(log') # {}]_vars

Returns(a) == pc[a] # "idle" /\ pc'[a] = "idle" /\ receipt'[a] # "failed"

\* A call that returns a ForecastActivation leaves its version the only
\* serving one, whichever of the two ways it returned.
ReturnedVersionServes ==
    [][\A a \in Actors :
         Returns(a) => {e.run : e \in ActiveForecastVersions(log')}
                         = {req[a].run}]_vars

\* retire_other_scopes "supersedes every OTHER currently-active scope inside
\* the same transaction": a call that asked for it and returned leaves no
\* other scope active.
RetireLeavesNoOtherScope ==
    [][\A a \in Actors :
         Returns(a) /\ req[a].retire
           => ActiveElsewhere(log', ScopeOf[req[a].run]) = {}]_vars

\* A repeated activation, also one retried after a lost COMMIT reply, records
\* nothing: a step that appends to the log starts from a log in which the
\* requested version is not the latest activation of its scope.
RetryAppendsNothing ==
    [][\A a \in Actors :
         pc[a] = "commit" /\ log' # log /\ pc'[a] = "idle"
           => \A e \in LatestOf(log, ScopeOf[req[a].run]) : ~ IsActiveRow(a, e)]_vars

\* Every call ends: operators waiting on each other's advisory locks are
\* served in turn.
CallsEnd == \A a \in Actors : pc[a] # "idle" ~> pc[a] = "idle"

\* The promise readers rely on: one atomic change of the serving version.
Authority == INSTANCE ForecastAuthority
    WITH Versions <- Runs,
         Deployable <- Runs \ LegacyRuns,
         materialized <- accepted,
         serving <- {e.run : e \in ActiveForecastVersions(log)}

ImplementsAuthority == Authority!Spec
=============================================================================
