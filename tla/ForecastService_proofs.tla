----------------------- MODULE ForecastService_proofs ------------------------
(***************************************************************************)
(* Theorems of ForecastService for every set of runs, scopes, operators and*)
(* clients and every bound on the calls: one authority over one history of *)
(* activations, and no handler that waits for another one's connection     *)
(* while the permits are fewer than the connections.                       *)
(***************************************************************************)
EXTENDS ForecastService, FiniteSetTheorems, TLAPS

\* Type correctness: the log holds well-formed activation rows and a call in
\* progress has its arguments.
LEMMA TypeInit == Init => TypeOK
  BY BoundAssumption, LegacyAssumption DEF Init, TypeOK

LEMMA TypeEnd ==
  ASSUME TypeOK, NEW a \in Actors,
         NEW result \in {"none", "activated", "already_active", "failed"},
         EndTransaction(a, result),
         log' \subseteq Event, nextId' \in Nat \ {0}
  PROVE  TypeOK'
  BY DEF TypeOK, EndTransaction

LEMMA TypeLatest ==
  ASSUME TypeOK, NEW a \in Actors, NEW s
  PROVE  /\ Visible(a) \subseteq Event
         /\ LatestOf(Visible(a), s) \subseteq Event
         /\ ActiveElsewhere(Visible(a), s) \subseteq Event
  BY DEF TypeOK, Visible, LatestOf, ActiveElsewhere

LEMMA TypeNewEvent ==
  ASSUME TypeOK, NEW s \in Scopes, NEW r \in Runs,
         NEW t \in {"active", "superseded"}, NEW p \in Nat
  PROVE  NewEvent(s, r, t, p) \in Event
  BY DEF TypeOK, NewEvent, Event

LEMMA TypePrior ==
  ASSUME TypeOK, NEW a \in Actors
  PROVE  PriorOf(a) \in Nat
  BY DEF TypeOK, PriorOf, Event

LEMMA TypeStep == TypeOK /\ [Next]_vars => TypeOK'
  <1> SUFFICES ASSUME TypeOK, [Next]_vars PROVE TypeOK'
    OBVIOUS
  <1>1. CASE UNCHANGED vars
    BY <1>1 DEF TypeOK, vars
  <1>2. ASSUME NEW r \in Runs, MaterializeForecastRun(r) PROVE TypeOK'
    BY <1>2 DEF TypeOK, MaterializeForecastRun
  <1>3. ASSUME NEW a \in Actors, NEW r \in Runs, NEW retire \in RetireModes,
               Begin(a, r, retire)
        PROVE  TypeOK'
    BY <1>3, BoundAssumption DEF TypeOK, Begin, Goto, Requests
  <1>4. ASSUME NEW a \in Actors, AcquireLock(a) PROVE TypeOK'
    BY <1>4 DEF TypeOK, AcquireLock, Goto
  <1>5. ASSUME NEW a \in Actors, FindMaterialization(a) PROVE TypeOK'
    BY <1>5 DEF TypeOK, FindMaterialization, Goto
  <1>6. ASSUME NEW a \in Actors,
               \/ RefuseUnmaterialized(a)
               \/ RefuseCompetingAuthority(a)
               \/ Crash(a)
        PROVE  TypeOK'
    <2>1. EndTransaction(a, "failed") /\ UNCHANGED <<log, nextId>>
      BY <1>6 DEF RefuseUnmaterialized, RefuseCompetingAuthority, Crash, Rollback
    <2>2. log' \subseteq Event /\ nextId' \in Nat \ {0}
      BY <2>1 DEF TypeOK
    <2> QED BY <2>1, <2>2, TypeEnd
  <1>7. ASSUME NEW a \in Actors, ReturnAlreadyActive(a) PROVE TypeOK'
    <2>1. EndTransaction(a, "already_active") /\ UNCHANGED <<log, nextId>>
      BY <1>7 DEF ReturnAlreadyActive
    <2>2. log' \subseteq Event /\ nextId' \in Nat \ {0}
      BY <2>1 DEF TypeOK
    <2> QED BY <2>1, <2>2, TypeEnd
  <1>8. ASSUME NEW a \in Actors, ReadCurrent(a) PROVE TypeOK'
    <2>1. LatestOf(Visible(a), ScopeOf[req[a].run]) \subseteq Event
      BY TypeLatest
    <2> QED BY <1>8, <2>1 DEF TypeOK, ReadCurrent, Goto
  <1>9. ASSUME NEW a \in Actors, SupersedeCurrent(a) PROVE TypeOK'
    <2>1. PICK e \in current[a] :
            Insert(a, NewEvent(e.scope, e.run, "superseded", PriorOf(a)))
      BY <1>9 DEF SupersedeCurrent
    <2>2. e.scope \in Scopes /\ e.run \in Runs
      BY DEF TypeOK, Event
    <2>3. NewEvent(e.scope, e.run, "superseded", PriorOf(a)) \in Event
      BY <2>2, TypeNewEvent, TypePrior
    <2> QED BY <1>9, <2>1, <2>3
            DEF TypeOK, SupersedeCurrent, Insert, Goto, NextStatement
  <1>10. ASSUME NEW a \in Actors, KeepCurrent(a) PROVE TypeOK'
    <2>1. PriorOf(a) \in Nat
      BY TypePrior
    <2> QED BY <1>10, <2>1 DEF TypeOK, KeepCurrent, Goto, NextStatement
  <1>11. ASSUME NEW a \in Actors, FindOtherScopes(a) PROVE TypeOK'
    <2>1. ActiveElsewhere(Visible(a), ScopeOf[req[a].run]) \subseteq Event
      BY TypeLatest
    <2> QED BY <1>11, <2>1 DEF TypeOK, FindOtherScopes, Goto
  <1>12. ASSUME NEW a \in Actors, NEW e \in others[a], RetireOtherScope(a, e)
         PROVE  TypeOK'
    <2>1. e.scope \in Scopes /\ e.run \in Runs /\ e.id \in Nat
      BY DEF TypeOK, Event
    <2>2. NewEvent(e.scope, e.run, "superseded", e.id) \in Event
      BY <2>1, TypeNewEvent
    <2> QED BY <1>12, <2>2 DEF TypeOK, RetireOtherScope, Insert
  <1>13. ASSUME NEW a \in Actors, FinishRetiring(a) PROVE TypeOK'
    BY <1>13 DEF TypeOK, FinishRetiring, Goto
  <1>14. ASSUME NEW a \in Actors, InsertActivation(a) PROVE TypeOK'
    <2>1. req[a] \in Requests
      BY <1>14 DEF TypeOK, InsertActivation, Goto
    <2>2. ScopeOf[req[a].run] \in Scopes /\ req[a].run \in Runs
      BY <2>1, ScopeAssumption DEF Requests
    <2>3. prior[a] \in Nat
      BY DEF TypeOK
    <2>4. NewEvent(ScopeOf[req[a].run], req[a].run, "active", prior[a]) \in Event
      BY <2>2, <2>3, TypeNewEvent
    <2> QED BY <1>14, <2>4 DEF TypeOK, InsertActivation, Insert, Goto
  <1>15. ASSUME NEW a \in Actors, AssertSingleAuthority(a) PROVE TypeOK'
    BY <1>15 DEF TypeOK, AssertSingleAuthority, Goto
  <1>16. ASSUME NEW a \in Actors, Commit(a) PROVE TypeOK'
    <2>1. log' \subseteq Event /\ nextId' \in Nat \ {0}
      BY <1>16, TypeLatest DEF Commit, TypeOK
    <2>2. PICK result \in {"activated", "failed"} : EndTransaction(a, result)
      BY <1>16 DEF Commit
    <2> QED BY <2>1, <2>2, TypeEnd
  <1> QED
    BY <1>1, <1>2, <1>3, <1>4, <1>5, <1>6, <1>7, <1>8, <1>9, <1>10, <1>11,
       <1>12, <1>13, <1>14, <1>15, <1>16 DEF Next, Work

\* The activation log and every operator's transaction state keep their types.
THEOREM TypeCorrect == Spec => []TypeOK
  <1>1. Init => TypeOK
    BY TypeInit
  <1>2. TypeOK /\ [Next]_vars => TypeOK'
    BY TypeStep
  <1> QED BY <1>1, <1>2, PTL DEF Spec

----------------------------------------------------------------------------
(* When every operator passes retire_other_scopes, all of them ask for the  *)
(* same lock, and a transaction sees the whole committed log from the       *)
(* moment it holds the lock until it commits.                               *)

RetireDiscipline == RetireModes \subseteq {TRUE}

\* The activations in force, those of legacy contracts included.
InForce(L) ==
    {e \in L : e.type = "active" /\ \A f \in L : f.scope = e.scope => f.id <= e.id}

RequestedScope(a) == ScopeOf[req[a].run]

\* Identity values: committed rows, and one operator's rows, are below the
\* next value, and no two rows share one.
IdsOK ==
    /\ \A e \in log : e.id < nextId
    /\ \A e, f \in log : e.id = f.id => e = f
    /\ \A a \in Actors : \A e \in pending[a] : e.id < nextId
    /\ \A a \in Actors : \A e \in pending[a], f \in Visible(a) : e.id = f.id => e = f

Mutex == \A a, b \in Actors : InTransaction(a) /\ InTransaction(b) => a = b

\* A transaction that has inserted its activation still sees it as the last row.
OwnActivation(a) ==
    pc[a] \in {"assert", "commit"} =>
      \E e \in pending[a] : /\ e.type = "active"
                            /\ e.run = req[a].run
                            /\ e.scope = RequestedScope(a)
                            /\ \A f \in Visible(a) : f.id <= e.id

\* Other scopes still in force are on the transaction's list, or there are none.
OthersRetired(a) ==
    /\ pc[a] = "retire" => ActiveElsewhere(Visible(a), RequestedScope(a)) \subseteq others[a]
    /\ pc[a] \in {"insert", "assert", "commit"} =>
         ActiveElsewhere(Visible(a), RequestedScope(a)) = {}

\* Nothing is written before the supersede statement.
Unwritten(a) ==
    pc[a] \in {"materialization", "current", "supersede"} => pending[a] = {}

Asserted(a) == pc[a] = "commit" => ExactlyOneActive(Visible(a))

OneInForce == \A e, f \in InForce(log) : e = f /\ e.run \notin LegacyRuns

PerActor(a) ==
    OwnActivation(a) /\ OthersRetired(a) /\ Unwritten(a) /\ Asserted(a)

NoLocalRows == \A a \in Actors : ~ InTransaction(a) => pending[a] = {}

AuthorityInv ==
    /\ TypeOK
    /\ IdsOK
    /\ Mutex
    /\ NoLocalRows
    /\ OneInForce
    /\ \A a \in Actors : PerActor(a)

LEMMA AuthorityInit == Init => AuthorityInv
  <1> SUFFICES ASSUME Init PROVE AuthorityInv
    OBVIOUS
  <1>1. TypeOK
    BY TypeInit
  <1>2. IdsOK /\ Mutex /\ NoLocalRows /\ OneInForce
    BY DEF Init, IdsOK, Mutex, NoLocalRows, OneInForce, InForce, InTransaction,
           Visible
  <1>3. \A a \in Actors : PerActor(a)
    BY DEF Init, PerActor, OwnActivation, OthersRetired, Unwritten, Asserted
  <1> QED BY <1>1, <1>2, <1>3 DEF AuthorityInv

\* A commit leaves the operator's own activation as the only one in force.
LEMMA CommitAlone ==
  ASSUME AuthorityInv, NEW a \in Actors, pc[a] = "commit"
  PROVE  \E e \in pending[a] : /\ InForce(Visible(a)) = {e}
                               /\ e.run = req[a].run
                               /\ e.scope = RequestedScope(a)
                               /\ e.run \notin LegacyRuns
  <1>1. PICK e \in pending[a] : /\ e.type = "active"
                                /\ e.run = req[a].run
                                /\ e.scope = RequestedScope(a)
                                /\ \A f \in Visible(a) : f.id <= e.id
    BY DEF AuthorityInv, PerActor, OwnActivation
  <1>2. e \in InForce(Visible(a))
    BY <1>1 DEF InForce, Visible
  <1>3. ASSUME NEW f \in InForce(Visible(a)) PROVE f = e
    <2>1. f.scope = RequestedScope(a)
      <3>1. ActiveElsewhere(Visible(a), RequestedScope(a)) = {}
        BY DEF AuthorityInv, PerActor, OthersRetired
      <3> QED BY <3>1 DEF InForce, ActiveElsewhere
    <2>2. e.id <= f.id /\ f.id <= e.id
      BY <1>1, <2>1 DEF InForce, Visible
    <2>3. e.id \in Nat /\ f.id \in Nat
      BY TypeLatest DEF AuthorityInv, TypeOK, Event, InForce, Visible
    <2>4. e.id = f.id
      BY <2>2, <2>3
    <2> QED BY <2>4 DEF AuthorityInv, IdsOK, InForce
  <1>4. PICK g \in ActiveForecastVersions(Visible(a)) : TRUE
    <2>1. Asserted(a)
      BY DEF AuthorityInv, PerActor
    <2> QED BY <2>1 DEF Asserted, ExactlyOneActive
  <1>5. g \in InForce(Visible(a)) /\ g.run \notin LegacyRuns
    BY <1>4 DEF ActiveForecastVersions, InForce
  <1> QED BY <1>1, <1>2, <1>3, <1>5

\* Inserting a row that the identity column numbers next keeps the ids apart.
LEMMA InsertIds ==
  ASSUME AuthorityInv, NEW a \in Actors, NEW e \in Event, e.id = nextId,
         Insert(a, e), UNCHANGED log
  PROVE  IdsOK'
  <1>1. pending' = [pending EXCEPT ![a] = @ \cup {e}] /\ nextId' = nextId + 1
    BY DEF Insert
  <1>2. /\ pending \in [Actors -> SUBSET Event] /\ log \subseteq Event
        /\ nextId \in Nat
    BY DEF AuthorityInv, TypeOK
  <1>3. IdsOK
    BY DEF AuthorityInv
  <1> QED BY <1>1, <1>2, <1>3 DEF IdsOK, Visible, Event

\* While one operator's transaction runs, the others have none: what is said
\* of their transactions is vacuous, now and after a step of the one.
LEMMA OthersOutside ==
  ASSUME AuthorityInv, NEW a \in Actors, InTransaction(a),
         NEW b \in Actors, b # a, pc'[b] = pc[b]
  PROVE  PerActor(b)' /\ ~ InTransaction(b) /\ ~ InTransaction(b)'
  BY DEF AuthorityInv, Mutex, PerActor, OwnActivation, OthersRetired, Unwritten, Asserted,
         InTransaction

\* A transaction that ends without committing leaves the log as it was.
LEMMA EndKeeps ==
  ASSUME AuthorityInv, NEW a \in Actors, InTransaction(a) \/ pc[a] = "lock",
         NEW result, EndTransaction(a, result), UNCHANGED <<log, nextId>>,
         TypeOK'
  PROVE  AuthorityInv'
  <1> USE DEF EndTransaction
  <1>1. /\ pc' = [pc EXCEPT ![a] = "idle"]
        /\ pending' = [pending EXCEPT ![a] = {}]
        /\ pc \in [Actors -> {"idle", "lock", "materialization", "current",
                              "supersede", "others", "retire", "insert",
                              "assert", "commit"}]
        /\ pending \in [Actors -> SUBSET Event]
    BY DEF AuthorityInv, TypeOK
  <1>2. IdsOK'
    BY <1>1 DEF AuthorityInv, IdsOK, Visible
  <1>3. Mutex' /\ NoLocalRows'
    BY <1>1 DEF AuthorityInv, Mutex, NoLocalRows, InTransaction
  <1>4. OneInForce'
    BY DEF AuthorityInv, OneInForce, InForce
  <1>5. ASSUME NEW b \in Actors PROVE PerActor(b)'
    <2>1. CASE b = a
      BY <1>1, <2>1 DEF PerActor, OwnActivation, OthersRetired, Unwritten, Asserted
    <2>2. CASE b # a
      <3>1. pc'[b] = pc[b] /\ pending'[b] = pending[b] /\ req'[b] = req[b]
            /\ others'[b] = others[b]
        BY <1>1, <2>2 DEF AuthorityInv, TypeOK
      <3>2. PerActor(b)
        BY DEF AuthorityInv, PerActor
      <3> QED BY <3>1, <3>2
              DEF PerActor, OwnActivation, OthersRetired, Unwritten, Asserted, Visible,
                  RequestedScope, ExactlyOneActive, ActiveForecastVersions,
                  ActiveElsewhere
    <2> QED BY <2>1, <2>2
  <1> QED BY <1>2, <1>3, <1>4, <1>5 DEF AuthorityInv, PerActor

\* A statement of a transaction in progress that writes nothing: it is enough
\* to look at that transaction.
LEMMA LocalStep ==
  ASSUME AuthorityInv, NEW a \in Actors, InTransaction(a),
         NEW to \in {"materialization", "current", "supersede", "others",
                     "retire", "insert", "assert", "commit"},
         pc' = [pc EXCEPT ![a] = to],
         UNCHANGED <<log, nextId, pending>>, TypeOK', PerActor(a)'
  PROVE  AuthorityInv'
  <1>1. pc \in [Actors -> {"idle", "lock", "materialization", "current",
                           "supersede", "others", "retire", "insert",
                           "assert", "commit"}]
    BY DEF AuthorityInv, TypeOK
  <1>2. IdsOK'
    BY DEF AuthorityInv, IdsOK, Visible
  <1>3. Mutex' /\ NoLocalRows'
    BY <1>1 DEF AuthorityInv, Mutex, NoLocalRows, InTransaction
  <1>4. OneInForce'
    BY DEF AuthorityInv, OneInForce, InForce
  <1>5. ASSUME NEW b \in Actors, b # a PROVE PerActor(b)'
    BY <1>1, <1>5, OthersOutside
  <1> QED BY <1>2, <1>3, <1>4, <1>5 DEF AuthorityInv, PerActor

\* The same for a statement that inserts one row.
LEMMA InsertStep ==
  ASSUME AuthorityInv, NEW a \in Actors, InTransaction(a),
         NEW to \in {"supersede", "others", "retire", "insert", "assert"},
         pc' = [pc EXCEPT ![a] = to],
         NEW e \in Event, e.id = nextId, Insert(a, e),
         UNCHANGED log, TypeOK', PerActor(a)'
  PROVE  AuthorityInv'
  <1>1. /\ pc \in [Actors -> {"idle", "lock", "materialization", "current",
                              "supersede", "others", "retire", "insert",
                              "assert", "commit"}]
        /\ pending \in [Actors -> SUBSET Event]
        /\ pending' = [pending EXCEPT ![a] = @ \cup {e}]
    BY DEF AuthorityInv, TypeOK, Insert
  <1>2. IdsOK'
    BY InsertIds
  <1>3. Mutex' /\ NoLocalRows'
    BY <1>1 DEF AuthorityInv, Mutex, NoLocalRows, InTransaction
  <1>4. OneInForce'
    BY DEF AuthorityInv, OneInForce, InForce
  <1>5. ASSUME NEW b \in Actors, b # a PROVE PerActor(b)'
    BY <1>1, <1>5, OthersOutside
  <1> QED BY <1>2, <1>3, <1>4, <1>5 DEF AuthorityInv, PerActor

\* The commit publishes exactly what the assertion saw.
LEMMA CommitStep ==
  ASSUME AuthorityInv, NEW a \in Actors, Commit(a), TypeOK'
  PROVE  AuthorityInv'
  <1>1. PICK result \in {"activated", "failed"} : EndTransaction(a, result)
    BY DEF Commit
  <1>2. /\ pc[a] = "commit" /\ InTransaction(a)
        /\ log' = Visible(a) /\ nextId' = nextId
        /\ pc' = [pc EXCEPT ![a] = "idle"]
        /\ pending' = [pending EXCEPT ![a] = {}]
        /\ pc \in [Actors -> {"idle", "lock", "materialization", "current",
                              "supersede", "others", "retire", "insert",
                              "assert", "commit"}]
        /\ pending \in [Actors -> SUBSET Event]
    BY <1>1 DEF Commit, EndTransaction, AuthorityInv, TypeOK, InTransaction
  <1>3. ASSUME NEW b \in Actors, b # a
        PROVE  PerActor(b)' /\ ~ InTransaction(b) /\ pending[b] = {}
    BY <1>2, <1>3, OthersOutside DEF AuthorityInv, NoLocalRows
  <1>4. \A b \in Actors : pending'[b] = {}
    BY <1>2, <1>3
  <1>5. IdsOK'
    BY <1>2, <1>4 DEF AuthorityInv, IdsOK, Visible
  <1>6. Mutex' /\ NoLocalRows'
    BY <1>2, <1>3, <1>4 DEF AuthorityInv, Mutex, NoLocalRows, InTransaction
  <1>7. OneInForce'
    BY <1>2, CommitAlone DEF OneInForce
  <1>8. PerActor(a)'
    BY <1>2 DEF PerActor, OwnActivation, OthersRetired, Unwritten, Asserted
  <1> QED BY <1>3, <1>5, <1>6, <1>7, <1>8 DEF AuthorityInv, PerActor

LEMMA AuthorityStep ==
  ASSUME RetireDiscipline, AuthorityInv, [Next]_vars
  PROVE  AuthorityInv'
  <1>0. TypeOK /\ TypeOK'
    BY TypeStep DEF AuthorityInv
  <1>1. CASE UNCHANGED vars
    BY <1>0, <1>1
       DEF AuthorityInv, PerActor, vars, IdsOK, Mutex, NoLocalRows, OneInForce, InForce,
           InTransaction, Visible, OwnActivation, OthersRetired, Unwritten, Asserted,
           ExactlyOneActive, ActiveForecastVersions, ActiveElsewhere,
           RequestedScope
  <1>2. ASSUME NEW r \in Runs, MaterializeForecastRun(r) PROVE AuthorityInv'
    BY <1>0, <1>2
       DEF AuthorityInv, PerActor, MaterializeForecastRun, IdsOK, Mutex, NoLocalRows,
           OneInForce, InForce, InTransaction, Visible, OwnActivation,
           OthersRetired, Unwritten, Asserted, ExactlyOneActive, ActiveForecastVersions,
           ActiveElsewhere, RequestedScope
  <1>3. ASSUME NEW a \in Actors, NEW to \in {"lock", "materialization"},
               pc[a] \in {"idle", "lock"},
               pc' = [pc EXCEPT ![a] = to],
               \A b \in Actors : b # a => req'[b] = req[b],
               to = "materialization" =>
                  \A b \in Actors : InTransaction(b) => b = a,
               UNCHANGED <<log, nextId, pending, others>>
        PROVE  AuthorityInv'
    <2>1. IdsOK' /\ OneInForce'
      BY <1>3 DEF AuthorityInv, IdsOK, OneInForce, InForce, Visible
    <2>2. Mutex' /\ NoLocalRows'
      BY <1>0, <1>3 DEF AuthorityInv, Mutex, NoLocalRows, InTransaction, TypeOK
    <2>3. ASSUME NEW b \in Actors PROVE PerActor(b)'
      <3>1. CASE b = a
        BY <1>0, <1>3, <3>1
           DEF AuthorityInv, NoLocalRows, InTransaction, PerActor,
               OwnActivation, OthersRetired, Unwritten, Asserted, TypeOK
      <3>2. CASE b # a
        BY <1>0, <1>3, <3>2
           DEF AuthorityInv, PerActor, OwnActivation, OthersRetired, Unwritten, Asserted,
               TypeOK, Visible, RequestedScope, ExactlyOneActive,
               ActiveForecastVersions, ActiveElsewhere
      <3> QED BY <3>1, <3>2
    <2> QED BY <1>0, <2>1, <2>2, <2>3 DEF AuthorityInv, PerActor
  <1>4. ASSUME NEW a \in Actors, NEW r \in Runs, NEW retire \in RetireModes,
               Begin(a, r, retire)
        PROVE  AuthorityInv'
    BY <1>0, <1>3, <1>4 DEF Begin, Goto, TypeOK
  <1>5. ASSUME NEW a \in Actors, AcquireLock(a) PROVE AuthorityInv'
    <2>1. pc[a] = "lock" /\ pc' = [pc EXCEPT ![a] = "materialization"]
          /\ LockFree(a) /\ UNCHANGED <<log, nextId, pending, others, req>>
      BY <1>5 DEF AcquireLock, Goto
    <2>2. ASSUME NEW b \in Actors, InTransaction(b) PROVE FALSE
      <3>1. req[a] \in Requests /\ req[b] \in Requests
        BY <1>0, <2>1, <2>2 DEF TypeOK, InTransaction
      <3>2. req[a].retire = TRUE /\ req[b].retire = TRUE
        BY <3>1 DEF Requests, RetireDiscipline
      <3> QED BY <2>1, <2>2, <3>2 DEF LockFree, LockKey
    <2> QED BY <1>3, <2>1, <2>2
  <1>6. ASSUME NEW a \in Actors,
               FindMaterialization(a) \/ ReadCurrent(a) \/ KeepCurrent(a)
        PROVE  AuthorityInv'
    <2>1. /\ InTransaction(a)
          /\ UNCHANGED <<log, nextId, pending, req>>
          /\ \E to \in {"current", "supersede", "others"} :
               pc' = [pc EXCEPT ![a] = to]
      <3>1. KeepCurrent(a) => req[a].retire = TRUE
        BY <1>0 DEF KeepCurrent, Goto, TypeOK, Requests, RetireDiscipline
      <3> QED BY <1>6, <3>1 DEF FindMaterialization, ReadCurrent, KeepCurrent,
                                Goto, NextStatement, InTransaction
    <2>2. PerActor(a)'
      BY <1>0, <1>6, <2>1
         DEF AuthorityInv, PerActor, OwnActivation, OthersRetired, Unwritten,
             Asserted, TypeOK, FindMaterialization, ReadCurrent, KeepCurrent, Goto
    <2> QED BY <1>0, <2>1, <2>2, LocalStep
  <1>7. ASSUME NEW a \in Actors, SupersedeCurrent(a) PROVE AuthorityInv'
    <2>1. PICK e \in current[a] :
            Insert(a, NewEvent(e.scope, e.run, "superseded", PriorOf(a)))
      BY <1>7 DEF SupersedeCurrent
    <2>2. req[a].retire = TRUE
      BY <1>0, <1>7 DEF SupersedeCurrent, Goto, TypeOK, Requests, RetireDiscipline
    <2>3. /\ InTransaction(a) /\ UNCHANGED log
          /\ pc' = [pc EXCEPT ![a] = "others"]
      BY <1>7, <2>2 DEF SupersedeCurrent, Goto, NextStatement, InTransaction
    <2>4. NewEvent(e.scope, e.run, "superseded", PriorOf(a)) \in Event
      <3>1. e.scope \in Scopes /\ e.run \in Runs
        BY <1>0 DEF TypeOK, Event
      <3> QED BY <1>0, <3>1, TypeNewEvent, TypePrior
    <2>5. PerActor(a)'
      BY <1>0, <2>3 DEF PerActor, OwnActivation, OthersRetired, Unwritten, Asserted, TypeOK
    <2>6. NewEvent(e.scope, e.run, "superseded", PriorOf(a)).id = nextId
      BY DEF NewEvent
    <2> QED BY <1>0, <2>1, <2>3, <2>4, <2>5, <2>6, InsertStep
  <1>8. ASSUME NEW a \in Actors, FindOtherScopes(a) PROVE AuthorityInv'
    <2>1. /\ InTransaction(a) /\ UNCHANGED <<log, nextId, pending, req>>
          /\ pc' = [pc EXCEPT ![a] = "retire"]
          /\ others'[a] = ActiveElsewhere(Visible(a), RequestedScope(a))
      BY <1>0, <1>8 DEF FindOtherScopes, Goto, InTransaction, TypeOK, RequestedScope
    <2>2. PerActor(a)'
      BY <1>0, <2>1 DEF PerActor, OwnActivation, OthersRetired, Unwritten, Asserted, TypeOK,
                        Visible, RequestedScope, ActiveElsewhere
    <2> QED BY <1>0, <2>1, <2>2, LocalStep
  <1>9. ASSUME NEW a \in Actors, NEW e \in others[a], RetireOtherScope(a, e)
        PROVE  AuthorityInv'
    <2> DEFINE new == NewEvent(e.scope, e.run, "superseded", e.id)
    <2>1. /\ pc[a] = "retire" /\ InTransaction(a)
          /\ UNCHANGED <<log, req, pc>>
          /\ pc' = [pc EXCEPT ![a] = "retire"]
          /\ Insert(a, new)
          /\ others'[a] = others[a] \ {e}
          /\ pending'[a] = pending[a] \cup {new}
      BY <1>0, <1>9 DEF RetireOtherScope, InTransaction, TypeOK, Insert
    <2>2. new \in Event /\ new.id = nextId /\ new.scope = e.scope
          /\ new.type = "superseded"
      BY <1>0, TypeNewEvent DEF TypeOK, Event, NewEvent
    <2>3. ActiveElsewhere(Visible(a), RequestedScope(a))'
            \subseteq ActiveElsewhere(Visible(a), RequestedScope(a)) \ {e}
      <3>1. Visible(a)' = Visible(a) \cup {new}
        BY <2>1 DEF Visible
      <3>2. RequestedScope(a)' = RequestedScope(a)
        BY <2>1 DEF RequestedScope
      <3>3. ASSUME NEW f \in ActiveElsewhere(Visible(a), RequestedScope(a))'
            PROVE  f \in ActiveElsewhere(Visible(a), RequestedScope(a)) /\ f # e
        <4>1. f \in Visible(a)
          BY <2>2, <3>1, <3>3 DEF ActiveElsewhere
        <4>2. f.id < nextId /\ f.id \in Nat /\ nextId \in Nat
          BY <1>0, <4>1, TypeLatest DEF AuthorityInv, IdsOK, Visible, TypeOK, Event
        <4>3. f.scope # e.scope
          <5>1. f.scope = new.scope => new.id <= f.id
            BY <3>1, <3>3 DEF ActiveElsewhere
          <5> QED BY <2>2, <4>2, <5>1
        <4> QED BY <3>1, <3>2, <3>3, <4>1, <4>3 DEF ActiveElsewhere
      <3> QED BY <3>3
    <2>4. PerActor(a)'
      BY <1>0, <2>1, <2>3 DEF AuthorityInv, PerActor, OwnActivation,
                              OthersRetired, Unwritten, Asserted
    <2> HIDE DEF new
    <2> QED BY <1>0, <2>1, <2>2, <2>4, InsertStep
  <1>10. ASSUME NEW a \in Actors, FinishRetiring(a) PROVE AuthorityInv'
    <2>1. /\ InTransaction(a) /\ UNCHANGED <<log, nextId, pending, req, others>>
          /\ pc[a] = "retire" /\ others[a] = {}
          /\ pc' = [pc EXCEPT ![a] = "insert"]
      BY <1>10 DEF FinishRetiring, Goto, InTransaction
    <2>2. PerActor(a)'
      BY <1>0, <2>1 DEF AuthorityInv, PerActor, OwnActivation, OthersRetired,
                        Unwritten, Asserted, TypeOK, Visible, RequestedScope, ActiveElsewhere
    <2> QED BY <1>0, <2>1, <2>2, LocalStep
  <1>11. ASSUME NEW a \in Actors, InsertActivation(a) PROVE AuthorityInv'
    <2> DEFINE new == NewEvent(RequestedScope(a), req[a].run, "active", prior[a])
    <2>1. /\ pc[a] = "insert" /\ InTransaction(a)
          /\ UNCHANGED <<log, req>>
          /\ pc' = [pc EXCEPT ![a] = "assert"]
          /\ Insert(a, new)
          /\ pending'[a] = pending[a] \cup {new}
      BY <1>0, <1>11 DEF InsertActivation, Goto, InTransaction, TypeOK, Insert,
                         RequestedScope
    <2>2. req[a] \in Requests
      BY <1>0, <2>1 DEF TypeOK
    <2>3. new \in Event
      <3>1. RequestedScope(a) \in Scopes /\ req[a].run \in Runs /\ prior[a] \in Nat
        BY <1>0, <2>2, ScopeAssumption DEF Requests, RequestedScope, TypeOK
      <3> QED BY <1>0, <3>1, TypeNewEvent
    <2>4. /\ new.id = nextId /\ new.scope = RequestedScope(a)
          /\ new.type = "active" /\ new.run = req[a].run
      BY DEF NewEvent
    <2>5. Visible(a)' = Visible(a) \cup {new}
      BY <2>1 DEF Visible
    <2>6. \A f \in Visible(a)' : f.id <= new.id
      BY <1>0, <2>4, <2>5, TypeLatest
         DEF AuthorityInv, IdsOK, Visible, TypeOK, Event
    <2>7. OwnActivation(a)'
      BY <2>1, <2>4, <2>6 DEF OwnActivation, RequestedScope
    <2>8. OthersRetired(a)'
      BY <1>0, <2>1, <2>4, <2>5 DEF AuthorityInv, PerActor, OthersRetired, RequestedScope,
                             ActiveElsewhere, TypeOK
    <2>9. Asserted(a)'
      BY <1>0, <2>1 DEF Asserted, TypeOK
    <2>10. Unwritten(a)'
      BY <1>0, <2>1 DEF Unwritten, TypeOK
    <2> HIDE DEF new
    <2> QED BY <1>0, <2>1, <2>3, <2>4, <2>7, <2>8, <2>9, <2>10, InsertStep
            DEF PerActor
  <1>12. ASSUME NEW a \in Actors, AssertSingleAuthority(a) PROVE AuthorityInv'
    <2>1. /\ InTransaction(a) /\ UNCHANGED <<log, nextId, pending, req, others>>
          /\ pc[a] = "assert" /\ ExactlyOneActive(Visible(a))
          /\ pc' = [pc EXCEPT ![a] = "commit"]
      BY <1>12 DEF AssertSingleAuthority, Goto, InTransaction
    <2>2. PerActor(a)'
      BY <1>0, <2>1 DEF AuthorityInv, PerActor, OwnActivation, OthersRetired,
                        Unwritten, Asserted, TypeOK, Visible, RequestedScope,
                        ActiveElsewhere, ExactlyOneActive, ActiveForecastVersions
    <2> QED BY <1>0, <2>1, <2>2, LocalStep
  <1>13. ASSUME NEW a \in Actors,
                RefuseUnmaterialized(a) \/ RefuseCompetingAuthority(a)
                  \/ ReturnAlreadyActive(a)
         PROVE  AuthorityInv'
    BY <1>0, <1>13, EndKeeps
       DEF RefuseUnmaterialized, RefuseCompetingAuthority, ReturnAlreadyActive,
           Rollback, InTransaction
  <1>14. ASSUME NEW a \in Actors, Crash(a) PROVE AuthorityInv'
    BY <1>0, <1>14, EndKeeps DEF Crash, Rollback, InTransaction
  <1>15. ASSUME NEW a \in Actors, Commit(a) PROVE AuthorityInv'
    BY <1>0, <1>15, CommitStep
  <1> QED
    BY <1>1, <1>2, <1>4, <1>5, <1>6, <1>7, <1>8, <1>9, <1>10, <1>11, <1>12,
       <1>13, <1>14, <1>15 DEF Next, Work

\* Decision #90 under one lock: if every operator passes retire_other_scopes,
\* no reader ever sees two active forecast versions, whatever contracts the
\* materialized runs carry.
THEOREM SingleAuthorityHolds == RetireDiscipline /\ Spec => []SingleAuthority
  <1>1. Init => AuthorityInv
    BY AuthorityInit
  <1>2. RetireDiscipline /\ AuthorityInv /\ [Next]_vars => AuthorityInv'
    BY AuthorityStep
  <1>3. AuthorityInv => SingleAuthority
    BY DEF AuthorityInv, OneInForce, InForce, SingleAuthority,
           ActiveForecastVersions
  <1>4. RetireDiscipline => [](RetireDiscipline)
    BY DEF RetireDiscipline
  <1> QED BY <1>1, <1>2, <1>3, <1>4, PTL DEF Spec

\* A call that returned a ForecastActivation, on either path, leaves its
\* version the only one in force.
LEMMA ReturnStep ==
  ASSUME RetireDiscipline, AuthorityInv, [Next]_vars, NEW a \in Actors, Returns(a)
  PROVE  \E e \in InForce(log') : InForce(log') = {e} /\ e.run = req[a].run
                                                     /\ e.run \notin LegacyRuns
                                                     /\ e.scope = RequestedScope(a)
  <1>0. TypeOK /\ pc[a] # "idle" /\ pc'[a] = "idle" /\ receipt'[a] # "failed"
    BY DEF Returns, AuthorityInv
  <1>1. ReturnAlreadyActive(a) \/ Commit(a)
    <2>1. ASSUME NEW b \in Actors, b # a, Begin(b, req'[b].run, req'[b].retire)
                   \/ AcquireLock(b) \/ Work(b) \/ Crash(b)
          PROVE  FALSE
      BY <1>0, <2>1
         DEF TypeOK, Begin, AcquireLock, Work, Crash, Rollback, EndTransaction,
             Goto, FindMaterialization, RefuseUnmaterialized,
             ReturnAlreadyActive, ReadCurrent, SupersedeCurrent, KeepCurrent,
             FindOtherScopes, RetireOtherScope, FinishRetiring,
             InsertActivation, AssertSingleAuthority, RefuseCompetingAuthority,
             Commit
    <2>2. ASSUME NEW b \in Actors, NEW r \in Runs, NEW retire \in RetireModes,
                 Begin(b, r, retire)
          PROVE  FALSE
      BY <1>0, <2>2 DEF TypeOK, Begin, Goto
    <2>3. ~ UNCHANGED vars /\ \A r \in Runs : ~ MaterializeForecastRun(r)
      BY <1>0 DEF vars, MaterializeForecastRun
    <2>4. AcquireLock(a) \/ Work(a) \/ Crash(a)
      BY <2>1, <2>2, <2>3 DEF Next
    <2>5. ~ AcquireLock(a) /\ ~ Crash(a) /\ ~ RefuseUnmaterialized(a)
            /\ ~ RefuseCompetingAuthority(a)
      BY <1>0 DEF TypeOK, AcquireLock, Goto, Crash, Rollback, EndTransaction,
                  RefuseUnmaterialized, RefuseCompetingAuthority
    <2> QED
      BY <1>0, <2>4, <2>5
         DEF TypeOK, Work, Goto, FindMaterialization, ReadCurrent,
             SupersedeCurrent, KeepCurrent, FindOtherScopes, RetireOtherScope,
             FinishRetiring, InsertActivation, AssertSingleAuthority,
             NextStatement
  <1>2. CASE Commit(a)
    <2>1. log' = Visible(a) /\ pc[a] = "commit"
      BY <1>2 DEF Commit
    <2> QED BY <2>1, CommitAlone
  <1>3. CASE ReturnAlreadyActive(a)
    <2>1. /\ pc[a] = "current" /\ log' = log
          /\ \E e \in LatestOf(Visible(a), RequestedScope(a)) : IsActiveRow(a, e)
      BY <1>3 DEF ReturnAlreadyActive, RequestedScope
    <2> QED BY <2>1 DEF AuthorityInv, PerActor, Unwritten, OneInForce, InForce,
                        LatestOf, IsActiveRow, Visible
  <1> QED BY <1>1, <1>2, <1>3

\* A call that returned a ForecastActivation, having recorded it or having found
\* it recorded, leaves its version the only serving one.
THEOREM ReturnedVersionServesHolds ==
  RetireDiscipline /\ Spec => ReturnedVersionServes
  <1>1. Init => AuthorityInv
    BY AuthorityInit
  <1>2. RetireDiscipline /\ AuthorityInv /\ [Next]_vars => AuthorityInv'
    BY AuthorityStep
  <1>3. ASSUME RetireDiscipline, AuthorityInv, [Next]_vars
        PROVE  [\A a \in Actors :
                  Returns(a) => {e.run : e \in ActiveForecastVersions(log')}
                                  = {req[a].run}]_vars
    <2> SUFFICES ASSUME NEW a \in Actors, Returns(a)
                 PROVE  {e.run : e \in ActiveForecastVersions(log')} = {req[a].run}
      OBVIOUS
    <2>1. PICK e \in InForce(log') : /\ InForce(log') = {e}
                                     /\ e.run = req[a].run
                                     /\ e.run \notin LegacyRuns
      BY <1>3, ReturnStep
    <2>2. ActiveForecastVersions(log') = {e}
      BY <2>1 DEF InForce, ActiveForecastVersions
    <2> QED BY <2>1, <2>2
  <1>4. RetireDiscipline => [](RetireDiscipline)
    BY DEF RetireDiscipline
  <1> QED BY <1>1, <1>2, <1>3, <1>4, PTL DEF Spec, ReturnedVersionServes

\* retire_other_scopes does what its documentation says on both ways a call
\* returns, as long as no operator activates without it.
THEOREM RetireLeavesNoOtherScopeHolds ==
  RetireDiscipline /\ Spec => RetireLeavesNoOtherScope
  <1>1. Init => AuthorityInv
    BY AuthorityInit
  <1>2. RetireDiscipline /\ AuthorityInv /\ [Next]_vars => AuthorityInv'
    BY AuthorityStep
  <1>3. ASSUME RetireDiscipline, AuthorityInv, [Next]_vars
        PROVE  [\A a \in Actors :
                  Returns(a) /\ req[a].retire
                    => ActiveElsewhere(log', ScopeOf[req[a].run]) = {}]_vars
    <2> SUFFICES ASSUME NEW a \in Actors, Returns(a)
                 PROVE  ActiveElsewhere(log', ScopeOf[req[a].run]) = {}
      OBVIOUS
    <2>1. PICK e \in InForce(log') : InForce(log') = {e} /\ e.scope = RequestedScope(a)
      BY <1>3, ReturnStep
    <2> QED BY <2>1 DEF InForce, ActiveElsewhere, RequestedScope
  <1>4. RetireDiscipline => [](RetireDiscipline)
    BY DEF RetireDiscipline
  <1> QED BY <1>1, <1>2, <1>3, <1>4, PTL DEF Spec, RetireLeavesNoOtherScope

----------------------------------------------------------------------------
(* The log implements the atomic authority switch.                         *)

\* A transaction past the materialization query works for an accepted run.
RunAccepted ==
    \A a \in Actors :
      pc[a] \notin {"idle", "lock", "materialization"} => req[a].run \in accepted

LEMMA RunAcceptedStep ==
  ASSUME TypeOK, RunAccepted, [Next]_vars
  PROVE  RunAccepted'
  <1>1. CASE UNCHANGED vars
    BY <1>1 DEF RunAccepted, vars
  <1>2. ASSUME NEW r \in Runs, MaterializeForecastRun(r) PROVE RunAccepted'
    BY <1>2 DEF RunAccepted, MaterializeForecastRun
  <1>3. ASSUME NEW a \in Actors, NEW r \in Runs, NEW retire \in RetireModes,
               Begin(a, r, retire)
        PROVE  RunAccepted'
    BY <1>3 DEF TypeOK, RunAccepted, Begin, Goto
  <1>4. ASSUME NEW a \in Actors, Work(a) \/ Crash(a) PROVE RunAccepted'
    BY <1>4
       DEF TypeOK, RunAccepted, Work, Crash, Rollback, EndTransaction, Goto,
           FindMaterialization, RefuseUnmaterialized, ReturnAlreadyActive,
           ReadCurrent, SupersedeCurrent, KeepCurrent, FindOtherScopes,
           RetireOtherScope, FinishRetiring, InsertActivation,
           AssertSingleAuthority, RefuseCompetingAuthority, Commit
  <1>5. ASSUME NEW a \in Actors, AcquireLock(a) PROVE RunAccepted'
    BY <1>5 DEF TypeOK, RunAccepted, AcquireLock, Goto
  <1> QED BY <1>1, <1>2, <1>3, <1>4, <1>5 DEF Next

\* Only a commit changes the committed log.
LEMMA OnlyCommitWrites ==
  ASSUME [Next]_vars, log' # log
  PROVE  \E a \in Actors : Commit(a)
  BY DEF Next, vars, MaterializeForecastRun, Begin, AcquireLock, Work, Crash,
         Rollback, FindMaterialization, RefuseUnmaterialized,
         ReturnAlreadyActive, ReadCurrent, SupersedeCurrent, KeepCurrent,
         FindOtherScopes, RetireOtherScope, FinishRetiring, InsertActivation,
         AssertSingleAuthority, RefuseCompetingAuthority

Serving == {e.run : e \in ActiveForecastVersions(log)}

LEMMA AuthorityStepMaps ==
  ASSUME RetireDiscipline, AuthorityInv, RunAccepted, [Next]_vars
  PROVE  [Authority!Next]_(Authority!vars)
  <1>1. CASE log' = log
    <2>1. Serving' = Serving
      BY <1>1 DEF Serving, ActiveForecastVersions
    <2>2. \/ accepted' = accepted
          \/ \E r \in Runs : r \notin accepted /\ accepted' = accepted \cup {r}
      BY DEF Next, vars, MaterializeForecastRun, Begin, AcquireLock, Work, Crash,
             Rollback, EndTransaction, FindMaterialization,
             RefuseUnmaterialized, ReturnAlreadyActive, ReadCurrent,
             SupersedeCurrent, KeepCurrent, FindOtherScopes, RetireOtherScope,
             FinishRetiring, InsertActivation, AssertSingleAuthority,
             RefuseCompetingAuthority, Commit
    <2> QED BY <2>1, <2>2 DEF Authority!Next, Authority!Materialize,
                              Authority!vars, Serving
  <1>2. CASE log' # log
    <2>1. PICK a \in Actors : Commit(a)
      BY <1>2, OnlyCommitWrites
    <2>2. pc[a] = "commit" /\ log' = Visible(a) /\ accepted' = accepted
      BY <2>1 DEF Commit, EndTransaction
    <2>3. PICK e \in pending[a] : /\ InForce(log') = {e}
                                  /\ e.run = req[a].run
                                  /\ e.run \notin LegacyRuns
      BY <2>2, CommitAlone
    <2>4. Serving' = {req[a].run}
      BY <2>3 DEF Serving, InForce, ActiveForecastVersions
    <2>5. req[a].run \in accepted /\ req[a].run \in Runs \ LegacyRuns
      <3>1. req[a].run \in accepted
        BY <2>2 DEF RunAccepted
      <3>2. accepted \subseteq Runs
        BY DEF AuthorityInv, TypeOK
      <3> QED BY <2>3, <3>1, <3>2
    <2> QED BY <2>2, <2>4, <2>5 DEF Authority!Next, Authority!Activate, Serving
  <1> QED BY <1>1, <1>2

\* With one lock for every activation, the event log, its transactions, crashes
\* and refusals implement one atomic switch of the serving version.
THEOREM ImplementsAuthorityHolds ==
  RetireDiscipline /\ Spec => ImplementsAuthority
  <1>1. Init => AuthorityInv /\ RunAccepted
    BY AuthorityInit DEF Init, RunAccepted
  <1>2. RetireDiscipline /\ AuthorityInv /\ [Next]_vars => AuthorityInv'
    BY AuthorityStep
  <1>3. AuthorityInv /\ RunAccepted /\ [Next]_vars => RunAccepted'
    BY RunAcceptedStep DEF AuthorityInv
  <1>4. Init => Authority!Init
    BY LegacyAssumption DEF Init, Authority!Init, ActiveForecastVersions
  <1>5. RetireDiscipline /\ AuthorityInv /\ RunAccepted /\ [Next]_vars
          => [Authority!Next]_(Authority!vars)
    BY AuthorityStepMaps
  <1>6. RetireDiscipline => [](RetireDiscipline)
    BY DEF RetireDiscipline
  <1> QED BY <1>1, <1>2, <1>3, <1>4, <1>5, <1>6, PTL
          DEF Spec, ImplementsAuthority, Authority!Spec

----------------------------------------------------------------------------
(* Serving never falls back to nothing, whatever locks the operators take:  *)
(* every transaction ends with its own activation, so the newest committed  *)
(* row is always an activation.                                             *)

IdsBelowNext ==
    /\ \A e \in log : e.id < nextId
    /\ \A a \in Actors : \A e \in pending[a] : e.id < nextId

EndsActive(L) == \E e \in L : e.type = "active" /\ \A f \in L : f.id <= e.id

GapInv ==
    /\ TypeOK
    /\ IdsBelowNext
    /\ log = {} \/ EndsActive(log)
    /\ \A a \in Actors : pc[a] \in {"assert", "commit"} => EndsActive(pending[a])

\* Of two sets of rows that each end with an activation, so does their union.
LEMMA EndsActiveUnion ==
  ASSUME NEW L \in SUBSET Event, NEW K \in SUBSET Event,
         L = {} \/ EndsActive(L), EndsActive(K)
  PROVE  EndsActive(L \cup K)
  <1>1. PICK k \in K : k.type = "active" /\ \A f \in K : f.id <= k.id
    BY DEF EndsActive
  <1>2. CASE L = {}
    BY <1>2
  <1>3. CASE EndsActive(L)
    <2>1. PICK l \in L : l.type = "active" /\ \A f \in L : f.id <= l.id
      BY <1>3 DEF EndsActive
    <2>2. \A f \in L \cup K : f.id \in Nat
      BY DEF Event
    <2>3. CASE l.id <= k.id
      <3>1. \A f \in L \cup K : f.id <= k.id
        BY <1>1, <2>1, <2>2, <2>3
      <3> QED BY <1>1, <3>1 DEF EndsActive
    <2>4. CASE k.id <= l.id
      <3>1. \A f \in L \cup K : f.id <= l.id
        BY <1>1, <2>1, <2>2, <2>4
      <3> QED BY <2>1, <3>1 DEF EndsActive
    <2> QED BY <1>1, <2>1, <2>2, <2>3, <2>4
  <1> QED BY <1>2, <1>3

LEMMA GapStep ==
  ASSUME GapInv, [Next]_vars
  PROVE  GapInv'
  <1>0. TypeOK /\ TypeOK'
    BY TypeStep DEF GapInv
  <1>1. ASSUME UNCHANGED <<log, nextId, pending>>,
               \A a \in Actors :
                 pc'[a] \in {"assert", "commit"} => pc[a] \in {"assert", "commit"}
        PROVE  GapInv'
    BY <1>0, <1>1 DEF GapInv, IdsBelowNext, EndsActive
  <1>2. CASE UNCHANGED vars
    BY <1>1, <1>2 DEF vars
  <1>3. ASSUME NEW r \in Runs, MaterializeForecastRun(r) PROVE GapInv'
    BY <1>1, <1>3 DEF MaterializeForecastRun
  <1>4. ASSUME NEW a \in Actors, NEW r \in Runs, NEW retire \in RetireModes,
               Begin(a, r, retire)
        PROVE  GapInv'
    BY <1>0, <1>1, <1>4 DEF Begin, Goto, TypeOK
  <1>5. ASSUME NEW a \in Actors,
               \/ AcquireLock(a)
               \/ FindMaterialization(a)
               \/ ReadCurrent(a)
               \/ KeepCurrent(a)
               \/ FindOtherScopes(a)
               \/ FinishRetiring(a)
               \/ AssertSingleAuthority(a)
        PROVE  GapInv'
    BY <1>0, <1>1, <1>5
       DEF TypeOK, AcquireLock, FindMaterialization, ReadCurrent, KeepCurrent,
           FindOtherScopes, FinishRetiring, AssertSingleAuthority, Goto,
           NextStatement
  <1>6. ASSUME NEW a \in Actors, NEW result, EndTransaction(a, result),
               UNCHANGED <<log, nextId>>
        PROVE  GapInv'
    BY <1>0, <1>6 DEF GapInv, TypeOK, IdsBelowNext, EndsActive, EndTransaction
  <1>7. ASSUME NEW a \in Actors, NEW to \in {"others", "insert", "retire"},
               NEW e, e.id = nextId, Insert(a, e), UNCHANGED log,
               pc' = [pc EXCEPT ![a] = to]
        PROVE  GapInv'
    BY <1>0, <1>7 DEF GapInv, TypeOK, IdsBelowNext, EndsActive, Insert, Event
  <1>8. ASSUME NEW a \in Actors, SupersedeCurrent(a) PROVE GapInv'
    <2>1. PICK e \in current[a] :
            Insert(a, NewEvent(e.scope, e.run, "superseded", PriorOf(a)))
      BY <1>8 DEF SupersedeCurrent
    <2>2. NewEvent(e.scope, e.run, "superseded", PriorOf(a)).id = nextId
      BY DEF NewEvent
    <2>3. log' = log /\ \E to \in {"others", "insert"} : pc' = [pc EXCEPT ![a] = to]
      BY <1>8 DEF SupersedeCurrent, Goto, NextStatement
    <2> QED BY <1>7, <2>1, <2>2, <2>3
  <1>9. ASSUME NEW a \in Actors, NEW e \in others[a], RetireOtherScope(a, e)
        PROVE  GapInv'
    <2>1. NewEvent(e.scope, e.run, "superseded", e.id).id = nextId
      BY DEF NewEvent
    <2>2. log' = log /\ pc' = [pc EXCEPT ![a] = "retire"]
      BY <1>0, <1>9 DEF RetireOtherScope, TypeOK
    <2> QED BY <1>7, <1>9, <2>1, <2>2 DEF RetireOtherScope
  <1>10. ASSUME NEW a \in Actors, InsertActivation(a) PROVE GapInv'
    <2> DEFINE new == NewEvent(ScopeOf[req[a].run], req[a].run, "active", prior[a])
    <2>1. new.id = nextId /\ new.type = "active"
      BY DEF NewEvent
    <2>2. /\ log' = log /\ nextId' = nextId + 1
          /\ pc' = [pc EXCEPT ![a] = "assert"]
          /\ pending' = [pending EXCEPT ![a] = @ \cup {new}]
      BY <1>10 DEF InsertActivation, Goto, Insert
    <2> HIDE DEF new
    <2>3. IdsBelowNext'
      BY <1>0, <2>1, <2>2 DEF GapInv, TypeOK, IdsBelowNext, Event
    <2>4. EndsActive(pending'[a])
      BY <1>0, <2>1, <2>2 DEF GapInv, TypeOK, IdsBelowNext, EndsActive, Event
    <2> QED BY <1>0, <2>2, <2>3, <2>4 DEF GapInv, TypeOK, EndsActive
  <1>11. ASSUME NEW a \in Actors,
                \/ RefuseUnmaterialized(a)
                \/ RefuseCompetingAuthority(a)
                \/ ReturnAlreadyActive(a)
                \/ Crash(a)
         PROVE  GapInv'
    BY <1>6, <1>11 DEF RefuseUnmaterialized, RefuseCompetingAuthority,
                       ReturnAlreadyActive, Crash, Rollback
  <1>12. ASSUME NEW a \in Actors, Commit(a) PROVE GapInv'
    <2>1. /\ log' = log \cup pending[a] /\ nextId' = nextId
          /\ pc[a] = "commit"
          /\ pc' = [pc EXCEPT ![a] = "idle"]
          /\ pending' = [pending EXCEPT ![a] = {}]
      BY <1>12 DEF Commit, Visible, EndTransaction
    <2>2. EndsActive(log')
      BY <1>0, <2>1, EndsActiveUnion DEF GapInv, TypeOK
    <2>3. IdsBelowNext'
      BY <1>0, <2>1 DEF GapInv, TypeOK, IdsBelowNext
    <2> QED BY <1>0, <2>1, <2>2, <2>3 DEF GapInv, TypeOK, EndsActive
  <1> QED
    BY <1>2, <1>3, <1>4, <1>5, <1>8, <1>9, <1>10, <1>11, <1>12 DEF Next, Work

\* Under every mix of locks, of operators and of retirements, once a forecast
\* version is served no step leaves none served, provided every materialized
\* run has the current verification contract.
THEOREM NoServingGapHolds == LegacyRuns = {} /\ Spec => NoServingGap
  <1>1. Init => GapInv
    BY TypeInit DEF Init, GapInv, IdsBelowNext
  <1>2. GapInv /\ [Next]_vars => GapInv'
    BY GapStep
  <1>3. ASSUME LegacyRuns = {}, GapInv, GapInv', [Next]_vars
        PROVE  [ActiveForecastVersions(log) # {}
                  => ActiveForecastVersions(log') # {}]_vars
    <2> SUFFICES ASSUME ActiveForecastVersions(log) # {}
                 PROVE  ActiveForecastVersions(log') # {}
      OBVIOUS
    <2>1. log # {}
      BY DEF ActiveForecastVersions
    <2>2. log' # {}
      <3>1. CASE log' = log
        BY <2>1, <3>1
      <3>2. CASE log' # log
        <4>1. PICK a \in Actors : Commit(a)
          BY <1>3, <3>2, OnlyCommitWrites
        <4> QED BY <2>1, <4>1 DEF Commit, Visible
      <3> QED BY <3>1, <3>2
    <2>3. EndsActive(log')
      BY <1>3, <2>2 DEF GapInv
    <2>4. PICK e \in log' : e.type = "active" /\ \A f \in log' : f.id <= e.id
      BY <2>3 DEF EndsActive
    <2>5. e.run \notin LegacyRuns
      BY <1>3
    <2>6. e \in ActiveForecastVersions(log')
      BY <2>4, <2>5 DEF ActiveForecastVersions
    <2> QED BY <2>6
  <1>4. LegacyRuns = {} => [](LegacyRuns = {})
    OBVIOUS
  <1> QED BY <1>1, <1>2, <1>3, <1>4, PTL DEF Spec, NoServingGap
----------------------------------------------------------------------------
(* Under one lock the log of a scope is one chain, and an activation that is *)
(* repeated appends nothing.                                                 *)

Earlier(L, e) == {f \in L : f.scope = e.scope /\ f.id < e.id}

\* What LinearHistory says of a row and the rows before it in its scope.
Linked(e, earlier) ==
    /\ earlier = {} => e.prior = 0 /\ e.type = "active"
    /\ earlier # {} => \E f \in LatestOf(earlier, e.scope) : e.prior = f.id
    /\ e.type = "superseded" =>
         \E f \in earlier : f.id = e.prior /\ f.type = "active" /\ f.run = e.run

Linear(L) == \A e \in L : Linked(e, Earlier(L, e))

\* A scope that has rows has a newest one.
HasLatest(L) == \A e \in L : LatestOf(L, e.scope) # {}

\* The row that an activation of scope s is to be chained to.
Follows(p, L, s) ==
    \/ LatestOf(L, s) = {} /\ p = 0
    \/ \E e \in LatestOf(L, s) : p = e.id

HistoryOf(a) ==
    /\ InTransaction(a) => Linear(Visible(a)) /\ HasLatest(Visible(a))
    /\ pc[a] = "supersede" => current[a] = LatestOf(Visible(a), RequestedScope(a))
    /\ pc[a] \in {"others", "retire", "insert"} =>
         Follows(prior[a], Visible(a), RequestedScope(a))
    /\ pc[a] = "retire" => others[a] \subseteq ActiveElsewhere(Visible(a), RequestedScope(a))
    /\ pc[a] \in {"supersede", "others", "retire", "insert", "assert", "commit"} =>
         \A e \in LatestOf(log, RequestedScope(a)) : ~ IsActiveRow(a, e)

HistoryInv ==
    /\ AuthorityInv
    /\ Linear(log) /\ HasLatest(log)
    /\ \A a \in Actors : HistoryOf(a)

\* A row that is numbered above a chain and follows its scope's newest row, and
\* ends the activation it follows if it ends one, prolongs the chain.
LEMMA Prolonged ==
  ASSUME NEW L \in SUBSET Event, Linear(L), HasLatest(L), NEW e \in Event,
         \A f \in L : f.id < e.id,
         Follows(e.prior, L, e.scope),
         LatestOf(L, e.scope) = {} => e.type = "active",
         e.type = "superseded" =>
           \E f \in LatestOf(L, e.scope) : f.id = e.prior /\ f.type = "active" /\ f.run = e.run
  PROVE  /\ Linear(L \cup {e}) /\ HasLatest(L \cup {e})
         /\ LatestOf(L \cup {e}, e.scope) = {e}
         /\ \A t \in Scopes : t # e.scope => LatestOf(L \cup {e}, t) = LatestOf(L, t)
  <1> DEFINE K == L \cup {e}
  <1>1. \A f \in K : f.id \in Nat
    BY DEF Event
  <1>2. ASSUME NEW g \in L PROVE Earlier(K, g) = Earlier(L, g)
    BY <1>1 DEF Earlier
  <1>3. LatestOf(Earlier(K, e), e.scope) = LatestOf(L, e.scope)
    BY <1>1 DEF LatestOf, Earlier
  <1>4. Earlier(K, e) # {} => LatestOf(L, e.scope) # {}
    BY <1>1 DEF HasLatest, Earlier
  <1>5. LatestOf(L, e.scope) \subseteq Earlier(K, e)
    BY DEF LatestOf, Earlier
  <1>6. Linear(K)
    <2>1. ASSUME NEW g \in L PROVE Linked(g, Earlier(K, g))
      BY <1>2 DEF Linear
    <2>2. Linked(e, Earlier(K, e))
      <3> HIDE DEF K
      <3>1. CASE LatestOf(L, e.scope) = {}
        BY <1>3, <1>4, <3>1 DEF Follows, Linked
      <3>2. CASE LatestOf(L, e.scope) # {}
        BY <1>3, <1>5, <3>2 DEF Follows, Linked
      <3> QED BY <3>1, <3>2
    <2> QED BY <2>1, <2>2 DEF Linear
  <1>7. LatestOf(K, e.scope) = {e}
    BY <1>1 DEF LatestOf
  <1>8. ASSUME NEW t, t # e.scope PROVE LatestOf(K, t) = LatestOf(L, t)
    BY <1>8 DEF LatestOf
  <1>9. HasLatest(K)
    <2>1. ASSUME NEW g \in K PROVE LatestOf(K, g.scope) # {}
      <3>1. CASE g.scope = e.scope
        BY <1>7, <3>1
      <3>2. CASE g.scope # e.scope
        BY <1>8, <3>2 DEF HasLatest
      <3> QED BY <3>1, <3>2
    <2> QED BY <2>1 DEF HasLatest
  <1> QED BY <1>6, <1>7, <1>8, <1>9

LEMMA HistoryInit == Init => HistoryInv
  BY AuthorityInit DEF Init, HistoryInv, HistoryOf, Linear, HasLatest, InTransaction

\* While one operator's transaction runs, nothing is said of the others.
LEMMA HistoryOthers ==
  ASSUME AuthorityInv, NEW a \in Actors, InTransaction(a),
         NEW b \in Actors, b # a, pc'[b] = pc[b]
  PROVE  HistoryOf(b)'
  BY DEF AuthorityInv, Mutex, HistoryOf, InTransaction

\* A statement of operator a that leaves the committed log alone.
LEMMA HistoryLocal ==
  ASSUME HistoryInv, AuthorityInv', NEW a \in Actors, InTransaction(a),
         log' = log, \A b \in Actors \ {a} : pc'[b] = pc[b],
         HistoryOf(a)'
  PROVE  HistoryInv'
  <1>1. \A b \in Actors \ {a} : HistoryOf(b)'
    BY HistoryOthers DEF HistoryInv
  <1>2. Linear(log)' /\ HasLatest(log)'
    BY DEF HistoryInv
  <1> QED BY <1>1, <1>2 DEF HistoryInv

\* A transaction that ends without a commit, of the call of any operator.
LEMMA HistoryEnds ==
  ASSUME HistoryInv, AuthorityInv', NEW a \in Actors, NEW result, EndTransaction(a, result),
         UNCHANGED <<log, nextId>>
  PROVE  HistoryInv'
  <1>1. TypeOK
    BY DEF HistoryInv, AuthorityInv
  <1>2. /\ pc'[a] = "idle"
        /\ \A b \in Actors \ {a} : /\ pc'[b] = pc[b] /\ current'[b] = current[b]
                                   /\ prior'[b] = prior[b] /\ others'[b] = others[b]
                                   /\ pending'[b] = pending[b] /\ req'[b] = req[b]
    BY <1>1 DEF EndTransaction, TypeOK
  <1>3. HistoryOf(a)'
    BY <1>2 DEF HistoryOf, InTransaction
  <1>4. ASSUME NEW b \in Actors \ {a} PROVE HistoryOf(b)'
    <2>1. HistoryOf(b)
      BY DEF HistoryInv
    <2> QED BY <1>2, <2>1 DEF HistoryOf, InTransaction, Visible, RequestedScope, IsActiveRow
  <1>5. Linear(log)' /\ HasLatest(log)'
    BY DEF HistoryInv
  <1> QED BY <1>3, <1>4, <1>5 DEF HistoryInv

\* Two visible rows of one id are one row.
LEMMA OneRowPerId ==
  ASSUME AuthorityInv, NEW a \in Actors, NEW e \in Visible(a), NEW f \in Visible(a), e.id = f.id
  PROVE  e = f
  BY DEF AuthorityInv, IdsOK, Visible
\* Outside its transactions an operator has no rows of its own.
LEMMA HistoryStep ==
  ASSUME RetireDiscipline, HistoryInv, [Next]_vars
  PROVE  HistoryInv'
  <1>0. AuthorityInv /\ AuthorityInv' /\ TypeOK /\ TypeOK'
    BY AuthorityStep DEF HistoryInv, AuthorityInv
  <1>1. ASSUME UNCHANGED <<log, pending, current, prior, others>>,
               \A a \in Actors : \/ pc'[a] = pc[a] /\ req'[a] = req[a]
                                 \/ ~ InTransaction(a)'
                                 \/ pc'[a] = "materialization" /\ ~ InTransaction(a)
        PROVE  HistoryInv'
    <2>1. ASSUME NEW a \in Actors PROVE HistoryOf(a)'
      <3>1. HistoryOf(a)
        BY DEF HistoryInv
      <3>2. CASE pc'[a] = pc[a] /\ req'[a] = req[a]
        BY <1>1, <3>1, <3>2 DEF HistoryOf, InTransaction, Visible, RequestedScope, IsActiveRow
      <3>3. CASE ~ InTransaction(a)'
        BY <3>3 DEF HistoryOf, InTransaction
      <3>4. CASE pc'[a] = "materialization" /\ ~ InTransaction(a)
        <4>1. pending[a] = {}
          BY <1>0, <3>4 DEF AuthorityInv, NoLocalRows
        <4>2. Visible(a)' = log
          BY <1>1, <4>1 DEF Visible
        <4> QED BY <3>4, <4>2 DEF HistoryInv, HistoryOf
      <3> QED BY <1>1, <3>2, <3>3, <3>4
    <2> QED BY <1>0, <1>1, <2>1 DEF HistoryInv
  <1>2. CASE UNCHANGED vars
    BY <1>1, <1>2 DEF vars
  <1>3. ASSUME NEW r \in Runs, MaterializeForecastRun(r) PROVE HistoryInv'
    BY <1>1, <1>3 DEF MaterializeForecastRun
  <1>4. ASSUME NEW a \in Actors, NEW r \in Runs, NEW retire \in RetireModes,
               Begin(a, r, retire)
        PROVE  HistoryInv'
    BY <1>0, <1>1, <1>4 DEF Begin, Goto, InTransaction, TypeOK
  <1>5. ASSUME NEW a \in Actors, AcquireLock(a) PROVE HistoryInv'
    BY <1>0, <1>1, <1>5 DEF AcquireLock, Goto, InTransaction, TypeOK
  <1>6. ASSUME NEW a \in Actors,
               \/ RefuseUnmaterialized(a)
               \/ RefuseCompetingAuthority(a)
               \/ ReturnAlreadyActive(a)
               \/ Crash(a)
        PROVE  HistoryInv'
    BY <1>0, <1>6, HistoryEnds DEF RefuseUnmaterialized, RefuseCompetingAuthority,
                              ReturnAlreadyActive, Crash, Rollback
  <1>7. ASSUME NEW a \in Actors, Commit(a) PROVE HistoryInv'
    <2>1. pc[a] = "commit" /\ pc'[a] = "idle" /\ log' = Visible(a) /\ InTransaction(a)
          /\ \A b \in Actors \ {a} : pc'[b] = pc[b]
      BY <1>0, <1>7 DEF Commit, EndTransaction, InTransaction, TypeOK
    <2>2. Linear(log)' /\ HasLatest(log)'
      BY <2>1 DEF HistoryInv, HistoryOf
    <2>3. HistoryOf(a)'
      BY <2>1 DEF HistoryOf, InTransaction
    <2>4. \A b \in Actors \ {a} : HistoryOf(b)'
      BY <1>0, <2>1, HistoryOthers
    <2> QED BY <1>0, <2>2, <2>3, <2>4 DEF HistoryInv
  <1>8. ASSUME NEW a \in Actors, FindMaterialization(a) \/ AssertSingleAuthority(a)
        PROVE  HistoryInv'
    <2>1. /\ InTransaction(a) /\ UNCHANGED <<log, pending, req>>
          /\ \A b \in Actors \ {a} : pc'[b] = pc[b]
          /\ \/ pc'[a] = "current"
             \/ pc[a] = "assert" /\ pc'[a] = "commit"
      BY <1>0, <1>8 DEF FindMaterialization, AssertSingleAuthority, Goto, InTransaction, TypeOK
    <2>2. HistoryOf(a)'
      BY <2>1 DEF HistoryInv, HistoryOf, InTransaction, Visible, RequestedScope, IsActiveRow
    <2> QED BY <1>0, <2>1, <2>2, HistoryLocal
  <1>9. ASSUME NEW a \in Actors, ReadCurrent(a) PROVE HistoryInv'
    <2>1. /\ InTransaction(a) /\ UNCHANGED <<log, pending, req>> /\ pc[a] = "current"
          /\ \A b \in Actors \ {a} : pc'[b] = pc[b]
          /\ pc'[a] = "supersede"
          /\ current'[a] = LatestOf(Visible(a), RequestedScope(a))
          /\ \A e \in LatestOf(Visible(a), RequestedScope(a)) : ~ IsActiveRow(a, e)
      BY <1>0, <1>9 DEF ReadCurrent, Goto, InTransaction, TypeOK, RequestedScope
    <2>2. Visible(a) = log
      BY <1>0, <2>1 DEF AuthorityInv, PerActor, Unwritten, Visible
    <2>3. HistoryOf(a)'
      BY <2>1, <2>2 DEF HistoryInv, HistoryOf, InTransaction, Visible, RequestedScope, IsActiveRow
    <2> QED BY <1>0, <2>1, <2>3, HistoryLocal
  <1>10. ASSUME NEW a \in Actors, KeepCurrent(a) PROVE HistoryInv'
    <2>1. /\ InTransaction(a) /\ UNCHANGED <<log, pending, req>> /\ pc[a] = "supersede"
          /\ \A b \in Actors \ {a} : pc'[b] = pc[b]
          /\ pc'[a] \in {"others", "insert"}
          /\ prior'[a] = PriorOf(a)
      BY <1>0, <1>10 DEF KeepCurrent, Goto, InTransaction, TypeOK, NextStatement
    <2>2. current[a] = LatestOf(Visible(a), RequestedScope(a))
      BY <2>1 DEF HistoryInv, HistoryOf
    <2>3. Follows(PriorOf(a), Visible(a), RequestedScope(a))
      BY <2>2 DEF Follows, PriorOf
    <2>4. Follows(prior[a], Visible(a), RequestedScope(a))'
      BY <2>1, <2>3 DEF Follows, Visible, RequestedScope
    <2>5. HistoryOf(a)'
      BY <2>1, <2>4 DEF HistoryInv, HistoryOf, InTransaction, Visible, RequestedScope, IsActiveRow
    <2> QED BY <1>0, <2>1, <2>5, HistoryLocal
  <1>11. ASSUME NEW a \in Actors, FindOtherScopes(a) PROVE HistoryInv'
    <2>1. /\ InTransaction(a) /\ UNCHANGED <<log, pending, req, prior>> /\ pc[a] = "others"
          /\ \A b \in Actors \ {a} : pc'[b] = pc[b]
          /\ pc'[a] = "retire"
          /\ others'[a] = ActiveElsewhere(Visible(a), RequestedScope(a))
      BY <1>0, <1>11 DEF FindOtherScopes, Goto, InTransaction, TypeOK, RequestedScope
    <2>2. HistoryOf(a)'
      BY <2>1 DEF HistoryInv, HistoryOf, InTransaction, Visible, RequestedScope, IsActiveRow,
                  Follows
    <2> QED BY <1>0, <2>1, <2>2, HistoryLocal
  <1>12. ASSUME NEW a \in Actors, FinishRetiring(a) PROVE HistoryInv'
    <2>1. /\ InTransaction(a) /\ UNCHANGED <<log, pending, req, prior>> /\ pc[a] = "retire"
          /\ \A b \in Actors \ {a} : pc'[b] = pc[b]
          /\ pc'[a] = "insert"
      BY <1>0, <1>12 DEF FinishRetiring, Goto, InTransaction, TypeOK
    <2>2. HistoryOf(a)'
      BY <2>1 DEF HistoryInv, HistoryOf, InTransaction, Visible, RequestedScope, IsActiveRow,
                  Follows
    <2> QED BY <1>0, <2>1, <2>2, HistoryLocal
  <1>13. ASSUME NEW a \in Actors, NEW e \in Event, Insert(a, e), e.id = nextId, log' = log,
                InTransaction(a), req' = req
         PROVE  /\ Visible(a)' = Visible(a) \cup {e}
                /\ \A f \in Visible(a) : f.id < e.id
                /\ Visible(a) \subseteq Event /\ RequestedScope(a)' = RequestedScope(a)
                /\ Linear(Visible(a)) /\ HasLatest(Visible(a))
    <2>1. pending'[a] = pending[a] \cup {e}
      BY <1>0, <1>13 DEF Insert, TypeOK
    <2> QED BY <1>0, <1>13, <2>1 DEF Visible, AuthorityInv, IdsOK, TypeOK, HistoryInv, HistoryOf,
                                     RequestedScope
  <1>14. ASSUME NEW a \in Actors, SupersedeCurrent(a) PROVE HistoryInv'
    <2>1. PICK e \in current[a] :
            /\ e.type = "active"
            /\ Insert(a, NewEvent(e.scope, e.run, "superseded", PriorOf(a)))
      BY <1>14 DEF SupersedeCurrent
    <2>2. /\ InTransaction(a) /\ log' = log /\ req' = req /\ pc[a] = "supersede"
          /\ \A b \in Actors \ {a} : pc'[b] = pc[b]
          /\ pc'[a] \in {"others", "insert"}
          /\ prior'[a] = nextId
      BY <1>0, <1>14 DEF SupersedeCurrent, Goto, InTransaction, TypeOK, NextStatement
    <2>3. current[a] = LatestOf(Visible(a), RequestedScope(a))
      BY <2>2 DEF HistoryInv, HistoryOf
    <2>4. \A f, g \in current[a] : f = g
      <3>1. ASSUME NEW f \in current[a], NEW g \in current[a] PROVE f = g
        <4>1. f \in Visible(a) /\ g \in Visible(a) /\ f.id <= g.id /\ g.id <= f.id
          BY <2>3 DEF LatestOf
        <4>2. f.id \in Nat /\ g.id \in Nat
          BY <1>0, <4>1, TypeLatest DEF Event
        <4>3. f.id = g.id
          BY <4>1, <4>2
        <4> QED BY <1>0, <4>1, <4>3, OneRowPerId
      <3> QED BY <3>1
    <2>5. PriorOf(a) = e.id
      BY <2>1, <2>4 DEF PriorOf
    <2> DEFINE new == NewEvent(e.scope, e.run, "superseded", PriorOf(a))
    <2>6. /\ new.id = nextId /\ new.scope = e.scope /\ new.run = e.run
          /\ new.type = "superseded" /\ new.prior = e.id
      BY <2>5 DEF NewEvent
    <2>7. new \in Event
      <3>1. e.scope \in Scopes /\ e.run \in Runs
        BY <1>0, <2>1 DEF TypeOK, Event
      <3> QED BY <1>0, <3>1, TypeNewEvent, TypePrior
    <2>8. e.scope = RequestedScope(a) /\ RequestedScope(a) \in Scopes
      BY <1>0, <2>1, <2>3 DEF LatestOf, TypeOK, Event
    <2>9. Insert(a, new)
      BY <2>1
    <2> HIDE DEF new
    <2>10. /\ Visible(a)' = Visible(a) \cup {new}
           /\ \A f \in Visible(a) : f.id < new.id
           /\ Visible(a) \subseteq Event /\ RequestedScope(a)' = RequestedScope(a)
           /\ Linear(Visible(a)) /\ HasLatest(Visible(a))
      BY <1>13, <2>2, <2>6, <2>7, <2>9
    <2>11. e \in LatestOf(Visible(a), new.scope)
      BY <2>1, <2>3, <2>6, <2>8
    <2>12. /\ Linear(Visible(a) \cup {new}) /\ HasLatest(Visible(a) \cup {new})
           /\ LatestOf(Visible(a) \cup {new}, new.scope) = {new}
      <3>1. Follows(new.prior, Visible(a), new.scope) /\ LatestOf(Visible(a), new.scope) # {}
        BY <2>6, <2>11 DEF Follows
      <3>2. \E f \in LatestOf(Visible(a), new.scope) :
              f.id = new.prior /\ f.type = "active" /\ f.run = new.run
        BY <2>1, <2>6, <2>11
      <3> QED BY <2>7, <2>10, <3>1, <3>2, Prolonged
    <2>13. Follows(prior[a], Visible(a), RequestedScope(a))'
      BY <2>2, <2>6, <2>8, <2>10, <2>12 DEF Follows
    <2>14. \A f \in LatestOf(log, RequestedScope(a)) : ~ IsActiveRow(a, f)
      BY <2>2 DEF HistoryInv, HistoryOf
    <2>15. HistoryOf(a)'
      BY <2>2, <2>10, <2>12, <2>13, <2>14 DEF HistoryOf, IsActiveRow
    <2> QED BY <1>0, <2>2, <2>15, HistoryLocal
  <1>15. ASSUME NEW a \in Actors, NEW e \in others[a], RetireOtherScope(a, e)
         PROVE  HistoryInv'
    <2>1. /\ InTransaction(a) /\ log' = log /\ req' = req /\ pc[a] = "retire" /\ prior' = prior
          /\ \A b \in Actors \ {a} : pc'[b] = pc[b]
          /\ pc'[a] = "retire" /\ others'[a] = others[a] \ {e}
          /\ Insert(a, NewEvent(e.scope, e.run, "superseded", e.id))
      BY <1>0, <1>15 DEF RetireOtherScope, InTransaction, TypeOK
    <2>2. /\ e \in ActiveElsewhere(Visible(a), RequestedScope(a))
          /\ others[a] \subseteq ActiveElsewhere(Visible(a), RequestedScope(a))
          /\ Follows(prior[a], Visible(a), RequestedScope(a))
          /\ \A f \in LatestOf(log, RequestedScope(a)) : ~ IsActiveRow(a, f)
      BY <2>1 DEF HistoryInv, HistoryOf
    <2> DEFINE new == NewEvent(e.scope, e.run, "superseded", e.id)
    <2>3. /\ new.id = nextId /\ new.scope = e.scope /\ new.run = e.run
          /\ new.type = "superseded" /\ new.prior = e.id
      BY DEF NewEvent
    <2>4. new \in Event
      <3>1. e.scope \in Scopes /\ e.run \in Runs /\ e.id \in Nat
        BY <1>0 DEF TypeOK, Event
      <3> QED BY <1>0, <3>1, TypeNewEvent
    <2>5. Insert(a, new)
      BY <2>1
    <2> HIDE DEF new
    <2>6. /\ Visible(a)' = Visible(a) \cup {new}
          /\ \A f \in Visible(a) : f.id < new.id
          /\ Visible(a) \subseteq Event /\ RequestedScope(a)' = RequestedScope(a)
          /\ Linear(Visible(a)) /\ HasLatest(Visible(a))
      BY <1>13, <2>1, <2>3, <2>4, <2>5
    <2>7. e \in LatestOf(Visible(a), new.scope) /\ e.type = "active" /\ e.scope # RequestedScope(a)
      BY <2>2, <2>3 DEF LatestOf, ActiveElsewhere
    <2>8. RequestedScope(a) \in Scopes
      BY <1>0, <2>1, ScopeAssumption DEF TypeOK, Requests, RequestedScope
    <2>9. /\ Linear(Visible(a) \cup {new}) /\ HasLatest(Visible(a) \cup {new})
          /\ \A t \in Scopes : t # new.scope =>
               LatestOf(Visible(a) \cup {new}, t) = LatestOf(Visible(a), t)
      <3>1. Follows(new.prior, Visible(a), new.scope) /\ LatestOf(Visible(a), new.scope) # {}
        BY <2>3, <2>7 DEF Follows
      <3>2. \E f \in LatestOf(Visible(a), new.scope) :
              f.id = new.prior /\ f.type = "active" /\ f.run = new.run
        BY <2>3, <2>7
      <3> QED BY <2>4, <2>6, <3>1, <3>2, Prolonged
    <2>10. Follows(prior[a], Visible(a), RequestedScope(a))'
      BY <2>1, <2>2, <2>3, <2>6, <2>7, <2>8, <2>9 DEF Follows
    <2>11. ASSUME NEW g \in others[a] \ {e}
           PROVE  g \in ActiveElsewhere(Visible(a) \cup {new}, RequestedScope(a))
      <3>1. /\ g \in Visible(a) /\ g.type = "active" /\ g.scope # RequestedScope(a)
            /\ \A f \in Visible(a) : f.scope = g.scope => f.id <= g.id
        BY <2>2 DEF ActiveElsewhere
      <3>2. /\ e \in Visible(a) /\ \A f \in Visible(a) : f.scope = e.scope => f.id <= e.id
        BY <2>7, <2>3 DEF LatestOf
      <3>3. g.scope # e.scope
        <4>1. SUFFICES ASSUME g.scope = e.scope PROVE FALSE
          OBVIOUS
        <4>2. g.id <= e.id /\ e.id <= g.id /\ g.id \in Nat /\ e.id \in Nat
          BY <2>6, <3>1, <3>2, <4>1 DEF Event
        <4>3. g.id = e.id
          BY <4>2
        <4> QED BY <1>0, <3>1, <3>2, <4>3, OneRowPerId
      <3> QED BY <2>3, <3>1, <3>3 DEF ActiveElsewhere
    <2>12. HistoryOf(a)'
      BY <2>1, <2>2, <2>6, <2>9, <2>10, <2>11 DEF HistoryOf, IsActiveRow
    <2> QED BY <1>0, <2>1, <2>12, HistoryLocal
  <1>16. ASSUME NEW a \in Actors, InsertActivation(a) PROVE HistoryInv'
    <2> DEFINE new == NewEvent(ScopeOf[req[a].run], req[a].run, "active", prior[a])
    <2>1. /\ InTransaction(a) /\ log' = log /\ req' = req /\ pc[a] = "insert"
          /\ \A b \in Actors \ {a} : pc'[b] = pc[b]
          /\ pc'[a] = "assert"
          /\ Insert(a, new)
      BY <1>0, <1>16 DEF InsertActivation, Goto, InTransaction, TypeOK
    <2>2. /\ Follows(prior[a], Visible(a), RequestedScope(a))
          /\ \A f \in LatestOf(log, RequestedScope(a)) : ~ IsActiveRow(a, f)
      BY <2>1 DEF HistoryInv, HistoryOf
    <2>3. /\ new.id = nextId /\ new.scope = RequestedScope(a)
          /\ new.type = "active" /\ new.prior = prior[a]
      BY DEF NewEvent, RequestedScope
    <2>4. new \in Event
      <3>1. ScopeOf[req[a].run] \in Scopes /\ req[a].run \in Runs /\ prior[a] \in Nat
        BY <1>0, <2>1, ScopeAssumption DEF TypeOK, Requests
      <3> QED BY <1>0, <3>1, TypeNewEvent
    <2> HIDE DEF new
    <2>5. /\ Visible(a)' = Visible(a) \cup {new}
          /\ \A f \in Visible(a) : f.id < new.id
          /\ Visible(a) \subseteq Event /\ RequestedScope(a)' = RequestedScope(a)
          /\ Linear(Visible(a)) /\ HasLatest(Visible(a))
      BY <1>13, <2>1, <2>3, <2>4
    <2>6. Linear(Visible(a) \cup {new}) /\ HasLatest(Visible(a) \cup {new})
      BY <2>2, <2>3, <2>4, <2>5, Prolonged
    <2>7. HistoryOf(a)'
      BY <2>1, <2>2, <2>5, <2>6 DEF HistoryOf, IsActiveRow
    <2> QED BY <1>0, <2>1, <2>7, HistoryLocal
  <1> QED
    BY <1>2, <1>3, <1>4, <1>5, <1>6, <1>7, <1>8, <1>9, <1>10, <1>11, <1>12, <1>14, <1>15, <1>16
       DEF Next, Work

LEMMA HistoryAlways == RetireDiscipline /\ Spec => []HistoryInv
  <1>1. RetireDiscipline /\ HistoryInv /\ [Next]_vars => HistoryInv'
    BY HistoryStep
  <1>2. RetireDiscipline => [](RetireDiscipline)
    BY DEF RetireDiscipline
  <1> QED BY <1>1, <1>2, HistoryInit, PTL DEF Spec

\* The audit trail of every scope is one chain, crashes, lost replies, burned
\* identity values and retirements of other scopes included, when every operator
\* passes retire_other_scopes.
THEOREM LinearHistoryHolds == RetireDiscipline /\ Spec => []LinearHistory
  <1>1. HistoryInv => LinearHistory
    BY DEF HistoryInv, Linear, Linked, Earlier, LinearHistory
  <1> QED BY <1>1, HistoryAlways, PTL

\* A step that appends to the log starts from a log in which the requested
\* version is not the latest activation of its scope: a retry after a lost COMMIT
\* reply records nothing.
THEOREM RetryAppendsNothingHolds == RetireDiscipline /\ Spec => RetryAppendsNothing
  <1>1. ASSUME HistoryInv, [Next]_vars
        PROVE  [\A a \in Actors :
                  pc[a] = "commit" /\ log' # log /\ pc'[a] = "idle"
                    => \A e \in LatestOf(log, ScopeOf[req[a].run]) : ~ IsActiveRow(a, e)]_vars
    BY <1>1 DEF HistoryInv, HistoryOf, RequestedScope
  <1> QED BY <1>1, HistoryAlways, PTL DEF Spec, RetryAppendsNothing

\* Under one lock serving never falls back to nothing, whatever verification
\* contracts the materialized runs carry.
THEOREM NoServingGapUnderOneLock == RetireDiscipline /\ Spec => NoServingGap
  <1>1. ASSUME AuthorityInv, [Next]_vars
        PROVE  [ActiveForecastVersions(log) # {}
                  => ActiveForecastVersions(log') # {}]_vars
    <2>1. CASE log' = log
      BY <2>1 DEF ActiveForecastVersions
    <2>2. CASE log' # log
      <3>1. PICK a \in Actors : Commit(a)
        BY <1>1, <2>2, OnlyCommitWrites
      <3>2. pc[a] = "commit" /\ log' = Visible(a)
        BY <3>1 DEF Commit
      <3>3. PICK e \in pending[a] : InForce(log') = {e} /\ e.run \notin LegacyRuns
        BY <1>1, <3>2, CommitAlone
      <3>4. e \in ActiveForecastVersions(log')
        BY <3>3 DEF InForce, ActiveForecastVersions
      <3> QED BY <3>4
    <2> QED BY <2>1, <2>2
  <1>2. HistoryInv => AuthorityInv
    BY DEF HistoryInv
  <1> QED BY <1>1, <1>2, HistoryAlways, PTL DEF Spec, NoServingGap

-----------------------------------------------------------------------------
\* Clients are finitely many, and there are fewer permits than connections.
PermitsBelowPool ==
    /\ IsFiniteSet(Clients)
    /\ Permits < PoolSize

Holders == {r \in Clients : HoldsPermit(r)}

\* The permits alone bound the handlers that can hold or wait for connections.
PoolInv == PoolTypeOK /\ Cardinality(Holders) <= Permits

\* Type correctness: a handler is at one of the program points of its route,
\* and only a stores handler reaches the second connection.
THEOREM PoolTypeCorrect == PoolSpec => []PoolTypeOK
<1>1. PoolInit => PoolTypeOK
  BY DEF PoolInit, PoolTypeOK
<1>2. PoolTypeOK /\ [PoolNext]_poolVars => PoolTypeOK'
  <2> SUFFICES ASSUME PoolTypeOK, [PoolNext]_poolVars PROVE PoolTypeOK'
    OBVIOUS
  <2>1. ASSUME NEW r \in Clients, NEW k \in Routes, Arrive(r, k) PROVE PoolTypeOK'
    BY <2>1, RouteAssumption DEF PoolTypeOK, Arrive, Moves
  <2>2. ASSUME NEW r \in Clients, TakePermit(r) PROVE PoolTypeOK'
    BY <2>2 DEF PoolTypeOK, TakePermit, Moves
  <2>3. ASSUME NEW r \in Clients, Borrow(r) PROVE PoolTypeOK'
    BY <2>3 DEF PoolTypeOK, Borrow, Moves
  <2>4. ASSUME NEW r \in Clients, Revalidated(r) PROVE PoolTypeOK'
    BY <2>4 DEF PoolTypeOK, Revalidated, Moves
  <2>5. ASSUME NEW r \in Clients, ReadRows(r) PROVE PoolTypeOK'
    BY <2>5 DEF PoolTypeOK, ReadRows, AfterQuery, Moves
  <2>6. ASSUME NEW r \in Clients, ReadRisk(r) PROVE PoolTypeOK'
    BY <2>6 DEF PoolTypeOK, ReadRisk, Moves
  <2>7. ASSUME NEW r \in Clients, Cancel(r) \/ Answer(r) PROVE PoolTypeOK'
    BY <2>7 DEF PoolTypeOK, Cancel, Answer, Moves
  <2>8. CASE UNCHANGED poolVars
    BY <2>8 DEF PoolTypeOK, poolVars
  <2> QED
    BY <2>1, <2>2, <2>3, <2>4, <2>5, <2>6, <2>7, <2>8 DEF PoolNext
<1> QED
  BY <1>1, <1>2, PTL DEF PoolSpec

\* Only TakePermit adds a handler to those that hold a permit, and it adds one
\* where there was room for one.
LEMMA HoldersBounded ==
    ASSUME PermitsBelowPool, PoolInv, PoolTypeOK', [PoolNext]_poolVars
    PROVE  Cardinality(Holders)' <= Permits
<1>1. IsFiniteSet(Holders) /\ IsFiniteSet(Holders')
  BY FS_Subset DEF PermitsBelowPool, Holders
<1>2. Permits \in Nat /\ Cardinality(Holders) \in Nat
  BY <1>1, FS_CardinalityType, LimitAssumption
<1>3. ASSUME NEW r \in Clients, TakePermit(r)
      PROVE  Cardinality(Holders)' <= Permits
  <2>1. Holders' = Holders \cup {r}
    BY <1>3 DEF TakePermit, Moves, Holders, HoldsPermit, PoolInv, PoolTypeOK
  <2>2. r \notin Holders
    BY <1>3 DEF TakePermit, Moves, Holders, HoldsPermit
  <2>3. Cardinality(Holders \cup {r}) = Cardinality(Holders) + 1
    BY <2>2, <1>1, FS_AddElement
  <2>4. Cardinality(Holders) < Permits
    BY <1>3 DEF TakePermit, PermitFree, Holders
  <2> QED
    BY <2>1, <2>3, <2>4, <1>2
<1>4. ASSUME Holders' \subseteq Holders PROVE Cardinality(Holders)' <= Permits
  <2>1. Cardinality(Holders') <= Cardinality(Holders)
    BY <1>1, <1>4, FS_Subset
  <2>2. Cardinality(Holders') \in Nat
    BY <1>1, FS_CardinalityType
  <2> QED
    BY <2>1, <2>2, <1>2 DEF PoolInv
<1>5. ASSUME NEW r \in Clients, NEW k \in Routes, Arrive(r, k)
      PROVE  Holders' \subseteq Holders
  BY <1>5 DEF Arrive, Moves, Holders, HoldsPermit, PoolInv, PoolTypeOK
<1>6. ASSUME NEW r \in Clients, Borrow(r) PROVE Holders' \subseteq Holders
  BY <1>6 DEF Borrow, Moves, Holders, HoldsPermit, PoolInv, PoolTypeOK
<1>7. ASSUME NEW r \in Clients, Revalidated(r) PROVE Holders' \subseteq Holders
  BY <1>7 DEF Revalidated, Moves, Holders, HoldsPermit, PoolInv, PoolTypeOK
<1>8. ASSUME NEW r \in Clients, ReadRows(r) \/ ReadRisk(r)
      PROVE  Holders' \subseteq Holders
  BY <1>8 DEF ReadRows, ReadRisk, Moves, Holders, HoldsPermit, PoolInv, PoolTypeOK
<1>9. ASSUME NEW r \in Clients, Cancel(r) \/ Answer(r)
      PROVE  Holders' \subseteq Holders
  BY <1>9 DEF Cancel, Answer, Moves, Holders, HoldsPermit, PoolInv, PoolTypeOK
<1>10. CASE UNCHANGED poolVars
  BY <1>10, <1>4 DEF poolVars, Holders, HoldsPermit
<1> QED
  BY <1>3, <1>4, <1>5, <1>6, <1>7, <1>8, <1>9, <1>10 DEF PoolNext

\* When every handler with open rows waits for its second connection, there are
\* at most Permits of them and each holds one connection: one is free.
LEMMA StuckLeavesOneFree == PermitsBelowPool /\ PoolInv => PoolNeverStuck
<1> SUFFICES ASSUME PermitsBelowPool, PoolInv,
                    \A r \in Clients : HoldsRows(r) => handler[r] = "risk"
             PROVE  ConnectionFree
  BY DEF PoolNeverStuck
<1> DEFINE Rows == {r \in Clients : HoldsRows(r)}
<1>1. {r \in Clients : HoldsRisk(r)} = {}
  BY DEF HoldsRisk, HoldsRows
<1>2. Cardinality({r \in Clients : HoldsRisk(r)}) = 0
  BY <1>1, FS_EmptySet
<1>3. Rows \subseteq Holders /\ IsFiniteSet(Holders)
  BY FS_Subset DEF Holders, HoldsRows, HoldsPermit, PermitsBelowPool
<1>4. IsFiniteSet(Rows) /\ Cardinality(Rows) <= Cardinality(Holders)
  BY <1>3, FS_Subset
<1>5. Cardinality(Rows) \in Nat /\ Cardinality(Holders) \in Nat
  BY <1>3, <1>4, FS_CardinalityType
<1>6. InUse = Cardinality(Rows)
  BY <1>2, <1>5 DEF InUse
<1> QED
  BY <1>4, <1>5, <1>6, LimitAssumption
     DEF ConnectionFree, PoolInv, PermitsBelowPool

\* With fewer permits than connections the stores handlers cannot starve each
\* other of the second connection they ask for while their rows are open.
THEOREM PoolNeverStuckHolds ==
    ASSUME PermitsBelowPool PROVE PoolSpec => []PoolNeverStuck
<1>1. PoolInit => PoolInv
  <2> SUFFICES ASSUME PoolInit PROVE PoolInv
    OBVIOUS
  <2>1. PoolTypeOK
    BY DEF PoolInit, PoolTypeOK
  <2>2. Holders = {}
    BY DEF PoolInit, Holders, HoldsPermit
  <2> QED
    BY <2>1, <2>2, FS_EmptySet, LimitAssumption DEF PoolInv
<1>2. PoolInv /\ PoolTypeOK' /\ [PoolNext]_poolVars => PoolInv'
  BY HoldersBounded DEF PoolInv
<1>3. PoolInv => PoolNeverStuck
  BY StuckLeavesOneFree
<1> QED
  BY <1>1, <1>2, <1>3, PoolTypeCorrect, PTL DEF PoolSpec

-----------------------------------------------------------------------------
\* The clients and the operators are explored apart: a behaviour of the service
\* is one of each.
LEMMA ServiceIsBoth == ServiceSpec => Spec /\ PoolSpec
<1>1. ServiceInit => Init /\ PoolInit
  BY DEF ServiceInit
<1>2. [Activate \/ Serve]_<<vars, poolVars>> => [Next]_vars /\ [PoolNext]_poolVars
  BY DEF Activate, Serve
<1> QED
  BY <1>1, <1>2, PTL DEF ServiceSpec, Spec, PoolSpec

\* One authority over one history, and no handler that waits on another, of
\* the service as the run explores it.
THEOREM ServiceHolds ==
    ASSUME RetireDiscipline, PermitsBelowPool
    PROVE  ServiceSpec => /\ [](SingleAuthority /\ LinearHistory /\ PoolNeverStuck)
                          /\ RetryAppendsNothing
<1> QED
  BY ServiceIsBoth, SingleAuthorityHolds, LinearHistoryHolds, RetryAppendsNothingHolds,
     PoolNeverStuckHolds, PTL
=============================================================================
