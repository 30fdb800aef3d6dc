------------------------ MODULE InventoryService_proofs ------------------------
(***************************************************************************)
(* For any operators, bundles and forecasts: the activation history is one *)
(* sequence of decisions that ends at the pointer, a retry moves nothing,  *)
(* and loads and activations implement BundleAuthority.  For any inputs of *)
(* a plan: the tables that depend on a node's window agree on it, and the  *)
(* units that transfers and allocations promise exist and fit.  For any    *)
(* stores, sales and calendars: the replay without orders is exact but for *)
(* stale cells, and an accepted candidate loses less than the stores did.  *)
(*                                                                         *)
(* The invariant follows the one operator past the surface lock: what it   *)
(* has read is still what the pointer leads to, and its uncommitted rows   *)
(* extend the sequence by one decision.  That of the replayed days follows *)
(* the stock of every evening, which the snapshots tell.                   *)
(***************************************************************************)
EXTENDS InventoryService, SetLemmas, TLAPS

Holding == {"find", "current", "supersede", "insert", "assert", "commit"}
Deciding == {"supersede", "insert", "assert", "commit"}
Steps == {"idle"} \cup Loading \cup Activating

Types ==
    /\ pc \in [Actors -> Steps]
    /\ bundle \in [Actors -> Bundles \cup {NoBundle}]
    /\ current \in [Actors -> SUBSET Event] /\ pending \in [Actors -> SUBSET Event]
    /\ prior \in [Actors -> Nat]
    /\ log \in SUBSET Event /\ pointer \in Nat /\ nextId \in Nat \ {0}

\* Identities are drawn in order and never twice.
LogInv ==
    /\ \A e \in log : e.id < nextId
    /\ \A e, f \in log : e.id = f.id => e = f
    /\ log = {} => pointer = 0
    /\ HistoryIsOneSequence

\* The surface lock is held once.
Exclusive == \A a, b \in Actors : pc[a] \in Holding /\ pc[b] \in Holding => a = b

\* The end of the activation in force, drawn as prior[a], if there is one.
Retirement(a) ==
    {[id |-> prior[a], run |-> e.run, type |-> "superseded", prior |-> e.id] : e \in PointedTo}

PriorFollows(a) ==
    IF PointedTo = {} THEN prior[a] = 0 ELSE pointer < prior[a] /\ prior[a] < nextId

Decision(a, k) == [id |-> k, run |-> bundle[a], type |-> "active", prior |-> prior[a]]

\* How far the operator has come.
SessionInv(a) ==
    /\ pc[a] # "idle" => bundle[a] \in Bundles
    /\ pc[a] \notin {"insert", "assert", "commit"} => pending[a] = {} /\ prior[a] = 0
    /\ pc[a] \in {"current"} \cup Deciding => bundle[a] \in loaded
    /\ pc[a] \in Deciding => current[a] = PointedTo /\ \A e \in PointedTo : e.run # bundle[a]
    /\ pc[a] = "insert" => PriorFollows(a) /\ pending[a] = Retirement(a)
    /\ pc[a] \in {"assert", "commit"} =>
         /\ PriorFollows(a)
         /\ \E k \in Nat : /\ prior[a] < k /\ pointer < k /\ k < nextId
                           /\ pending[a] = Retirement(a) \cup {Decision(a, k)}

HistoryInv == Types /\ LogInv /\ Exclusive /\ \A a \in Actors : SessionInv(a)

\* The pointer leads to one event at most, and to one as soon as there are any.
LEMMA OnePointedTo ==
    ASSUME Types, LogInv
    PROVE  /\ log = {} => PointedTo = {}
           /\ log # {} => \E e \in log : /\ PointedTo = {e} /\ e.id = pointer
                                         /\ e.type = "active" /\ \A f \in log : f.id <= pointer
           /\ pointer < nextId
<1>1. log = {} => PointedTo = {} /\ pointer < nextId
  BY DEF PointedTo, Types, LogInv
<1>2. ASSUME log # {}
      PROVE  /\ \E e \in log : /\ PointedTo = {e} /\ e.id = pointer
                               /\ e.type = "active" /\ \A f \in log : f.id <= pointer
             /\ pointer < nextId
  <2>1. PICK e \in log : e.id = pointer /\ e.type = "active" /\ \A f \in log : f.id <= pointer
    BY <1>2 DEF LogInv, HistoryIsOneSequence
  <2>2. PointedTo = {e}
    BY <2>1 DEF PointedTo, LogInv
  <2> QED
    BY <2>1, <2>2 DEF LogInv
<1> QED
  BY <1>1, <1>2

\* An operator whose session does not move keeps its invariant while the log
\* stays, and also when the log moves if it does not hold the lock.
LEMMA SessionKept ==
    ASSUME NEW b \in Actors, Types, SessionInv(b), UNCHANGED <<log, pointer>>,
           nextId' \in Nat, nextId <= nextId', loaded \subseteq loaded',
           pc'[b] = pc[b], bundle'[b] = bundle[b], current'[b] = current[b],
           prior'[b] = prior[b], pending'[b] = pending[b]
    PROVE  SessionInv(b)'
<1>1. PointedTo' = PointedTo
  BY DEF PointedTo
<1>2. Retirement(b)' = Retirement(b) /\ \A k : Decision(b, k)' = Decision(b, k)
  BY <1>1 DEF Retirement, Decision
<1>3. PriorFollows(b) => PriorFollows(b)'
  BY <1>1 DEF PriorFollows, Types
<1>4. \A k \in Nat : k < nextId => k < nextId'
  BY DEF Types
<1> QED
  BY <1>1, <1>2, <1>3, <1>4 DEF SessionInv

LEMMA WaitingSessionKept ==
    ASSUME NEW b \in Actors, SessionInv(b), pc[b] \notin Holding,
           pc'[b] = pc[b], bundle'[b] = bundle[b],
           prior'[b] = prior[b], pending'[b] = pending[b]
    PROVE  SessionInv(b)'
  BY DEF SessionInv, Holding, Deciding

LEMMA HistoryInit == Init => HistoryInv
<1> SUFFICES ASSUME Init PROVE HistoryInv
  OBVIOUS
<1>1. Types
  BY DEF Init, Types, Steps
<1>2. LogInv
  BY DEF Init, LogInv, HistoryIsOneSequence
<1>3. Exclusive /\ \A a \in Actors : SessionInv(a)
  BY DEF Init, Exclusive, SessionInv, Holding, Deciding
<1> QED
  BY <1>1, <1>2, <1>3 DEF HistoryInv

\* Steps that leave the history alone and change one operator, who does not
\* come to hold the lock: loads, refusals, rollbacks, calls.
LEMMA QuietStep ==
    ASSUME HistoryInv, NEW a \in Actors, UNCHANGED <<log, pointer>>,
           nextId' \in Nat \ {0}, nextId <= nextId', loaded \subseteq loaded', Types',
           \A b \in Actors \ {a} : /\ pc'[b] = pc[b] /\ bundle'[b] = bundle[b]
                                   /\ current'[b] = current[b] /\ prior'[b] = prior[b]
                                   /\ pending'[b] = pending[b],
           pc'[a] \in Holding => pc[a] \in Holding \/ \A b \in Actors \ {a} : pc[b] \notin Holding,
           SessionInv(a)'
    PROVE  HistoryInv'
<1>1. \A b \in Actors \ {a} : SessionInv(b)'
  BY SessionKept DEF HistoryInv, Types
<1>2. Exclusive'
  BY DEF HistoryInv, Exclusive
<1>3. LogInv'
  <2>1. HistoryIsOneSequence'
    BY DEF HistoryInv, LogInv, HistoryIsOneSequence
  <2>2. \A e \in log : e.id < nextId'
    BY DEF HistoryInv, LogInv, Types, Event
  <2> QED
    BY <2>1, <2>2 DEF HistoryInv, LogInv
<1> QED
  BY <1>1, <1>2, <1>3 DEF HistoryInv

\* What ending a transaction does to the sessions.
LEMMA SessionEnds ==
    ASSUME HistoryInv, NEW a \in Actors, NEW r, EndTransaction(a, r)
    PROVE  /\ pc' \in [Actors -> Steps] /\ bundle' \in [Actors -> Bundles \cup {NoBundle}]
           /\ current' \in [Actors -> SUBSET Event] /\ pending' \in [Actors -> SUBSET Event]
           /\ prior' \in [Actors -> Nat] /\ nextId' = nextId
           /\ pc'[a] = "idle" /\ SessionInv(a)'
           /\ \A b \in Actors \ {a} : /\ pc'[b] = pc[b] /\ bundle'[b] = bundle[b]
                                      /\ current'[b] = current[b] /\ prior'[b] = prior[b]
                                      /\ pending'[b] = pending[b]
<1> USE DEF HistoryInv, Types
<1>1. /\ pc' = [pc EXCEPT ![a] = "idle"] /\ bundle' = [bundle EXCEPT ![a] = NoBundle]
      /\ current' = [current EXCEPT ![a] = {}] /\ prior' = [prior EXCEPT ![a] = 0]
      /\ pending' = [pending EXCEPT ![a] = {}] /\ nextId' = nextId
  BY DEF EndTransaction
<1>2. /\ pc'[a] = "idle" /\ prior'[a] = 0 /\ pending'[a] = {}
  BY <1>1
<1>3. SessionInv(a)'
  BY <1>2 DEF SessionInv, Deciding
<1>4. pc' \in [Actors -> Steps]
  BY <1>1 DEF Steps
<1> QED
  BY <1>1, <1>2, <1>3, <1>4

\* A transaction that ends without its COMMIT leaves the history as it was.
LEMMA EndedQuietly ==
    ASSUME HistoryInv, NEW a \in Actors, NEW r, EndTransaction(a, r),
           UNCHANGED <<log, pointer>>, loaded \subseteq loaded'
    PROVE  HistoryInv'
<1>1. Types' /\ nextId' = nextId /\ nextId \in Nat \ {0}
  BY SessionEnds DEF HistoryInv, Types
<1>2. pc'[a] \notin Holding
  BY SessionEnds DEF Holding
<1> QED
  BY <1>1, <1>2, SessionEnds, QuietStep

\* A statement of one operator that only moves on.
LEMMA MovesOn ==
    ASSUME HistoryInv, NEW a \in Actors, NEW to \in Steps, pc' = [pc EXCEPT ![a] = to],
           UNCHANGED <<loaded, log, pointer, nextId, bundle, current, prior, pending>>
    PROVE  /\ Types' /\ pc'[a] = to /\ SessionInv(a)
           /\ nextId \in Nat \ {0} /\ PointedTo' = PointedTo /\ Retirement(a)' = Retirement(a)
           /\ PriorFollows(a)' = PriorFollows(a) /\ \A k : Decision(a, k)' = Decision(a, k)
           /\ \A b \in Actors \ {a} : /\ pc'[b] = pc[b] /\ bundle'[b] = bundle[b]
                                      /\ current'[b] = current[b] /\ prior'[b] = prior[b]
                                      /\ pending'[b] = pending[b]
<1>1. PointedTo' = PointedTo
  BY DEF PointedTo
<1>2. Retirement(a)' = Retirement(a) /\ PriorFollows(a)' = PriorFollows(a)
      /\ \A k : Decision(a, k)' = Decision(a, k)
  BY <1>1 DEF Retirement, PriorFollows, Decision
<1> QED
  BY <1>1, <1>2 DEF HistoryInv, Types

LEMMA MovedOn ==
    ASSUME HistoryInv, NEW a \in Actors, NEW to \in Steps, pc' = [pc EXCEPT ![a] = to],
           UNCHANGED <<loaded, log, pointer, nextId, bundle, current, prior, pending>>,
           pc[a] \in Holding \/ to \notin Holding, SessionInv(a)'
    PROVE  HistoryInv'
<1>1. /\ Types' /\ pc'[a] = to
      /\ \A b \in Actors \ {a} : /\ pc'[b] = pc[b] /\ bundle'[b] = bundle[b]
                                 /\ current'[b] = current[b] /\ prior'[b] = prior[b]
                                 /\ pending'[b] = pending[b]
  BY MovesOn
<1>2. nextId \in Nat \ {0} /\ nextId <= nextId' /\ loaded \subseteq loaded'
  BY DEF HistoryInv, Types
<1> QED
  BY <1>1, <1>2, QuietStep

LEMMA HoldersAlone ==
    ASSUME HistoryInv, NEW a \in Actors, LockFree(a), pc[a] = "lock"
    PROVE  \A b \in Actors : pc[b] \notin Holding
  BY DEF LockFree, InTransaction, SameLock, Holding, Activating

\* The statements of materialize_inventory_run.
LEMMA LoadingStep ==
    ASSUME HistoryInv, NEW a \in Actors,
           \/ ReturnExisting(a) \/ FindNoExisting(a) \/ LoadRows(a)
           \/ RefuseStaleForecast(a) \/ CommitLoad(a)
    PROVE  HistoryInv'
<1>1. CASE ReturnExisting(a)
  BY <1>1, EndedQuietly DEF ReturnExisting
<1>2. CASE RefuseStaleForecast(a)
  BY <1>2, EndedQuietly DEF RefuseStaleForecast, Rollback
<1>3. CASE CommitLoad(a)
  BY <1>3, EndedQuietly DEF CommitLoad
<1>4. CASE FindNoExisting(a) \/ LoadRows(a)
  <2>1. PICK to \in {"load_forecast", "load_commit"} : pc' = [pc EXCEPT ![a] = to]
    BY <1>4 DEF FindNoExisting, LoadRows, Goto
  <2>2. /\ UNCHANGED <<loaded, log, pointer, nextId, bundle, current, prior, pending>>
        /\ pc[a] \in Loading /\ to \in Steps
    BY <1>4, <2>1 DEF FindNoExisting, LoadRows, Goto, Loading, Steps
  <2>3. SessionInv(a)' /\ pc'[a] \notin Holding
    BY <2>1, <2>2, MovesOn DEF SessionInv, Loading, Holding, Deciding
  <2> QED
    BY <2>1, <2>2, <2>3, MovedOn, MovesOn
<1> QED
  BY <1>1, <1>2, <1>3, <1>4

\* The statements of activate_inventory_version before its COMMIT.
LEMMA ActivatingStep ==
    ASSUME HistoryInv, NEW a \in Actors,
           \/ FindVersion(a) \/ RefuseUnmaterialized(a) \/ ReturnAlreadyActive(a)
           \/ ReadCurrent(a) \/ SupersedeCurrent(a) \/ FirstActivation(a)
           \/ InsertActivation(a) \/ AssertOneActive(a) \/ RefuseUnservable(a)
    PROVE  HistoryInv'
<1> USE DEF Holding, Deciding
<1>0. /\ Types /\ LogInv /\ SessionInv(a) /\ nextId \in Nat \ {0}
      /\ pointer \in Nat /\ pointer < nextId /\ prior[a] \in Nat
  BY OnePointedTo DEF HistoryInv, Types
<1>1. CASE RefuseUnmaterialized(a) \/ ReturnAlreadyActive(a) \/ RefuseUnservable(a)
  BY <1>1, EndedQuietly DEF RefuseUnmaterialized, ReturnAlreadyActive, RefuseUnservable, Rollback
<1>2. CASE FindVersion(a)
  <2>1. /\ pc' = [pc EXCEPT ![a] = "current"] /\ pc[a] = "find" /\ bundle[a] \in loaded
        /\ UNCHANGED <<loaded, log, pointer, nextId, bundle, current, prior, pending>>
    BY <1>2 DEF FindVersion, Goto
  <2>2. pc'[a] = "current" /\ "current" \in Steps
    BY <2>1, <1>0 DEF Types, Steps, Activating
  <2>3. SessionInv(a)'
    BY <2>1, <2>2, <1>0 DEF SessionInv
  <2> QED
    BY <2>1, <2>2, <2>3, MovedOn
<1>3. CASE ReadCurrent(a)
  <2>1. /\ pc' = [pc EXCEPT ![a] = "supersede"] /\ pc[a] = "current"
        /\ current' = [current EXCEPT ![a] = PointedTo]
        /\ \A e \in PointedTo : e.run # bundle[a]
        /\ UNCHANGED <<loaded, log, pointer, nextId, bundle, prior, pending>>
    BY <1>3 DEF ReadCurrent, Goto
  <2>2. PointedTo \subseteq Event /\ PointedTo' = PointedTo
    BY <2>1, <1>0 DEF PointedTo, Types
  <2>3. Types'
    BY <2>1, <2>2, <1>0 DEF Types, Steps, Activating
  <2>4. pc'[a] = "supersede" /\ current'[a] = PointedTo'
    BY <2>1, <2>2, <1>0 DEF Types
  <2>5. SessionInv(a)'
    BY <2>1, <2>2, <2>4, <1>0 DEF SessionInv
  <2>6. \A b \in Actors \ {a} : pc'[b] = pc[b] /\ current'[b] = current[b]
    BY <2>1, <1>0 DEF Types
  <2> QED
    BY <2>1, <2>3, <2>5, <2>6, <1>0, QuietStep
<1>4. CASE FirstActivation(a)
  <2>1. /\ pc' = [pc EXCEPT ![a] = "insert"] /\ pc[a] = "supersede" /\ current[a] = {}
        /\ UNCHANGED <<loaded, log, pointer, nextId, bundle, current, prior, pending>>
    BY <1>4 DEF FirstActivation, Goto
  <2>2. PointedTo = {} /\ prior[a] = 0 /\ pending[a] = {}
    BY <2>1, <1>0 DEF SessionInv
  <2>3. PriorFollows(a) /\ pending[a] = Retirement(a)
    BY <2>2 DEF PriorFollows, Retirement
  <2>4. /\ pc'[a] = "insert" /\ "insert" \in Steps /\ PointedTo' = PointedTo
        /\ PriorFollows(a)' /\ pending'[a] = Retirement(a)'
    BY <2>1, <2>3, <1>0 DEF Types, Steps, Activating, PointedTo, PriorFollows, Retirement
  <2>5. SessionInv(a)'
    BY <2>1, <2>4, <1>0 DEF SessionInv
  <2> QED
    BY <2>1, <2>4, <2>5, MovedOn
<1>5. CASE SupersedeCurrent(a)
  <2>1. /\ pc' = [pc EXCEPT ![a] = "insert"] /\ pc[a] = "supersede" /\ current[a] # {}
        /\ pending' = [pending EXCEPT ![a] = @ \cup Supersession(a)] /\ nextId' = nextId + 1
        /\ prior' = [prior EXCEPT ![a] = nextId]
        /\ UNCHANGED <<loaded, log, pointer, bundle, current>>
    BY <1>5 DEF SupersedeCurrent, Goto, Insert
  <2>2. /\ PointedTo # {} /\ current[a] = PointedTo /\ pending[a] = {} /\ PointedTo \subseteq Event
        /\ PointedTo' = PointedTo
    BY <2>1, <1>0 DEF SessionInv, PointedTo, Types
  <2>3. prior'[a] = nextId /\ pending'[a] = Supersession(a) /\ pc'[a] = "insert"
    BY <2>1, <2>2, <1>0 DEF Types
  <2>4. Retirement(a)' = Supersession(a)
    BY <2>2, <2>3 DEF Retirement, Supersession
  <2>5. PriorFollows(a)'
    BY <2>1, <2>2, <2>3, <1>0 DEF PriorFollows
  <2>6. Supersession(a) \subseteq Event
    BY <2>2, <1>0 DEF Supersession, Event
  <2>7. Types'
    BY <2>1, <2>6, <1>0 DEF Types, Steps, Activating
  <2>8. SessionInv(a)'
    BY <2>1, <2>2, <2>3, <2>4, <2>5, <1>0 DEF SessionInv
  <2>9. \A b \in Actors \ {a} : pc'[b] = pc[b] /\ prior'[b] = prior[b] /\ pending'[b] = pending[b]
    BY <2>1, <1>0 DEF Types
  <2> QED
    BY <2>1, <2>7, <2>8, <2>9, <1>0, QuietStep
<1>6. CASE InsertActivation(a)
  <2>1. /\ pc' = [pc EXCEPT ![a] = "assert"] /\ pc[a] = "insert" /\ nextId' = nextId + 1
        /\ pending' = [pending EXCEPT ![a] = @ \cup {Decision(a, nextId)}]
        /\ UNCHANGED <<loaded, log, pointer, bundle, current, prior>>
    BY <1>6 DEF InsertActivation, Goto, Insert, Decision
  <2>2. /\ PriorFollows(a) /\ pending[a] = Retirement(a) /\ bundle[a] \in Bundles
        /\ PointedTo' = PointedTo
    BY <2>1, <1>0 DEF SessionInv, PointedTo
  <2>3. prior[a] < nextId /\ PriorFollows(a)'
    BY <2>1, <2>2, <1>0 DEF PriorFollows
  <2>4. /\ pc'[a] = "assert" /\ pending'[a] = Retirement(a) \cup {Decision(a, nextId)}
        /\ Retirement(a)' = Retirement(a) /\ Decision(a, nextId)' = Decision(a, nextId')
        /\ \A k : Decision(a, k)' = Decision(a, k)
    BY <2>1, <2>2, <1>0 DEF Types, Retirement, Decision
  <2>5. Decision(a, nextId) \in Event
    BY <2>2, <1>0 DEF Decision, Event
  <2>6. Types'
    BY <2>1, <2>5, <1>0 DEF Types, Steps, Activating
  <2>7. \E k \in Nat : /\ prior'[a] < k /\ pointer' < k /\ k < nextId'
                       /\ pending'[a] = Retirement(a)' \cup {Decision(a, k)'}
    BY <2>1, <2>3, <2>4, <1>0
  <2>8. SessionInv(a)'
    BY <2>1, <2>2, <2>3, <2>4, <2>7, <1>0 DEF SessionInv
  <2>9. \A b \in Actors \ {a} : pc'[b] = pc[b] /\ pending'[b] = pending[b]
    BY <2>1, <1>0 DEF Types
  <2> QED
    BY <2>1, <2>6, <2>8, <2>9, <1>0, QuietStep
<1>7. CASE AssertOneActive(a)
  <2>1. /\ pc' = [pc EXCEPT ![a] = "commit"] /\ pc[a] = "assert"
        /\ UNCHANGED <<loaded, log, pointer, nextId, bundle, current, prior, pending>>
    BY <1>7 DEF AssertOneActive, Goto
  <2>2. SessionInv(a)'
    BY <2>1, <1>0, MovesOn DEF SessionInv, Steps, Activating
  <2>3. "commit" \in Steps
    BY DEF Steps, Activating
  <2> QED
    BY <2>1, <2>2, <2>3, MovedOn
<1> QED
  BY <1>1, <1>2, <1>3, <1>4, <1>5, <1>6, <1>7

\* What the COMMIT of an activation adds: the end of the activation in force,
\* if there is one, and after it the decision the pointer moves to.
LEMMA CommitAdds ==
    ASSUME HistoryInv, NEW a \in Actors, pc[a] = "commit", pointer' = OwnPointer(a),
           log' = log \cup pending[a]
    PROVE  /\ bundle[a] \in Bundles /\ bundle[a] \in loaded
           /\ \A e \in PointedTo : e.run # bundle[a]
           /\ PriorFollows(a)
           /\ pointer' \in Nat /\ prior[a] < pointer' /\ pointer < pointer' /\ pointer' < nextId
           /\ log' = log \cup Retirement(a) \cup {Decision(a, pointer')}
<1>1. /\ bundle[a] \in Bundles /\ bundle[a] \in loaded /\ PriorFollows(a)
      /\ \A e \in PointedTo : e.run # bundle[a]
  BY DEF HistoryInv, SessionInv, Deciding
<1>2. PICK k \in Nat : /\ prior[a] < k /\ pointer < k /\ k < nextId
                       /\ pending[a] = Retirement(a) \cup {Decision(a, k)}
  BY DEF HistoryInv, SessionInv
<1>3. {f \in pending[a] : f.type = "active"} = {Decision(a, k)}
  BY <1>2 DEF Retirement, Decision
<1>4. {e.id : e \in {f \in pending[a] : f.type = "active"}} = {k}
  <2>1. Decision(a, k).id = k
    BY DEF Decision
  <2>2. \A x : {e.id : e \in {x}} = {x.id}
    OBVIOUS
  <2> QED
    BY <1>3, <2>1, <2>2
<1>5. OwnPointer(a) = k
  BY <1>4 DEF OwnPointer
<1> QED
  BY <1>1, <1>2, <1>5

\* The sequence is extended by one decision.
LEMMA SequenceGrows ==
    ASSUME HistoryInv, NEW a \in Actors, pc[a] = "commit", pointer' = OwnPointer(a),
           log' = log \cup pending[a], nextId' = nextId
    PROVE  LogInv'
<1> DEFINE d == Decision(a, pointer')
<1>1. /\ bundle[a] \in Bundles /\ PriorFollows(a)
      /\ pointer' \in Nat /\ prior[a] < pointer' /\ pointer < pointer' /\ pointer' < nextId
      /\ log' = log \cup Retirement(a) \cup {d}
  BY CommitAdds
<1>2. /\ Types /\ LogInv /\ nextId \in Nat /\ pointer \in Nat /\ prior[a] \in Nat
      /\ \A e \in log : e \in Event /\ e.id \in Nat /\ e.prior \in Nat
  BY DEF HistoryInv, Types, Event
<1>3. d.id = pointer' /\ d.type = "active" /\ d.prior = prior[a] /\ d \in log'
  BY <1>1 DEF Decision
<1> HIDE DEF d
<1>4. CASE log = {}
  <2>1. PointedTo = {} /\ Retirement(a) = {} /\ prior[a] = 0
    BY <1>1, <1>2, <1>4, OnePointedTo DEF Retirement, PriorFollows
  <2>2. log' = {d}
    BY <1>1, <1>4, <2>1
  <2>3. \A e \in log' : {f.id : f \in {g \in log' : g.id < e.id}} = {}
    BY <1>1, <1>3, <2>2
  <2>4. HistoryIsOneSequence'
    BY <1>1, <1>3, <2>1, <2>2, <2>3 DEF HistoryIsOneSequence
  <2> QED
    BY <1>1, <1>3, <2>2, <2>4 DEF LogInv
<1>5. CASE log # {}
  <2>1. PICK p \in log : /\ PointedTo = {p} /\ p.id = pointer /\ p.type = "active"
                         /\ \A f \in log : f.id <= pointer
    BY <1>2, <1>5, OnePointedTo
  <2> DEFINE t == [id |-> prior[a], run |-> p.run, type |-> "superseded", prior |-> p.id]
  <2>2. Retirement(a) = {t} /\ pointer < prior[a] /\ prior[a] < nextId
    BY <1>1, <2>1 DEF Retirement, PriorFollows
  <2>3. t.id = prior[a] /\ t.type = "superseded" /\ t.prior = pointer /\ t.run = p.run
    BY <2>1
  <2> HIDE DEF t
  <2>4. log' = log \cup {t, d}
    BY <1>1, <2>2
  <2>5. \A e \in log : {f.id : f \in {g \in log' : g.id < e.id}}
                         = {f.id : f \in {g \in log : g.id < e.id}}
    BY <1>1, <1>2, <1>3, <2>1, <2>2, <2>3, <2>4
  <2>6. {g \in log' : g.id < t.id} = log
    BY <1>1, <1>2, <1>3, <2>1, <2>2, <2>3, <2>4
  <2>7. {g \in log' : g.id < d.id} = log \cup {t}
    BY <1>1, <1>2, <1>3, <2>1, <2>2, <2>3, <2>4
  <2>8. ASSUME NEW e \in log'
        PROVE LET earlier == {f.id : f \in {g \in log' : g.id < e.id}}
              IN  /\ earlier = {} => e.prior = 0 /\ e.type = "active"
                  /\ earlier # {} => e.prior \in earlier /\ \A i \in earlier : i <= e.prior
                  /\ e.type = "superseded" =>
                       \E f \in log' : f.id = e.prior /\ f.type = "active" /\ f.run = e.run
    <3>1. CASE e \in log
      BY <3>1, <1>2, <2>4, <2>5 DEF LogInv, HistoryIsOneSequence
    <3>2. CASE e = t
      BY <3>2, <2>1, <2>3, <2>4, <2>6
    <3>3. CASE e = d
      <4>1. {f.id : f \in {g \in log' : g.id < e.id}} = {f.id : f \in log} \cup {prior[a]}
        BY <3>3, <2>3, <2>7
      <4> QED
        BY <3>3, <4>1, <1>2, <1>3, <2>1, <2>2
    <3> QED
      BY <3>1, <3>2, <3>3, <2>4
  <2>9. ASSUME NEW e \in log', e.type = "active", e.id # pointer'
        PROVE  \E f \in log' : f.type = "superseded" /\ f.prior = e.id
    <3>1. e \in log
      BY <2>9, <1>3, <2>3, <2>4
    <3>2. CASE e.id = pointer
      BY <3>2, <2>3, <2>4
    <3>3. CASE e.id # pointer
      BY <3>1, <3>3, <2>9, <1>2, <2>4 DEF LogInv, HistoryIsOneSequence
    <3> QED
      BY <3>2, <3>3
  <2>10. \A f \in log' : f.id <= pointer'
    BY <1>1, <1>2, <1>3, <2>1, <2>2, <2>3, <2>4
  <2>11. HistoryIsOneSequence'
    BY <1>3, <2>8, <2>9, <2>10 DEF HistoryIsOneSequence
  <2>12. \A e, f \in log' : e.id = f.id => e = f
    BY <1>1, <1>2, <1>3, <2>1, <2>2, <2>3, <2>4 DEF LogInv
  <2>13. \A e \in log' : e.id < nextId
    BY <1>1, <1>2, <1>3, <2>2, <2>3, <2>4 DEF LogInv
  <2> QED
    BY <2>4, <2>11, <2>12, <2>13 DEF LogInv
<1> QED
  BY <1>4, <1>5

LEMMA CommitStep ==
    ASSUME HistoryInv, NEW a \in Actors, Commit(a)
    PROVE  HistoryInv'
<1>1. PICK r : EndTransaction(a, r)
  BY DEF Commit
<1>2. /\ pc[a] = "commit" /\ log' = log \cup pending[a] /\ pointer' = OwnPointer(a)
      /\ loaded' = loaded /\ nextId' = nextId
  BY <1>1, SessionEnds DEF Commit
<1>3. LogInv'
  BY <1>2, SequenceGrows
<1>4. Types'
  <2>1. pointer' \in Nat
    BY <1>2, CommitAdds
  <2>2. log' \in SUBSET Event
    BY <1>2 DEF HistoryInv, Types
  <2> QED
    BY <1>1, <1>2, <2>1, <2>2, SessionEnds DEF HistoryInv, Types
<1>5. \A b \in Actors \ {a} : pc[b] \notin Holding
  BY <1>2 DEF HistoryInv, Exclusive, Holding
<1>6. /\ pc'[a] = "idle" /\ SessionInv(a)'
      /\ \A b \in Actors \ {a} : /\ pc'[b] = pc[b] /\ bundle'[b] = bundle[b]
                                 /\ prior'[b] = prior[b] /\ pending'[b] = pending[b]
  BY <1>1, SessionEnds
<1>7. \A b \in Actors : SessionInv(b)'
  BY <1>5, <1>6, WaitingSessionKept DEF HistoryInv
<1>8. Exclusive'
  BY <1>5, <1>6 DEF Exclusive, Holding
<1> QED
  BY <1>3, <1>4, <1>7, <1>8 DEF HistoryInv

\* Calls, the lock, and the forecast side.
LEMMA BeginStep ==
    ASSUME HistoryInv, NEW a \in Actors, NEW b \in Bundles, NEW first \in {"lock", "load_lock"},
           Begin(a, b, first)
    PROVE  HistoryInv'
<1> USE DEF HistoryInv, Types
<1>1. /\ pc[a] = "idle" /\ pc' = [pc EXCEPT ![a] = first] /\ bundle' = [bundle EXCEPT ![a] = b]
      /\ UNCHANGED <<loaded, log, pointer, nextId, current, prior, pending>>
  BY DEF Begin, Goto
<1>2. first \in Steps
  BY DEF Steps, Loading, Activating
<1>3. Types'
  BY <1>1, <1>2
<1>4. pc'[a] = first /\ bundle'[a] = b /\ SessionInv(a)
  BY <1>1
<1>5. SessionInv(a)' /\ pc'[a] \notin Holding
  BY <1>1, <1>4 DEF SessionInv, Deciding, Holding
<1>6. \A c \in Actors \ {a} : pc'[c] = pc[c] /\ bundle'[c] = bundle[c]
  BY <1>1
<1>7. nextId \in Nat \ {0} /\ nextId <= nextId'
  BY <1>1
<1> QED
  BY <1>1, <1>3, <1>5, <1>6, <1>7, QuietStep

LEMMA LockStep ==
    ASSUME HistoryInv, NEW a \in Actors, AcquireLock(a)
    PROVE  HistoryInv'
<1> USE DEF Holding, Deciding, Steps, Loading, Activating
<1>1. PICK to \in {"find", "load_existing"} :
        /\ pc[a] = (IF to = "find" THEN "lock" ELSE "load_lock")
        /\ pc' = [pc EXCEPT ![a] = to] /\ LockFree(a)
        /\ UNCHANGED <<loaded, log, pointer, nextId, bundle, current, prior, pending>>
  BY DEF AcquireLock, Goto
<1>2. to \in Steps
  OBVIOUS
<1>3. Types' /\ pc'[a] = to /\ SessionInv(a) /\ nextId \in Nat \ {0}
  BY <1>1, <1>2, MovesOn
<1>4. SessionInv(a)'
  BY <1>1, <1>3 DEF SessionInv
<1>5. pc'[a] \in Holding => \A b \in Actors \ {a} : pc[b] \notin Holding
  BY <1>1, <1>3, HoldersAlone
<1>6. nextId <= nextId'
  BY <1>1 DEF HistoryInv, Types
<1>7. \A b \in Actors \ {a} : pc'[b] = pc[b]
  BY <1>1 DEF HistoryInv, Types
<1> QED
  BY <1>1, <1>3, <1>4, <1>5, <1>6, <1>7, QuietStep

LEMMA IdleStep ==
    ASSUME HistoryInv, UNCHANGED <<loaded, log, pointer, nextId, sessionVars>>
    PROVE  HistoryInv'
<1>1. UNCHANGED <<pc, bundle, current, prior, pending>>
  BY DEF sessionVars
<1>2. Types' /\ LogInv' /\ Exclusive'
  BY <1>1 DEF HistoryInv, Types, LogInv, HistoryIsOneSequence, Exclusive
<1>3. \A a \in Actors : SessionInv(a)'
  BY <1>1, SessionKept DEF HistoryInv, Types
<1> QED
  BY <1>2, <1>3 DEF HistoryInv

LEMMA HistoryStep == HistoryInv /\ [Next]_vars => HistoryInv'
<1> SUFFICES ASSUME HistoryInv, [Next]_vars PROVE HistoryInv'
  OBVIOUS
<1>1. CASE UNCHANGED vars
  BY <1>1, IdleStep DEF vars
<1>2. ASSUME NEW v \in Versions, MaterializeForecast(v) \/ SwitchForecast(v) PROVE HistoryInv'
  BY <1>2, IdleStep DEF MaterializeForecast, SwitchForecast
<1>3. ASSUME NEW a \in Actors, Work(a) PROVE HistoryInv'
  BY <1>3, LoadingStep, ActivatingStep, CommitStep DEF Work
<1>4. ASSUME NEW a \in Actors, Crash(a) PROVE HistoryInv'
  BY <1>4, EndedQuietly DEF Crash, Rollback
<1> QED
  BY <1>1, <1>2, <1>3, <1>4, BeginStep, LockStep DEF Next

\* The activation history is one sequence of decisions that ends at the
\* pointer, whatever operators race, crash or lose replies and however the
\* forecast authority moves meanwhile.
THEOREM HistoryIsOneSequenceHolds == Spec => []HistoryIsOneSequence
<1>1. HistoryInv => HistoryIsOneSequence
  BY DEF HistoryInv, LogInv
<1> QED
  BY <1>1, HistoryInit, HistoryStep, PTL DEF Spec

\* The one event the pointer leads to decides what is chosen.
LEMMA Chosen ==
    ASSUME NEW e, PointedTo = {e}
    PROVE  (IF PointedTo = {} THEN NoBundle ELSE (CHOOSE f \in PointedTo : TRUE).run) = e.run
<1>1. (CHOOSE f \in PointedTo : TRUE) = e
  OBVIOUS
<1> QED
  BY <1>1

\* After a COMMIT the pointer leads to its decision, which is for a bundle that
\* was not chosen before.
LEMMA CommitChooses ==
    ASSUME HistoryInv, NEW a \in Actors, Commit(a)
    PROVE  /\ PointedTo' = {Decision(a, pointer')}
           /\ bundle[a] \in Bundles /\ bundle[a] \in loaded /\ Decision(a, pointer').run = bundle[a]
           /\ \A e \in PointedTo : e.run # bundle[a]
<1>1. PICK r : EndTransaction(a, r)
  BY DEF Commit
<1>2. /\ pc[a] = "commit" /\ log' = log \cup pending[a] /\ pointer' = OwnPointer(a)
  BY DEF Commit
<1>3. /\ bundle[a] \in Bundles /\ bundle[a] \in loaded /\ \A e \in PointedTo : e.run # bundle[a]
      /\ log' = log \cup Retirement(a) \cup {Decision(a, pointer')}
  BY <1>2, CommitAdds
<1>4. HistoryInv'
  BY CommitStep
<1>5. Decision(a, pointer').id = pointer' /\ Decision(a, pointer').run = bundle[a]
  BY DEF Decision
<1>6. PointedTo' = {Decision(a, pointer')}
  BY <1>3, <1>4, <1>5 DEF HistoryInv, LogInv, PointedTo
<1> QED
  BY <1>3, <1>5, <1>6

\* A step that is no COMMIT of an activation leaves pointer and log alone.
LEMMA OnlyCommitDecides ==
    ASSUME [Next]_vars
    PROVE  (\E a \in Actors : Commit(a)) \/ UNCHANGED <<log, pointer>>
<1>1. ASSUME NEW a \in Actors, Work(a) PROVE Commit(a) \/ UNCHANGED <<log, pointer>>
  BY <1>1 DEF Work, ReturnExisting, FindNoExisting, LoadRows, RefuseStaleForecast, CommitLoad,
       FindVersion, RefuseUnmaterialized, ReturnAlreadyActive, ReadCurrent, SupersedeCurrent,
       FirstActivation, InsertActivation, AssertOneActive, RefuseUnservable, Rollback
<1> QED
  BY <1>1 DEF Next, MaterializeForecast, SwitchForecast, Begin, AcquireLock, Crash, Rollback, vars

\* Only CommitLoad makes a bundle loaded.
LEMMA OnlyLoadLoads ==
    ASSUME [Next]_vars
    PROVE  loaded' = loaded \/ \E a \in Actors : pc[a] = "load_commit" /\ loaded' = loaded \cup {bundle[a]}
<1>1. ASSUME NEW a \in Actors, Work(a) PROVE loaded' = loaded \/ CommitLoad(a)
  BY <1>1 DEF Work, ReturnExisting, FindNoExisting, LoadRows, RefuseStaleForecast,
       FindVersion, RefuseUnmaterialized, ReturnAlreadyActive, ReadCurrent, SupersedeCurrent,
       FirstActivation, InsertActivation, AssertOneActive, RefuseUnservable, Rollback, Commit
<1> QED
  BY <1>1 DEF CommitLoad, Next, MaterializeForecast, SwitchForecast, Begin, AcquireLock, Crash,
       Rollback, vars

\* A repeated call, also one retried after a lost COMMIT reply, moves nothing.
THEOREM RetryMovesNothingHolds == Spec => RetryMovesNothing
<1>1. ASSUME HistoryInv, [Next]_vars
      PROVE  [pointer' # pointer
               => {e.run : e \in PointedTo} \cap {e.run : e \in PointedTo'} = {}]_vars
  <2> SUFFICES ASSUME pointer' # pointer
               PROVE  {e.run : e \in PointedTo} \cap {e.run : e \in PointedTo'} = {}
    OBVIOUS
  <2>1. PICK a \in Actors : Commit(a)
    BY <1>1, OnlyCommitDecides
  <2> QED
    BY <1>1, <2>1, CommitChooses
<1> QED
  BY <1>1, HistoryInit, HistoryStep, PTL DEF Spec, RetryMovesNothing

\* Loads and activations implement one atomic load or choice at a time.
THEOREM ImplementsAuthorityHolds == Spec => ImplementsAuthority
<1> DEFINE chosenNow == IF PointedTo = {} THEN NoBundle ELSE (CHOOSE e \in PointedTo : TRUE).run
<1>1. Init => Authority!Init
  BY DEF Init, Authority!Init, PointedTo
<1>2. ASSUME HistoryInv, [Next]_vars PROVE [Authority!Next]_(Authority!vars)
  <2>1. CASE \E a \in Actors : Commit(a)
    <3>1. PICK a \in Actors : Commit(a)
      BY <2>1
    <3>2. /\ bundle[a] \in Bundles /\ bundle[a] \in loaded /\ \A e \in PointedTo : e.run # bundle[a]
          /\ PointedTo' = {Decision(a, pointer')} /\ Decision(a, pointer').run = bundle[a]
      BY <1>2, <3>1, CommitChooses
    <3>3. chosenNow' = bundle[a]
      BY <3>2
    <3>4. chosenNow # bundle[a]
      <4>1. CASE PointedTo = {}
        BY <4>1, <3>2, NoBundleAssumption
      <4>2. CASE PointedTo # {}
        BY <4>2, <3>2
      <4> QED
        BY <4>1, <4>2
    <3>5. UNCHANGED loaded
      BY <3>1 DEF Commit
    <3>6. Authority!Choose(bundle[a])
      BY <3>2, <3>3, <3>4, <3>5 DEF Authority!Choose
    <3> QED
      BY <3>2, <3>6 DEF Authority!Next
  <2>2. CASE UNCHANGED <<log, pointer>>
    <3>1. UNCHANGED chosenNow
      BY <2>2 DEF PointedTo
    <3>2. CASE loaded' = loaded
      BY <3>1, <3>2 DEF Authority!vars
    <3>3. ASSUME NEW a \in Actors, pc[a] = "load_commit", loaded' = loaded \cup {bundle[a]}
          PROVE  [Authority!Next]_(Authority!vars)
      <4>1. bundle[a] \in Bundles
        BY <1>2, <3>3 DEF HistoryInv, SessionInv
      <4>2. CASE bundle[a] \in loaded
        BY <3>1, <3>3, <4>2 DEF Authority!vars
      <4>3. CASE bundle[a] \notin loaded
        <5>1. Authority!Load(bundle[a])
          BY <3>1, <3>3, <4>3 DEF Authority!Load
        <5> QED
          BY <4>1, <5>1 DEF Authority!Next
      <4> QED
        BY <4>2, <4>3
    <3> QED
      BY <1>2, <3>2, <3>3, OnlyLoadLoads
  <2> QED
    BY <1>2, <2>1, <2>2, OnlyCommitDecides
<1> QED
  BY <1>1, <1>2, HistoryInit, HistoryStep, PTL DEF Spec, ImplementsAuthority, Authority!Spec

-----------------------------------------------------------------------------
\* The plan.  Its inputs do not change once they are loaded, and what the
\* tables of risk and orders say of a node is a function of them.
PlanSpec == PlanInit /\ [][PlanNext]_planVars

\* What the numbers of a row are.
Rows ==
    \A n \in Node :
      /\ {in.row[n].onHand, in.row[n].claimed, in.row[n].inbound, in.row[n].daily,
          in.row[n].cost, in.row[n].interval, in.row[n].buffer} \subseteq Nat
      /\ in.row[n].asked \in [Channel -> Nat]

InputsTyped ==
    /\ Rows
    /\ \A s \in Shop : in.lanes[s] \in LanePlans
    /\ \A c \in Centre : in.terms[c] \in TermPlans

\* A shop has one alternate lane at most in force beside its primary one.
OneAlternate == \A lanes \in LanePlans : Cardinality({l \in lanes : l.current}) <= 2

PlanInv ==
    /\ step \in {"load", "health", "risk", "orders", "transfers", "allocations", "built"}
    /\ step # "load" => InputsTyped
    /\ step \in {"orders", "transfers", "allocations", "built"} =>
         \A n \in Emitted : risk[n] = RiskReason(n)
    /\ step \in {"transfers", "allocations", "built"} =>
         \A n \in Emitted : orders[n].reason = OrderReason(n) /\ orders[n].units \in Nat
    /\ step \in {"allocations", "built"} =>
         DonorsKeepCover /\ (OneAlternate => NothingPlannedTwice)
    /\ step = "built" => AllocationsFair

-----------------------------------------------------------------------------
\* Numbers.
LEMMA AtLeastZeroIs == ASSUME NEW n \in Int PROVE AtLeastZero(n) = IF n > 0 THEN n ELSE 0
<1> DEFINE m == IF n > 0 THEN n ELSE 0
<1>1. m \in {0, n} /\ \A y \in {0, n} : m >= y
  OBVIOUS
<1>2. \A x \in {0, n} : (\A y \in {0, n} : x >= y) => x = m
  OBVIOUS
<1> HIDE DEF m
<1>3. Max({0, n}) = m
  BY <1>1, <1>2 DEF Max
<1> QED
  BY <1>3 DEF AtLeastZero, m

LEMMA MinOfTwo == ASSUME NEW a \in Int, NEW b \in Int PROVE Min({a, b}) = IF a <= b THEN a ELSE b
<1> DEFINE m == IF a <= b THEN a ELSE b
<1>1. m \in {a, b} /\ \A y \in {a, b} : m <= y
  OBVIOUS
<1>2. \A x \in {a, b} : (\A y \in {a, b} : x <= y) => x = m
  OBVIOUS
<1> HIDE DEF m
<1>3. Min({a, b}) = m
  BY <1>1, <1>2 DEF Min
<1> QED
  BY <1>3 DEF m

LEMMA MinOfThree ==
    ASSUME NEW a \in Nat, NEW b \in Nat, NEW c \in Nat
    PROVE  /\ Min({a, b, c}) \in Nat
           /\ Min({a, b, c}) <= a /\ Min({a, b, c}) <= b /\ Min({a, b, c}) <= c
  BY MinIsThere

\* A share of at most a hundred percent.
LEMMA FloorFits ==
    ASSUME NEW asked \in Nat PROVE Floor(asked) \in Nat /\ Floor(asked) <= asked
<1>1. SharePct \in Nat /\ SharePct <= 100
  BY PlanAssumption
<1>2. asked * SharePct \in Nat /\ asked * SharePct <= asked * 100
  BY <1>1
<1> DEFINE n == asked * SharePct
<1>3. \A m \in Nat : m <= asked * 100 => m \div 100 \in Nat /\ m \div 100 <= asked
  OBVIOUS
<1> QED
  BY <1>2, <1>3 DEF Floor

-----------------------------------------------------------------------------
\* Allocation of a pool.
Channels == Cardinality(Channel)

LEMMA ChannelIs == Channels \in Nat /\ Channel = 1 .. Channels /\ IsFiniteSet(Channel)
  BY PlanAssumption, FS_CardinalityType DEF Channels

LEMMA LeftIs ==
    ASSUME NEW pool \in Nat, NEW want \in [Channel -> Nat], NEW k \in 0 .. Channels
    PROVE  /\ Sigma(want, 1 .. k) \in Nat
           /\ LeftAfter(pool, want, k) = IF Sigma(want, 1 .. k) < pool
                                         THEN pool - Sigma(want, 1 .. k) ELSE 0
<1>1. 1 .. k \in SUBSET Channel
  BY ChannelIs
<1>2. Sigma(want, 1 .. k) \in Nat
  BY <1>1, ChannelIs, SigmaPart
<1>3. LeftAfter(pool, want, k) = AtLeastZero(pool - Sigma(want, 1 .. k))
  BY DEF LeftAfter, Sigma
<1> QED
  BY <1>2, <1>3, AtLeastZeroIs

\* Channels in their order get what they want until the pool is empty.
LEMMA GrantedSums ==
    ASSUME NEW pool \in Nat, NEW want \in [Channel -> Nat]
    PROVE  LET got == Granted(pool, want)
               all == Sigma(want, Channel) IN
           /\ got \in [Channel -> Nat] /\ all \in Nat
           /\ \A k \in Channel : got[k] <= want[k]
           /\ Sigma(got, Channel) = IF all <= pool THEN all ELSE pool
           /\ all <= pool => got = want
<1> DEFINE got == Granted(pool, want)
           Upto(k) == Sigma(want, 1 .. k)
<1>1. ASSUME NEW k \in Channel
      PROVE  /\ Upto(k) \in Nat /\ Upto(k - 1) \in Nat /\ Upto(k) = want[k] + Upto(k - 1)
             /\ got[k] = IF Upto(k) <= pool THEN want[k]
                         ELSE IF Upto(k - 1) <= pool THEN pool - Upto(k - 1) ELSE 0
  <2>1. k \in 1 .. Channels /\ k - 1 \in 0 .. Channels /\ k \in 0 .. Channels /\ want[k] \in Nat
    BY ChannelIs
  <2>2. Upto(k) = want[k] + Upto(k - 1)
    <3>1. \A i \in 1 .. Channels : want[i] \in Int
      BY ChannelIs
    <3> QED
      BY <2>1, <3>1, ChannelIs, SigmaFirst
  <2>3. /\ Upto(k) \in Nat /\ Upto(k - 1) \in Nat
        /\ LeftAfter(pool, want, k - 1) = IF Upto(k - 1) < pool THEN pool - Upto(k - 1) ELSE 0
    BY <2>1, LeftIs
  <2>4. got[k] = Min({want[k], LeftAfter(pool, want, k - 1)})
    BY DEF Granted
  <2> HIDE DEF Upto, got
  <2>5. LeftAfter(pool, want, k - 1) \in Nat
    BY <2>3
  <2>6. got[k] = IF want[k] <= LeftAfter(pool, want, k - 1) THEN want[k]
                 ELSE LeftAfter(pool, want, k - 1)
    BY <2>1, <2>4, <2>5, MinOfTwo
  <2> QED
    BY <2>1, <2>2, <2>3, <2>6
<1>2. got \in [Channel -> Nat] /\ \A k \in Channel : got[k] <= want[k]
  <2>1. got = [k \in Channel |-> got[k]]
    BY DEF Granted
  <2>2. ASSUME NEW k \in Channel PROVE got[k] \in Nat /\ got[k] <= want[k]
    <3> HIDE DEF got, Upto
    <3>1. want[k] \in Nat
      OBVIOUS
    <3> QED
      BY <1>1, <3>1
  <2> HIDE DEF got
  <2> QED
    BY <2>1, <2>2
<1> DEFINE T == {k \in Nat : k <= Channels =>
                    Sigma(got, 1 .. k) = IF Upto(k) <= pool THEN Upto(k) ELSE pool}
<1>3. \A n \in Nat : (\A m \in Nat : m < n => m \in T) => n \in T
  <2>1. ASSUME NEW n \in Nat, \A m \in Nat : m < n => m \in T, n <= Channels
        PROVE  Sigma(got, 1 .. n) = IF Upto(n) <= pool THEN Upto(n) ELSE pool
    <3>1. CASE n = 0
      <4>1. 1 .. n = {}
        BY <3>1
      <4>2. Sigma(got, 1 .. n) = 0 /\ Upto(n) = 0
        BY <4>1, SigmaEmpty
      <4> QED
        BY <4>2
    <3>2. CASE n # 0
      <4>1. n \in Channel /\ n - 1 \in Nat /\ n - 1 < n /\ n - 1 <= Channels
        BY <2>1, <3>2, ChannelIs
      <4>2. Sigma(got, 1 .. n - 1) = IF Upto(n - 1) <= pool THEN Upto(n - 1) ELSE pool
        BY <2>1, <4>1
      <4>3. Sigma(got, 1 .. n) = got[n] + Sigma(got, 1 .. n - 1)
        <5>1. \A i \in 1 .. Channels : got[i] \in Int
          BY <1>2, ChannelIs
        <5>2. n \in 1 .. Channels
          BY <4>1, ChannelIs
        <5> HIDE DEF got
        <5> QED
          BY <5>1, <5>2, ChannelIs, SigmaFirst
      <4>4. want[n] \in Nat
        BY <4>1
      <4>5. /\ Upto(n) \in Nat /\ Upto(n - 1) \in Nat /\ Upto(n) = want[n] + Upto(n - 1)
            /\ got[n] = IF Upto(n) <= pool THEN want[n]
                         ELSE IF Upto(n - 1) <= pool THEN pool - Upto(n - 1) ELSE 0
        BY <1>1, <4>1
      <4> HIDE DEF got, Upto
      <4> QED
        BY <4>2, <4>3, <4>4, <4>5
    <3> QED
      BY <3>1, <3>2
  <2> QED
    BY <2>1
<1>4. Nat \subseteq T
  <2> HIDE DEF T
  <2> QED
    BY <1>3, NaturalsReached
<1>5. Sigma(got, Channel) = IF Upto(Channels) <= pool THEN Upto(Channels) ELSE pool
  BY <1>4, ChannelIs
<1>6. Sigma(want, Channel) = Upto(Channels) /\ Upto(Channels) \in Nat
  BY ChannelIs, LeftIs
<1>7. ASSUME Upto(Channels) <= pool PROVE got = want
  <2>1. ASSUME NEW k \in Channel PROVE got[k] = want[k]
    <3>1. Upto(k) \in Nat /\ Upto(k) <= Upto(Channels)
      <4>1. 1 .. k \in SUBSET Channel
        BY ChannelIs
      <4> QED
        BY <1>6, <4>1, ChannelIs, SigmaPart
    <3> HIDE DEF Upto, got
    <3> QED
      BY <1>1, <1>6, <1>7, <3>1
  <2>2. got = [k \in Channel |-> got[k]]
    BY DEF Granted
  <2> HIDE DEF got
  <2> QED
    BY <2>1, <2>2
<1> HIDE DEF got, Upto
<1>8. LET all == Sigma(want, Channel) IN
      /\ got \in [Channel -> Nat] /\ all \in Nat
      /\ \A k \in Channel : got[k] <= want[k]
      /\ Sigma(got, Channel) = IF all <= pool THEN all ELSE pool
      /\ all <= pool => got = want
  BY <1>2, <1>5, <1>6, <1>7
<1> QED
  BY <1>8 DEF got

\* Everyone gets his floor while the pool covers the floors, nobody more than
\* he asks for, and nothing is left over while somebody is short.
LEMMA AllocationIsFair ==
    ASSUME NEW pool \in Nat, NEW asked \in [Channel -> Nat]
    PROVE  LET given == Allocation(pool, asked) IN
           /\ SumFunction(given) <= pool
           /\ \A k \in Channel : given[k] <= asked[k]
           /\ SumFunction([k \in Channel |-> Floor(asked[k])]) <= pool =>
                \A k \in Channel : given[k] >= Floor(asked[k])
           /\ SumFunction(given) < pool => given = asked
<1> DEFINE least == [k \in Channel |-> Floor(asked[k])]
           floors == Granted(pool, least)
           rest == LeftAfter(pool, floors, Channels)
           more == [k \in Channel |-> asked[k] - floors[k]]
           topUps == Granted(rest, more)
           given == [k \in Channel |-> floors[k] + topUps[k]]
<1>1. Allocation(pool, asked) = given
  BY DEF Allocation, Channels
<1>2. least \in [Channel -> Nat] /\ \A k \in Channel : least[k] <= asked[k] /\ asked[k] \in Nat
  BY FloorFits
<1>3. /\ floors \in [Channel -> Nat] /\ Sigma(least, Channel) \in Nat
      /\ \A k \in Channel : floors[k] <= least[k]
      /\ Sigma(floors, Channel) = IF Sigma(least, Channel) <= pool THEN Sigma(least, Channel) ELSE pool
      /\ Sigma(least, Channel) <= pool => floors = least
  <2> HIDE DEF least
  <2> QED
    BY <1>2, GrantedSums
<1>4. /\ Sigma(floors, Channel) \in Nat /\ Sigma(floors, Channel) <= pool
      /\ rest \in Nat /\ rest = pool - Sigma(floors, Channel)
  <2> HIDE DEF least, floors
  <2>1. Sigma(floors, 1 .. Channels) = Sigma(floors, Channel)
    BY ChannelIs, Zenon
  <2>2. Channels \in 0 .. Channels
    BY ChannelIs
  <2>3. rest = IF Sigma(floors, 1 .. Channels) < pool THEN pool - Sigma(floors, 1 .. Channels) ELSE 0
    BY <1>3, <2>2, LeftIs
  <2> HIDE DEF rest
  <2> QED
    BY <1>3, <2>1, <2>3
<1>5. more \in [Channel -> Nat]
  <2> HIDE DEF least, floors
  <2>1. ASSUME NEW k \in Channel PROVE asked[k] - floors[k] \in Nat
    <3>1. asked[k] \in Nat /\ floors[k] \in Nat /\ floors[k] <= least[k] /\ least[k] <= asked[k]
          /\ least[k] \in Nat
      BY <1>2, <1>3
    <3> QED
      BY <3>1
  <2> QED
    BY <2>1
<1>6. /\ topUps \in [Channel -> Nat] /\ Sigma(more, Channel) \in Nat
      /\ \A k \in Channel : topUps[k] <= more[k]
      /\ Sigma(topUps, Channel) = IF Sigma(more, Channel) <= rest THEN Sigma(more, Channel) ELSE rest
      /\ Sigma(more, Channel) <= rest => topUps = more
  <2> HIDE DEF more, rest
  <2> QED
    BY <1>4, <1>5, GrantedSums
<1>7. \A k \in Channel : /\ given[k] = floors[k] + topUps[k] /\ more[k] = asked[k] - floors[k]
                         /\ least[k] = Floor(asked[k])
  OBVIOUS
<1>8. DOMAIN given = Channel /\ DOMAIN least = Channel
  OBVIOUS
<1>9. given = [k \in Channel |-> given[k]] /\ asked = [k \in Channel |-> asked[k]]
  OBVIOUS
<1> HIDE DEF least, floors, rest, more, topUps, given
<1>10. Sigma(given, Channel) = Sigma(floors, Channel) + Sigma(topUps, Channel)
  <2>1. \A k \in Channel : floors[k] \in Int /\ topUps[k] \in Int
    BY <1>3, <1>6
  <2>2. IsFiniteSet(Channel) /\ \A k \in Channel : given[k] = floors[k] + topUps[k]
    BY <1>7, ChannelIs
  <2> QED
    BY <2>1, <2>2, SigmaPlus
<1>11. SumFunction(given) = Sigma(given, Channel) /\ SumFunction(least) = Sigma(least, Channel)
  <2>1. SumFunction(given) = Sigma(given, DOMAIN given) /\ SumFunction(least) = Sigma(least, DOMAIN least)
    BY SumFunctionIs
  <2> QED
    BY <1>8, <2>1, Zenon
<1>12. SumFunction(given) <= pool
  BY <1>4, <1>6, <1>10, <1>11
<1>13. ASSUME NEW k \in Channel PROVE given[k] <= asked[k] /\ given[k] >= floors[k]
  <2>1. floors[k] \in Nat /\ topUps[k] \in Nat /\ asked[k] \in Nat /\ topUps[k] <= more[k]
    BY <1>3, <1>6
  <2> QED
    BY <1>7, <2>1
<1>14. ASSUME SumFunction(given) < pool PROVE given = asked
  <2>1. topUps = more
    BY <1>4, <1>6, <1>10, <1>11, <1>14
  <2>2. ASSUME NEW k \in Channel PROVE given[k] = asked[k]
    <3>1. floors[k] \in Nat /\ asked[k] \in Nat
      BY <1>3
    <3> QED
      BY <1>7, <2>1, <3>1
  <2> QED
    BY <1>9, <2>2
<1>15. ASSUME SumFunction(least) <= pool, NEW k \in Channel PROVE given[k] >= Floor(asked[k])
  <2>1. floors = least
    BY <1>3, <1>11, <1>15
  <2> QED
    BY <1>7, <1>13, <2>1
<1>16. /\ SumFunction(given) <= pool
       /\ \A k \in Channel : given[k] <= asked[k]
       /\ SumFunction(least) <= pool => \A k \in Channel : given[k] >= Floor(asked[k])
       /\ SumFunction(given) < pool => given = asked
  BY <1>12, <1>13, <1>14, <1>15
<1> QED
  BY <1>1, <1>16 DEF least

-----------------------------------------------------------------------------
\* What the numbers of a plan are.
LEMMA PlanNumbers ==
    ASSUME InputsTyped, NEW n \in Node
    PROVE  /\ Atp(n) \in Nat /\ Position(n) \in Nat /\ Daily(n) \in Nat
           /\ Published(n) \in Nat /\ Retained(n) \in Nat
           /\ Surplus(n) \in Nat /\ Published(n) - Retained(n) <= Surplus(n)
           /\ Headroom(n) \in Nat
<1>1. ASSUME NEW s \in Node
      PROVE  /\ in.row[s].onHand \in Nat /\ in.row[s].claimed \in Nat /\ in.row[s].inbound \in Nat
             /\ in.row[s].daily \in Nat
  BY DEF InputsTyped, Rows
<1>2. Atp(n) \in Nat
  <2>1. in.row[n].onHand - in.row[n].claimed \in Int
    BY <1>1
  <2>2. Atp(n) = AtLeastZero(in.row[n].onHand - in.row[n].claimed)
    BY DEF Atp
  <2> QED
    BY <2>1, <2>2, AtLeastZeroIs
<1>3. Position(n) \in Nat
  BY <1>1, <1>2 DEF Position
<1>4. Daily(n) \in Nat
  <2>1. CASE n \in Shop
    BY <1>1, <2>1 DEF Daily
  <2>2. CASE n \notin Shop
    <3> DEFINE sold == [s \in Shop \cap Emitted |-> in.row[s].daily]
    <3>1. Daily(n) = SumFunction(sold)
      BY <2>2 DEF Daily
    <3>2. \A s \in Shop \cap Emitted : sold[s] \in Nat
      BY <1>1 DEF Node
    <3>3. IsFiniteSet(Shop \cap Emitted)
      BY PlanAssumption, FS_Subset DEF Node
    <3>4. DOMAIN sold = Shop \cap Emitted
      OBVIOUS
    <3> HIDE DEF sold
    <3>5. Sigma(sold, Shop \cap Emitted) \in Nat
      BY <3>2, <3>3, SigmaNat
    <3>6. SumFunction(sold) = Sigma(sold, DOMAIN sold)
      BY SumFunctionIs
    <3> QED
      BY <3>1, <3>4, <3>5, <3>6
  <2> QED
    BY <2>1, <2>2
<1>5. RetainedCover \in Nat /\ MaxCover \in Nat
  BY PlanAssumption
<1>6. Published(n) \in Nat /\ Retained(n) \in Nat
  BY <1>2, <1>4, <1>5 DEF Published, Retained
<1>7. Surplus(n) \in Nat /\ Published(n) - Retained(n) <= Surplus(n)
  <2>1. Published(n) - Retained(n) \in Int /\ Surplus(n) = AtLeastZero(Published(n) - Retained(n))
    BY <1>6 DEF Surplus
  <2> QED
    BY <2>1, AtLeastZeroIs
<1>8. Headroom(n) \in Nat
  <2>1. /\ Daily(n) * MaxCover - Position(n) \in Int
        /\ Headroom(n) = AtLeastZero(Daily(n) * MaxCover - Position(n))
    BY <1>3, <1>4, <1>5 DEF Headroom
  <2> QED
    BY <2>1, AtLeastZeroIs
<1> QED
  BY <1>2, <1>3, <1>4, <1>6, <1>7, <1>8

\* Every lane of a shop leads to a centre.
LEMMA LanesLead ==
    ASSUME InputsTyped, NEW s \in Shop, NEW r \in DOMAIN Lanes(s)
    PROVE  Lanes(s)[r].centre \in Centre /\ 1 \in DOMAIN Lanes(s)
<1> DEFINE active == ActiveLanes(s)
<1>1. in.lanes[s] \in LanePlans /\ active \subseteq in.lanes[s]
  BY DEF InputsTyped, ActiveLanes
<1>2. /\ {l.rank : l \in active} = 1 .. Cardinality(active)
      /\ Lanes(s) = [q \in 1 .. Cardinality(active) |-> CHOOSE l \in active : l.rank = q]
  BY DEF Lanes
<1>3. r \in 1 .. Cardinality(active)
  BY <1>2
<1>4. PICK l \in active : l.rank = r
  BY <1>2, <1>3
<1>5. Lanes(s)[r] \in active
  BY <1>2, <1>3, <1>4
<1>6. Cardinality(active) \in Nat
  BY <1>1, PlanAssumption, FS_Subset, FS_CardinalityType
<1>7. 1 \in DOMAIN Lanes(s)
  BY <1>2, <1>3, <1>6
<1> QED
  BY <1>1, <1>5, <1>7, PlanAssumption

\* What comes over an alternate lane is not what the first lane can cover.
LEMMA ShortfallIs ==
    ASSUME InputsTyped, NEW s \in Shop, 1 \in DOMAIN Lanes(s)
    PROVE  /\ Primary(s) \in Centre /\ Shortfall(s) \in Nat
           /\ Shortfall(s) > 0 => Shortfall(s) = Headroom(s) - Surplus(Primary(s))
<1>1. Primary(s) \in Centre
  BY LanesLead DEF Primary
<1>2. Headroom(s) \in Nat /\ Surplus(Primary(s)) \in Nat
  BY <1>1, PlanNumbers DEF Node
<1>3. Shortfall(s) = AtLeastZero(Headroom(s) - Surplus(Primary(s)))
  BY DEF Shortfall
<1> QED
  BY <1>1, <1>2, <1>3, AtLeastZeroIs

-----------------------------------------------------------------------------
\* Candidates.
IsCandidate(k) ==
    /\ k.from \in Centre /\ k.to \in Shop \cap Emitted
    /\ k.units \in Nat /\ k.benefit \in Nat /\ k.days \in Nat
    /\ k.units <= Shortfall(k.to)
    /\ k = CandidateOver(k.to, k.from)
    /\ \E r \in DOMAIN Lanes(k.to) \ {1} : k.from = Lanes(k.to)[r].centre

LEMMA CandidatesAre ==
    ASSUME InputsTyped
    PROVE  IsFiniteSet(Candidates) /\ \A k \in Candidates : IsCandidate(k)
<1>1. ASSUME NEW k \in Candidates PROVE IsCandidate(k)
  <2>1. PICK s \in Shop \cap Emitted : \E r \in DOMAIN Lanes(s) \ {1} :
               k = CandidateOver(s, Lanes(s)[r].centre)
    BY DEF Candidates
  <2>2. PICK r \in DOMAIN Lanes(s) \ {1} : k = CandidateOver(s, Lanes(s)[r].centre)
    BY <2>1
  <2> DEFINE c == Lanes(s)[r].centre
  <2>3. c \in Centre /\ 1 \in DOMAIN Lanes(s)
    BY <2>2, LanesLead
  <2>4. Shortfall(s) \in Nat /\ Surplus(c) \in Nat
    BY <2>3, ShortfallIs, PlanNumbers DEF Node
  <2>5. in.row[s].cost \in Nat /\ LaneDays[s][c] \in Nat
    <3> HIDE DEF c
    <3>1. in.row[s].cost \in Nat
      BY DEF InputsTyped, Rows, Node
    <3>2. LaneDays[s] \in [Centre -> Nat]
      BY PlanAssumption
    <3> QED
      BY <2>3, <3>1, <3>2
  <2> HIDE DEF c
  <2>6. Min({Surplus(c), Shortfall(s)}) \in Nat /\ Min({Surplus(c), Shortfall(s)}) <= Shortfall(s)
    BY <2>4, MinOfTwo
  <2>7. /\ k.from = c /\ k.to = s /\ k.units = Min({Surplus(c), Shortfall(s)})
        /\ k.benefit = Min({Surplus(c), Shortfall(s)}) * in.row[s].cost /\ k.days = LaneDays[s][c]
    BY <2>2 DEF CandidateOver, c
  <2>8. k.benefit \in Nat
    BY <2>5, <2>6, <2>7
  <2>9. k = CandidateOver(k.to, k.from)
    BY <2>2, <2>7 DEF c
  <2>10. k.from = Lanes(k.to)[r].centre /\ r \in DOMAIN Lanes(k.to) \ {1}
    BY <2>7 DEF c
  <2> QED
    BY <2>3, <2>5, <2>6, <2>7, <2>8, <2>9, <2>10 DEF IsCandidate
<1>2. IsFiniteSet(Candidates)
  <2> DEFINE over == [p \in Shop \X Centre |-> CandidateOver(p[1], p[2])]
             all == {over[p] : p \in Shop \X Centre}
  <2>1. IsFiniteSet(Shop) /\ IsFiniteSet(Centre)
    BY PlanAssumption, FS_Subset DEF Node
  <2>2. IsFiniteSet(Shop \X Centre)
    BY <2>1, FS_Product
  <2>3. over \in Surjection(Shop \X Centre, all)
    BY DEF Surjection
  <2>4. IsFiniteSet(all)
    <3> HIDE DEF over, all
    <3> QED
      BY <2>2, <2>3, FS_Surjection
  <2>5. ASSUME NEW k \in Candidates PROVE k \in all
    <3>1. k.from \in Centre /\ k.to \in Shop /\ k = CandidateOver(k.to, k.from)
      BY <1>1 DEF IsCandidate
    <3>2. <<k.to, k.from>> \in Shop \X Centre /\ over[<<k.to, k.from>>] = k
      BY <3>1
    <3> QED
      BY <3>2
  <2> QED
    BY <2>4, <2>5, FS_Subset
<1> QED
  BY <1>1, <1>2

\* No two candidates share their origin and their destination, and of two
\* candidates one is before the other.
LEMMA CandidatesDiffer ==
    ASSUME InputsTyped, NEW j \in Candidates, NEW k \in Candidates, j # k
    PROVE  ~(j.from = k.from /\ j.to = k.to) /\ (Before(j, k) \/ Before(k, j))
<1>1. IsCandidate(j) /\ IsCandidate(k)
  BY CandidatesAre
<1>2. ~(j.from = k.from /\ j.to = k.to)
  BY <1>1 DEF IsCandidate
<1>3. /\ j.from \in Nat /\ j.to \in Nat /\ j.benefit \in Nat /\ j.days \in Nat
      /\ k.from \in Nat /\ k.to \in Nat /\ k.benefit \in Nat /\ k.days \in Nat
  BY <1>1, PlanAssumption DEF IsCandidate
<1> QED
  BY <1>2, <1>3 DEF Before

LEMMA BeforeAll ==
    ASSUME InputsTyped, NEW i \in Candidates, NEW j \in Candidates, NEW k \in Candidates,
           Before(i, j), Before(j, k)
    PROVE  Before(i, k)
<1>1. IsCandidate(i) /\ IsCandidate(j) /\ IsCandidate(k)
  BY CandidatesAre
<1>3. /\ i.from \in Nat /\ i.to \in Nat /\ i.benefit \in Nat /\ i.days \in Nat
      /\ j.from \in Nat /\ j.to \in Nat /\ j.benefit \in Nat /\ j.days \in Nat
      /\ k.from \in Nat /\ k.to \in Nat /\ k.benefit \in Nat /\ k.days \in Nat
  BY <1>1, PlanAssumption DEF IsCandidate
<1> QED
  BY <1>3 DEF Before

LEMMA LastIsThere ==
    ASSUME InputsTyped, NEW ms \in SUBSET Candidates, ms # {}
    PROVE  LastOf(ms) \in ms
<1> DEFINE HasLast(s) == \E m \in s : \A o \in s \ {m} : Before(o, m)
           T == {s \in SUBSET Candidates : s = {} \/ HasLast(s)}
<1>1. {} \in T
  OBVIOUS
<1>2. ASSUME NEW s \in SUBSET Candidates, s \in T, NEW x \in Candidates \ s
      PROVE  s \cup {x} \in T
  <2>1. CASE s = {}
    BY <2>1
  <2>2. CASE s # {}
    <3>1. PICK m \in s : \A o \in s \ {m} : Before(o, m)
      BY <1>2, <2>2
    <3>2. CASE Before(x, m)
      <4>1. \A o \in (s \cup {x}) \ {m} : Before(o, m)
        BY <3>1, <3>2
      <4> QED
        BY <4>1
    <3>3. CASE Before(m, x)
      <4>1. \A o \in (s \cup {x}) \ {x} : Before(o, x)
        BY <3>1, <3>3, BeforeAll
      <4> QED
        BY <4>1
    <3> QED
      BY <3>2, <3>3, CandidatesDiffer
  <2> QED
    BY <2>1, <2>2
<1>3. SUBSET Candidates \subseteq T
  <2> HIDE DEF T
  <2> QED
    BY <1>1, <1>2, CandidatesAre, SubsetsReached
<1> QED
  BY <1>3 DEF LastOf

-----------------------------------------------------------------------------
\* The greedy pass: what is moved once some of the candidates are considered.
Considered(g, ms) == IF ms = {} THEN NothingMoved ELSE Recommend(g[ms \ {LastOf(ms)}], LastOf(ms))

IsPass(g) == g = [ms \in SUBSET Candidates |-> Considered(g, ms)]

PassUpTo(n) == \E g : g = [ms \in Small(Candidates, n) |-> Considered(g, ms)]

LEMMA WithoutLast ==
    ASSUME InputsTyped, NEW ms \in SUBSET Candidates, ms # {}
    PROVE  /\ LastOf(ms) \in ms /\ ms \ {LastOf(ms)} \in SUBSET Candidates
           /\ Cardinality(ms) \in Nat /\ Cardinality(ms) >= 1
           /\ Cardinality(ms \ {LastOf(ms)}) = Cardinality(ms) - 1
<1>1. IsFiniteSet(ms) /\ LastOf(ms) \in ms
  BY CandidatesAre, FS_Subset, LastIsThere
<1>2. Cardinality(ms) \in Nat /\ Cardinality(ms) # 0
  BY <1>1, FS_CardinalityType, FS_EmptySet
<1>3. Cardinality(ms \ {LastOf(ms)}) = Cardinality(ms) - 1
  BY <1>1, FS_RemoveElement
<1> QED
  BY <1>1, <1>2, <1>3

LEMMA PassGrows ==
    ASSUME InputsTyped, NEW n \in Nat, PassUpTo(n)
    PROVE  PassUpTo(n + 1)
<1>1. PICK g : g = [ms \in Small(Candidates, n) |-> Considered(g, ms)]
  BY DEF PassUpTo
<1> DEFINE h == [ms \in Small(Candidates, n + 1) |->
                   IF ms \in Small(Candidates, n) THEN g[ms] ELSE Considered(g, ms)]
<1>2. Small(Candidates, n) \subseteq Small(Candidates, n + 1)
  <2>1. \A s \in SUBSET Candidates : Cardinality(s) \in Nat
    BY CandidatesAre, FS_Subset, FS_CardinalityType
  <2> QED
    BY <2>1 DEF Small
<1>3. \A s \in Small(Candidates, n) : g[s] = Considered(g, s)
  <2> DEFINE v(s) == Considered(g, s)
  <2>1. g = [ms \in Small(Candidates, n) |-> v(ms)]
    BY <1>1
  <2> HIDE DEF v
  <2>2. \A s \in Small(Candidates, n) : g[s] = v(s)
    BY <2>1
  <2> QED
    BY <2>2 DEF v
<1>4. \A s \in Small(Candidates, n) : h[s] = g[s]
  BY <1>2
<1>5. ASSUME NEW s \in Small(Candidates, n + 1) PROVE h[s] = Considered(h, s)
  <2>1. h[s] = Considered(g, s)
    BY <1>3
  <2>2. ASSUME s # {} PROVE s \ {LastOf(s)} \in Small(Candidates, n)
    BY <2>2, WithoutLast DEF Small
  <2> HIDE DEF h
  <2>3. Considered(g, s) = Considered(h, s)
    BY <1>4, <2>2 DEF Considered
  <2> QED
    BY <2>1, <2>3
<1>6. h = [ms \in Small(Candidates, n + 1) |-> h[ms]]
  OBVIOUS
<1> HIDE DEF h
<1>7. h = [ms \in Small(Candidates, n + 1) |-> Considered(h, ms)]
  <2> DEFINE v(s) == Considered(h, s)
  <2>1. \A s \in Small(Candidates, n + 1) : h[s] = v(s)
    BY <1>5
  <2> HIDE DEF v
  <2>2. h = [ms \in Small(Candidates, n + 1) |-> v(ms)]
    BY <1>6, <2>1
  <2> QED
    BY <2>2 DEF v
<1> QED
  BY <1>7 DEF PassUpTo

\* There is a pass over all candidates, and the transfers are its result.
LEMMA PassIsThere ==
    ASSUME InputsTyped
    PROVE  \E g : IsPass(g) /\ Transfers = g[Candidates].moves
<1> DEFINE T == {n \in Nat : PassUpTo(n)}
<1>1. PassUpTo(0)
  <2> DEFINE g == [ms \in Small(Candidates, 0) |-> NothingMoved]
  <2>1. \A s \in Small(Candidates, 0) : s = {}
    <3>1. ASSUME NEW s \in Small(Candidates, 0) PROVE s = {}
      <4>1. IsFiniteSet(s) /\ Cardinality(s) \in Nat /\ Cardinality(s) <= 0
        BY CandidatesAre, FS_Subset, FS_CardinalityType DEF Small
      <4> QED
        BY <4>1, FS_EmptySet
    <3> QED
      BY <3>1
  <2>2. \A s \in Small(Candidates, 0) : Considered(g, s) = NothingMoved
    BY <2>1 DEF Considered
  <2>3. g = [ms \in Small(Candidates, 0) |-> Considered(g, ms)]
    <3> DEFINE v(s) == Considered(g, s)
    <3>1. \A s \in Small(Candidates, 0) : v(s) = NothingMoved
      BY <2>2
    <3> HIDE DEF v
    <3>2. g = [ms \in Small(Candidates, 0) |-> v(ms)]
      BY <3>1
    <3> QED
      BY <3>2 DEF v
  <2> HIDE DEF g
  <2> QED
    BY <2>3 DEF PassUpTo
<1>2. \A n \in Nat : (\A m \in Nat : m < n => m \in T) => n \in T
  <2>1. ASSUME NEW n \in Nat, \A m \in Nat : m < n => m \in T PROVE n \in T
    <3>1. CASE n = 0
      BY <1>1, <3>1
    <3>2. CASE n # 0
      <4>1. n - 1 \in Nat /\ n - 1 < n /\ (n - 1) + 1 = n
        BY <3>2
      <4>2. PassUpTo((n - 1) + 1)
        BY <2>1, <4>1, PassGrows
      <4> QED
        BY <4>1, <4>2
    <3> QED
      BY <3>1, <3>2
  <2> QED
    BY <2>1
<1>3. Nat \subseteq T
  <2> HIDE DEF T
  <2> QED
    BY <1>2, NaturalsReached
<1>4. IsFiniteSet(Candidates) /\ Cardinality(Candidates) \in Nat
  BY CandidatesAre, FS_CardinalityType
<1>5. Small(Candidates, Cardinality(Candidates)) = SUBSET Candidates
  BY <1>4, FS_Subset DEF Small
<1>6. PassUpTo(Cardinality(Candidates))
  BY <1>3, <1>4
<1>7. \E g : IsPass(g)
  BY <1>5, <1>6 DEF PassUpTo, IsPass
<1> DEFINE chosen == CHOOSE g : IsPass(g)
<1>8. Transfers = chosen[Candidates].moves
  BY DEF Transfers, MapThenFoldSet, IsPass, Considered
<1> QED
  BY <1>7, <1>8

-----------------------------------------------------------------------------
\* Units of a set of moves.
LEMMA MovedNothing == UnitsMoved({}) = 0
<1> DEFINE w == [m \in {} |-> m.units]
<1>1. UnitsMoved({}) = SumFunction(w)
  BY DEF UnitsMoved
<1>2. DOMAIN w = {}
  OBVIOUS
<1> HIDE DEF w
<1>3. SumFunction(w) = Sigma(w, DOMAIN w)
  BY SumFunctionIs
<1>4. Sigma(w, {}) = 0
  BY SigmaEmpty
<1> QED
  BY <1>1, <1>2, <1>3, <1>4

LEMMA MovedOnce == ASSUME NEW m, m.units \in Nat PROVE UnitsMoved({m}) = m.units
<1> DEFINE w == [o \in {m} |-> o.units]
<1>1. UnitsMoved({m}) = SumFunction(w)
  BY DEF UnitsMoved
<1>2. DOMAIN w = {m} /\ w[m] \in Int /\ w[m] = m.units
  OBVIOUS
<1> HIDE DEF w
<1>3. SumFunction(w) = Sigma(w, DOMAIN w)
  BY SumFunctionIs
<1>4. IsFiniteSet({m}) /\ m \in {m} /\ \A x \in {m} : w[x] \in Int
  BY <1>2, FS_Singleton
<1>5. Sigma(w, {m}) = w[m] + Sigma(w, {m} \ {m})
  BY <1>4, SigmaRemove
<1>6. {m} \ {m} = {}
  OBVIOUS
<1>7. Sigma(w, {m} \ {m}) = 0
  BY <1>6, SigmaEmpty, Zenon
<1> QED
  BY <1>1, <1>2, <1>3, <1>5, <1>7

LEMMA MovedMore ==
    ASSUME NEW ms, IsFiniteSet(ms), \A m \in ms : m.units \in Nat, NEW x, x \notin ms, x.units \in Nat
    PROVE  UnitsMoved(ms \cup {x}) = x.units + UnitsMoved(ms)
<1> DEFINE w == [m \in ms |-> m.units]
           v == [m \in ms \cup {x} |-> m.units]
<1>1. UnitsMoved(ms) = SumFunction(w) /\ UnitsMoved(ms \cup {x}) = SumFunction(v)
  BY DEF UnitsMoved
<1>2. DOMAIN w = ms /\ DOMAIN v = ms \cup {x} /\ v[x] = x.units /\ v[x] \in Int
  OBVIOUS
<1>3. \A m \in ms : w[m] \in Int /\ v[m] \in Int /\ v[m] = w[m]
  OBVIOUS
<1> HIDE DEF w, v
<1>4. SumFunction(w) = Sigma(w, DOMAIN w) /\ SumFunction(v) = Sigma(v, DOMAIN v)
  BY SumFunctionIs
<1>5. Sigma(v, ms \cup {x}) = v[x] + Sigma(v, ms)
  BY <1>2, <1>3, SigmaAdd
<1>6. Sigma(v, ms) = Sigma(w, ms)
  BY <1>3, SigmaSame
<1> QED
  BY <1>1, <1>2, <1>4, <1>5, <1>6

-----------------------------------------------------------------------------
\* What holds once the candidates of ms are considered.
MovedOf(m, k) == m.from = k.from /\ m.to = k.to /\ m.units \in Nat \ {0} /\ m.units <= k.units

PassInv(left, ms) ==
    /\ left.atp \in [Node -> Int] /\ left.room \in [Node -> Nat] /\ IsFiniteSet(left.moves)
    /\ \A m \in left.moves : \E k \in ms : MovedOf(m, k)
    /\ \A m, o \in left.moves : m.from = o.from /\ m.to = o.to => m = o
    /\ \A c \in Centre :
         LET from == {m \in left.moves : m.from = c} IN
         /\ UnitsMoved(from) = Published(c) - left.atp[c]
         /\ from # {} => left.atp[c] >= Retained(c)

LEMMA PassStarts == ASSUME InputsTyped PROVE PassInv(NothingMoved, {})
<1>1. /\ NothingMoved.atp = [n \in Node |-> Published(n)]
      /\ NothingMoved.room = [n \in Node |-> Headroom(n)] /\ NothingMoved.moves = {}
  BY DEF NothingMoved
<1>2. NothingMoved.atp \in [Node -> Int] /\ NothingMoved.room \in [Node -> Nat]
  BY <1>1, PlanNumbers
<1>3. IsFiniteSet({})
  BY FS_EmptySet
<1>4. ASSUME NEW c \in Centre
      PROVE  LET from == {m \in NothingMoved.moves : m.from = c} IN
             /\ UnitsMoved(from) = Published(c) - NothingMoved.atp[c]
             /\ from # {} => NothingMoved.atp[c] >= Retained(c)
  <2>1. {m \in NothingMoved.moves : m.from = c} = {}
    BY <1>1
  <2>2. NothingMoved.atp[c] = Published(c) /\ Published(c) \in Nat
    BY <1>1, PlanNumbers DEF Node
  <2> QED
    BY <2>1, <2>2, MovedNothing
<1> QED
  BY <1>1, <1>2, <1>3, <1>4 DEF PassInv

LEMMA PassStep ==
    ASSUME InputsTyped, NEW ms \in SUBSET Candidates, NEW k \in Candidates \ ms,
           NEW left, PassInv(left, ms)
    PROVE  PassInv(Recommend(left, k), ms \cup {k})
<1> DEFINE u == Movable(left, k)
           x == [from |-> k.from, to |-> k.to, units |-> u]
           next == [atp |-> [left.atp EXCEPT ![k.from] = @ - u],
                    room |-> [left.room EXCEPT ![k.to] = @ - u],
                    moves |-> left.moves \cup {x}]
<1>1. CASE k.benefit = 0 \/ u = 0
  <2>1. Recommend(left, k) = left
    BY <1>1 DEF Recommend
  <2>2. PassInv(left, ms \cup {k})
    BY DEF PassInv
  <2> QED
    BY <2>1, <2>2
<1>2. CASE ~(k.benefit = 0 \/ u = 0)
  <2>1. Recommend(left, k) = next
    BY <1>2 DEF Recommend
  <2>2. IsCandidate(k)
    BY CandidatesAre
  <2>3. k.from \in Centre /\ k.from \in Node /\ k.to \in Node /\ k.units \in Nat
    BY <2>2 DEF IsCandidate, Node
  <2>4. /\ left.atp \in [Node -> Int] /\ left.room \in [Node -> Nat] /\ IsFiniteSet(left.moves)
        /\ left.atp[k.from] \in Int /\ left.room[k.to] \in Nat
    BY <2>3 DEF PassInv
  <2>5. Retained(k.from) \in Nat
    BY <2>3, PlanNumbers
  <2>6. /\ u \in Nat \ {0} /\ u <= k.units /\ u <= left.room[k.to]
        /\ left.atp[k.from] - u >= Retained(k.from)
    <3> DEFINE spare == AtLeastZero(left.atp[k.from] - Retained(k.from))
    <3>1. left.atp[k.from] - Retained(k.from) \in Int
      BY <2>4, <2>5
    <3>2. spare = IF left.atp[k.from] - Retained(k.from) > 0
                  THEN left.atp[k.from] - Retained(k.from) ELSE 0
      BY <3>1, AtLeastZeroIs
    <3>3. u = Min({k.units, spare, left.room[k.to]})
      BY DEF Movable
    <3> HIDE DEF u, spare
    <3>4. spare \in Nat
      BY <3>1, <3>2
    <3>5. u \in Nat /\ u <= k.units /\ u <= spare /\ u <= left.room[k.to]
      BY <2>3, <2>4, <3>3, <3>4, MinOfThree
    <3> QED
      BY <1>2, <2>4, <2>5, <3>2, <3>5
  <2>7. x.from = k.from /\ x.to = k.to /\ x.units = u
    OBVIOUS
  <2>8. /\ next.atp = [left.atp EXCEPT ![k.from] = @ - u]
        /\ next.room = [left.room EXCEPT ![k.to] = @ - u]
        /\ next.moves = left.moves \cup {x}
    OBVIOUS
  <2> HIDE DEF u, x, next
  <2>9. \A m \in left.moves : ~(m.from = k.from /\ m.to = k.to)
    <3>1. ASSUME NEW m \in left.moves, m.from = k.from /\ m.to = k.to PROVE FALSE
      <4>1. PICK j \in ms : MovedOf(m, j)
        BY DEF PassInv
      <4>2. j \in Candidates /\ j # k /\ j.from = k.from /\ j.to = k.to
        BY <3>1, <4>1 DEF MovedOf
      <4> QED
        BY <4>2, CandidatesDiffer
    <3> QED
      BY <3>1
  <2>10. x \notin left.moves
    BY <2>7, <2>9
  <2>11. next.atp \in [Node -> Int] /\ next.room \in [Node -> Nat] /\ IsFiniteSet(next.moves)
    <3>1. left.atp[k.from] - u \in Int /\ left.room[k.to] - u \in Nat
      BY <2>4, <2>6
    <3>2. IsFiniteSet(left.moves \cup {x})
      BY <2>4, FS_AddElement
    <3> QED
      BY <2>4, <2>8, <3>1, <3>2
  <2>12. \A m \in next.moves : \E j \in ms \cup {k} : MovedOf(m, j)
    <3>1. MovedOf(x, k)
      BY <2>6, <2>7 DEF MovedOf
    <3>2. \A m \in left.moves : \E j \in ms : MovedOf(m, j)
      BY DEF PassInv
    <3> QED
      BY <2>8, <3>1, <3>2
  <2>13. \A m, o \in next.moves : m.from = o.from /\ m.to = o.to => m = o
    <3>1. \A m, o \in left.moves : m.from = o.from /\ m.to = o.to => m = o
      BY DEF PassInv
    <3> QED
      BY <2>7, <2>8, <2>9, <3>1
  <2>14. ASSUME NEW c \in Centre
         PROVE  LET from == {m \in next.moves : m.from = c} IN
                /\ UnitsMoved(from) = Published(c) - next.atp[c]
                /\ from # {} => next.atp[c] >= Retained(c)
    <3> DEFINE old == {m \in left.moves : m.from = c}
               from == {m \in next.moves : m.from = c}
    <3>1. UnitsMoved(old) = Published(c) - left.atp[c] /\ (old # {} => left.atp[c] >= Retained(c))
      BY DEF PassInv
    <3>2. c \in Node
      BY DEF Node
    <3>3. CASE c # k.from
      <4>1. from = old /\ next.atp[c] = left.atp[c]
        BY <2>4, <2>7, <2>8, <3>2, <3>3
      <4> QED
        BY <3>1, <4>1
    <3>4. CASE c = k.from
      <4>1. from = old \cup {x} /\ next.atp[c] = left.atp[c] - u
        BY <2>4, <2>7, <2>8, <3>2, <3>4
      <4>2. IsFiniteSet(old) /\ x \notin old
        BY <2>4, <2>10, FS_Subset
      <4>3. \A m \in old : m.units \in Nat
        BY DEF PassInv, MovedOf
      <4>4. x.units \in Nat
        BY <2>6, <2>7
      <4> HIDE DEF old, from
      <4>5. UnitsMoved(from) = u + UnitsMoved(old)
        <5>1. UnitsMoved(old \cup {x}) = x.units + UnitsMoved(old)
          BY <4>2, <4>3, <4>4, MovedMore
        <5> QED
          BY <2>7, <4>1, <5>1
      <4>6. Published(c) \in Nat
        BY <3>2, PlanNumbers
      <4>7. UnitsMoved(from) = Published(c) - next.atp[c] /\ next.atp[c] >= Retained(c)
        BY <2>4, <2>6, <3>1, <3>4, <4>1, <4>5, <4>6
      <4> QED
        BY <4>7 DEF from
    <3> QED
      BY <3>3, <3>4
  <2>15. PassInv(next, ms \cup {k})
    BY <2>11, <2>12, <2>13, <2>14 DEF PassInv
  <2> QED
    BY <2>1, <2>15
<1> QED
  BY <1>1, <1>2

LEMMA TransfersAre ==
    ASSUME InputsTyped
    PROVE  \E left : PassInv(left, Candidates) /\ Transfers = left.moves
<1>1. PICK g : IsPass(g) /\ Transfers = g[Candidates].moves
  BY PassIsThere
<1>2. \A ms \in SUBSET Candidates : g[ms] = Considered(g, ms)
  <2> DEFINE v(ms) == Considered(g, ms)
  <2>1. g = [ms \in SUBSET Candidates |-> v(ms)]
    BY <1>1 DEF IsPass
  <2> HIDE DEF v
  <2>2. \A ms \in SUBSET Candidates : g[ms] = v(ms)
    BY <2>1
  <2> QED
    BY <2>2 DEF v
<1> DEFINE N == {n \in Nat : \A ms \in SUBSET Candidates : Cardinality(ms) = n => PassInv(g[ms], ms)}
<1>3. \A n \in Nat : (\A m \in Nat : m < n => m \in N) => n \in N
  <2>1. ASSUME NEW n \in Nat, \A m \in Nat : m < n => m \in N,
               NEW ms \in SUBSET Candidates, Cardinality(ms) = n
        PROVE  PassInv(g[ms], ms)
    <3>1. CASE ms = {}
      <4>1. g[ms] = NothingMoved
        BY <1>2, <3>1 DEF Considered
      <4> QED
        BY <3>1, <4>1, PassStarts
    <3>2. CASE ms # {}
      <4> DEFINE k == LastOf(ms)
                 r == ms \ {k}
      <4>1. /\ k \in ms /\ r \in SUBSET Candidates /\ Cardinality(r) = n - 1 /\ n >= 1
        BY <2>1, <3>2, WithoutLast
      <4>2. PassInv(g[r], r)
        BY <2>1, <4>1
      <4>3. g[ms] = Recommend(g[r], k)
        BY <1>2, <3>2 DEF Considered
      <4>4. k \in Candidates \ r /\ r \cup {k} = ms
        BY <4>1
      <4> HIDE DEF k, r
      <4>5. PassInv(Recommend(g[r], k), r \cup {k})
        BY <4>1, <4>2, <4>4, PassStep
      <4> QED
        BY <4>3, <4>4, <4>5
    <3> QED
      BY <3>1, <3>2
  <2> QED
    BY <2>1
<1>4. Nat \subseteq N
  <2> HIDE DEF N
  <2> QED
    BY <1>3, NaturalsReached
<1>5. Cardinality(Candidates) \in Nat
  BY CandidatesAre, FS_CardinalityType
<1>6. PassInv(g[Candidates], Candidates)
  BY <1>4, <1>5
<1> QED
  BY <1>1, <1>6

-----------------------------------------------------------------------------
\* No centre gives away what it has to retain.
LEMMA DonorsKeep ==
    ASSUME InputsTyped, NEW c \in Centre
    PROVE  UnitsMoved({m \in Transfers : m.from = c}) <= Surplus(c)
<1>1. PICK left : PassInv(left, Candidates) /\ Transfers = left.moves
  BY TransfersAre
<1> DEFINE from == {m \in left.moves : m.from = c}
<1>2. UnitsMoved(from) = Published(c) - left.atp[c] /\ (from # {} => left.atp[c] >= Retained(c))
  BY <1>1 DEF PassInv
<1>3. left.atp[c] \in Int
  BY <1>1 DEF PassInv, Node
<1>4. /\ Published(c) \in Nat /\ Retained(c) \in Nat /\ Surplus(c) \in Nat
      /\ Published(c) - Retained(c) <= Surplus(c)
  BY PlanNumbers DEF Node
<1>5. {m \in Transfers : m.from = c} = from
  BY <1>1
<1> HIDE DEF from
<1>6. UnitsMoved(from) <= Surplus(c)
  <2>1. CASE from = {}
    BY <1>4, <2>1, MovedNothing
  <2>2. CASE from # {}
    BY <1>2, <1>3, <1>4, <2>2
  <2> QED
    BY <2>1, <2>2
<1> QED
  BY <1>5, <1>6

\* What comes over the alternate lane is what the primary one cannot cover.
LEMMA AlternateCovers ==
    ASSUME InputsTyped, OneAlternate, NEW s \in Shop \cap Emitted,
           UnitsMoved({m \in Transfers : m.to = s}) > 0
    PROVE  /\ Primary(s) \in Centre
           /\ UnitsMoved({m \in Transfers : m.to = s}) \in Nat
           /\ UnitsMoved({m \in Transfers : m.to = s}) <= Headroom(s) - Surplus(Primary(s))
<1>1. PICK left : PassInv(left, Candidates) /\ Transfers = left.moves
  BY TransfersAre
<1> DEFINE to == {m \in Transfers : m.to = s}
<1>2. to # {}
  BY MovedNothing
<1>3. PICK m \in to : TRUE
  BY <1>2
<1>4. ASSUME NEW o \in to
      PROVE  \E k \in Candidates : MovedOf(o, k) /\ k.to = s /\ k.from = Lanes(s)[2].centre
                                   /\ 1 \in DOMAIN Lanes(s)
  <2>1. PICK k \in Candidates : MovedOf(o, k)
    BY <1>1 DEF PassInv
  <2>2. k.to = s /\ IsCandidate(k)
    BY <2>1, CandidatesAre DEF MovedOf
  <2>3. PICK r \in DOMAIN Lanes(s) \ {1} : k.from = Lanes(s)[r].centre
    BY <2>2 DEF IsCandidate
  <2>4. /\ in.lanes[s] \in LanePlans /\ ActiveLanes(s) = {l \in in.lanes[s] : l.current}
        /\ ActiveLanes(s) \subseteq in.lanes[s]
    BY DEF InputsTyped, ActiveLanes
  <2>5. Cardinality(ActiveLanes(s)) \in Nat /\ Cardinality(ActiveLanes(s)) <= 2
    BY <2>4, PlanAssumption, FS_Subset, FS_CardinalityType DEF OneAlternate
  <2>6. DOMAIN Lanes(s) = 1 .. Cardinality(ActiveLanes(s)) \/ DOMAIN Lanes(s) = {}
    BY DEF Lanes
  <2>7. r = 2 /\ 1 \in DOMAIN Lanes(s)
    BY <2>3, <2>5, <2>6
  <2> QED
    BY <2>1, <2>2, <2>3, <2>7
<1>5. ASSUME NEW o \in to PROVE o = m
  <2>1. o.from = m.from /\ o.to = m.to
    BY <1>3, <1>4 DEF MovedOf
  <2> QED
    BY <1>1, <1>3, <2>1 DEF PassInv
<1>6. to = {m}
  BY <1>3, <1>5
<1>7. PICK k \in Candidates : MovedOf(m, k) /\ k.to = s /\ 1 \in DOMAIN Lanes(s)
  BY <1>3, <1>4
<1>8. IsCandidate(k) /\ k.units \in Nat /\ k.units <= Shortfall(s)
  BY <1>7, CandidatesAre DEF IsCandidate
<1>9. m.units \in Nat /\ m.units > 0 /\ m.units <= k.units
  BY <1>7 DEF MovedOf
<1>10. /\ Primary(s) \in Centre /\ Shortfall(s) \in Nat
       /\ Shortfall(s) > 0 => Shortfall(s) = Headroom(s) - Surplus(Primary(s))
  BY <1>7, ShortfallIs
<1>11. UnitsMoved(to) = m.units
  BY <1>6, <1>9, MovedOnce, Zenon
<1>12. m.units <= Headroom(s) - Surplus(Primary(s))
  BY <1>8, <1>9, <1>10
<1> QED
  BY <1>9, <1>10, <1>11, <1>12

-----------------------------------------------------------------------------
\* Days of supply are known of every node that is supplied at all.
LEMMA LeadIsThere ==
    ASSUME InputsTyped, NEW n \in Node, Resolved(n)
    PROVE  LeadDays(n) \in Nat
<1>1. CASE n \in Shop
  BY <1>1, LanesLead, PlanAssumption DEF LeadDays, Resolved
<1>2. CASE n \notin Shop
  <2>1. n \in Centre /\ Suppliers(n) # {} /\ in.terms[n] \in TermPlans
    BY <1>2 DEF Resolved, Node, InputsTyped
  <2>2. Suppliers(n) \subseteq Nat
    BY <2>1, PlanAssumption DEF Suppliers
  <2>3. Cardinality(Winning(n, Min(Suppliers(n)))) = 1
    BY <2>1, <2>2, MinIsThere DEF Suppliers
  <2>4. Winning(n, Min(Suppliers(n))) # {}
    BY <2>3, FS_EmptySet
  <2>5. Winning(n, Min(Suppliers(n))) \subseteq in.terms[n]
    BY DEF Winning
  <2>6. LeadDays(n) = TermOf(n).lead /\ TermOf(n) \in Winning(n, Min(Suppliers(n)))
    BY <1>2, <2>4 DEF LeadDays, TermOf
  <2> QED
    BY <2>1, <2>4, <2>5, <2>6, PlanAssumption
<1> QED
  BY <1>1, <1>2

LEMMA WindowIsThere ==
    ASSUME InputsTyped, NEW n \in Node, Resolved(n)
    PROVE  HorizonWeeks(n) \in Nat \ {0}
<1> DEFINE weeks == (LeadDays(n) + ReviewDays + 6) \div 7
<1>1. weeks \in Nat
  BY LeadIsThere, PlanAssumption
<1>2. HorizonWeeks(n) = Max({1, weeks})
  BY DEF HorizonWeeks, ProtectionDays
<1> HIDE DEF weeks
<1>3. Max({1, weeks}) \in {1, weeks} /\ 1 <= Max({1, weeks})
  <2>1. {1, weeks} \subseteq Int /\ weeks + 1 \in Int /\ \A x \in {1, weeks} : x <= weeks + 1
    BY <1>1
  <2> QED
    BY <2>1, MaxIsThere
<1> QED
  BY <1>1, <1>2, <1>3

\* An order that is not withheld is for some units or none.
LEMMA OrdersCount ==
    ASSUME InputsTyped, NEW n \in Node, OrderReason(n) = "none"
    PROVE  OrderUnits(n) \in Nat
<1>1. Resolved(n)
  BY DEF OrderReason
<1>2. LeadDays(n) \in Nat /\ ReviewDays \in Nat /\ in.row[n].buffer \in Nat
  BY <1>1, LeadIsThere, PlanAssumption DEF InputsTyped, Rows
<1>3. Daily(n) \in Nat /\ Position(n) \in Nat /\ Headroom(n) \in Nat
  BY PlanNumbers
<1>4. Daily(n) * ProtectionDays(n) \in Nat /\ Daily(n) * ReviewDays \in Nat
  BY <1>2, <1>3 DEF ProtectionDays
<1>5. UpToLevel(n) - Position(n) \in Int
  BY <1>2, <1>3, <1>4 DEF UpToLevel, ReorderLevel
<1>6. AtLeastZero(UpToLevel(n) - Position(n)) \in Nat
  BY <1>5, AtLeastZeroIs
<1>7. Min({AtLeastZero(UpToLevel(n) - Position(n)), Headroom(n)}) \in Nat
  BY <1>3, <1>6, MinOfTwo
<1> QED
  BY <1>7 DEF OrderUnits

\* The same inputs say the same of every node.
LEMMA SameInputs ==
    ASSUME in' = in
    PROVE  /\ Emitted' = Emitted
           /\ \A n \in Node : /\ RiskReason(n)' = RiskReason(n)
                             /\ OrderReason(n)' = OrderReason(n)
           /\ \A n : /\ Atp(n)' = Atp(n) /\ Headroom(n)' = Headroom(n)
                     /\ Surplus(n)' = Surplus(n) /\ Surplus(Primary(n))' = Surplus(Primary(n))
<1>1. Emitted' = Emitted
  BY DEF Emitted, Assorted
<1>2. ASSUME NEW s PROVE Lanes(s)' = Lanes(s)
  <2>1. ActiveLanes(s)' = ActiveLanes(s)
    BY DEF ActiveLanes
  <2> QED
    BY <2>1 DEF Lanes
<1>3. ASSUME NEW c, NEW o PROVE Winning(c, o)' = Winning(c, o)
  BY Zenon DEF Winning
<1>4. ASSUME NEW c PROVE Suppliers(c)' = Suppliers(c) /\ TermOf(c)' = TermOf(c)
  <2>1. Suppliers(c)' = Suppliers(c)
    BY <1>3 DEF Suppliers
  <2> QED
    BY <1>3, <2>1, Zenon DEF TermOf
<1>5. ASSUME NEW n \in Node PROVE Resolved(n)' <=> Resolved(n)
  BY <1>2, <1>4 DEF Resolved
<1>6. ASSUME NEW n \in Node PROVE HorizonWeeks(n)' = HorizonWeeks(n)
  <2>1. LeadDays(n)' = LeadDays(n)
    BY <1>2, <1>3, <1>4 DEF LeadDays
  <2> QED
    BY <2>1 DEF HorizonWeeks, ProtectionDays
<1>7. ASSUME NEW n \in Node
      PROVE  CentralWeeks(n)' = CentralWeeks(n) /\ IntervalWeeks(n)' = IntervalWeeks(n)
  <2>1. Supplied(n)' = Supplied(n)
    BY DEF Supplied
  <2> QED
    BY <2>1 DEF CentralWeeks, IntervalWeeks
<1>8. ASSUME NEW n \in Node
      PROVE  RiskReason(n)' = RiskReason(n) /\ OrderReason(n)' = OrderReason(n)
  BY <1>5, <1>6, <1>7 DEF RiskReason, OrderReason, RiskWindow, AbsenceReason
<1>9. ASSUME NEW n
      PROVE  Atp(n)' = Atp(n) /\ Surplus(n)' = Surplus(n) /\ Headroom(n)' = Headroom(n)
  <2>1. Atp(n)' = Atp(n) /\ Position(n)' = Position(n)
    BY DEF Atp, Position
  <2>2. Daily(n)' = Daily(n)
    BY <1>1 DEF Daily
  <2>3. Published(n)' = Published(n) /\ Retained(n)' = Retained(n)
    BY <1>1, <2>1, <2>2 DEF Published, Retained
  <2> QED
    BY <2>1, <2>2, <2>3 DEF Surplus, Headroom
<1>10. ASSUME NEW n PROVE Surplus(Primary(n))' = Surplus(Primary(n))
  <2> DEFINE c == Primary(n)
  <2>1. c' = c
    BY <1>2 DEF Primary
  <2> QED
    BY <1>9, <2>1
<1> QED
  BY <1>1, <1>8, <1>9, <1>10

\* The tables of transfers and allocations keep what they promise while the
\* inputs and the tables stay as they are.
LEMMA SamePromises ==
    ASSUME in' = in, InputsTyped, moves' = moves, orders' = orders
    PROVE  /\ DonorsKeepCover => DonorsKeepCover'
           /\ OneAlternate /\ NothingPlannedTwice => NothingPlannedTwice'
           /\ AllocationsFair /\ shares' = shares => AllocationsFair'
<1>1. /\ Emitted' = Emitted
      /\ \A n : /\ Atp(n)' = Atp(n) /\ Headroom(n)' = Headroom(n)
                /\ Surplus(n)' = Surplus(n) /\ Surplus(Primary(n))' = Surplus(Primary(n))
  BY SameInputs
<1>2. Centre \subseteq Node /\ Shop \subseteq Node
  BY DEF Node
<1>3. \A n : MovedFrom(n)' = MovedFrom(n) /\ MovedTo(n)' = MovedTo(n)
  BY DEF MovedFrom, MovedTo, UnitsMoved
<1>4. ASSUME DonorsKeepCover PROVE DonorsKeepCover'
  BY <1>1, <1>2, <1>3, <1>4 DEF DonorsKeepCover
<1>5. ASSUME NothingPlannedTwice PROVE NothingPlannedTwice'
  <2> SUFFICES ASSUME NEW s \in Shop \cap Emitted, MovedTo(s) > 0
               PROVE  Min({orders[s].units, Surplus(Primary(s))}) + MovedTo(s) <= Headroom(s)
    BY <1>1, <1>3 DEF NothingPlannedTwice
  <2> QED
    BY <1>5 DEF NothingPlannedTwice
<1>6. ASSUME AllocationsFair, shares' = shares PROVE AllocationsFair'
  BY <1>1, <1>2, <1>6 DEF AllocationsFair
<1> QED
  BY <1>4, <1>5, <1>6

\* What the transfers promise, they promise of any table of orders.
LEMMA TransfersPromise ==
    ASSUME InputsTyped, \A n \in Emitted : orders[n].units \in Nat, BuildTransfers
    PROVE  (DonorsKeepCover /\ (OneAlternate => NothingPlannedTwice))'
<1>1. /\ in' = in /\ orders' = orders /\ moves' = Transfers
  BY DEF BuildTransfers
<1>2. /\ Emitted' = Emitted
      /\ \A n : /\ Atp(n)' = Atp(n) /\ Headroom(n)' = Headroom(n)
                /\ Surplus(n)' = Surplus(n) /\ Surplus(Primary(n))' = Surplus(Primary(n))
  BY <1>1, SameInputs
<1>3. \A n : /\ MovedFrom(n)' = UnitsMoved({m \in Transfers : m.from = n})
             /\ MovedTo(n)' = UnitsMoved({m \in Transfers : m.to = n})
  BY <1>1 DEF MovedFrom, MovedTo, UnitsMoved
<1>4. DonorsKeepCover'
  BY <1>2, <1>3, DonorsKeep DEF DonorsKeepCover
<1>5. ASSUME OneAlternate PROVE NothingPlannedTwice'
  <2> SUFFICES ASSUME NEW s \in Shop \cap Emitted, UnitsMoved({m \in Transfers : m.to = s}) > 0
               PROVE  Min({orders[s].units, Surplus(Primary(s))})
                        + UnitsMoved({m \in Transfers : m.to = s}) <= Headroom(s)
    BY <1>1, <1>2, <1>3 DEF NothingPlannedTwice
  <2> DEFINE moved == UnitsMoved({m \in Transfers : m.to = s})
  <2>1. /\ Primary(s) \in Centre /\ moved \in Nat /\ moved <= Headroom(s) - Surplus(Primary(s))
    BY <1>5, AlternateCovers
  <2>2. s \in Node /\ Primary(s) \in Node
    BY <2>1 DEF Node
  <2>3. Surplus(Primary(s)) \in Nat /\ Headroom(s) \in Nat /\ orders[s].units \in Nat
    BY <2>2, PlanNumbers
  <2> HIDE DEF moved
  <2>4. \A a, b \in Nat : Min({a, b}) \in Nat /\ Min({a, b}) <= b
    <3> SUFFICES ASSUME NEW a \in Nat, NEW b \in Nat PROVE Min({a, b}) \in Nat /\ Min({a, b}) <= b
      OBVIOUS
    <3> QED
      BY MinOfTwo
  <2>5. Min({orders[s].units, Surplus(Primary(s))}) + moved <= Headroom(s)
    BY <2>1, <2>3, <2>4
  <2> QED
    BY <2>5 DEF moved
<1> QED
  BY <1>4, <1>5

\* Every pool is shared out fairly.
LEMMA AllocationsPromise ==
    ASSUME InputsTyped, BuildAllocations
    PROVE  AllocationsFair'
<1>1. /\ in' = in
      /\ shares' = [s \in Shop \cap Emitted |-> Allocation(Atp(s), in.row[s].asked)]
  BY DEF BuildAllocations
<1>2. Emitted' = Emitted /\ \A n : Atp(n)' = Atp(n)
  BY <1>1, SameInputs
<1> SUFFICES ASSUME NEW s \in Shop \cap Emitted
             PROVE  LET asked == in.row[s].asked
                        given == shares'[s]
                        total == SumFunction(given)
                    IN /\ total <= Atp(s)
                       /\ \A k \in Channel : given[k] <= asked[k]
                       /\ SumFunction([k \in Channel |-> Floor(asked[k])]) <= Atp(s) =>
                            \A k \in Channel : given[k] >= Floor(asked[k])
                       /\ total < Atp(s) => given = asked
  BY <1>1, <1>2 DEF AllocationsFair
<1>3. Atp(s) \in Nat /\ in.row[s].asked \in [Channel -> Nat]
  BY PlanNumbers DEF InputsTyped, Rows, Node
<1>4. shares'[s] = Allocation(Atp(s), in.row[s].asked)
  BY <1>1
<1> QED
  BY <1>3, <1>4, AllocationIsFair

LEMMA PlanStep == ASSUME PlanInv, [PlanNext]_planVars PROVE PlanInv'
<1>1. CASE LoadInputs
  <2>1. PICK r \in [Shop -> ShopRows], c \in [Centre -> CentreRows],
             l \in [Shop -> LanePlans], t \in TermPlans :
          in' = [row |-> [n \in Node |-> IF n \in Shop THEN r[n] ELSE c[n]],
                 lanes |-> l, terms |-> [n \in Centre |-> t]]
    BY <1>1 DEF LoadInputs
  <2>2. ASSUME NEW n \in Node PROVE in'.row[n] \in ShopRows \cup CentreRows
    BY <2>1, <2>2 DEF Node
  <2>3. Rows'
    BY <2>2, PlanAssumption DEF Rows
  <2>4. \A s \in Shop : in'.lanes[s] \in LanePlans
    BY <2>1
  <2>5. \A c2 \in Centre : in'.terms[c2] \in TermPlans
    BY <2>1
  <2>6. InputsTyped'
    BY <2>3, <2>4, <2>5 DEF InputsTyped
  <2>7. step' = "health"
    BY <1>1 DEF LoadInputs
  <2> QED
    BY <2>6, <2>7 DEF PlanInv
<1>2. CASE UNCHANGED in
  <2>1. /\ Emitted' = Emitted /\ Emitted \subseteq Node
        /\ \A n \in Node : /\ RiskReason(n)' = RiskReason(n)
                          /\ OrderReason(n)' = OrderReason(n)
    BY <1>2, SameInputs DEF Emitted
  <2>2. step # "load" => InputsTyped /\ InputsTyped'
    BY <1>2 DEF PlanInv, InputsTyped, Rows
  <2>3. CASE BuildHealth
    BY <2>1, <2>2, <2>3 DEF BuildHealth, PlanInv
  <2>4. CASE BuildRisk
    BY <2>1, <2>2, <2>4 DEF BuildRisk, PlanInv
  <2>5. CASE BuildOrders
    <3>1. \A n \in Emitted : orders'[n].reason = OrderReason(n) /\ orders'[n].units \in Nat
      BY <2>1, <2>2, <2>5, OrdersCount DEF BuildOrders
    <3> QED
      BY <2>1, <2>2, <2>5, <3>1 DEF BuildOrders, PlanInv
  <2>6. CASE BuildTransfers
    <3>1. (DonorsKeepCover /\ (OneAlternate => NothingPlannedTwice))'
      BY <2>2, <2>6, TransfersPromise DEF BuildTransfers, PlanInv
    <3> QED
      BY <2>1, <2>2, <2>6, <3>1 DEF BuildTransfers, PlanInv
  <2>7. CASE BuildAllocations
    <3>1. AllocationsFair'
      BY <2>2, <2>7, AllocationsPromise DEF BuildAllocations
    <3>2. (DonorsKeepCover /\ (OneAlternate => NothingPlannedTwice))'
      BY <2>2, <2>7, SamePromises DEF BuildAllocations, PlanInv
    <3> QED
      BY <2>1, <2>2, <2>7, <3>1, <3>2 DEF BuildAllocations, PlanInv
  <2>8. CASE UNCHANGED planVars
    <3>1. /\ step' = step /\ orders' = orders /\ moves' = moves /\ shares' = shares
          /\ risk' = risk /\ health' = health
      BY <2>8 DEF planVars
    <3>2. step = "built" => AllocationsFair'
      BY <1>2, <2>2, <3>1, SamePromises DEF PlanInv
    <3>3. step \in {"allocations", "built"} =>
            (DonorsKeepCover /\ (OneAlternate => NothingPlannedTwice))'
      BY <1>2, <2>2, <3>1, SamePromises DEF PlanInv
    <3> QED
      BY <2>1, <2>2, <3>1, <3>2, <3>3 DEF PlanInv
  <2>9. ~LoadInputs \/ step = "load"
    BY DEF LoadInputs
  <2> QED
    BY <1>1, <2>3, <2>4, <2>5, <2>6, <2>7, <2>8 DEF PlanNext
<1> QED
  BY <1>1, <1>2 DEF PlanNext, planVars, BuildHealth, BuildRisk, BuildOrders,
     BuildTransfers, BuildAllocations

LEMMA PlanInvHolds == PlanSpec => []PlanInv
<1>1. PlanInit => PlanInv
  BY DEF PlanInit, PlanInv
<1>2. PlanInv /\ [PlanNext]_planVars => PlanInv'
  BY PlanStep
<1> QED
  BY <1>1, <1>2, PTL DEF PlanSpec

\* For any positions, lanes, terms and requests: the moves of the greedy pass
\* leave every centre what it has to retain; where a shop has one alternate lane
\* at most, they and what its primary centre can ship of the order do not exceed
\* the shop's cover; and every pool is shared out by floors and in full.
THEOREM PlanIsFeasibleHolds == ASSUME OneAlternate PROVE PlanSpec => []PlanIsFeasible
<1>1. PlanInv => PlanIsFeasible
  BY DEF PlanInv, PlanIsFeasible
<1> QED
  BY <1>1, PlanInvHolds, PTL

\* For any lanes, terms, forecasts and calibrated horizon: the order of a node
\* and its demand at risk are withheld for the same reason, because both look at
\* the window of the same resolved supply; past the calibrated horizon the risk
\* may be assessed only where a series has longer intervals.
THEOREM OneWindowPerNodeHolds == PlanSpec => []OneWindowPerNode
<1>1. PlanInv => OneWindowPerNode
  <2> SUFFICES ASSUME PlanInv, step = "built", NEW n \in Emitted
      PROVE  LET gate == IF orders[n].reason = "no class" THEN "none" ELSE orders[n].reason IN
             /\ Resolved(n) /\ HorizonWeeks(n) > CalibratedWeeks =>
                  (IntervalWeeks(n) <= CalibratedWeeks => (gate = "none") = (risk[n] = "none"))
             /\ ~(Resolved(n) /\ HorizonWeeks(n) > CalibratedWeeks) => gate = risk[n]
    BY DEF OneWindowPerNode
  <2>1. n \in Node /\ orders[n].reason = OrderReason(n) /\ risk[n] = RiskReason(n) /\ InputsTyped
    BY DEF PlanInv, Emitted
  <2>2. IntervalWeeks(n) \in Nat /\ CalibratedWeeks \in Nat
    BY <2>1, PlanAssumption DEF IntervalWeeks, InputsTyped, Rows
  <2>3. AbsenceReason(n) \in {"no forecast", "no node interval", "cold start"}
    BY DEF AbsenceReason
  <2>4. CASE ~Resolved(n)
    BY <2>1, <2>4 DEF OrderReason, RiskReason
  <2>5. CASE Resolved(n)
    <3>1. HorizonWeeks(n) \in Nat
      BY <2>1, <2>5, WindowIsThere
    <3> DEFINE o == orders[n].reason
               gate == IF o = "no class" THEN "none" ELSE o
    <3>2. CASE HorizonWeeks(n) > CalibratedWeeks
      <4>0. ~(HorizonWeeks(n) <= CalibratedWeeks)
        BY <2>2, <3>1, <3>2
      <4>1. o = "cold start"
        BY <2>1, <2>5, <3>2, <4>0 DEF OrderReason
      <4>2. IntervalWeeks(n) <= CalibratedWeeks => risk[n] = AbsenceReason(n)
        BY <2>1, <2>2, <2>5, <3>1, <3>2 DEF RiskReason, RiskWindow
      <4> QED
        BY <2>3, <2>5, <3>2, <4>1, <4>2
    <3>3. CASE HorizonWeeks(n) <= CalibratedWeeks
      <4>1. ~(HorizonWeeks(n) > CalibratedWeeks)
        BY <2>2, <3>1, <3>3
      <4>2. CASE IntervalWeeks(n) >= HorizonWeeks(n)
        <5>1. risk[n] = "none"
          BY <2>1, <2>5, <4>2 DEF RiskReason, RiskWindow
        <5>2. ~(IntervalWeeks(n) < HorizonWeeks(n))
          BY <2>2, <3>1, <4>2
        <5>3. o \in {"no class", "none"}
          BY <2>1, <2>5, <4>1, <5>2 DEF OrderReason
        <5> QED
          BY <4>1, <5>1, <5>3
      <4>3. CASE IntervalWeeks(n) < HorizonWeeks(n)
        <5>1. ~(IntervalWeeks(n) >= HorizonWeeks(n))
          BY <2>2, <3>1, <4>3
        <5>2. risk[n] = AbsenceReason(n)
          BY <2>1, <2>5, <5>1 DEF RiskReason, RiskWindow
        <5>3. o = AbsenceReason(n)
          BY <2>1, <2>5, <3>3, <4>1, <4>3 DEF OrderReason
        <5> QED
          BY <2>3, <4>1, <5>2, <5>3
      <4>4. IntervalWeeks(n) >= HorizonWeeks(n) \/ IntervalWeeks(n) < HorizonWeeks(n)
        BY <2>2, <3>1
      <4> QED
        BY <4>2, <4>3, <4>4, Zenon
    <3>4. HorizonWeeks(n) > CalibratedWeeks \/ HorizonWeeks(n) <= CalibratedWeeks
      BY <2>2, <3>1
    <3> QED
      BY <3>2, <3>3, <3>4, Zenon
  <2> QED
    BY <2>4, <2>5
<1> QED
  BY <1>1, PlanInvHolds, PTL

-----------------------------------------------------------------------------
(* The oracle: periods, Thursdays and bridges.                             *)

\* Periods start on Mondays, one week after another.
LEMMA Mondays ==
    ASSUME NEW i \in Int
    PROVE  /\ Origin(i) \in Int /\ (Origin(i) - FirstMonday) % Week = 0
           /\ Origin(i + 1) = Origin(i) + Week
<1>1. Week \in Nat \ {0} /\ FirstMonday \in Int /\ AsOf \in Int /\ Weeks \in Int
  BY ReplayAssumption
<1>2. PICK r \in 0 .. Week - 1, q \in Int :
        r = (AsOf - FirstMonday) % Week /\ AsOf - FirstMonday = Week * q + r
  <2>1. AsOf - FirstMonday \in Int
    BY <1>1
  <2> QED
    BY <1>1, <2>1, ModIs
<1> DEFINE k == Weeks - i + 1
<1>3. k \in Int /\ Origin(i) = AsOf - r - Week * k /\ Week * k \in Int /\ Week * q \in Int
  BY <1>1, <1>2 DEF Origin, PeriodOf
<1>4. Origin(i) - FirstMonday = Week * (q - k) + 0 /\ q - k \in Int /\ 0 \in 0 .. Week - 1
  <2>1. Origin(i) - FirstMonday = Week * q - Week * k
    <3> DEFINE x == Week * q
               y == Week * k
    <3> HIDE DEF x, y, k
    <3>1. AsOf - FirstMonday = x + r /\ Origin(i) = AsOf - r - y /\ x \in Int /\ y \in Int /\ r \in Int
      BY <1>2, <1>3 DEF x, y
    <3>2. Origin(i) - FirstMonday = x - y
      BY <1>1, <3>1
    <3> QED
      BY <3>2 DEF x, y
  <2>2. Week * q - Week * k = Week * (q - k) + 0
    BY <1>1, <1>3
  <2> QED
    BY <1>1, <1>3, <2>1, <2>2
<1>5. (Origin(i) - FirstMonday) % Week = 0
  <2>1. (Week * (q - k) + 0) % Week = 0
    BY <1>1, <1>4, ModUnique
  <2> QED
    BY <1>4, <2>1, Zenon
<1>6. Origin(i + 1) = Origin(i) + Week
  BY <1>1 DEF Origin, PeriodOf
<1> QED
  BY <1>1, <1>3, <1>5, <1>6

\* The days of the period of a Monday are the week from it on.
LEMMA DaysOfPeriod ==
    ASSUME NEW p \in Int, (p - FirstMonday) % Week = 0, NEW d \in Int
    PROVE  PeriodOf(d) = p <=> d \in p .. p + Week - 1
<1>1. Week \in Nat \ {0} /\ FirstMonday \in Int
  BY ReplayAssumption
<1>2. ASSUME PeriodOf(d) = p PROVE d \in p .. p + Week - 1
  <2>1. (d - FirstMonday) % Week \in 0 .. Week - 1
    BY <1>1, ModIs, d - FirstMonday \in Int
  <2> QED
    BY <1>1, <1>2, <2>1 DEF PeriodOf
<1>3. ASSUME d \in p .. p + Week - 1 PROVE PeriodOf(d) = p
  <2>0. p - FirstMonday \in Int
    BY <1>1
  <2>1. PICK q \in Int : p - FirstMonday = Week * q
    <3>1. /\ (p - FirstMonday) \div Week \in Int
          /\ p - FirstMonday = Week * ((p - FirstMonday) \div Week) + ((p - FirstMonday) % Week)
      BY <1>1, <2>0, ModIs
    <3>2. Week * ((p - FirstMonday) \div Week) + 0 = Week * ((p - FirstMonday) \div Week)
      BY <1>1, <3>1
    <3> QED
      BY <3>1, <3>2
  <2>2. d - FirstMonday = Week * q + (d - p) /\ d - p \in 0 .. Week - 1
    BY <1>1, <1>3, <2>1
  <2>3. (d - FirstMonday) % Week = d - p
    <3>1. (Week * q + (d - p)) % Week = d - p
      BY <1>1, <2>2, ModUnique
    <3> QED
      BY <2>2, <3>1, Zenon
  <2> QED
    BY <2>3 DEF PeriodOf
<1> QED
  BY <1>2, <1>3

\* The Thursday before a Monday.
Thursday(monday) == monday - Week + ToThursday

\* The periods lie in the window, the window in the data.
LEMMA Window ==
    /\ WindowStart \in Int /\ WindowEnd \in Int /\ WindowStart = Origin(1)
    /\ Thursday(WindowStart) \in Day /\ Thursday(WindowStart) < WindowStart
    /\ FlowDays = Thursday(WindowStart) + 1 .. WindowEnd
    /\ \A n \in Periods :
         /\ n \in Nat /\ n >= 1 /\ Origin(n) \in Int /\ Origin(n) = WindowStart + Week * (n - 1)
         /\ Origin(n) >= WindowStart /\ Origin(n) + Week - 1 <= WindowEnd
<1>1. /\ Week \in Nat \ {0} /\ Weeks \in Nat /\ Weeks >= 2 /\ ToThursday \in 1 .. Week - 1
      /\ LastDay \in Nat
  BY ReplayAssumption, StoreAssumption
<1>2. \A i \in Int : Origin(i) \in Int
  BY Mondays
<1>3. ASSUME NEW n \in Periods
      PROVE  /\ n \in Nat /\ n >= 1 /\ Origin(n) \in Int /\ Origin(n) = WindowStart + Week * (n - 1)
             /\ Origin(n) >= WindowStart /\ Origin(n) + Week - 1 <= WindowEnd
  <2>1. n \in Nat /\ n >= 1 /\ n <= Weeks
    BY <1>1 DEF Periods
  <2>2. PeriodOf(AsOf) \in Int
    BY <1>1, ReplayAssumption, ModIs DEF PeriodOf
  <2>3. Origin(n) = WindowStart + Week * (n - 1)
    BY <1>1, <2>1, <2>2 DEF Origin, WindowStart
  <2>4. Origin(Weeks) = Origin(n) + Week * (Weeks - n)
    BY <1>1, <2>1, <2>2 DEF Origin
  <2>5. Week * (n - 1) \in Nat /\ Week * (Weeks - n) \in Nat
    BY <1>1, <2>1
  <2>6. Origin(n) \in Int /\ WindowStart \in Int /\ Origin(Weeks) \in Int
    BY <1>1, <1>2, <2>1 DEF WindowStart
  <2>7. Origin(n) >= WindowStart /\ Origin(n) <= Origin(Weeks)
    <3> DEFINE x == Week * (n - 1)
               y == Week * (Weeks - n)
    <3>1. x \in Nat /\ y \in Nat /\ Origin(n) = WindowStart + x /\ Origin(Weeks) = Origin(n) + y
      BY <2>3, <2>4, <2>5
    <3> HIDE DEF x, y
    <3> QED
      BY <2>6, <3>1
  <2> QED
    BY <1>1, <2>1, <2>3, <2>6, <2>7 DEF WindowEnd
<1>4. WindowStart \in Int /\ WindowEnd \in Int /\ WindowStart = Origin(1)
  BY <1>1, <1>2 DEF WindowStart, WindowEnd
<1>5. Thursday(WindowStart) \in Day /\ Thursday(WindowStart) < WindowStart
  BY <1>1, <1>4, CalendarAssumption DEF Thursday
<1>6. FlowDays = Thursday(WindowStart) + 1 .. WindowEnd
  <2>1. WindowEnd <= LastDay
    BY CalendarAssumption
  <2> QED
    BY <1>1, <1>4, <1>5, <2>1 DEF FlowDays, Thursday, Day
<1> QED
  BY <1>3, <1>4, <1>5, <1>6

\* A period's days are days of the data, and their flows are loaded.
LEMMA PeriodDays ==
    ASSUME NEW n \in Periods
    PROVE  /\ Within(Origin(n)) = Origin(n) .. Origin(n) + Week - 1
           /\ Within(Origin(n)) \subseteq Day /\ Within(Origin(n)) \subseteq FlowDays
<1>1. (Origin(n) - FirstMonday) % Week = 0 /\ Origin(n) \in Int /\ n \in Int
  BY Mondays, Window
<1>2. \A d \in Int : PeriodOf(d) = Origin(n) <=> d \in Origin(n) .. Origin(n) + Week - 1
  BY <1>1, DaysOfPeriod
<1>3. Week \in Nat /\ LastDay \in Nat /\ WindowEnd <= LastDay
  BY ReplayAssumption, StoreAssumption, CalendarAssumption
<1>4. \A d \in Origin(n) .. Origin(n) + Week - 1 : d \in Int /\ d \in Day /\ d \in FlowDays
  BY <1>1, <1>3, Window DEF Day
<1>5. \A d \in Day : d \in Int
  BY <1>3 DEF Day
<1> QED
  BY <1>2, <1>4, <1>5 DEF Within

\* A bridge is the days from the Thursday to the Monday.
LEMMA BridgeDays ==
    ASSUME NEW monday \in Int, Thursday(monday) \in Day, monday - 1 <= LastDay
    PROVE  /\ Bridge(monday) = Thursday(monday) + 1 .. monday - 1
           /\ Cardinality(Bridge(monday)) = monday - 1 - Thursday(monday)
           /\ Thursday(monday) < monday
<1>1. /\ Week \in Nat \ {0} /\ ToThursday \in 1 .. Week - 1 /\ LastDay \in Nat
  BY ReplayAssumption, StoreAssumption
<1>2. Bridge(monday) = Thursday(monday) + 1 .. monday - 1
  BY <1>1 DEF Bridge, Thursday, Day
<1>3. Thursday(monday) \in Int /\ Thursday(monday) < monday
  BY <1>1 DEF Thursday
<1>4. Cardinality(Thursday(monday) + 1 .. monday - 1) = monday - 1 - Thursday(monday)
  BY <1>3, FS_Interval
<1> QED
  BY <1>2, <1>3, <1>4

-----------------------------------------------------------------------------
(* What a replay is given: a history.                                      *)

\* Whether the stores take a snapshot that evening.
IsSnapshotDay(d) == (d - 1) % Week = 0 \/ d = LastDay

\* What a day adds to the stock of a cell.
Net(d, s) ==
    flows["received"][d][s] - flows["wasted"][d][s] - (flows["sold"][d][s] - flows["short"][d][s])

FlowsTyped ==
    /\ flows \in [Kinds -> [Day -> [Store -> Nat]]] /\ lag \in Nat
    /\ \A d \in Day, s \in Store : flows["short"][d][s] <= flows["sold"][d][s]

\* h is the stock of every evening.
Balanced(h, days) ==
    /\ h \in [0 .. LastDay -> [Store -> Nat]]
    /\ \A d \in days, s \in Store : h[d][s] = h[d - 1][s] + Net(d, s)

RowsOf(d, s) == {r \in snaps : r.on = d /\ r.cell = s}

\* The snapshots tell h; a cell without a row has nothing, and nothing any more
\* where it had a row before.
Told(h, days) ==
    /\ \A r \in snaps : /\ r \in [on : Day, cell : Store, units : Nat]
                        /\ r.on \in days /\ IsSnapshotDay(r.on) /\ r.units = h[r.on][r.cell]
    /\ \A d \in days, s \in Store :
         IsSnapshotDay(d) /\ RowsOf(d, s) = {} => 
            /\ h[d][s] = 0
            /\ (\E r \in snaps : r.cell = s /\ r.on < d) => \A e \in days : e >= d => h[e][s] = 0

\* h is what happened, and all of it is known.
History(h) == FlowsTyped /\ Balanced(h, Day) /\ Told(h, Day) /\ AllKnown

LEMMA PositiveIs ==
    \A n \in Int : Positive(n) \in Nat /\ (n >= 0 => Positive(n) = n) /\ (n <= 0 => Positive(n) = 0)
  BY DEF Positive

LEMMA LesserIs == \A m, n \in Int : Lesser(m, n) \in {m, n} /\ Lesser(m, n) <= m /\ Lesser(m, n) <= n
  BY DEF Lesser

LEMMA NumbersOfDays ==
    /\ LastDay \in Nat /\ LastDay >= 1 /\ Day = 1 .. LastDay /\ IsFiniteSet(Store) /\ IsFiniteSet(Day)
    /\ FlowDays \subseteq Day /\ Week \in Nat \ {0} /\ \A d \in Day : d \in 0 .. LastDay /\ d - 1 \in 0 .. LastDay
<1>1. LastDay \in Nat /\ LastDay >= 1 /\ IsFiniteSet(Store) /\ Week \in Nat \ {0}
  BY StoreAssumption, ReplayAssumption
<1>2. IsFiniteSet(Day)
  BY <1>1, FS_Interval DEF Day
<1> QED
  BY <1>1, <1>2 DEF Day, FlowDays

\* When all is known, the flows loaded for a day are those of the day.
LEMMA FlowsOfDay ==
    ASSUME FlowsTyped, AllKnown, NEW d \in FlowDays, NEW s \in Store
    PROVE  /\ TrueDemand(d, s) = flows["sold"][d][s] /\ TrueDemand(d, s) \in Nat
           /\ Demand(d, s) = flows["sold"][d][s] - flows["short"][d][s] /\ Demand(d, s) \in Nat
           /\ Arrived(d, s) = flows["received"][d][s] /\ Arrived(d, s) \in Nat
           /\ WrittenOff(d, s) = flows["wasted"][d][s] /\ WrittenOff(d, s) \in Nat
           /\ flows["short"][d][s] \in Nat
<1>1. d \in Day
  BY NumbersOfDays
<1>2. \A k \in Kinds : flows[k][d][s] \in Nat
  BY <1>1 DEF FlowsTyped
<1>3. flows["sold"][d][s] \in Nat /\ flows["short"][d][s] \in Nat /\ flows["received"][d][s] \in Nat
      /\ flows["wasted"][d][s] \in Nat /\ flows["short"][d][s] <= flows["sold"][d][s]
  BY <1>1, <1>2 DEF FlowsTyped, Kinds
<1>4. TrueDemand(d, s) = flows["sold"][d][s]
  BY <1>3 DEF TrueDemand, AllKnown
<1>5. Demand(d, s) = flows["sold"][d][s] - flows["short"][d][s] /\ Demand(d, s) \in Nat
  BY <1>3, <1>4, PositiveIs DEF Demand
<1>6. Arrived(d, s) = flows["received"][d][s] /\ WrittenOff(d, s) = flows["wasted"][d][s]
  BY DEF Arrived, WrittenOff
<1> QED
  BY <1>3, <1>4, <1>5, <1>6

\* Balanced days, in the words of the replay.
LEMMA NightIsExact ==
    ASSUME NEW h, History(h), NEW d \in FlowDays, NEW s \in Store
    PROVE  /\ h[d - 1][s] \in Nat /\ h[d][s] \in Nat
           /\ h[d][s] = h[d - 1][s] + Arrived(d, s) - Demand(d, s) - WrittenOff(d, s)
           /\ Overnight(h[d - 1][s], d, s) = h[d][s]
<1>1. d \in Day /\ d \in 0 .. LastDay /\ d - 1 \in 0 .. LastDay
  BY NumbersOfDays
<1>2. h[d - 1][s] \in Nat /\ h[d][s] \in Nat /\ h[d][s] = h[d - 1][s] + Net(d, s)
  BY <1>1 DEF History, Balanced
<1>3. /\ Arrived(d, s) \in Nat /\ Demand(d, s) \in Nat /\ WrittenOff(d, s) \in Nat
      /\ Net(d, s) = Arrived(d, s) - WrittenOff(d, s) - Demand(d, s)
  BY FlowsOfDay DEF History, Net
<1>4. h[d][s] = h[d - 1][s] + Arrived(d, s) - Demand(d, s) - WrittenOff(d, s)
  BY <1>2, <1>3
<1> DEFINE u == h[d - 1][s] + Arrived(d, s) - Demand(d, s)
<1>5. u \in Int /\ u >= 0 /\ u - WrittenOff(d, s) = h[d][s] /\ u - WrittenOff(d, s) \in Int
  BY <1>2, <1>3, <1>4
<1> HIDE DEF u
<1>6. Positive(u) = u /\ Positive(u - WrittenOff(d, s)) = h[d][s]
  BY <1>2, <1>5, PositiveIs
<1> QED
  BY <1>2, <1>4, <1>6 DEF Overnight, u

LEMMA NightType ==
    ASSUME FlowsTyped, AllKnown, NEW d \in FlowDays, NEW s \in Store, NEW u \in Nat
    PROVE  Overnight(u, d, s) \in Nat
<1>1. Arrived(d, s) \in Nat /\ Demand(d, s) \in Nat /\ WrittenOff(d, s) \in Nat
  BY FlowsOfDay
<1>2. u + Arrived(d, s) - Demand(d, s) \in Int
  BY <1>1
<1>3. Positive(u + Arrived(d, s) - Demand(d, s)) - WrittenOff(d, s) \in Int
  BY <1>1, <1>2, PositiveIs
<1> QED
  BY <1>3, PositiveIs DEF Overnight

\* The days of a bridge are run through one after the other.
LEMMA BridgedSteps ==
    ASSUME FlowsTyped, AllKnown, NEW monday \in Int, NEW s \in Store, NEW u \in Nat,
           Thursday(monday) \in Day, Thursday(monday) >= Thursday(WindowStart),
           monday - 1 <= WindowEnd
    PROVE  \E f \in [0 .. monday - 1 - Thursday(monday) -> Nat] :
             /\ f[0] = u /\ Bridged(u, monday, s) = f[monday - 1 - Thursday(monday)]
             /\ \A k \in 1 .. monday - 1 - Thursday(monday) :
                  /\ Thursday(monday) + k \in FlowDays
                  /\ f[k] = Overnight(f[k - 1], Thursday(monday) + k, s)
<1> DEFINE T == Thursday(monday)
           last == monday - 1 - T
           F == [p \in Nat \X Nat |-> IF p[1] \in 1 .. last THEN Overnight(p[2], T + p[1], s) ELSE 0]
<1>1. WindowEnd <= LastDay /\ WindowEnd \in Int /\ LastDay \in Int
  BY CalendarAssumption, StoreAssumption, Window
<1>2. Cardinality(Bridge(monday)) = last /\ T < monday
  BY <1>1, BridgeDays
<1>3. T \in Int /\ last \in Nat
  BY <1>2, NumbersOfDays
<1>4. ASSUME NEW k \in 1 .. last PROVE T + k \in FlowDays
  <2>1. Thursday(WindowStart) \in Int /\ T >= Thursday(WindowStart)
    BY Window, NumbersOfDays
  <2> HIDE DEF T
  <2> QED
    BY <1>1, <1>3, <2>1, Window
<1>5. F \in [Nat \X Nat -> Nat]
  <2>1. \A k \in 1 .. last, v \in Nat : Overnight(v, T + k, s) \in Nat
    BY <1>4, NightType
  <2> HIDE DEF T, last
  <2> QED
    BY <2>1
<1>6. PICK f \in [0 .. last -> Nat] : f[0] = u /\ \A k \in 1 .. last : f[k] = F[<<k, f[k - 1]>>]
  <2> HIDE DEF F, last
  <2>1. last \in Nat /\ u \in Nat /\ F \in [Nat \X Nat -> Nat]
    BY <1>3, <1>5
  <2>2. \E f : Stepwise(f, u, F, last, Nat)
    BY <2>1, StepsExist
  <2> QED
    BY <2>2 DEF Stepwise
<1>7. \A k \in 1 .. last : f[k - 1] \in Nat /\ f[k] = Overnight(f[k - 1], T + k, s)
  <2> SUFFICES ASSUME NEW k \in 1 .. last PROVE f[k - 1] \in Nat /\ f[k] = Overnight(f[k - 1], T + k, s)
    OBVIOUS
  <2>1. k - 1 \in 0 .. last /\ k \in Nat
    BY <1>3
  <2>2. f[k - 1] \in Nat /\ F[<<k, f[k - 1]>>] = Overnight(f[k - 1], T + k, s)
    BY <2>1
  <2> QED
    BY <1>6, <2>2
<1> DEFINE IsRun(g) == g = [k \in 0 .. last |->
                              IF k = 0 THEN u ELSE Overnight(g[k - 1], monday - 1 - last + k, s)]
<1>8. IsRun(f)
  <2>1. \A k \in 0 .. last : f[k] = IF k = 0 THEN u ELSE Overnight(f[k - 1], T + k, s)
    BY <1>6, <1>7
  <2>2. \A k \in 0 .. last : monday - 1 - last + k = T + k
    BY <1>3
  <2> HIDE DEF F, T, last
  <2> QED
    BY <1>6, <2>1, <2>2
<1>9. IsRun(CHOOSE g : IsRun(g))
  BY <1>8
<1>10. Bridged(u, monday, s) = (CHOOSE g : IsRun(g))[last]
  <2> HIDE DEF T, last
  <2> QED
  BY <1>2 DEF Bridged
<1>11. \A k \in Nat : k <= last => (CHOOSE g : IsRun(g))[k] = f[k]
  <2> DEFINE c == CHOOSE g : IsRun(g)
             X == {k \in Nat : k <= last => c[k] = f[k]}
  <2>1. ASSUME NEW k \in Nat, \A m \in Nat : m < k => m \in X PROVE k \in X
    <3> SUFFICES ASSUME k <= last PROVE c[k] = f[k]
      OBVIOUS
    <3>1. c[k] = IF k = 0 THEN u ELSE Overnight(c[k - 1], T + k, s)
      <4>1. c = [i \in 0 .. last |-> IF i = 0 THEN u ELSE Overnight(c[i - 1], monday - 1 - last + i, s)]
        BY <1>9
      <4>2. monday - 1 - last + k = T + k /\ k \in 0 .. last
        BY <1>3
      <4> HIDE DEF c, T, last
      <4> QED
        BY <4>1, <4>2
    <3>2. CASE k = 0
      BY <1>6, <3>1, <3>2
    <3>3. CASE k # 0
      <4>1. k - 1 \in Nat /\ k - 1 < k /\ k - 1 <= last /\ k \in 1 .. last
        BY <1>3, <3>3
      <4>2. c[k - 1] = f[k - 1]
        BY <2>1, <4>1
      <4> HIDE DEF c, T, last
      <4> QED
        BY <1>7, <3>1, <3>3, <4>1, <4>2
    <3> QED
      BY <3>2, <3>3
  <2>2. Nat \subseteq X
    <3> HIDE DEF X
    <3> QED
      BY <2>1, NaturalsReached
  <2> QED
    BY <2>2
<1>12. Bridged(u, monday, s) = f[last]
  BY <1>3, <1>10, <1>11
<1> WITNESS f \in [0 .. last -> Nat]
<1> QED
  BY <1>4, <1>6, <1>7, <1>12

\* Moved from one day to another, the stock of the history is that of the history.
LEMMA BridgedIs ==
    ASSUME NEW h, History(h), NEW monday \in Int, NEW s \in Store,
           Thursday(monday) \in Day, Thursday(monday) >= Thursday(WindowStart),
           monday - 1 <= WindowEnd
    PROVE  Bridged(h[Thursday(monday)][s], monday, s) = h[monday - 1][s]
<1> DEFINE T == Thursday(monday)
           last == monday - 1 - T
<1>1. T \in Int /\ last \in Nat /\ T + last = monday - 1
  <2>1. monday - 1 <= LastDay
    BY NumbersOfDays, Window, CalendarAssumption
  <2>2. T < monday
    BY <2>1, BridgeDays
  <2> QED
    BY <2>2, NumbersOfDays
<1>2. h[T][s] \in Nat
  <2>1. T \in 0 .. LastDay
    BY NumbersOfDays
  <2> QED
    BY <2>1 DEF History, Balanced
<1>3. PICK f \in [0 .. last -> Nat] :
        /\ f[0] = h[T][s] /\ Bridged(h[T][s], monday, s) = f[last]
        /\ \A k \in 1 .. last : T + k \in FlowDays /\ f[k] = Overnight(f[k - 1], T + k, s)
  BY <1>2, BridgedSteps DEF History
<1> DEFINE X == {k \in Nat : k <= last => f[k] = h[T + k][s]}
<1>4. ASSUME NEW k \in Nat, \A m \in Nat : m < k => m \in X PROVE k \in X
  <2> SUFFICES ASSUME k <= last PROVE f[k] = h[T + k][s]
    OBVIOUS
  <2>1. CASE k = 0
    <3>1. T + k = T
      BY <1>1, <2>1
    <3> QED
      BY <1>3, <2>1, <3>1, Zenon
  <2>2. CASE k # 0
    <3>1. k - 1 \in X /\ k - 1 <= last /\ k \in 1 .. last
      BY <1>1, <1>4, <2>2
    <3>2. f[k - 1] = h[T + (k - 1)][s]
      BY <3>1
    <3>3. T + (k - 1) = (T + k) - 1
      BY <1>1
    <3>4. T + k \in FlowDays /\ f[k] = Overnight(f[k - 1], T + k, s)
      BY <1>3, <3>1
    <3> HIDE DEF T
    <3>5. Overnight(h[(T + k) - 1][s], T + k, s) = h[T + k][s]
      BY <3>4, NightIsExact
    <3> QED
      BY <3>2, <3>3, <3>4, <3>5, Zenon
  <2> QED
    BY <2>1, <2>2
<1>5. Nat \subseteq X
  <2> HIDE DEF X
  <2> QED
    BY <1>4, NaturalsReached
<1>6. f[last] = h[T + last][s]
  BY <1>1, <1>5
<1> QED
  BY <1>1, <1>3, <1>6, Zenon

\* From any stock, a bridge leads to a stock.
LEMMA BridgedType ==
    ASSUME FlowsTyped, AllKnown, NEW monday \in Int, NEW s \in Store, NEW u \in Nat,
           Thursday(monday) \in Day, Thursday(monday) >= Thursday(WindowStart),
           monday - 1 <= WindowEnd
    PROVE  Bridged(u, monday, s) \in Nat
<1> DEFINE last == monday - 1 - Thursday(monday)
<1>1. last \in Nat
  <2>1. monday - 1 <= LastDay
    BY NumbersOfDays, Window, CalendarAssumption
  <2> QED
    BY <2>1, BridgeDays, NumbersOfDays
<1>2. PICK f \in [0 .. last -> Nat] : Bridged(u, monday, s) = f[last]
  BY BridgedSteps
<1> QED
  BY <1>1, <1>2

\* The Thursdays of the window are days of snapshots, and there is none between
\* the first of them and its Monday.
LEMMA Thursdays ==
    /\ Week >= 2 /\ Thursday(WindowStart) \in Int
    /\ \A n \in Periods :
         /\ Origin(n) + ToThursday = Thursday(Origin(n) + Week)
         /\ Thursday(Origin(n) + Week) \in Day /\ IsSnapshotDay(Thursday(Origin(n) + Week))
         /\ Thursday(Origin(n) + Week) >= Thursday(WindowStart)
         /\ Origin(n) + Week \in Int /\ Origin(n) + Week - 1 <= WindowEnd
    /\ IsSnapshotDay(Thursday(WindowStart))
    /\ \A d \in Day : d > Thursday(WindowStart) /\ d <= WindowStart => ~ IsSnapshotDay(d)
<1>1. /\ Week \in Nat \ {0} /\ Weeks \in Nat /\ Weeks >= 2 /\ ToThursday \in 1 .. Week - 1
      /\ LastDay \in Nat /\ FirstMonday \in Int /\ Week >= 2
  BY ReplayAssumption, StoreAssumption
<1>2. /\ (FirstMonday + ToThursday - 1) % Week = 0 /\ WindowEnd <= LastDay
  BY CalendarAssumption
<1>3. PICK k \in Int : FirstMonday + ToThursday - 1 = Week * k
  <2>1. FirstMonday + ToThursday - 1 \in Int
    BY <1>1
  <2>2. /\ (FirstMonday + ToThursday - 1) \div Week \in Int
        /\ FirstMonday + ToThursday - 1
             = Week * ((FirstMonday + ToThursday - 1) \div Week) + 0
    BY <1>1, <1>2, <2>1, ModIs
  <2>3. Week * ((FirstMonday + ToThursday - 1) \div Week) + 0
          = Week * ((FirstMonday + ToThursday - 1) \div Week)
    BY <1>1, <2>2
  <2> QED
    BY <2>2, <2>3
<1>4. ASSUME NEW m \in Int, (m - FirstMonday) % Week = 0
      PROVE  \E q \in Int : m + ToThursday - 1 = Week * q
  <2>1. m - FirstMonday \in Int
    BY <1>1
  <2>2. /\ (m - FirstMonday) \div Week \in Int
        /\ m - FirstMonday = Week * ((m - FirstMonday) \div Week) + 0
    BY <1>1, <1>4, <2>1, ModIs
  <2> DEFINE j == (m - FirstMonday) \div Week
  <2>3. j \in Int /\ m - FirstMonday = Week * j
    BY <1>1, <2>2
  <2> HIDE DEF j
  <2>4. m + ToThursday - 1 = Week * j + Week * k
    <3> DEFINE x == Week * j
               y == Week * k
    <3>1. x \in Int /\ y \in Int /\ m - FirstMonday = x /\ FirstMonday + ToThursday - 1 = y
      BY <1>1, <1>3, <2>3
    <3> HIDE DEF x, y
    <3>2. m + ToThursday - 1 = x + y
      BY <1>1, <3>1
    <3> QED
      BY <3>2 DEF x, y
  <2>5. Week * j + Week * k = Week * (j + k) /\ j + k \in Int
    BY <1>1, <2>3
  <2> QED
    BY <2>4, <2>5
<1>5. ASSUME NEW d \in Int, NEW q \in Int, d - 1 = Week * q PROVE IsSnapshotDay(d)
  <2>1. Week * q + 0 = Week * q /\ 0 \in 0 .. Week - 1
    BY <1>1
  <2>2. (Week * q + 0) % Week = 0
    BY <1>1, <2>1, ModUnique
  <2> QED
    BY <1>5, <2>1, <2>2 DEF IsSnapshotDay
<1>6. ASSUME NEW n \in Periods
      PROVE  /\ Origin(n) + ToThursday = Thursday(Origin(n) + Week)
             /\ Thursday(Origin(n) + Week) \in Day /\ IsSnapshotDay(Thursday(Origin(n) + Week))
             /\ Thursday(Origin(n) + Week) >= Thursday(WindowStart)
             /\ Origin(n) + Week \in Int /\ Origin(n) + Week - 1 <= WindowEnd
  <2>1. n \in Int /\ Origin(n) \in Int /\ Origin(n) >= WindowStart /\ Origin(n) + Week - 1 <= WindowEnd
        /\ WindowEnd \in Int /\ WindowStart \in Int
    BY Window
  <2>2. Origin(n) + ToThursday = Thursday(Origin(n) + Week)
    BY <1>1, <2>1 DEF Thursday
  <2>3. Thursday(WindowStart) >= 1 /\ Thursday(WindowStart) \in Int
    BY Window, NumbersOfDays
  <2>4. Thursday(Origin(n) + Week) \in Day /\ Thursday(Origin(n) + Week) >= Thursday(WindowStart)
    BY <1>1, <1>2, <2>1, <2>2, <2>3 DEF Day, Thursday
  <2>5. (Origin(n) - FirstMonday) % Week = 0
    BY <2>1, Mondays
  <2>6. PICK q \in Int : Origin(n) + ToThursday - 1 = Week * q
    BY <1>4, <2>1, <2>5
  <2>7. IsSnapshotDay(Origin(n) + ToThursday)
    <3> DEFINE d == Origin(n) + ToThursday
    <3>1. d \in Int /\ d - 1 = Week * q
      BY <1>1, <2>1, <2>6
    <3> HIDE DEF d
    <3>2. IsSnapshotDay(d)
      BY <1>5, <3>1
    <3> QED
      BY <3>2 DEF d
  <2> QED
    BY <1>1, <2>1, <2>2, <2>4, <2>7
<1>7. PICK q \in Int : WindowStart + ToThursday - 1 = Week * q /\ WindowStart \in Int
  <2>1. WindowStart \in Int /\ (WindowStart - FirstMonday) % Week = 0
    BY Mondays DEF WindowStart
  <2> QED
    BY <1>4, <2>1
<1>8. Week * q \in Int /\ Week * (q - 1) = Week * q - Week /\ q - 1 \in Int
  BY <1>1
<1>9. Thursday(WindowStart) - 1 = Week * (q - 1) /\ Thursday(WindowStart) \in Int
  <2> DEFINE x == Week * q
             y == Week * (q - 1)
  <2>1. x \in Int /\ y = x - Week /\ WindowStart + ToThursday - 1 = x /\ WindowStart \in Int
    BY <1>7, <1>8
  <2> HIDE DEF x, y
  <2>2. Thursday(WindowStart) - 1 = y /\ Thursday(WindowStart) \in Int
    BY <1>1, <2>1 DEF Thursday
  <2> QED
    BY <2>2 DEF y
<1>10. IsSnapshotDay(Thursday(WindowStart))
  BY <1>5, <1>8, <1>9
<1>11. ASSUME NEW d \in Day, d > Thursday(WindowStart), d <= WindowStart PROVE ~ IsSnapshotDay(d)
  <2> DEFINE r == d - Thursday(WindowStart)
             y == Week * (q - 1)
  <2>1. d \in Int /\ WindowStart < LastDay
    <3>1. 1 \in Periods /\ 2 \in Periods
      BY <1>1 DEF Periods
    <3>2. Origin(1) + Week - 1 <= WindowEnd /\ WindowStart = Origin(1) /\ WindowEnd \in Int
      BY <3>1, Window
    <3> QED
      BY <1>1, <1>2, <1>7, <3>2 DEF Day
  <2>2. r \in 1 .. Week - 1
    BY <1>1, <1>7, <1>9, <1>11, <2>1 DEF Thursday
  <2>3. d - 1 = y + r
    BY <1>9, <2>1
  <2>4. (Week * (q - 1) + r) % Week = r
    <3>1. r \in 0 .. Week - 1
      BY <1>1, <2>2
    <3> HIDE DEF r
    <3> QED
      BY <1>1, <1>8, <3>1, ModUnique
  <2>5. (d - 1) % Week = r
    <3> HIDE DEF r
    <3> QED
      BY <2>3, <2>4, Zenon DEF y
  <2>6. d # LastDay
    BY <1>1, <1>11, <1>7, <2>1
  <2> HIDE DEF r
  <2> QED
    BY <1>1, <2>2, <2>5, <2>6 DEF IsSnapshotDay
<1> QED
  BY <1>1, <1>6, <1>9, <1>10, <1>11

\* The rows of a cell on a day, one at most, tell its stock of that day.
LEMMA RowsTell ==
    ASSUME NEW h, History(h), NEW s \in Store, NEW d \in Day, NEW R \in SUBSET RowsOf(d, s),
           R # {} \/ h[d][s] = 0
    PROVE  SumFunction([r \in R |-> r.units]) = h[d][s] /\ h[d][s] \in Nat
<1> DEFINE w == [r \in R |-> r.units]
<1>1. \A r \in R : /\ r \in snaps /\ r \in [on : Day, cell : Store, units : Nat]
                   /\ r.on = d /\ r.cell = s /\ r.units = h[r.on][r.cell]
  BY DEF RowsOf, History, Told
<1>2. h[d][s] \in Nat
  BY NumbersOfDays DEF History, Balanced
<1>3. SumFunction(w) = Sigma(w, R)
  <2>1. DOMAIN w = R
    OBVIOUS
  <2> HIDE DEF w
  <2> QED
    BY <2>1, SumFunctionIs
<1>4. CASE R = {}
  BY <1>2, <1>3, <1>4, SigmaEmpty
<1>5. CASE R # {}
  <2>1. PICK r \in R : TRUE
    BY <1>5
  <2>2. \A q \in R : q = r
    BY <1>1
  <2>3. R = {r} /\ w[r] = h[d][s]
    BY <1>1, <2>2
  <2> HIDE DEF w
  <2>4. Sigma(w, {r}) = w[r]
    <3>1. w[r] \in Int
      BY <1>2, <2>3
    <3> QED
      BY <3>1, SigmaOne
  <2>5. Sigma(w, R) = h[d][s]
    BY <2>3, <2>4, Zenon
  <2> QED
    BY <1>2, <1>3, <2>5 DEF w
<1> QED
  BY <1>4, <1>5 DEF w

\* The rows of a cell the opening is taken from.
Mine(s) == {r \in snaps : r.cell = s /\ r.on <= WindowStart}

\* A cell with a row up to the first Monday has a newest one.
LEMMA NewestIs ==
    ASSUME NEW h, History(h), NEW s \in Store
    PROVE  /\ OpeningRow(s) = {r \in Mine(s) : \A q \in Mine(s) : q.on <= r.on}
           /\ Mine(s) # {} => OpeningRow(s) # {}
           /\ \A r \in OpeningRow(s) : r \in snaps /\ r.on \in Day /\ OpeningRow(s) \subseteq RowsOf(r.on, s)
<1>1. \A r \in snaps : r \in [on : Day, cell : Store, units : Nat]
  BY DEF History, Told
<1>2. OpeningRow(s) = {r \in Mine(s) : \A q \in Mine(s) : q.on <= r.on}
  BY DEF OpeningRow, Mine
<1>3. \A r \in Mine(s) : r \in snaps /\ r.cell = s /\ r.on \in Day /\ r.on \in Int /\ r.on <= WindowStart
  BY <1>1, NumbersOfDays DEF Mine
<1>4. ASSUME Mine(s) # {} PROVE OpeningRow(s) # {}
  <2> DEFINE D == {r.on : r \in Mine(s)}
  <2>1. D \subseteq Int /\ D # {} /\ WindowStart \in Int /\ \A x \in D : x <= WindowStart
    BY <1>3, <1>4, Window
  <2>2. Max(D) \in D /\ \A y \in D : y <= Max(D)
    BY <2>1, MaxIsThere
  <2>3. PICK r \in Mine(s) : r.on = Max(D)
    BY <2>2
  <2>4. \A q \in Mine(s) : q.on <= r.on
    BY <2>2, <2>3
  <2> QED
    BY <1>2, <2>3, <2>4
<1>5. ASSUME NEW r \in OpeningRow(s), NEW q \in OpeningRow(s) PROVE q \in RowsOf(r.on, s)
  <2>1. q \in Mine(s) /\ r \in Mine(s) /\ q.on <= r.on /\ r.on <= q.on
    BY <1>2
  <2>2. q.on = r.on
    BY <1>3, <2>1
  <2> QED
    BY <1>3, <2>1, <2>2 DEF RowsOf
<1>6. \A r \in OpeningRow(s) : r \in snaps /\ r.on \in Day
  BY <1>2, <1>3
<1>7. \A r \in OpeningRow(s) : OpeningRow(s) \subseteq RowsOf(r.on, s)
  BY <1>5
<1> QED
  BY <1>2, <1>4, <1>6, <1>7

\* What a cell opens with: what it has, when its newest row is fresh.
LEMMA OpeningIs ==
    ASSUME NEW h, History(h), NEW s \in Store
    PROVE  /\ Opening(s) \in Nat
           /\ ~ Stale(s) => Opening(s) = h[WindowStart - 1][s]
<1> DEFINE T == Thursday(WindowStart)
           u == SumFunction([r \in OpeningRow(s) |-> r.units])
<1>1. /\ T \in Day /\ T < WindowStart /\ T \in Int /\ WindowStart \in Int /\ WindowStart - 1 <= WindowEnd
      /\ T = WindowStart - Week + ToThursday
  <2>1. 1 \in Periods
    BY ReplayAssumption DEF Periods
  <2>2. Origin(1) + Week - 1 <= WindowEnd /\ WindowStart = Origin(1) /\ WindowEnd \in Int /\ WindowStart \in Int
        /\ T \in Day /\ T < WindowStart
    BY <2>1, Window
  <2> QED
    BY <2>2, NumbersOfDays DEF Thursday
<1>2. u \in Nat
  <2>1. CASE OpeningRow(s) = {}
    <3> DEFINE w == [r \in OpeningRow(s) |-> r.units]
    <3>1. DOMAIN w = {}
      BY <2>1
    <3> HIDE DEF w
    <3>2. SumFunction(w) = 0
      BY <3>1, SumFunctionIs, SigmaEmpty
    <3> QED
      BY <3>2 DEF w
  <2>2. CASE OpeningRow(s) # {}
    <3>1. PICK r \in OpeningRow(s) : TRUE
      BY <2>2
    <3>2. r.on \in Day /\ OpeningRow(s) \in SUBSET RowsOf(r.on, s)
      BY NewestIs
    <3> QED
      BY <2>2, <3>2, RowsTell
  <2> QED
    BY <2>1, <2>2
<1>3. Opening(s) = Bridged(u, WindowStart, s)
  BY DEF Opening
<1>4. Opening(s) \in Nat
  <2> HIDE DEF u
  <2> QED
    BY <1>1, <1>2, <1>3, BridgedType DEF History
<1>5. ASSUME ~ Stale(s) PROVE Opening(s) = h[WindowStart - 1][s]
  <2>1. OpeningRow(s) \in SUBSET RowsOf(T, s)
    <3> SUFFICES ASSUME NEW r \in OpeningRow(s) PROVE r \in RowsOf(T, s)
      OBVIOUS
    <3>1. r.on = T
      BY <1>1, <1>5 DEF Stale
    <3> QED
      BY <3>1, NewestIs
  <2>2. OpeningRow(s) # {} \/ h[T][s] = 0
    <3> SUFFICES ASSUME OpeningRow(s) = {} PROVE h[T][s] = 0
      OBVIOUS
    <3>1. Mine(s) = {}
      BY NewestIs
    <3>2. RowsOf(T, s) = {}
      BY <1>1, <3>1 DEF RowsOf, Mine
    <3>3. IsSnapshotDay(T)
      BY Thursdays
    <3> HIDE DEF T
    <3> QED
      BY <1>1, <3>2, <3>3 DEF History, Told
  <2>3. u = h[T][s]
    BY <1>1, <2>1, <2>2, RowsTell
  <2>4. Bridged(h[T][s], WindowStart, s) = h[WindowStart - 1][s]
    BY <1>1, BridgedIs
  <2> QED
    BY <1>3, <2>3, <2>4, Zenon
<1> QED
  BY <1>4, <1>5

\* A stale cell has nothing left from the Thursday before the window on.
LEMMA StaleIsGone ==
    ASSUME NEW h, History(h), NEW s \in Store, Stale(s)
    PROVE  \A e \in Day : e >= Thursday(WindowStart) => h[e][s] = 0
<1> DEFINE T == Thursday(WindowStart)
<1>1. T \in Day /\ T < WindowStart /\ T \in Int /\ T = WindowStart - Week + ToThursday
  BY Window, NumbersOfDays DEF Thursday
<1>2. PICK r \in OpeningRow(s) : r.on # T
  BY <1>1 DEF Stale
<1>3. r \in snaps /\ r.on \in Day /\ r.on \in Int /\ r \in Mine(s) /\ r.on <= WindowStart /\ r.cell = s
      /\ (\A q \in Mine(s) : q.on <= r.on) /\ IsSnapshotDay(r.on)
  <2>1. r \in Mine(s) /\ (\A q \in Mine(s) : q.on <= r.on) /\ r.on \in Day
    BY NewestIs
  <2>2. r \in snaps /\ r.on <= WindowStart /\ r.cell = s /\ r.on \in Int
    BY <2>1, NumbersOfDays DEF Mine
  <2>3. IsSnapshotDay(r.on)
    BY <2>2 DEF History, Told
  <2> QED
    BY <2>1, <2>2, <2>3
<1>4. r.on < T
  <2>1. ~ (r.on > T)
    BY <1>3, Thursdays
  <2> HIDE DEF T
  <2> QED
    BY <1>1, <1>2, <1>3, <2>1
<1>5. RowsOf(T, s) = {}
  <2> SUFFICES ASSUME NEW q \in RowsOf(T, s) PROVE FALSE
    OBVIOUS
  <2>1. q \in snaps /\ q.on = T /\ q.cell = s
    BY DEF RowsOf
  <2>2. WindowStart \in Int
    BY Window
  <2> HIDE DEF T
  <2>3. q \in Mine(s)
    BY <1>1, <2>1, <2>2 DEF Mine
  <2> QED
    BY <1>1, <1>3, <1>4, <2>1, <2>3
<1>6. IsSnapshotDay(T)
  BY Thursdays
<1> HIDE DEF T
<1>7. \E q \in snaps : q.cell = s /\ q.on < T
  BY <1>3, <1>4
<1>8. \A e \in Day : e >= T => h[e][s] = 0
  BY <1>1, <1>5, <1>6, <1>7 DEF History, Told
<1> QED
  BY <1>8 DEF T

\* What was observed at the end of a period is what was there.
LEMMA ClosedIs ==
    ASSUME NEW h, History(h), NEW s \in Store, NEW n \in Periods
    PROVE  Closed(Origin(n), s) = h[Origin(n) + Week - 1][s]
<1> DEFINE m == Origin(n) + Week
           T == Thursday(m)
           R == {q \in ThursdayRows(Origin(n)) : q.cell = s}
<1>1. /\ T = Origin(n) + ToThursday /\ T \in Day /\ IsSnapshotDay(T) /\ T >= Thursday(WindowStart)
      /\ m \in Int /\ m - 1 <= WindowEnd /\ m - 1 = Origin(n) + Week - 1
  <2>1. /\ Origin(n) \in Int /\ Week \in Int /\ m \in Int /\ Origin(n) + Week - 1 <= WindowEnd
    BY Window, Thursdays, NumbersOfDays
  <2>2. m - 1 = Origin(n) + Week - 1
    BY <2>1
  <2>3. m - 1 <= WindowEnd
    BY <2>1, <2>2
  <2>4. T = Origin(n) + ToThursday /\ T \in Day /\ IsSnapshotDay(T) /\ T >= Thursday(WindowStart)
    BY Thursdays, Zenon
  <2> QED
    BY <2>1, <2>2, <2>3, <2>4
<1>2. R = RowsOf(T, s)
  BY <1>1 DEF ThursdayRows, RowsOf
<1>3. R # {} \/ h[T][s] = 0
  <2> HIDE DEF T
  <2> QED
    BY <1>1, <1>2 DEF History, Told
<1>4. SumFunction([r \in R |-> r.units]) = h[T][s]
  <2> HIDE DEF R, T
  <2> QED
    BY <1>1, <1>2, <1>3, RowsTell
<1>5. Bridged(h[T][s], m, s) = h[m - 1][s]
  <2> HIDE DEF m
  <2> QED
    BY <1>1, BridgedIs
<1>6. Closed(Origin(n), s) = h[m - 1][s]
  <2> HIDE DEF T
  <2> QED
    BY <1>4, <1>5 DEF Closed
<1> QED
  BY <1>1, <1>6, Zenon

-----------------------------------------------------------------------------
(* The replay of a history.                                                *)

\* What the shelf could not cover.
ShortIn(days, s) == SumFunction([d \in days |-> flows["short"][d][s]])

\* Over a period the stock changes by what arrived, what the shelf sold and what
\* was thrown away; what it could not sell is the rest of the demand.
LEMMA PeriodFlows ==
    ASSUME NEW h, History(h), NEW s \in Store, NEW n \in Periods
    PROVE  LET days == Within(Origin(n)) IN
           /\ ArrivedIn(days, s) \in Nat /\ WrittenOffIn(days, s) \in Nat
           /\ WantedIn("served", days, s) \in Nat /\ ShortIn(days, s) \in Nat
           /\ WantedIn("true", days, s) = WantedIn("served", days, s) + ShortIn(days, s)
           /\ h[Origin(n) - 1][s] \in Nat /\ h[Origin(n) + Week - 1][s] \in Nat
           /\ h[Origin(n) + Week - 1][s]
                = h[Origin(n) - 1][s] + ArrivedIn(days, s) - WantedIn("served", days, s)
                    - WrittenOffIn(days, s)
<1> DEFINE p == Origin(n)
           days == Within(p)
           arr == [d \in days |-> Arrived(d, s)]
           was == [d \in days |-> WrittenOff(d, s)]
           wan == [d \in days |-> IF "served" = "true" THEN TrueDemand(d, s) ELSE Demand(d, s)]
           all == [d \in days |-> IF "true" = "true" THEN TrueDemand(d, s) ELSE Demand(d, s)]
           sho == [d \in days |-> flows["short"][d][s]]
           g == [d \in 0 .. LastDay |-> h[d][s]]
           net == [d \in days |-> g[d] - g[d - 1]]
           mid == [d \in days |-> net[d] + wan[d]]
<1>1. /\ days = p .. p + Week - 1 /\ days \subseteq FlowDays /\ p \in Int /\ Week \in Nat
      /\ IsFiniteSet(days) /\ Week >= 2 /\ p + Week - 1 <= LastDay /\ p - 1 >= 0 /\ LastDay \in Nat
  <2>1. days = p .. p + Week - 1 /\ days \subseteq FlowDays /\ p \in Int
    BY PeriodDays, Window
  <2>2. Week \in Nat /\ Week >= 2 /\ LastDay \in Nat
    BY NumbersOfDays, Thursdays
  <2>3. p \in days /\ p + Week - 1 \in days /\ p + Week - 1 \in Int
    <3> HIDE DEF p, days
    <3> QED
      BY <2>1, <2>2
  <2>4. IsFiniteSet(days)
    <3>1. FlowDays \subseteq Day /\ IsFiniteSet(Day)
      BY NumbersOfDays
    <3> QED
      BY <2>1, <3>1, FS_Subset
  <2>5. p \in Day /\ p + Week - 1 \in Day
    <3> HIDE DEF p, days
    <3> QED
      BY <2>1, <2>3, NumbersOfDays
  <2> HIDE DEF p, days
  <2> QED
    BY <2>1, <2>2, <2>4, <2>5, NumbersOfDays
<1>2. \A d \in days :
        /\ arr[d] \in Nat /\ was[d] \in Nat /\ wan[d] \in Nat /\ sho[d] \in Nat /\ all[d] = wan[d] + sho[d]
        /\ g[d] \in Nat /\ g[d - 1] \in Nat /\ g[d] = g[d - 1] + arr[d] - wan[d] - was[d]
  <2> SUFFICES ASSUME NEW d \in days
               PROVE  /\ arr[d] \in Nat /\ was[d] \in Nat /\ wan[d] \in Nat /\ sho[d] \in Nat
                      /\ all[d] = wan[d] + sho[d]
                      /\ g[d] \in Nat /\ g[d - 1] \in Nat /\ g[d] = g[d - 1] + arr[d] - wan[d] - was[d]
    OBVIOUS
  <2>1. d \in FlowDays /\ d \in 0 .. LastDay /\ d - 1 \in 0 .. LastDay
    BY <1>1, NumbersOfDays
  <2>2. /\ TrueDemand(d, s) = flows["sold"][d][s] /\ TrueDemand(d, s) \in Nat
        /\ Demand(d, s) = flows["sold"][d][s] - flows["short"][d][s] /\ Demand(d, s) \in Nat
        /\ Arrived(d, s) \in Nat /\ WrittenOff(d, s) \in Nat /\ flows["short"][d][s] \in Nat
    BY <2>1, FlowsOfDay DEF History
  <2>3. /\ h[d - 1][s] \in Nat /\ h[d][s] \in Nat
        /\ h[d][s] = h[d - 1][s] + Arrived(d, s) - Demand(d, s) - WrittenOff(d, s)
    BY <2>1, NightIsExact
  <2>4. g[d] = h[d][s] /\ g[d - 1] = h[d - 1][s]
    BY <2>1
  <2>5. /\ arr[d] = Arrived(d, s) /\ was[d] = WrittenOff(d, s) /\ wan[d] = Demand(d, s)
        /\ all[d] = TrueDemand(d, s) /\ sho[d] = flows["short"][d][s]
    OBVIOUS
  <2> HIDE DEF arr, was, wan, all, sho, g
  <2> QED
    BY <2>2, <2>3, <2>4, <2>5
<1>3. /\ ArrivedIn(days, s) = Sigma(arr, days) /\ WrittenOffIn(days, s) = Sigma(was, days)
      /\ WantedIn("served", days, s) = Sigma(wan, days) /\ ShortIn(days, s) = Sigma(sho, days)
      /\ WantedIn("true", days, s) = Sigma(all, days)
  <2>1. /\ ArrivedIn(days, s) = SumFunction(arr) /\ WrittenOffIn(days, s) = SumFunction(was)
        /\ WantedIn("served", days, s) = SumFunction(wan) /\ ShortIn(days, s) = SumFunction(sho)
        /\ WantedIn("true", days, s) = SumFunction(all)
    BY DEF ArrivedIn, WrittenOffIn, WantedIn, ShortIn
  <2>2. /\ DOMAIN arr = days /\ DOMAIN was = days /\ DOMAIN wan = days /\ DOMAIN sho = days
        /\ DOMAIN all = days
    OBVIOUS
  <2> HIDE DEF arr, was, wan, all, sho, days
  <2> QED
    BY <2>1, <2>2, SumFunctionIs
<1>4. \A d \in days : net[d] = g[d] - g[d - 1] /\ mid[d] = net[d] + wan[d]
  OBVIOUS
<1>5. g[p - 1] = h[p - 1][s] /\ g[p + Week - 1] = h[p + Week - 1][s]
      /\ h[p - 1][s] \in Nat /\ h[p + Week - 1][s] \in Nat
  <2>1. p - 1 \in 0 .. LastDay /\ p + Week - 1 \in 0 .. LastDay
    <3> HIDE DEF p
    <3> QED
      BY <1>1
  <2> QED
    BY <2>1 DEF History, Balanced
<1>6. \A d \in p - 1 .. p + Week - 1 : g[d] \in Int
  <2> SUFFICES ASSUME NEW d \in p - 1 .. p + Week - 1 PROVE g[d] \in Int
    OBVIOUS
  <2>1. d \in 0 .. LastDay
    <3> HIDE DEF p
    <3> QED
      BY <1>1
  <2> QED
    BY <2>1 DEF History, Balanced
<1> HIDE DEF arr, was, wan, all, sho, g, net, mid, days, p
<1>7. Sigma(net, days) = g[p + Week - 1] - g[p - 1]
  BY <1>1, <1>4, <1>6, SigmaTelescopes
<1>8. /\ Sigma(arr, days) \in Nat /\ Sigma(was, days) \in Nat /\ Sigma(wan, days) \in Nat
      /\ Sigma(sho, days) \in Nat
  BY <1>1, <1>2, SigmaNat
<1>9. Sigma(all, days) = Sigma(wan, days) + Sigma(sho, days)
  <2>1. \A d \in days : wan[d] \in Int /\ sho[d] \in Int /\ all[d] = wan[d] + sho[d]
    BY <1>2
  <2> QED
    BY <1>1, <2>1, SigmaPlus
<1>10. \A d \in days : /\ net[d] \in Int /\ wan[d] \in Int /\ mid[d] \in Int /\ was[d] \in Int
                       /\ arr[d] = mid[d] + was[d]
  BY <1>2, <1>4
<1>11. Sigma(mid, days) = Sigma(net, days) + Sigma(wan, days)
  BY <1>1, <1>4, <1>10, SigmaPlus
<1>12. Sigma(arr, days) = Sigma(mid, days) + Sigma(was, days)
  BY <1>1, <1>10, SigmaPlus
<1>13. h[p + Week - 1][s] = h[p - 1][s] + Sigma(arr, days) - Sigma(wan, days) - Sigma(was, days)
  BY <1>5, <1>7, <1>8, <1>11, <1>12
<1> QED
  BY <1>3, <1>5, <1>8, <1>9, <1>13 DEF p, days

\* The periods follow one another.
LEMMA NextPeriod ==
    ASSUME NEW n \in Periods
    PROVE  /\ n # 1 => n - 1 \in Periods /\ Origin(n) - 1 = Origin(n - 1) + Week - 1
           /\ n = 1 => Origin(n) = WindowStart
           /\ n \in Nat /\ n >= 1 /\ \A i \in 1 .. n : i \in Periods
<1>1. n \in Nat /\ n >= 1 /\ Weeks \in Nat /\ n <= Weeks
  BY ReplayAssumption DEF Periods
<1>2. n - 1 \in Int /\ (n - 1) + 1 = n
  BY <1>1
<1>3. Origin(n) = Origin(n - 1) + Week /\ Origin(n - 1) \in Int /\ Week \in Int
  BY <1>2, Mondays, NumbersOfDays
<1>4. Origin(n) - 1 = Origin(n - 1) + Week - 1
  BY <1>3
<1> QED
  BY <1>1, <1>4 DEF Periods, WindowStart

ReplayState == [onHand : Nat, inTransit : Nat, due : Nat, ordered : Nat, received : Nat, lost : Nat]

Policies == {"none", "incumbent", "candidate"}

Bases == {"true", "served"}

\* The state a replay starts from.
Start(s) ==
    [onHand |-> Opening(s), inTransit |-> 0, due |-> 0, ordered |-> 0, received |-> 0, lost |-> 0]

\* Demand of a period, on either basis.
LEMMA WantedType ==
    ASSUME NEW h, History(h), NEW s \in Store, NEW i \in Periods, NEW basis \in Bases
    PROVE  WantedIn(basis, Within(Origin(i)), s) \in Nat
<1>1. /\ WantedIn("served", Within(Origin(i)), s) \in Nat
      /\ WantedIn("true", Within(Origin(i)), s) \in Nat
  BY PeriodFlows
<1> QED
  BY <1>1 DEF Bases

\* A period leaves what it finds and what arrives, less what is taken.
LEMMA PeriodIs ==
    ASSUME NEW h, History(h), NEW s \in Store, NEW i \in Periods, NEW basis \in Bases,
           NEW policy \in Policies, NEW n \in Nat, NEW was \in ReplayState
    PROVE  LET days == Within(Origin(i))
               onShelf == was.onHand + ArrivedIn(days, s) + was.due
               wanted == WantedIn(basis, days, s)
               wasted == WrittenOffIn(days, s)
               next == ReplayPeriod(s, policy, basis, n, i, was)
           IN /\ next \in ReplayState
              /\ next.onHand = Positive(Positive(onShelf - wanted) - wasted)
              /\ next.lost = was.lost + Positive(wanted - onShelf)
              /\ policy = "none" =>
                   next.due = 0 /\ (was.inTransit = 0 /\ was.due = 0 => next.inTransit = 0)
<1> DEFINE days == Within(Origin(i))
           arriving == ArrivedIn(days, s)
           onShelf == was.onHand + arriving + was.due
           wanted == WantedIn(basis, days, s)
           wasted == WrittenOffIn(days, s)
           rest == onShelf - Lesser(onShelf, wanted)
           left == rest - Lesser(rest, wasted)
           coming == StillComing(was, arriving)
           order == Positive(Orders(policy, s, left, coming))
           next == ReplayPeriod(s, policy, basis, n, i, was)
<1>1. arriving \in Nat /\ wanted \in Nat /\ wasted \in Nat
  BY PeriodFlows, WantedType
<1>2. /\ was.onHand \in Nat /\ was.inTransit \in Nat /\ was.due \in Nat /\ was.ordered \in Nat
      /\ was.received \in Nat /\ was.lost \in Nat
  BY DEF ReplayState
<1>3. onShelf \in Nat /\ Received(was, arriving) = onShelf
  BY <1>1, <1>2 DEF Received
<1>4. next = [onHand |-> left, inTransit |-> coming + order, due |-> IF i < n THEN order ELSE 0,
              ordered |-> was.ordered + order, received |-> was.received + was.due,
              lost |-> was.lost + Positive(wanted - onShelf)]
  BY <1>3 DEF ReplayPeriod
<1> HIDE DEF days, arriving, wanted, wasted, next
<1>5. rest = Positive(onShelf - wanted) /\ rest \in Nat
  BY <1>1, <1>3 DEF Lesser, Positive
<1>6. left = Positive(rest - wasted) /\ left \in Nat
  <2> HIDE DEF rest
  <2> QED
    BY <1>1, <1>5 DEF Lesser, Positive
<1>7. coming \in Nat /\ (was.inTransit = 0 /\ was.due = 0 => coming = 0)
  <2> HIDE DEF rest
  <2> QED
    BY <1>1, <1>2 DEF StillComing, Positive
<1>8. order \in Nat /\ (policy = "none" => order = 0)
  <2> HIDE DEF left, coming
  <2>1. ReorderPoint[s] \in Nat /\ OrderUpTo[s] \in Nat /\ Cover[s] \in Nat
    BY ReplayAssumption
  <2>2. NoOrder(s, left, coming) = 0 /\ Incumbent(s, left, coming) \in Int /\ Candidate(s, left, coming) \in Int
    BY <1>6, <1>7, <2>1 DEF NoOrder, Incumbent, Candidate
  <2>3. Orders(policy, s, left, coming) \in Int /\ (policy = "none" => Orders(policy, s, left, coming) = 0)
    BY <2>2 DEF Orders, Policies
  <2> QED
    BY <2>3, PositiveIs DEF Positive
<1>9. Positive(wanted - onShelf) \in Nat
  <2>1. wanted - onShelf \in Int
    BY <1>1, <1>3
  <2> QED
    BY <2>1, PositiveIs
<1> HIDE DEF onShelf, rest, left, coming, order
<1>10. next \in ReplayState
  BY <1>2, <1>4, <1>6, <1>7, <1>8, <1>9 DEF ReplayState
<1>11. next.onHand = left /\ next.lost = was.lost + Positive(wanted - onShelf)
       /\ (policy = "none" => next.due = 0 /\ next.inTransit = coming + 0)
  BY <1>4, <1>8
<1>12. next.onHand = Positive(Positive(onShelf - wanted) - wasted)
  BY <1>5, <1>6, <1>11, Zenon
<1>13. coming + 0 = coming
  BY <1>7
<1>14. policy = "none" => next.due = 0 /\ (was.inTransit = 0 /\ was.due = 0 => next.inTransit = 0)
  BY <1>7, <1>11, <1>13
<1> QED
  BY <1>10, <1>11, <1>12, <1>14 DEF days, arriving, wanted, wasted, next, onShelf

\* The periods of a replay are run through one after the other.
LEMMA ReplaySteps ==
    ASSUME NEW h, History(h), NEW s \in Store, NEW basis \in Bases, NEW policy \in Policies,
           NEW n \in Periods
    PROVE  \E f \in [0 .. n -> ReplayState] :
             /\ f[0] = Start(s) /\ Replay(s, policy, basis, n) = f[n]
             /\ \A i \in 1 .. n : /\ i \in Periods /\ f[i - 1] \in ReplayState
                                  /\ f[i] = ReplayPeriod(s, policy, basis, n, i, f[i - 1])
<1> DEFINE F == [p \in Nat \X ReplayState |->
                   IF p[1] \in 1 .. n THEN ReplayPeriod(s, policy, basis, n, p[1], p[2]) ELSE Start(s)]
<1>1. n \in Nat /\ \A i \in 1 .. n : i \in Periods
  BY NextPeriod
<1>2. Start(s) \in ReplayState
  BY OpeningIs DEF Start, ReplayState
<1>3. F \in [Nat \X ReplayState -> ReplayState]
  <2>1. \A i \in 1 .. n, was \in ReplayState : ReplayPeriod(s, policy, basis, n, i, was) \in ReplayState
    BY <1>1, PeriodIs
  <2> QED
    BY <1>2, <2>1
<1>4. PICK f \in [0 .. n -> ReplayState] : f[0] = Start(s) /\ \A i \in 1 .. n : f[i] = F[<<i, f[i - 1]>>]
  <2> HIDE DEF F
  <2>1. \E f : Stepwise(f, Start(s), F, n, ReplayState)
    BY <1>1, <1>2, <1>3, StepsExist
  <2> QED
    BY <2>1 DEF Stepwise
<1>5. \A i \in 1 .. n : f[i - 1] \in ReplayState /\ f[i] = ReplayPeriod(s, policy, basis, n, i, f[i - 1])
  <2> SUFFICES ASSUME NEW i \in 1 .. n
               PROVE  f[i - 1] \in ReplayState /\ f[i] = ReplayPeriod(s, policy, basis, n, i, f[i - 1])
    OBVIOUS
  <2>1. i - 1 \in 0 .. n /\ i \in Nat
    BY <1>1
  <2>2. f[i - 1] \in ReplayState
    BY <2>1
  <2>3. F[<<i, f[i - 1]>>] = ReplayPeriod(s, policy, basis, n, i, f[i - 1])
    BY <2>1, <2>2
  <2> QED
    BY <1>4, <2>2, <2>3
<1> DEFINE IsRun(g) == g = [i \in 0 .. n |->
                              IF i = 0
                              THEN [onHand |-> Opening(s), inTransit |-> 0, due |-> 0, ordered |-> 0,
                                    received |-> 0, lost |-> 0]
                              ELSE ReplayPeriod(s, policy, basis, n, i, g[i - 1])]
<1>6. IsRun(f)
  <2>1. ASSUME NEW i \in 0 .. n
        PROVE  f[i] = IF i = 0 THEN Start(s) ELSE ReplayPeriod(s, policy, basis, n, i, f[i - 1])
    <3>1. CASE i = 0
      BY <1>4, <3>1, Zenon
    <3>2. CASE i # 0
      <4>1. i \in 1 .. n
        BY <1>1, <3>2
      <4> QED
        BY <1>5, <3>2, <4>1, Zenon
    <3> QED
      BY <3>1, <3>2
  <2> HIDE DEF F
  <2> QED
    BY <1>4, <2>1 DEF Start
<1>7. IsRun(CHOOSE g : IsRun(g))
  BY <1>6
<1>8. Replay(s, policy, basis, n) = (CHOOSE g : IsRun(g))[n]
  BY DEF Replay
<1>9. \A i \in Nat : i <= n => (CHOOSE g : IsRun(g))[i] = f[i]
  <2> DEFINE c == CHOOSE g : IsRun(g)
             X == {i \in Nat : i <= n => c[i] = f[i]}
  <2>1. ASSUME NEW i \in Nat, \A m \in Nat : m < i => m \in X PROVE i \in X
    <3> SUFFICES ASSUME i <= n PROVE c[i] = f[i]
      OBVIOUS
    <3>1. c[i] = IF i = 0 THEN Start(s) ELSE ReplayPeriod(s, policy, basis, n, i, c[i - 1])
      <4>1. c = [j \in 0 .. n |-> IF j = 0 THEN Start(s)
                                  ELSE ReplayPeriod(s, policy, basis, n, j, c[j - 1])]
        BY <1>7 DEF Start
      <4>2. i \in 0 .. n
        BY <1>1
      <4> HIDE DEF c
      <4> QED
        BY <4>1, <4>2
    <3>2. CASE i = 0
      BY <1>4, <3>1, <3>2
    <3>3. CASE i # 0
      <4>1. i - 1 \in X /\ i - 1 <= n /\ i \in 1 .. n
        BY <1>1, <2>1, <3>3
      <4>2. c[i - 1] = f[i - 1]
        BY <4>1
      <4> HIDE DEF c
      <4> QED
        BY <1>5, <3>1, <3>3, <4>1, <4>2
    <3> QED
      BY <3>2, <3>3
  <2>2. Nat \subseteq X
    <3> HIDE DEF X
    <3> QED
      BY <2>1, NaturalsReached
  <2> QED
    BY <2>2
<1>10. Replay(s, policy, basis, n) = f[n]
  BY <1>1, <1>8, <1>9
<1> WITNESS f \in [0 .. n -> ReplayState]
<1> QED
  BY <1>1, <1>4, <1>5, <1>10

\* Without orders, a cell that opens right ends every period right.
LEMMA LeftOverIs ==
    ASSUME NEW h, History(h), NEW s \in Store, NEW n \in Periods
    PROVE  /\ LeftOver(s, n) \in Nat
           /\ ~ Stale(s) => LeftOver(s, n) = h[Origin(n) + Week - 1][s]
<1>1. "none" \in Policies /\ "served" \in Bases /\ n \in Nat /\ n >= 1 /\ \A i \in 1 .. n : i \in Periods
  BY NextPeriod DEF Policies, Bases
<1>2. PICK f \in [0 .. n -> ReplayState] :
        /\ f[0] = Start(s) /\ Replay(s, "none", "served", n) = f[n]
        /\ \A i \in 1 .. n : /\ i \in Periods /\ f[i - 1] \in ReplayState
                             /\ f[i] = ReplayPeriod(s, "none", "served", n, i, f[i - 1])
  BY <1>1, ReplaySteps
<1>3. LeftOver(s, n) = f[n].onHand /\ f[n] \in ReplayState /\ f[n].onHand \in Nat
  BY <1>1, <1>2 DEF LeftOver, ReplayState
<1>4. ASSUME ~ Stale(s) PROVE f[n].onHand = h[Origin(n) + Week - 1][s]
  <2> DEFINE Right(i) == /\ f[i].inTransit = 0 /\ f[i].due = 0
                         /\ f[i].onHand = IF i = 0 THEN h[WindowStart - 1][s]
                                          ELSE h[Origin(i) + Week - 1][s]
             X == {i \in Nat : i <= n => Right(i)}
  <2>1. ASSUME NEW i \in Nat, \A m \in Nat : m < i => m \in X PROVE i \in X
    <3> SUFFICES ASSUME i <= n PROVE Right(i)
      OBVIOUS
    <3>1. CASE i = 0
      <4>1. Start(s).onHand = h[WindowStart - 1][s] /\ Start(s).inTransit = 0 /\ Start(s).due = 0
        BY <1>4, OpeningIs DEF Start
      <4> QED
        BY <1>2, <3>1, <4>1
    <3>2. CASE i # 0
      <4>1. i - 1 \in X /\ i - 1 <= n /\ i \in 1 .. n
        BY <1>1, <2>1, <3>2
      <4>2. Right(i - 1) /\ i \in Periods
        BY <1>1, <4>1
      <4> DEFINE was == f[i - 1]
                 days == Within(Origin(i))
                 before == h[Origin(i) - 1][s]
                 arriving == ArrivedIn(days, s)
                 wanted == WantedIn("served", days, s)
                 wasted == WrittenOffIn(days, s)
                 after == h[Origin(i) + Week - 1][s]
      <4>3. was.onHand = before /\ was.inTransit = 0 /\ was.due = 0
        <5>1. CASE i = 1
          <6>1. i - 1 = 0 /\ Origin(i) = WindowStart
            BY <4>2, <5>1, NextPeriod
          <6>2. was.onHand = h[WindowStart - 1][s]
            BY <4>2, <6>1
          <6>3. before = h[WindowStart - 1][s]
            BY <6>1, Zenon
          <6> QED
            BY <4>2, <6>2, <6>3
        <5>2. CASE i # 1
          <6>1. i - 1 # 0
            BY <4>1, <5>2
          <6>2. Origin(i) - 1 = Origin(i - 1) + Week - 1
            BY <4>2, <5>2, NextPeriod
          <6>3. was.onHand = h[Origin(i - 1) + Week - 1][s]
            BY <4>2, <6>1
          <6>4. was.onHand = before
            BY <6>2, <6>3, Zenon
          <6> QED
            BY <4>2, <6>4
        <5> QED
          BY <5>1, <5>2
      <4>4. /\ arriving \in Nat /\ wanted \in Nat /\ wasted \in Nat /\ before \in Nat /\ after \in Nat
            /\ after = before + arriving - wanted - wasted
        BY <4>2, PeriodFlows
      <4>5. /\ f[i].onHand = Positive(Positive((was.onHand + arriving + was.due) - wanted) - wasted)
            /\ f[i].due = 0 /\ f[i].inTransit = 0
        <5>1. was \in ReplayState /\ f[i] = ReplayPeriod(s, "none", "served", n, i, was)
          BY <1>2, <4>1
        <5> HIDE DEF was
        <5>2. LET onShelf == was.onHand + arriving + was.due
                  next == ReplayPeriod(s, "none", "served", n, i, was)
              IN /\ next.onHand = Positive(Positive(onShelf - wanted) - wasted)
                 /\ next.due = 0 /\ (was.inTransit = 0 /\ was.due = 0 => next.inTransit = 0)
          BY <1>1, <4>2, <5>1, PeriodIs
        <5> QED
          BY <4>3, <5>1, <5>2
      <4> HIDE DEF before, arriving, wanted, wasted, after, was
      <4>6. f[i].onHand = after
        <5>1. (was.onHand + arriving + was.due) - wanted = after + wasted
          BY <4>3, <4>4
        <5>2. Positive((was.onHand + arriving + was.due) - wanted) = after + wasted
          BY <4>4, <5>1, PositiveIs
        <5>3. Positive(Positive((was.onHand + arriving + was.due) - wanted) - wasted) = after
          <6>1. (after + wasted) - wasted = after
            BY <4>4
          <6> QED
            BY <4>4, <5>2, <6>1, PositiveIs
        <5> QED
          BY <4>5, <5>3, Zenon
      <4>7. i # 0
        BY <3>2
      <4> QED
        BY <4>5, <4>6, <4>7 DEF after
    <3> QED
      BY <3>1, <3>2
  <2>2. Nat \subseteq X
    <3> HIDE DEF X
    <3> QED
      BY <2>1, NaturalsReached
  <2>3. n \in X /\ n # 0
    BY <1>1, <2>2
  <2> QED
    BY <2>3
<1> QED
  BY <1>3, <1>4

\* The days of the first periods.
Upto(i) == UNION {Within(Origin(j)) : j \in 1 .. i}

\* A period adds its own days to those before it.
LEMMA UptoGrows ==
    ASSUME NEW i \in Periods
    PROVE  /\ Upto(i) = Upto(i - 1) \cup Within(Origin(i)) /\ Upto(i - 1) \cap Within(Origin(i)) = {}
           /\ Upto(i) \subseteq Day /\ Upto(i - 1) \subseteq Day
<1>1. i \in Nat /\ i >= 1 /\ \A j \in 1 .. i : j \in Periods
  BY NextPeriod
<1>2. 1 .. i = (1 .. i - 1) \cup {i}
  BY <1>1
<1>3. Upto(i) = Upto(i - 1) \cup Within(Origin(i))
  BY <1>2 DEF Upto
<1>4. \A j \in 1 .. i - 1 : Origin(j) # Origin(i)
  <2> SUFFICES ASSUME NEW j \in 1 .. i - 1 PROVE Origin(j) # Origin(i)
    OBVIOUS
  <2>1. j \in Periods /\ i - j \in Nat /\ i - j >= 1 /\ Week \in Nat /\ Week >= 1 /\ j \in Nat
    BY <1>1, NumbersOfDays
  <2>2. /\ Origin(i) = WindowStart + Week * (i - 1) /\ Origin(j) = WindowStart + Week * (j - 1)
        /\ WindowStart \in Int
    BY <2>1, Window
  <2>3. Week * (i - 1) = Week * (j - 1) + Week * (i - j)
    BY <1>1, <2>1
  <2>4. Week * (i - j) >= 1
    BY <2>1
  <2>5. Week * (i - 1) \in Int /\ Week * (j - 1) \in Int /\ Week * (i - j) \in Int
    BY <1>1, <2>1
  <2> DEFINE x == Week * (i - 1)
             y == Week * (j - 1)
             z == Week * (i - j)
  <2>6. x \in Int /\ y \in Int /\ z \in Int /\ z >= 1 /\ x = y + z
    BY <2>3, <2>4, <2>5
  <2>7. Origin(i) = WindowStart + x /\ Origin(j) = WindowStart + y
    BY <2>2
  <2> HIDE DEF x, y, z
  <2> QED
    BY <2>2, <2>6, <2>7
<1>5. Upto(i - 1) \cap Within(Origin(i)) = {}
  BY <1>4 DEF Upto, Within
<1>6. Upto(i) \subseteq Day /\ Upto(i - 1) \subseteq Day
  BY DEF Upto, Within
<1> QED
  BY <1>3, <1>5, <1>6

\* And its own shortfall.
LEMMA ShortGrows ==
    ASSUME NEW h, History(h), NEW s \in Store, NEW i \in Periods
    PROVE  /\ ShortIn(Upto(i), s) = ShortIn(Upto(i - 1), s) + ShortIn(Within(Origin(i)), s)
           /\ ShortIn(Upto(i - 1), s) \in Nat /\ ShortIn(Upto(i), s) \in Nat
<1> DEFINE w == [d \in Day |-> flows["short"][d][s]]
<1>1. \A d \in Day : w[d] \in Nat /\ w[d] \in Int
  <2>1. "short" \in Kinds
    BY DEF Kinds
  <2> QED
    BY <2>1 DEF History, FlowsTyped
<1>2. ASSUME NEW A \in SUBSET Day PROVE ShortIn(A, s) = Sigma(w, A) /\ Sigma(w, A) \in Nat
  <2> DEFINE v == [d \in A |-> flows["short"][d][s]]
  <2>1. DOMAIN v = A /\ \A d \in A : v[d] = w[d]
    OBVIOUS
  <2>2. IsFiniteSet(A)
    BY NumbersOfDays, FS_Subset
  <2>3. ShortIn(A, s) = SumFunction(v)
    BY DEF ShortIn
  <2> HIDE DEF v, w
  <2>4. SumFunction(v) = Sigma(v, A)
    BY <2>1, SumFunctionIs
  <2>5. Sigma(v, A) = Sigma(w, A)
    <3>1. \A d \in A : w[d] \in Int
      BY <1>1
    <3> QED
      BY <2>1, <2>2, <3>1, SigmaSame
  <2>6. Sigma(w, A) \in Nat
    <3>1. \A d \in A : w[d] \in Nat
      BY <1>1
    <3> QED
      BY <2>2, <3>1, SigmaNat
  <2> QED
    BY <2>3, <2>4, <2>5, <2>6
<1> HIDE DEF w
<1>3. Within(Origin(i)) \in SUBSET Day
  BY DEF Within
<1>4. Sigma(w, Upto(i - 1) \cup Within(Origin(i))) = Sigma(w, Upto(i - 1)) + Sigma(w, Within(Origin(i)))
  BY <1>1, <1>3, NumbersOfDays, UptoGrows, SigmaUnion
<1>5. Sigma(w, Upto(i)) = Sigma(w, Upto(i - 1)) + Sigma(w, Within(Origin(i)))
  BY <1>4, UptoGrows, Zenon
<1> QED
  BY <1>2, <1>3, <1>5, UptoGrows

\* Under any policy a cell that opens right loses no more than it was short of.
LEMMA LostIs ==
    ASSUME NEW h, History(h), NEW s \in Store, NEW policy \in Policies, NEW n \in Periods
    PROVE  /\ Replay(s, policy, "true", n).lost \in Nat
           /\ ~ Stale(s) => Replay(s, policy, "true", n).lost <= ShortIn(Upto(n), s)
<1>1. "true" \in Bases /\ n \in Nat /\ n >= 1 /\ \A i \in 1 .. n : i \in Periods
  BY NextPeriod DEF Bases
<1>2. PICK f \in [0 .. n -> ReplayState] :
        /\ f[0] = Start(s) /\ Replay(s, policy, "true", n) = f[n]
        /\ \A i \in 1 .. n : /\ i \in Periods /\ f[i - 1] \in ReplayState
                             /\ f[i] = ReplayPeriod(s, policy, "true", n, i, f[i - 1])
  BY <1>1, ReplaySteps
<1>3. f[n].lost \in Nat
  BY <1>1, <1>2 DEF ReplayState
<1>4. ASSUME ~ Stale(s) PROVE f[n].lost <= ShortIn(Upto(n), s)
  <2> DEFINE at(i) == IF i = 0 THEN h[WindowStart - 1][s] ELSE h[Origin(i) + Week - 1][s]
             Bound(i) == /\ f[i].onHand - f[i].lost >= at(i) - ShortIn(Upto(i), s)
                         /\ f[i].lost <= ShortIn(Upto(i), s)
             X == {i \in Nat : i <= n => Bound(i)}
  <2>1. ASSUME NEW i \in Nat, \A m \in Nat : m < i => m \in X PROVE i \in X
    <3> SUFFICES ASSUME i <= n PROVE Bound(i)
      OBVIOUS
    <3>1. CASE i = 0
      <4>1. f[0].onHand = at(0) /\ f[0].lost = 0 /\ at(0) \in Nat
        BY <1>2, <1>4, OpeningIs DEF Start
      <4>2. ShortIn(Upto(0), s) \in Nat
        <5>1. 1 \in Periods /\ 1 - 1 = 0
          BY <1>1
        <5>2. ShortIn(Upto(1 - 1), s) \in Nat
          BY <5>1, ShortGrows
        <5> QED
          BY <5>1, <5>2
      <4> HIDE DEF at
      <4> QED
        BY <3>1, <4>1, <4>2
    <3>2. CASE i # 0
      <4>1. i - 1 \in X /\ i - 1 <= n /\ i \in 1 .. n
        BY <1>1, <2>1, <3>2
      <4>2. Bound(i - 1) /\ i \in Periods
        BY <1>1, <4>1
      <4> DEFINE was == f[i - 1]
                 days == Within(Origin(i))
                 before == h[Origin(i) - 1][s]
                 arriving == ArrivedIn(days, s)
                 wanted == WantedIn("true", days, s)
                 met == WantedIn("served", days, s)
                 wasted == WrittenOffIn(days, s)
                 after == h[Origin(i) + Week - 1][s]
                 owed == ShortIn(Upto(i - 1), s)
                 more == ShortIn(days, s)
                 total == ShortIn(Upto(i), s)
      <4>3. at(i - 1) = before /\ at(i) = after
        <5>1. CASE i = 1
          <6>1. i - 1 = 0 /\ Origin(i) = WindowStart
            BY <4>2, <5>1, NextPeriod
          <6>2. at(i - 1) = h[WindowStart - 1][s]
            BY <6>1
          <6>3. before = h[WindowStart - 1][s]
            BY <6>1, Zenon
          <6> QED
            BY <3>2, <6>2, <6>3
        <5>2. CASE i # 1
          <6>1. i - 1 # 0
            BY <4>1, <5>2
          <6>2. Origin(i) - 1 = Origin(i - 1) + Week - 1
            BY <4>2, <5>2, NextPeriod
          <6>3. at(i - 1) = h[Origin(i - 1) + Week - 1][s]
            BY <6>1
          <6>4. at(i - 1) = before
            BY <6>2, <6>3, Zenon
          <6> QED
            BY <3>2, <6>4
        <5> QED
          BY <5>1, <5>2
      <4>4. /\ arriving \in Nat /\ met \in Nat /\ wasted \in Nat /\ before \in Nat /\ after \in Nat
            /\ after = before + arriving - met - wasted
            /\ more \in Nat /\ wanted = met + more
        BY <4>2, PeriodFlows
      <4>5. total = owed + more /\ owed \in Nat /\ total \in Nat
        BY <4>2, ShortGrows
      <4>6. was \in ReplayState /\ f[i] = ReplayPeriod(s, policy, "true", n, i, was)
        BY <1>2, <4>1
      <4>7. /\ was.onHand \in Nat /\ was.due \in Nat /\ was.lost \in Nat
            /\ was.onHand - was.lost >= before - owed /\ was.lost <= owed
        <5>1. was.onHand - was.lost >= at(i - 1) - owed /\ was.lost <= owed
          BY <4>2
        <5>2. was.onHand \in Nat /\ was.due \in Nat /\ was.lost \in Nat
          BY <4>6 DEF ReplayState
        <5> HIDE DEF was, at, before
        <5> QED
          BY <4>3, <5>1, <5>2
      <4> HIDE DEF was
      <4>8. /\ f[i].onHand = Positive(Positive((was.onHand + arriving + was.due) - wanted) - wasted)
            /\ f[i].lost = was.lost + Positive(wanted - (was.onHand + arriving + was.due))
        BY <1>1, <4>2, <4>6, PeriodIs
      <4> HIDE DEF before, arriving, wanted, met, wasted, after, owed, more, total, at
      <4> DEFINE shelf == was.onHand + arriving + was.due
      <4>9. shelf \in Nat /\ shelf >= was.onHand + arriving /\ wanted \in Nat
        BY <4>4, <4>7
      <4>10. /\ f[i].onHand = Positive(Positive(shelf - wanted) - wasted)
             /\ f[i].lost = was.lost + Positive(wanted - shelf)
        BY <4>8
      <4> HIDE DEF shelf
      <4>11. f[i].onHand - f[i].lost >= after - total /\ f[i].lost <= total
        <5>1. CASE shelf >= wanted
          <6>1. f[i].lost = was.lost + 0 /\ Positive(shelf - wanted) = shelf - wanted
            BY <4>9, <4>10, <5>1 DEF Positive
          <6>2. f[i].onHand >= shelf - wanted - wasted /\ f[i].onHand \in Nat
            BY <4>4, <4>9, <4>10, <5>1, <6>1 DEF Positive
          <6> QED
            BY <4>4, <4>5, <4>7, <4>9, <6>1, <6>2
        <5>2. CASE shelf < wanted
          <6>1. f[i].lost = was.lost + (wanted - shelf) /\ Positive(shelf - wanted) = 0
            BY <4>9, <4>10, <5>2 DEF Positive
          <6>2. f[i].onHand = 0
            BY <4>4, <4>10, <6>1 DEF Positive
          <6> QED
            BY <4>4, <4>5, <4>7, <4>9, <6>1, <6>2
        <5> QED
          BY <4>4, <4>9, <5>1, <5>2
      <4>12. f[i].onHand - f[i].lost >= at(i) - total
        BY <4>3, <4>11
      <4> QED
        BY <4>11, <4>12 DEF total
    <3> QED
      BY <3>1, <3>2
  <2>2. Nat \subseteq X
    <3> HIDE DEF X
    <3> QED
      BY <2>1, NaturalsReached
  <2>3. n \in X
    BY <1>1, <2>2
  <2> HIDE DEF at
  <2> QED
    BY <1>1, <2>3
<1> QED
  BY <1>2, <1>3, <1>4

\* Once everything has happened, the oracle's error is the stock of stale cells.
LEMMA OracleOfHistory ==
    ASSUME NEW h, History(h), NEW n \in Compared
    PROVE  Delta(n) = SumFunction([s \in {t \in Store : Stale(t)} |-> LeftOver(s, n)])
<1> DEFINE old == {t \in Store : Stale(t)}
           new == Store \ old
           left == [s \in Store |-> LeftOver(s, n)]
           seen == [s \in Store |-> Closed(Origin(n), s)]
           part == [s \in old |-> LeftOver(s, n)]
<1>1. n \in Periods
  BY DEF Compared
<1>2. IsFiniteSet(Store) /\ IsFiniteSet(old) /\ IsFiniteSet(new) /\ Store = old \cup new /\ old \cap new = {}
      /\ old \in SUBSET Store /\ new \in SUBSET Store
  BY NumbersOfDays, FS_Subset
<1>3. \A s \in Store :
        /\ left[s] \in Nat /\ seen[s] = h[Origin(n) + Week - 1][s]
        /\ (s \in new => left[s] = seen[s]) /\ (s \in old => seen[s] = 0 /\ part[s] = left[s])
  <2> SUFFICES ASSUME NEW s \in Store
               PROVE  /\ left[s] \in Nat /\ seen[s] = h[Origin(n) + Week - 1][s]
                      /\ (s \in new => left[s] = seen[s])
                      /\ (s \in old => seen[s] = 0 /\ part[s] = left[s])
    OBVIOUS
  <2>1. left[s] = LeftOver(s, n) /\ seen[s] = Closed(Origin(n), s)
    OBVIOUS
  <2>2. Closed(Origin(n), s) = h[Origin(n) + Week - 1][s]
    BY <1>1, ClosedIs
  <2>3. LeftOver(s, n) \in Nat /\ (~ Stale(s) => LeftOver(s, n) = h[Origin(n) + Week - 1][s])
    BY <1>1, LeftOverIs
  <2>4. ASSUME Stale(s) PROVE h[Origin(n) + Week - 1][s] = 0
    <3> DEFINE e == Origin(n) + Week - 1
    <3>1. e \in Day /\ e >= Thursday(WindowStart)
      <4>1. /\ Origin(n) \in Int /\ Origin(n) >= WindowStart /\ Origin(n) + Week - 1 <= WindowEnd
            /\ Thursday(WindowStart) < WindowStart /\ WindowStart \in Int /\ WindowEnd \in Int
            /\ Thursday(WindowStart) \in Day
        BY <1>1, Window
      <4>2. WindowEnd <= LastDay /\ Week \in Int /\ Week >= 2 /\ LastDay \in Int /\ Day = 1 .. LastDay
        BY NumbersOfDays, Thursdays, CalendarAssumption
      <4>3. Thursday(WindowStart) \in Int /\ Thursday(WindowStart) >= 1
        BY <4>1, <4>2
      <4> QED
        BY <4>1, <4>2, <4>3
    <3> HIDE DEF e
    <3>2. h[e][s] = 0
      BY <2>4, <3>1, StaleIsGone
    <3> QED
      BY <3>2 DEF e
  <2>5. s \in old => part[s] = left[s]
    OBVIOUS
  <2> QED
    BY <2>1, <2>2, <2>3, <2>4, <2>5
<1>4. Closing(n) = Sigma(left, Store) /\ Observed(Origin(n)) = Sigma(seen, Store)
      /\ SumFunction(part) = Sigma(part, old)
  <2>1. Closing(n) = SumFunction(left) /\ Observed(Origin(n)) = SumFunction(seen)
    BY DEF Closing, Observed
  <2>2. DOMAIN left = Store /\ DOMAIN seen = Store /\ DOMAIN part = old
    OBVIOUS
  <2> HIDE DEF left, seen, part, old
  <2> QED
    BY <2>1, <2>2, SumFunctionIs
<1> HIDE DEF left, seen, part, new
<1>5. \A s \in Store : left[s] \in Int /\ seen[s] \in Int
  BY <1>2, <1>3
<1>6. Sigma(left, Store) = Sigma(left, old) + Sigma(left, new)
      /\ Sigma(seen, Store) = Sigma(seen, old) + Sigma(seen, new)
  <2> HIDE DEF old
  <2>1. Sigma(left, old \cup new) = Sigma(left, old) + Sigma(left, new)
    BY <1>2, <1>5, SigmaUnion
  <2>2. Sigma(seen, old \cup new) = Sigma(seen, old) + Sigma(seen, new)
    BY <1>2, <1>5, SigmaUnion
  <2> QED
    BY <1>2, <2>1, <2>2, Zenon
<1>7. Sigma(left, new) = Sigma(seen, new) /\ Sigma(seen, new) \in Int
  <2>1. \A s \in new : seen[s] \in Int /\ left[s] = seen[s]
    BY <1>2, <1>3, <1>5
  <2> QED
    BY <1>2, <2>1, SigmaSame, SigmaType
<1>8. Sigma(seen, old) = 0
  <2>1. \A s \in old : seen[s] = 0
    BY <1>2, <1>3
  <2> HIDE DEF old
  <2> QED
    BY <1>2, <2>1, SigmaZero
<1>9. Sigma(part, old) = Sigma(left, old) /\ Sigma(left, old) \in Int
  <2>1. \A s \in old : left[s] \in Int /\ part[s] = left[s]
    BY <1>2, <1>3, <1>5
  <2> HIDE DEF old
  <2> QED
    BY <1>2, <2>1, SigmaSame, SigmaType
<1>10. Closing(n) - Observed(Origin(n)) = Sigma(part, old)
  <2> HIDE DEF old
  <2> QED
    BY <1>4, <1>6, <1>7, <1>8, <1>9
<1> QED
  BY <1>4, <1>10 DEF Delta, part

\* Once everything has happened, an accepted candidate loses less.
LEMMA AcceptedOfHistory ==
    ASSUME NEW h, History(h), \A s \in Store : ~ Stale(s), Accepted
    PROVE  Metrics("candidate").lostUnits < ShortInWindow
<1> DEFINE lost(policy) == [s \in Store |-> Replay(s, policy, "true", Weeks).lost]
           short == [s \in Store |->
                       SumFunction([d \in UNION {Within(Origin(i)) : i \in Periods} |-> flows["short"][d][s]])]
<1>1. Weeks \in Periods /\ Periods = 1 .. Weeks /\ IsFiniteSet(Store)
  BY ReplayAssumption, NumbersOfDays DEF Periods
<1>2. \A policy \in Policies : Metrics(policy).lostUnits = SumFunction(lost(policy))
  BY DEF Metrics
<1>3. ShortInWindow = SumFunction(short)
  BY DEF ShortInWindow
<1>4. \A s \in Store : short[s] = ShortIn(Upto(Weeks), s)
  BY <1>1 DEF ShortIn, Upto
<1>5. \A s \in Store : short[s] \in Nat
  BY <1>1, <1>4, ShortGrows
<1>6. \A policy \in Policies, s \in Store :
        lost(policy)[s] \in Nat /\ lost(policy)[s] <= short[s]
  <2> SUFFICES ASSUME NEW policy \in Policies, NEW s \in Store
               PROVE  lost(policy)[s] \in Nat /\ lost(policy)[s] <= short[s]
    OBVIOUS
  <2>1. /\ Replay(s, policy, "true", Weeks).lost \in Nat
        /\ Replay(s, policy, "true", Weeks).lost <= ShortIn(Upto(Weeks), s)
    BY <1>1, LostIs
  <2>2. lost(policy)[s] = Replay(s, policy, "true", Weeks).lost
    OBVIOUS
  <2> HIDE DEF lost, short
  <2> QED
    BY <1>4, <2>1, <2>2
<1>7. DOMAIN short = Store /\ \A policy \in Policies : DOMAIN lost(policy) = Store
  OBVIOUS
<1>8. "incumbent" \in Policies /\ "candidate" \in Policies
  BY DEF Policies
<1>9. Metrics("candidate").lostUnits < Metrics("incumbent").lostUnits
  BY DEF Accepted, Beats
<1> DEFINE c == lost("candidate")
           i == lost("incumbent")
<1>10. /\ \A s \in Store : c[s] \in Int /\ i[s] \in Int /\ short[s] \in Int /\ i[s] <= short[s]
       /\ Metrics("candidate").lostUnits = SumFunction(c)
       /\ Metrics("incumbent").lostUnits = SumFunction(i)
       /\ DOMAIN c = Store /\ DOMAIN i = Store /\ DOMAIN short = Store
  <2> HIDE DEF lost, short
  <2> QED
    BY <1>2, <1>5, <1>6, <1>7, <1>8
<1> HIDE DEF c, i, short
<1>11. SumFunction(c) = Sigma(c, Store) /\ SumFunction(i) = Sigma(i, Store) /\ SumFunction(short) = Sigma(short, Store)
  BY <1>10, SumFunctionIs
<1>12. Sigma(i, Store) <= Sigma(short, Store) /\ Sigma(i, Store) \in Int /\ Sigma(short, Store) \in Int
  BY <1>1, <1>10, SigmaAtMost
<1>13. Sigma(c, Store) \in Int
  BY <1>1, <1>10, SigmaType
<1> QED
  BY <1>3, <1>9, <1>10, <1>11, <1>12, <1>13

-----------------------------------------------------------------------------
(* The days that make the history.                                         *)

CellState == [onHand : Nat, inTransit : Nat, sold : Nat, exists : BOOLEAN, oldest : Nat]

Parts == {"receive", "expire", "sell", "review", "done"}

\* What is queued for a cell.
Coming(s) == {a \in arrivals : a.to = s}

\* The cells: what they have they have seen, and what is queued for them is on
\* its way.
StockInv ==
    /\ day \in Day /\ phase \in Parts /\ (phase = "done" => day = LastDay)
    /\ served \subseteq Store
    /\ phase \in {"receive", "expire"} => served = {}
    /\ phase = "sell" /\ Store # {} => served # Store
    /\ cell \in [Store -> CellState]
    /\ \A s \in Store :
         /\ cell[s].onHand + cell[s].inTransit > 0 \/ cell[s].sold # NoDay => cell[s].exists
         /\ Units(Coming(s)) <= cell[s].inTransit
    /\ IsFiniteSet(arrivals)
    /\ \A a \in arrivals : a.to \in Store /\ a.quantity \in Nat \ {0}

\* Units of shipments are a sum.
LEMMA UnitsAre ==
    ASSUME NEW A, IsFiniteSet(A), \A a \in A : a.quantity \in Nat,
           NEW w, \A a \in A : w[a] = a.quantity
    PROVE  Units(A) = Sigma(w, A) /\ Units(A) \in Nat /\ \A a \in A : a.quantity <= Units(A)
<1> DEFINE v == [a \in A |-> a.quantity]
<1>1. DOMAIN v = A /\ (\A a \in A : v[a] = w[a]) /\ Units(A) = SumFunction(v)
  BY DEF Units
<1> HIDE DEF v
<1>2. Units(A) = Sigma(v, A)
  BY <1>1, SumFunctionIs
<1>3. \A a \in A : w[a] \in Nat /\ w[a] \in Int
  OBVIOUS
<1>4. Sigma(v, A) = Sigma(w, A)
  BY <1>1, <1>3, SigmaSame
<1>5. Sigma(w, A) \in Nat /\ \A a \in A : w[a] <= Sigma(w, A)
  BY <1>3, SigmaNat
<1> QED
  BY <1>2, <1>4, <1>5

\* Units of shipments, parted and joined.
LEMMA UnitsSplit ==
    ASSUME NEW A, IsFiniteSet(A), \A a \in A : a.quantity \in Nat, NEW B \in SUBSET A
    PROVE  /\ Units(A) \in Nat /\ Units(B) \in Nat /\ Units(A \ B) \in Nat
           /\ Units(A) = Units(A \ B) + Units(B)
<1> DEFINE w == [a \in A |-> a.quantity]
<1>1. \A a \in A : w[a] = a.quantity /\ w[a] \in Int
  OBVIOUS
<1> HIDE DEF w
<1>2. IsFiniteSet(B) /\ IsFiniteSet(A \ B) /\ A = (A \ B) \cup B /\ (A \ B) \cap B = {}
      /\ (A \ B) \in SUBSET A
  BY FS_Subset
<1>3. Units(A) = Sigma(w, A) /\ Units(A) \in Nat
  BY <1>1, UnitsAre
<1>4. Units(B) = Sigma(w, B) /\ Units(B) \in Nat
  BY <1>1, <1>2, UnitsAre
<1>5. Units(A \ B) = Sigma(w, A \ B) /\ Units(A \ B) \in Nat
  BY <1>1, <1>2, UnitsAre
<1>6. Sigma(w, (A \ B) \cup B) = Sigma(w, A \ B) + Sigma(w, B)
  BY <1>1, <1>2, SigmaUnion
<1>7. Sigma(w, A) = Sigma(w, A \ B) + Sigma(w, B)
  BY <1>2, <1>6, Zenon
<1> QED
  BY <1>3, <1>4, <1>5, <1>7

LEMMA UnitsOfOne == ASSUME NEW x, x.quantity \in Nat PROVE Units({x}) = x.quantity
<1> DEFINE w == [a \in {x} |-> a.quantity]
<1>1. IsFiniteSet({x}) /\ (\A a \in {x} : a.quantity \in Nat /\ w[a] = a.quantity) /\ w[x] = x.quantity
  BY FS_Singleton
<1> HIDE DEF w
<1>2. Units({x}) = Sigma(w, {x})
  BY <1>1, UnitsAre
<1>3. w[x] \in Int
  BY <1>1
<1>4. Sigma(w, {x}) = w[x]
  BY <1>3, SigmaOne
<1> QED
  BY <1>1, <1>2, <1>4

LEMMA NoUnits == Units({}) = 0
<1> DEFINE w == [a \in {} |-> a.quantity]
<1>1. DOMAIN w = {} /\ Units({}) = SumFunction(w)
  BY DEF Units
<1> HIDE DEF w
<1> QED
  BY <1>1, SumFunctionIs, SigmaEmpty

\* What is queued for a cell: finite, some, and no more than is on the way.
LEMMA ComingIs ==
    ASSUME StockInv, NEW s \in Store, NEW B \in SUBSET Coming(s)
    PROVE  /\ IsFiniteSet(Coming(s)) /\ \A a \in Coming(s) : a.quantity \in Nat \ {0}
           /\ Units(Coming(s)) \in Nat /\ Units(B) \in Nat /\ Units(Coming(s) \ B) \in Nat
           /\ Units(Coming(s)) = Units(Coming(s) \ B) + Units(B)
           /\ B # {} => Units(B) > 0
           /\ cell[s].inTransit = 0 => Coming(s) = {}
<1>1. IsFiniteSet(Coming(s)) /\ \A a \in Coming(s) : a.quantity \in Nat \ {0} /\ a.quantity \in Nat
  <2>1. IsFiniteSet(arrivals) /\ Coming(s) \subseteq arrivals /\ \A a \in arrivals : a.quantity \in Nat \ {0}
    BY DEF StockInv, Coming
  <2> QED
    BY <2>1, FS_Subset
<1>2. /\ Units(Coming(s)) \in Nat /\ Units(B) \in Nat /\ Units(Coming(s) \ B) \in Nat
      /\ Units(Coming(s)) = Units(Coming(s) \ B) + Units(B)
  BY <1>1, UnitsSplit
<1>3. ASSUME NEW C \in SUBSET Coming(s), C # {} PROVE Units(C) > 0
  <2> DEFINE w == [a \in C |-> a.quantity]
  <2>1. IsFiniteSet(C) /\ \A a \in C : a.quantity \in Nat /\ w[a] = a.quantity
    BY <1>1, FS_Subset
  <2> HIDE DEF w
  <2>2. Units(C) \in Nat /\ \A a \in C : a.quantity <= Units(C)
    BY <2>1, UnitsAre
  <2>3. PICK a \in C : TRUE
    BY <1>3
  <2>4. a.quantity \in Nat \ {0} /\ a.quantity <= Units(C)
    BY <1>1, <2>2, <2>3
  <2> QED
    BY <2>2, <2>4
<1>4. ASSUME cell[s].inTransit = 0 PROVE Coming(s) = {}
  <2>1. Units(Coming(s)) <= 0
    BY <1>4 DEF StockInv
  <2> QED
    BY <1>2, <1>3, <2>1
<1> QED
  BY <1>1, <1>2, <1>3, <1>4

\* The parts of a cell.
LEMMA CellIs ==
    ASSUME StockInv, NEW s \in Store
    PROVE  /\ cell[s] \in CellState /\ cell[s].onHand \in Nat /\ cell[s].inTransit \in Nat
           /\ cell[s].sold \in Nat /\ cell[s].exists \in BOOLEAN /\ cell[s].oldest \in Nat
           /\ cell[s].onHand > 0 => cell[s].exists
           /\ cell[s].inTransit > 0 => cell[s].exists
           /\ day \in Nat /\ day >= 1 /\ day <= LastDay /\ LastDay \in Nat
<1>1. cell[s] \in CellState /\ day \in Day
  BY DEF StockInv
<1>2. /\ cell[s].onHand \in Nat /\ cell[s].inTransit \in Nat
      /\ cell[s].sold \in Nat /\ cell[s].exists \in BOOLEAN /\ cell[s].oldest \in Nat
  BY <1>1 DEF CellState
<1>3. cell[s].onHand + cell[s].inTransit > 0 => cell[s].exists
  BY DEF StockInv
<1> QED
  BY <1>1, <1>2, <1>3, NumbersOfDays

\* No more is thrown away than there is.
LEMMA WastedIs ==
    ASSUME StockInv, NEW s \in Store
    PROVE  /\ Wasted(cell[s]) \in Nat /\ Wasted(cell[s]) <= cell[s].onHand
           /\ ~ Aged(cell[s]) => Wasted(cell[s]) = 0
           /\ cell[s].onHand = 0 => ~ Aged(cell[s])
<1> DEFINE n == cell[s].onHand
           cut == IF n < 8 THEN 1 ELSE n \div 4
<1>1. n \in Nat
  BY CellIs
<1>2. cut \in Nat
  BY <1>1
<1>3. Lesser(n, cut) \in Nat /\ Lesser(n, cut) <= n
  <2> HIDE DEF n, cut
  <2> QED
    BY <1>1, <1>2, LesserIs
<1>4. Wasted(cell[s]) = IF Aged(cell[s]) THEN Lesser(n, cut) ELSE 0
  BY DEF Wasted
<1> QED
  BY <1>1, <1>3, <1>4 DEF Aged

\* The stores' shipments of an evening.
LEMMA OrderIs ==
    ASSUME StockInv, NEW s \in Store, NEW target, target \in [Store -> StoreTargets]
    PROVE  Ordered(s, target[s]) \in Nat
<1> DEFINE n == Positive(target[s] - cell[s].onHand - cell[s].inTransit)
<1>1. target[s] \in Nat /\ StorePack \in Nat \ {0}
  BY StoreAssumption
<1>2. n \in Nat
  <2>1. target[s] - cell[s].onHand - cell[s].inTransit \in Int
    BY <1>1, CellIs
  <2> QED
    BY <2>1, PositiveIs
<1>3. Ordered(s, target[s]) = ((n + StorePack - 1) \div StorePack) * StorePack
  BY DEF Ordered, InPacks
<1> HIDE DEF n
<1>4. (n + StorePack - 1) \div StorePack \in Nat
  <2> DEFINE m == n + StorePack - 1
  <2>1. m \in Nat
    BY <1>1, <1>2
  <2> HIDE DEF m
  <2>2. m \div StorePack \in Nat
    BY <1>1, <2>1
  <2> QED
    BY <2>2 DEF m
<1> DEFINE q == (n + StorePack - 1) \div StorePack
<1>5. q * StorePack \in Nat
  <2>1. q \in Nat
    BY <1>4
  <2> HIDE DEF q
  <2> QED
    BY <1>1, <2>1
<1> QED
  BY <1>3, <1>5

\* What is known of the flows: days to come have none, and today has those of
\* the parts of the day that have run.
FlowsInv ==
    /\ FlowsTyped
    /\ \A k \in Kinds, d \in Day, s \in Store : d > day => flows[k][d][s] = 0
    /\ \A s \in Store :
         /\ phase = "receive" => flows["received"][day][s] = 0
         /\ phase \in {"receive", "expire"} => flows["wasted"][day][s] = 0
         /\ phase \in {"receive", "expire"} \/ (phase = "sell" /\ s \notin served)
              => flows["sold"][day][s] = 0 /\ flows["short"][day][s] = 0

\* Out of the assortment and empty, with nothing on the way.
Gone(s) == day > Discontinued[s] /\ cell[s].onHand = 0 /\ cell[s].inTransit = 0

\* Within a day: what the cells gain is what the flows of the day gain, a cell
\* that is gone stays so.
Moved ==
    /\ day' = day /\ snaps' = snaps /\ lag' = lag /\ phase # "done" /\ phase' # "done"
    /\ \A d \in Day, s \in Store : d # day => Net(d, s)' = Net(d, s)
    /\ \A s \in Store :
         /\ cell'[s].onHand \in Nat /\ Net(day, s) \in Int /\ Net(day, s)' \in Int
         /\ cell'[s].onHand = cell[s].onHand + (Net(day, s)' - Net(day, s))
         /\ Gone(s) => cell'[s] = cell[s]
         /\ cell[s].exists => cell'[s].exists

\* The flows of a day, typed.
LEMMA TodaysFlows ==
    ASSUME StockInv, FlowsInv, NEW s \in Store, NEW d \in Day
    PROVE  /\ flows["received"][d][s] \in Nat /\ flows["wasted"][d][s] \in Nat
           /\ flows["sold"][d][s] \in Nat /\ flows["short"][d][s] \in Nat
           /\ flows["short"][d][s] <= flows["sold"][d][s]
           /\ Net(d, s) \in Int /\ day \in Day
<1>1. \A k \in Kinds : flows[k][d][s] \in Nat
  BY DEF FlowsInv, FlowsTyped
<1>2. /\ flows["received"][d][s] \in Nat /\ flows["wasted"][d][s] \in Nat
      /\ flows["sold"][d][s] \in Nat /\ flows["short"][d][s] \in Nat
  BY <1>1 DEF Kinds
<1>3. Net(d, s) \in Int
  BY <1>2 DEF Net
<1> QED
  BY <1>2, <1>3 DEF FlowsInv, FlowsTyped, StockInv

\* The flows after a part of the day is recorded.
LEMMA Recorded ==
    ASSUME FlowsInv, day \in Day, NEW kind \in Kinds, NEW amount \in [Store -> Nat], Record(kind, amount)
    PROVE  /\ flows' \in [Kinds -> [Day -> [Store -> Nat]]]
           /\ \A k \in Kinds, d \in Day, s \in Store :
                flows'[k][d][s] = IF k = kind /\ d = day THEN amount[s] ELSE flows[k][d][s]
<1>1. flows \in [Kinds -> [Day -> [Store -> Nat]]]
  BY DEF FlowsInv, FlowsTyped
<1>2. flows' = [flows EXCEPT ![kind] = [flows[kind] EXCEPT ![day] = amount]]
  BY DEF Record
<1>3. [flows[kind] EXCEPT ![day] = amount] \in [Day -> [Store -> Nat]]
  BY <1>1
<1>4. flows' \in [Kinds -> [Day -> [Store -> Nat]]]
  BY <1>1, <1>2, <1>3
<1>5. ASSUME NEW k \in Kinds, NEW d \in Day, NEW s \in Store
      PROVE  flows'[k][d][s] = IF k = kind /\ d = day THEN amount[s] ELSE flows[k][d][s]
  <2>1. CASE k = kind
    <3>1. flows'[k] = [flows[kind] EXCEPT ![day] = amount]
      BY <1>1, <1>2, <2>1
    <3>2. flows'[k][d] = IF d = day THEN amount ELSE flows[kind][d]
      BY <1>1, <3>1
    <3> QED
      BY <2>1, <3>2
  <2>2. CASE k # kind
    <3>1. flows'[k] = flows[k]
      BY <1>1, <1>2, <2>2
    <3> QED
      BY <2>2, <3>1
  <2> QED
    BY <2>1, <2>2
<1> QED
  BY <1>4, <1>5

\* Receipts move stock from the lane to the shelf.
LEMMA ReceiveMoves ==
    ASSUME StockInv, FlowsInv, Receive
    PROVE  StockInv' /\ FlowsInv' /\ Moved
<1> DEFINE B(s) == {a \in Arriving : a.to = s}
           got(s) == Units(B(s))
           amount == [s \in Store |-> got(s)]
<1>1. /\ phase = "receive" /\ phase' = "expire" /\ day' = day /\ served' = served /\ lag' = lag
      /\ snaps' = snaps /\ Record("received", amount) /\ arrivals' = arrivals \ Arriving
      /\ cell' = [s \in Store |->
                 IF B(s) # {}
                 THEN [cell[s] EXCEPT !.inTransit = Positive(@ - got(s)),
                                      !.onHand = @ + got(s),
                                      !.oldest = IF @ = NoDay THEN day ELSE @]
                 ELSE cell[s]]
  <2>1. \A s \in Store : (\E a \in Arriving : a.to = s) <=> B(s) # {}
    OBVIOUS
  <2> QED
    BY <2>1 DEF Receive, ReceiveAtStores
<1>2. \A s \in Store : B(s) \in SUBSET Coming(s) /\ Coming(s)' = Coming(s) \ B(s)
  BY <1>1 DEF Coming, Arriving
<1>3. ASSUME NEW s \in Store
      PROVE  /\ got(s) \in Nat /\ Units(Coming(s)') \in Nat /\ Units(Coming(s)) \in Nat
             /\ Units(Coming(s)) = Units(Coming(s)') + got(s)
             /\ (B(s) # {} => got(s) > 0) /\ (B(s) = {} => got(s) = 0)
             /\ (cell[s].inTransit = 0 => B(s) = {})
             /\ Units(Coming(s)) <= cell[s].inTransit
  <2>1. /\ Units(Coming(s)) \in Nat /\ Units(B(s)) \in Nat /\ Units(Coming(s) \ B(s)) \in Nat
        /\ Units(Coming(s)) = Units(Coming(s) \ B(s)) + Units(B(s))
        /\ B(s) # {} => Units(B(s)) > 0
        /\ cell[s].inTransit = 0 => Coming(s) = {}
    BY <1>2, ComingIs
  <2>2. B(s) = {} => got(s) = 0
    BY NoUnits
  <2>3. Units(Coming(s)) <= cell[s].inTransit
    BY DEF StockInv
  <2>4. Units(Coming(s)') = Units(Coming(s) \ B(s))
    BY <1>2
  <2> HIDE DEF B
  <2> QED
    BY <1>2, <2>1, <2>2, <2>3, <2>4
<1>4. amount \in [Store -> Nat] /\ \A s \in Store : amount[s] = got(s)
  BY <1>3
<1> HIDE DEF amount, got, B
<1>5. ASSUME NEW s \in Store
      PROVE  /\ cell'[s] \in CellState
             /\ cell'[s].onHand = cell[s].onHand + got(s)
             /\ cell'[s].inTransit = Positive(cell[s].inTransit - got(s))
             /\ cell'[s].exists = cell[s].exists /\ cell'[s].sold = cell[s].sold
             /\ (got(s) > 0 => cell[s].exists) /\ (got(s) = 0 => cell'[s] = cell[s])
  <2>1. /\ cell[s] \in CellState /\ cell[s].onHand \in Nat /\ cell[s].inTransit \in Nat
        /\ cell[s].oldest \in Nat /\ cell[s].exists \in BOOLEAN /\ cell[s].sold \in Nat
        /\ (cell[s].inTransit > 0 => cell[s].exists) /\ day \in Nat
    BY CellIs
  <2>2. /\ got(s) \in Nat /\ got(s) <= cell[s].inTransit
        /\ (B(s) # {} => got(s) > 0) /\ (B(s) = {} => got(s) = 0)
    BY <1>3, <2>1
  <2>3. CASE B(s) # {}
    <3>1. cell'[s] = [cell[s] EXCEPT !.inTransit = Positive(cell[s].inTransit - got(s)),
                                     !.onHand = cell[s].onHand + got(s),
                                     !.oldest = IF cell[s].oldest = NoDay THEN day ELSE cell[s].oldest]
      BY <1>1, <2>3
    <3>2. Positive(cell[s].inTransit - got(s)) \in Nat
      <4>1. cell[s].inTransit - got(s) \in Int
        BY <2>1, <2>2
      <4> QED
        BY <4>1, PositiveIs
    <3>3. cell[s].onHand + got(s) \in Nat
      BY <2>1, <2>2
    <3>4. (IF cell[s].oldest = NoDay THEN day ELSE cell[s].oldest) \in Nat
      BY <2>1
    <3>5. /\ cell'[s] \in CellState /\ cell'[s].onHand = cell[s].onHand + got(s)
          /\ cell'[s].inTransit = Positive(cell[s].inTransit - got(s))
          /\ cell'[s].sold = cell[s].sold /\ cell'[s].exists = cell[s].exists
      <4> DEFINE i == Positive(cell[s].inTransit - got(s))
                 n == cell[s].onHand + got(s)
                 o == IF cell[s].oldest = NoDay THEN day ELSE cell[s].oldest
                 c == cell[s]
                 e == cell'[s]
      <4>1. c \in CellState /\ i \in Nat /\ n \in Nat /\ o \in Nat
        BY <2>1, <3>2, <3>3, <3>4
      <4>2. e = [c EXCEPT !.inTransit = i, !.onHand = n, !.oldest = o]
        BY <3>1
      <4> HIDE DEF i, n, o, c, e
      <4>3. e \in CellState /\ e.onHand = n /\ e.inTransit = i /\ e.sold = c.sold /\ e.exists = c.exists
        BY <4>1, <4>2 DEF CellState
      <4> QED
        BY <4>3 DEF i, n, c, e
    <3>6. got(s) > 0 /\ cell[s].exists
      BY <2>1, <2>2, <2>3
    <3> QED
      BY <2>2, <3>5, <3>6
  <2>4. CASE B(s) = {}
    <3>1. cell'[s] = cell[s] /\ got(s) = 0
      BY <1>1, <2>2, <2>4
    <3>2. Positive(cell[s].inTransit - got(s)) = cell[s].inTransit
      BY <2>1, <3>1 DEF Positive
    <3>3. cell[s].onHand + got(s) = cell[s].onHand
      BY <2>1, <3>1
    <3> QED
      BY <2>1, <3>1, <3>2, <3>3
  <2> QED
    BY <2>3, <2>4
<1>6. StockInv'
  <2>1. /\ day' \in Day /\ phase' \in Parts /\ (phase' = "done" => day' = LastDay)
        /\ served' \subseteq Store /\ served' = {} /\ phase' = "expire"
    BY <1>1 DEF StockInv, Parts
  <2>2. cell' \in [Store -> CellState]
    <3>1. DOMAIN cell' = Store /\ cell' = [s \in Store |-> cell'[s]]
      BY <1>1
    <3> QED
      BY <1>5, <3>1
  <2>3. ASSUME NEW s \in Store
        PROVE  /\ cell'[s].onHand + cell'[s].inTransit > 0 \/ cell'[s].sold # NoDay => cell'[s].exists
               /\ Units(Coming(s)') <= cell'[s].inTransit
    <3>1. /\ cell[s].onHand \in Nat /\ cell[s].inTransit \in Nat
          /\ (cell[s].onHand > 0 => cell[s].exists) /\ (cell[s].inTransit > 0 => cell[s].exists)
          /\ (cell[s].sold # NoDay => cell[s].exists)
      BY CellIs DEF StockInv
    <3>2. /\ got(s) \in Nat /\ Units(Coming(s)') \in Nat
          /\ Units(Coming(s)) = Units(Coming(s)') + got(s) /\ Units(Coming(s)) <= cell[s].inTransit
      BY <1>3
    <3>3. Positive(cell[s].inTransit - got(s)) = cell[s].inTransit - got(s)
      BY <3>1, <3>2 DEF Positive
    <3>4. Units(Coming(s)') <= cell'[s].inTransit
      BY <1>5, <3>1, <3>2, <3>3
    <3>5. cell'[s].onHand + cell'[s].inTransit > 0 \/ cell'[s].sold # NoDay => cell'[s].exists
      BY <1>5, <3>1, <3>2, <3>3
    <3> QED
      BY <3>4, <3>5
  <2>4. IsFiniteSet(arrivals') /\ \A a \in arrivals' : a.to \in Store /\ a.quantity \in Nat \ {0}
    <3>1. arrivals' \subseteq arrivals
      BY <1>1
    <3> QED
      BY <3>1, FS_Subset DEF StockInv
  <2> QED
    BY <2>1, <2>2, <2>3, <2>4 DEF StockInv, Coming
<1>7. /\ flows' \in [Kinds -> [Day -> [Store -> Nat]]]
      /\ \A k \in Kinds, d \in Day, s \in Store :
           flows'[k][d][s] = IF k = "received" /\ d = day THEN amount[s] ELSE flows[k][d][s]
  <2>1. "received" \in Kinds /\ day \in Day
    BY DEF Kinds, StockInv
  <2> QED
    BY <1>1, <1>4, <2>1, Recorded
<1>8. \A d \in Day, s \in Store :
        /\ flows'["received"][d][s] = IF d = day THEN got(s) ELSE flows["received"][d][s]
        /\ flows'["wasted"][d][s] = flows["wasted"][d][s]
        /\ flows'["sold"][d][s] = flows["sold"][d][s]
        /\ flows'["short"][d][s] = flows["short"][d][s]
  <2>1. {"received", "wasted", "sold", "short"} \subseteq Kinds
    BY DEF Kinds
  <2> QED
    BY <1>4, <1>7, <2>1
<1>9. FlowsInv'
  <2>1. FlowsTyped'
    BY <1>1, <1>7, <1>8 DEF FlowsInv, FlowsTyped
  <2>2. \A k \in Kinds, d \in Day, s \in Store : d > day' => flows'[k][d][s] = 0
    <3>1. day \in Int /\ \A d \in Day : d \in Int
      BY NumbersOfDays DEF StockInv
    <3>2. \A d \in Day : d > day => d # day
      BY <3>1
    <3>3. \A k \in Kinds, d \in Day, s \in Store : d > day => flows'[k][d][s] = 0
      BY <1>7, <3>2 DEF FlowsInv
    <3>4. day' = day
      BY <1>1
    <3> QED
      BY <3>3, <3>4
  <2>3. \A s \in Store : flows'["wasted"][day'][s] = 0 /\ flows'["sold"][day'][s] = 0 /\ flows'["short"][day'][s] = 0
    <3>1. day \in Day
      BY DEF StockInv
    <3> QED
      BY <1>1, <1>8, <3>1 DEF FlowsInv
  <2>4. phase' = "expire"
    BY <1>1
  <2> QED
    BY <2>1, <2>2, <2>3, <2>4 DEF FlowsInv
<1>10. Moved
  <2>1. \A d \in Day, s \in Store : d # day => Net(d, s)' = Net(d, s)
    BY <1>8 DEF Net
  <2>2. ASSUME NEW s \in Store
        PROVE  /\ cell'[s].onHand \in Nat /\ Net(day, s) \in Int /\ Net(day, s)' \in Int
               /\ cell'[s].onHand = cell[s].onHand + (Net(day, s)' - Net(day, s))
               /\ Gone(s) => cell'[s] = cell[s]
               /\ cell[s].exists => cell'[s].exists
    <3>1. /\ flows["received"][day][s] \in Nat /\ flows["wasted"][day][s] \in Nat
          /\ flows["sold"][day][s] \in Nat /\ flows["short"][day][s] \in Nat /\ day \in Day
      BY TodaysFlows DEF StockInv
    <3>2. flows["received"][day][s] = 0 /\ got(s) \in Nat /\ cell[s].onHand \in Nat
      BY <1>1, <1>3, CellIs DEF FlowsInv
    <3>3. Net(day, s)' = got(s) - flows["wasted"][day][s] - (flows["sold"][day][s] - flows["short"][day][s])
      BY <1>1, <1>8, <3>1 DEF Net
    <3>4. Net(day, s) = 0 - flows["wasted"][day][s] - (flows["sold"][day][s] - flows["short"][day][s])
      BY <3>2 DEF Net
    <3>5. Gone(s) => got(s) = 0
      BY <1>3 DEF Gone
    <3>6. cell'[s].onHand = cell[s].onHand + got(s)
      BY <1>5
    <3>7. Net(day, s)' - Net(day, s) = got(s) /\ Net(day, s) \in Int /\ Net(day, s)' \in Int
      BY <3>1, <3>2, <3>3, <3>4
    <3>8. cell'[s].onHand \in Nat
      BY <3>2, <3>6
    <3> QED
      BY <1>5, <3>5, <3>6, <3>7, <3>8
  <2> QED
    BY <1>1, <2>1, <2>2 DEF Moved
<1> QED
  BY <1>6, <1>9, <1>10

\* What holds of the cells when nothing is shipped and no cell gains stock.
LEMMA StockKept ==
    ASSUME StockInv, day' = day, arrivals' = arrivals, served' \subseteq Store,
           phase' \in Parts \ {"receive", "expire", "done"},
           phase' = "sell" /\ Store # {} => served' # Store,
           cell' \in [Store -> CellState],
           \A s \in Store : /\ cell'[s].inTransit = cell[s].inTransit
                            /\ cell'[s].onHand \in Nat /\ cell'[s].onHand <= cell[s].onHand
                            /\ cell'[s].sold # NoDay => cell'[s].exists
                            /\ cell[s].exists => cell'[s].exists
    PROVE  StockInv'
<1>1. ASSUME NEW s \in Store
      PROVE  /\ cell'[s].onHand + cell'[s].inTransit > 0 \/ cell'[s].sold # NoDay => cell'[s].exists
             /\ Units(Coming(s)') <= cell'[s].inTransit
  <2>1. /\ cell[s].onHand \in Nat /\ cell[s].inTransit \in Nat
        /\ (cell[s].onHand > 0 => cell[s].exists) /\ (cell[s].inTransit > 0 => cell[s].exists)
    BY CellIs
  <2>2. Coming(s)' = Coming(s) /\ Units(Coming(s)) <= cell[s].inTransit
    BY DEF Coming, StockInv
  <2> QED
    BY <2>1, <2>2
<1>2. phase' \in Parts /\ phase' \notin {"receive", "expire"} /\ phase' # "done"
  OBVIOUS
<1>3. IsFiniteSet(arrivals') /\ (\A a \in arrivals' : a.to \in Store /\ a.quantity \in Nat \ {0})
      /\ day' \in Day
  BY DEF StockInv
<1> QED
  BY <1>1, <1>2, <1>3 DEF StockInv, Coming

\* What expires leaves the shelf.
LEMMA ExpireMoves ==
    ASSUME StockInv, FlowsInv, Expire
    PROVE  StockInv' /\ FlowsInv' /\ Moved
<1> DEFINE amount == [s \in Store |-> Wasted(cell[s])]
           rest(s) == cell[s].onHand - Wasted(cell[s])
<1>1. /\ phase = "expire" /\ phase' = "sell" /\ day' = day /\ served' = served /\ lag' = lag
      /\ snaps' = snaps /\ Record("wasted", amount) /\ arrivals' = arrivals
      /\ cell' = [s \in Store |->
                 IF Aged(cell[s])
                 THEN [cell[s] EXCEPT !.onHand = rest(s), !.oldest = IF rest(s) = 0 THEN NoDay ELSE day]
                 ELSE cell[s]]
  BY DEF Expire, ExpireAtStores
<1>2. \A s \in Store :
        /\ Wasted(cell[s]) \in Nat /\ Wasted(cell[s]) <= cell[s].onHand
        /\ (~ Aged(cell[s]) => Wasted(cell[s]) = 0) /\ (cell[s].onHand = 0 => ~ Aged(cell[s]))
  BY WastedIs
<1>3. ASSUME NEW s \in Store
      PROVE  /\ cell'[s] \in CellState /\ cell'[s].onHand = rest(s) /\ rest(s) \in Nat
             /\ cell'[s].inTransit = cell[s].inTransit /\ cell'[s].sold = cell[s].sold
             /\ cell'[s].exists = cell[s].exists
  <2>1. /\ cell[s] \in CellState /\ cell[s].onHand \in Nat /\ cell[s].exists \in BOOLEAN /\ day \in Nat
    BY CellIs
  <2>2. rest(s) \in Nat
    BY <1>2, <2>1
  <2>3. CASE Aged(cell[s])
    <3> DEFINE c == cell[s]
               e == cell'[s]
               n == rest(s)
               o == IF n = 0 THEN NoDay ELSE day
    <3>1. c \in CellState /\ n \in Nat /\ o \in Nat /\ e = [c EXCEPT !.onHand = n, !.oldest = o]
      BY <1>1, <2>1, <2>2, <2>3 DEF NoDay
    <3> HIDE DEF c, e, n, o
    <3>2. e \in CellState /\ e.onHand = n /\ e.inTransit = c.inTransit /\ e.sold = c.sold /\ e.exists = c.exists
      BY <3>1 DEF CellState
    <3> QED
      BY <2>2, <3>2 DEF c, e, n
  <2>4. CASE ~ Aged(cell[s])
    <3>1. cell'[s] = cell[s] /\ rest(s) = cell[s].onHand
      <4>1. cell'[s] = cell[s]
        BY <1>1, <2>4
      <4>2. rest(s) = cell[s].onHand
        BY <1>2, <2>1, <2>4
      <4> QED
        BY <4>1, <4>2
    <3> HIDE DEF rest
    <3> QED
      BY <2>1, <3>1
  <2> QED
    BY <2>3, <2>4
<1>4. cell' \in [Store -> CellState]
  <2>1. cell' = [s \in Store |-> cell'[s]]
    BY <1>1
  <2> QED
    BY <1>3, <2>1
<1>5. amount \in [Store -> Nat] /\ \A s \in Store : amount[s] = Wasted(cell[s])
  BY <1>2
<1>6. \A s \in Store : (Gone(s) => cell'[s] = cell[s])
  BY <1>1, <1>2 DEF Gone
<1> HIDE DEF amount
<1>7. StockInv'
  <2>1. \A s \in Store : rest(s) <= cell[s].onHand
    BY <1>2, CellIs
  <2>2. phase' \in Parts \ {"receive", "expire", "done"} /\ served' = {} /\ served' \subseteq Store
        /\ (phase' = "sell" /\ Store # {} => served' # Store)
    BY <1>1 DEF Parts, StockInv
  <2>3. \A s \in Store : /\ cell'[s].inTransit = cell[s].inTransit
                         /\ cell'[s].onHand \in Nat /\ cell'[s].onHand <= cell[s].onHand
                         /\ cell'[s].sold # NoDay => cell'[s].exists
                         /\ cell[s].exists => cell'[s].exists
    <3>1. \A s \in Store : cell[s].sold # NoDay => cell[s].exists
      BY DEF StockInv
    <3> HIDE DEF rest
    <3> QED
      BY <1>3, <2>1, <3>1
  <2>4. day' = day /\ arrivals' = arrivals
    BY <1>1
  <2> QED
    BY <1>4, <2>2, <2>3, <2>4, StockKept
<1>8. /\ flows' \in [Kinds -> [Day -> [Store -> Nat]]]
      /\ \A k \in Kinds, d \in Day, s \in Store :
           flows'[k][d][s] = IF k = "wasted" /\ d = day THEN amount[s] ELSE flows[k][d][s]
  <2>1. "wasted" \in Kinds /\ day \in Day
    BY DEF Kinds, StockInv
  <2> QED
    BY <1>1, <1>5, <2>1, Recorded
<1>9. \A d \in Day, s \in Store :
        /\ flows'["wasted"][d][s] = IF d = day THEN Wasted(cell[s]) ELSE flows["wasted"][d][s]
        /\ flows'["received"][d][s] = flows["received"][d][s]
        /\ flows'["sold"][d][s] = flows["sold"][d][s]
        /\ flows'["short"][d][s] = flows["short"][d][s]
  <2>1. {"received", "wasted", "sold", "short"} \subseteq Kinds
    BY DEF Kinds
  <2> QED
    BY <1>5, <1>8, <2>1
<1>10. FlowsInv'
  <2>1. FlowsTyped'
    BY <1>1, <1>8, <1>9 DEF FlowsInv, FlowsTyped
  <2>2. \A k \in Kinds, d \in Day, s \in Store : d > day' => flows'[k][d][s] = 0
    <3>1. day \in Int /\ \A d \in Day : d \in Int
      BY NumbersOfDays DEF StockInv
    <3>2. \A d \in Day : d > day => d # day
      BY <3>1
    <3>3. \A k \in Kinds, d \in Day, s \in Store : d > day => flows'[k][d][s] = 0
      BY <1>8, <3>2 DEF FlowsInv
    <3>4. day' = day
      BY <1>1
    <3> QED
      BY <3>3, <3>4
  <2>3. \A s \in Store : flows'["sold"][day'][s] = 0 /\ flows'["short"][day'][s] = 0
    <3>1. day \in Day
      BY DEF StockInv
    <3> QED
      BY <1>1, <1>9, <3>1 DEF FlowsInv
  <2>4. phase' = "sell"
    BY <1>1
  <2> QED
    BY <2>1, <2>2, <2>3, <2>4 DEF FlowsInv
<1>11. Moved
  <2>1. \A d \in Day, s \in Store : d # day => Net(d, s)' = Net(d, s)
    BY <1>9 DEF Net
  <2>2. ASSUME NEW s \in Store
        PROVE  /\ cell'[s].onHand \in Nat /\ Net(day, s) \in Int /\ Net(day, s)' \in Int
               /\ cell'[s].onHand = cell[s].onHand + (Net(day, s)' - Net(day, s))
               /\ cell[s].exists => cell'[s].exists
    <3>1. /\ flows["received"][day][s] \in Nat /\ flows["wasted"][day][s] \in Nat
          /\ flows["sold"][day][s] \in Nat /\ flows["short"][day][s] \in Nat /\ day \in Day
      BY TodaysFlows DEF StockInv
    <3>2. flows["wasted"][day][s] = 0 /\ Wasted(cell[s]) \in Nat /\ cell[s].onHand \in Nat
      BY <1>1, <1>2, CellIs DEF FlowsInv
    <3>3. Net(day, s)' = flows["received"][day][s] - Wasted(cell[s]) - (flows["sold"][day][s] - flows["short"][day][s])
      BY <1>1, <1>9, <3>1 DEF Net
    <3>4. Net(day, s) = flows["received"][day][s] - 0 - (flows["sold"][day][s] - flows["short"][day][s])
      BY <3>2 DEF Net
    <3>5. Net(day, s)' - Net(day, s) = - Wasted(cell[s]) /\ Net(day, s) \in Int /\ Net(day, s)' \in Int
      BY <3>1, <3>2, <3>3, <3>4
    <3>6. cell'[s].onHand = cell[s].onHand - Wasted(cell[s]) /\ cell'[s].onHand \in Nat
          /\ cell'[s].exists = cell[s].exists
      BY <1>3
    <3> QED
      BY <3>2, <3>5, <3>6
  <2> QED
    BY <1>1, <1>6, <2>1, <2>2 DEF Moved
<1> QED
  BY <1>7, <1>10, <1>11

\* A sale takes what the shelf has and records what it could not cover.
LEMMA SellMoves ==
    ASSUME StockInv, FlowsInv, NEW s \in Store, NEW units \in SaleUnits, Sell(s, units)
    PROVE  StockInv' /\ FlowsInv' /\ Moved
<1> DEFINE n == cell[s].onHand
           rest == Positive(n - units)
           missed == Positive(units - n)
<1>1. /\ phase = "sell" /\ s = CHOOSE t \in Store \ served : TRUE
      /\ (units > 0 => IsActive(s)) /\ arrivals' = arrivals
      /\ flows' = [flows EXCEPT !["sold"][day][s] = units, !["short"][day][s] = missed]
      /\ served' = served \cup {s} /\ phase' = (IF served' = Store THEN "review" ELSE "sell")
      /\ day' = day /\ lag' = lag /\ snaps' = snaps
      /\ cell' = IF units = 0 THEN cell
                 ELSE [cell EXCEPT ![s].onHand = rest, ![s].sold = day, ![s].exists = TRUE,
                                   ![s].oldest = IF rest = 0 THEN NoDay ELSE @]
  BY DEF Sell, SellAt
<1>2. s \notin served
  <2>1. Store \ served # {}
    BY <1>1 DEF StockInv
  <2> QED
    BY <1>1, <2>1
<1>3. units \in Nat /\ n \in Nat /\ cell[s] \in CellState /\ day \in Nat /\ day >= 1
  BY ReplayAssumption, CellIs
<1>4. /\ rest \in Nat /\ missed \in Nat /\ missed <= units /\ rest = n - (units - missed) /\ rest <= n
      /\ (units = 0 => rest = n /\ missed = 0)
  BY <1>3 DEF Positive
<1>5. ASSUME NEW t \in Store
      PROVE  /\ cell'[t] \in CellState
             /\ (t # s => cell'[t] = cell[t]) /\ (units = 0 => cell'[t] = cell[t])
             /\ (t = s => /\ cell'[s].onHand = rest /\ cell'[s].inTransit = cell[s].inTransit
                          /\ (units # 0 => cell'[s].exists = TRUE))
  <2>0. cell[t] \in CellState /\ cell \in [Store -> CellState]
    BY CellIs DEF StockInv
  <2>1. CASE units = 0
    <3>1. cell' = cell /\ rest = n
      BY <1>1, <1>4, <2>1
    <3> HIDE DEF rest
    <3> QED
      BY <2>0, <2>1, <3>1
  <2>2. CASE units # 0
    <3> DEFINE o == IF rest = 0 THEN NoDay ELSE cell[s].oldest
               e == [cell[s] EXCEPT !.onHand = rest, !.sold = day, !.exists = TRUE, !.oldest = o]
    <3>1. cell' = [cell EXCEPT ![s] = e]
      <4>1. cell' = [cell EXCEPT ![s].onHand = rest, ![s].sold = day, ![s].exists = TRUE,
                                 ![s].oldest = IF rest = 0 THEN NoDay ELSE @]
        BY <1>1, <2>2
      <4> HIDE DEF rest
      <4>2. cell'[s] = e
        BY <2>0, <4>1 DEF CellState
      <4>3. \A u \in Store : u # s => cell'[u] = cell[u]
        BY <2>0, <4>1
      <4>4. cell' = [u \in Store |-> cell'[u]]
        BY <2>0, <4>1
      <4> HIDE DEF e
      <4> QED
        BY <2>0, <4>2, <4>3, <4>4
    <3>2. o \in Nat
      BY CellIs DEF NoDay
    <3> HIDE DEF rest, o
    <3>3. e \in CellState /\ e.onHand = rest /\ e.inTransit = cell[s].inTransit /\ e.exists = TRUE
      BY <1>3, <1>4, <3>2 DEF CellState
    <3> HIDE DEF e
    <3> QED
      BY <2>0, <2>2, <3>1, <3>3
  <2> QED
    BY <2>1, <2>2
<1>6. cell' \in [Store -> CellState]
  <2>1. cell' = [t \in Store |-> cell'[t]]
    BY <1>1 DEF StockInv
  <2> QED
    BY <1>5, <2>1
<1> HIDE DEF rest, missed
<1>7. StockInv'
  <2>1. /\ phase' \in Parts \ {"receive", "expire", "done"} /\ served' \subseteq Store
        /\ (phase' = "sell" /\ Store # {} => served' # Store)
    <3>1. phase' \in {"review", "sell"} /\ (phase' = "sell" => served' # Store)
      BY <1>1
    <3>2. served' \subseteq Store
      BY <1>1 DEF StockInv
    <3> QED
      BY <3>1, <3>2 DEF Parts
  <2>2. ASSUME NEW t \in Store
        PROVE  /\ cell'[t].inTransit = cell[t].inTransit
               /\ cell'[t].onHand \in Nat /\ cell'[t].onHand <= cell[t].onHand
               /\ cell'[t].sold # NoDay => cell'[t].exists
               /\ cell[t].exists => cell'[t].exists
    <3>1. (cell[t].sold # NoDay => cell[t].exists) /\ cell[t].onHand \in Nat
      BY CellIs DEF StockInv
    <3>2. CASE t # s \/ units = 0
      <4>1. cell'[t] = cell[t]
        BY <1>5, <3>2
      <4> QED
        BY <3>1, <4>1
    <3>3. CASE t = s /\ units # 0
      BY <1>4, <1>5, <3>3
    <3> QED
      BY <3>2, <3>3
  <2>3. day' = day /\ arrivals' = arrivals
    BY <1>1
  <2> QED
    BY <1>6, <2>1, <2>2, <2>3, StockKept
<1>8. /\ flows' \in [Kinds -> [Day -> [Store -> Nat]]]
      /\ \A k \in Kinds, d \in Day, t \in Store :
           flows'[k][d][t] = IF d = day /\ t = s /\ k = "sold" THEN units
                             ELSE IF d = day /\ t = s /\ k = "short" THEN missed
                             ELSE flows[k][d][t]
  <2>1. flows \in [Kinds -> [Day -> [Store -> Nat]]] /\ day \in Day /\ "sold" \in Kinds /\ "short" \in Kinds
    BY DEF FlowsInv, FlowsTyped, StockInv, Kinds
  <2> DEFINE f == [flows EXCEPT !["sold"] = [flows["sold"] EXCEPT ![day] = [flows["sold"][day] EXCEPT ![s] = units]]]
             sold == [flows["sold"] EXCEPT ![day] = [flows["sold"][day] EXCEPT ![s] = units]]
             short == [flows["short"] EXCEPT ![day] = [flows["short"][day] EXCEPT ![s] = missed]]
  <2>2. sold \in [Day -> [Store -> Nat]] /\ short \in [Day -> [Store -> Nat]]
    BY <1>3, <1>4, <2>1
  <2>3. flows' = [[flows EXCEPT !["sold"] = sold] EXCEPT !["short"] = short]
    <3>1. flows' = [[flows EXCEPT !["sold"][day][s] = units] EXCEPT !["short"][day][s] = missed]
      BY <1>1
    <3> QED
      BY <2>1, <3>1
  <2>4. \A d \in Day, t \in Store :
          /\ sold[d][t] = (IF d = day /\ t = s THEN units ELSE flows["sold"][d][t])
          /\ short[d][t] = (IF d = day /\ t = s THEN missed ELSE flows["short"][d][t])
    BY <2>1
  <2> HIDE DEF sold, short
  <2>5. /\ flows' \in [Kinds -> [Day -> [Store -> Nat]]] /\ flows'["sold"] = sold /\ flows'["short"] = short
        /\ \A k \in Kinds : k # "sold" /\ k # "short" => flows'[k] = flows[k]
    BY <2>1, <2>2, <2>3
  <2> QED
    BY <2>4, <2>5
<1>9. \A d \in Day, t \in Store :
        /\ flows'["sold"][d][t] = (IF d = day /\ t = s THEN units ELSE flows["sold"][d][t])
        /\ flows'["short"][d][t] = (IF d = day /\ t = s THEN missed ELSE flows["short"][d][t])
        /\ flows'["received"][d][t] = flows["received"][d][t]
        /\ flows'["wasted"][d][t] = flows["wasted"][d][t]
  <2>1. {"received", "wasted", "sold", "short"} \subseteq Kinds
    BY DEF Kinds
  <2> QED
    BY <1>8, <2>1
<1>10. FlowsInv'
  <2>1. \A d \in Day, t \in Store : flows'["short"][d][t] <= flows'["sold"][d][t]
    BY <1>4, <1>9 DEF FlowsInv, FlowsTyped
  <2>2. FlowsTyped'
    BY <1>1, <1>8, <2>1 DEF FlowsInv, FlowsTyped
  <2>3. \A k \in Kinds, d \in Day, t \in Store : d > day' => flows'[k][d][t] = 0
    <3>1. day \in Int /\ \A d \in Day : d \in Int
      BY NumbersOfDays DEF StockInv
    <3>2. \A d \in Day : d > day => d # day
      BY <3>1
    <3>3. \A k \in Kinds, d \in Day, t \in Store : d > day => flows'[k][d][t] = 0
      BY <1>8, <3>2 DEF FlowsInv
    <3>4. day' = day
      BY <1>1
    <3> QED
      BY <3>3, <3>4
  <2>4. \A t \in Store : t \notin served' => flows'["sold"][day'][t] = 0 /\ flows'["short"][day'][t] = 0
    <3>1. day \in Day /\ day' = day /\ phase = "sell" /\ served' = served \cup {s}
      BY <1>1 DEF StockInv
    <3>2. \A t \in Store : t \notin served' => flows["sold"][day][t] = 0 /\ flows["short"][day][t] = 0 /\ t # s
      BY <3>1 DEF FlowsInv
    <3> QED
      BY <1>9, <3>1, <3>2
  <2>5. phase' \in {"sell", "review"}
    BY <1>1
  <2> QED
    BY <2>2, <2>3, <2>4, <2>5 DEF FlowsInv
<1>11. Moved
  <2>1. \A d \in Day, t \in Store : d # day => Net(d, t)' = Net(d, t)
    BY <1>9 DEF Net
  <2>2. ASSUME NEW t \in Store
        PROVE  /\ cell'[t].onHand \in Nat /\ Net(day, t) \in Int /\ Net(day, t)' \in Int
               /\ cell'[t].onHand = cell[t].onHand + (Net(day, t)' - Net(day, t))
               /\ Gone(t) => cell'[t] = cell[t]
               /\ cell[t].exists => cell'[t].exists
    <3>1. /\ flows["received"][day][t] \in Nat /\ flows["wasted"][day][t] \in Nat
          /\ flows["sold"][day][t] \in Nat /\ flows["short"][day][t] \in Nat /\ day \in Day
          /\ Net(day, t) \in Int /\ cell[t].onHand \in Nat
      BY TodaysFlows, CellIs DEF StockInv
    <3>2. day' = day
      BY <1>1
    <3>3. CASE t # s
      <4>1. cell'[t] = cell[t]
        BY <1>5, <3>3
      <4>2. Net(day, t)' = Net(day, t)
        BY <1>9, <3>1, <3>2, <3>3 DEF Net
      <4> QED
        BY <3>1, <4>1, <4>2
    <3>4. CASE t = s
      <4>1. flows["sold"][day][s] = 0 /\ flows["short"][day][s] = 0
        BY <1>1, <1>2 DEF FlowsInv
      <4>2. Net(day, s) = flows["received"][day][s] - flows["wasted"][day][s] - (0 - 0)
        BY <4>1 DEF Net
      <4>3. Net(day, s)' = flows["received"][day][s] - flows["wasted"][day][s] - (units - missed)
        BY <1>9, <3>1, <3>2 DEF Net
      <4>4. cell'[s].onHand = rest
        BY <1>5
      <4>5. Net(day, s)' - Net(day, s) = - (units - missed) /\ Net(day, s)' \in Int
        BY <1>3, <1>4, <3>1, <3>4, <4>2, <4>3
      <4>6. cell'[s].onHand \in Nat /\ cell'[s].onHand = n + (Net(day, s)' - Net(day, s))
        BY <1>3, <1>4, <4>4, <4>5
      <4>7. Gone(s) => cell'[s] = cell[s]
        <5> SUFFICES ASSUME Gone(s) PROVE cell'[s] = cell[s]
          OBVIOUS
        <5>1. ~ IsActive(s)
          <6>1. Discontinued[s] \in Int
            BY StoreAssumption
          <6> QED
            BY <1>3, <6>1 DEF Gone, IsActive
        <5>2. units = 0
          <6>1. units > 0 => IsActive(s)
            BY <1>1
          <6> QED
            BY <1>3, <5>1, <6>1
        <5> QED
          BY <1>5, <5>2
      <4>8. cell[s].exists => cell'[s].exists
        BY <1>5
      <4> QED
        BY <3>1, <3>4, <4>5, <4>6, <4>7, <4>8
    <3> QED
      BY <3>3, <3>4
  <2>3. phase # "done" /\ phase' # "done"
    BY <1>1
  <2> QED
    BY <1>1, <2>1, <2>2, <2>3 DEF Moved
<1> QED
  BY <1>7, <1>10, <1>11

\* Days that are over.
Past(d) == d < day \/ phase = "done"

\* h is the stock of every evening so far, today's as it stands, and the
\* snapshots tell it: a cell without a row where it had one is gone.
Hist(h) ==
    /\ h \in [0 .. LastDay -> [Store -> Nat]]
    /\ \A d \in Day, s \in Store : d <= day => h[d][s] = h[d - 1][s] + Net(d, s)
    /\ \A s \in Store : h[day][s] = cell[s].onHand
    /\ \A r \in snaps : /\ r \in [on : Day, cell : Store, units : Nat]
                        /\ Past(r.on) /\ IsSnapshotDay(r.on) /\ r.units = h[r.on][r.cell]
                        /\ cell[r.cell].exists
    /\ \A d \in Day, s \in Store :
         Past(d) /\ IsSnapshotDay(d) /\ RowsOf(d, s) = {} =>
            /\ h[d][s] = 0
            /\ (\E r \in snaps : r.cell = s /\ r.on < d) =>
                  Gone(s) /\ \A e \in Day : d <= e /\ e <= day => h[e][s] = 0

\* Within a day the history moves with the cells.
LEMMA HistMoves ==
    ASSUME StockInv, Moved, NEW h, Hist(h)
    PROVE  \E g : Hist(g)'
<1>1. /\ day \in Day /\ day \in 0 .. LastDay /\ day' = day /\ phase # "done" /\ phase' # "done" /\ snaps' = snaps
      /\ day \in Int /\ \A d \in Day : d \in Int /\ d \in 0 .. LastDay /\ d - 1 \in 0 .. LastDay /\ d - 1 # d
  BY NumbersOfDays DEF StockInv, Moved
<1>2. PICK g : g = [d \in 0 .. LastDay |-> IF d = day THEN [s \in Store |-> cell'[s].onHand] ELSE h[d]]
  OBVIOUS
<1>3. /\ g \in [0 .. LastDay -> [Store -> Nat]]
      /\ \A d \in 0 .. LastDay : d # day => g[d] = h[d]
      /\ \A s \in Store : g[day][s] = cell'[s].onHand
  <2>1. [s \in Store |-> cell'[s].onHand] \in [Store -> Nat]
    BY DEF Moved
  <2>2. h \in [0 .. LastDay -> [Store -> Nat]]
    BY DEF Hist
  <2> QED
    BY <1>1, <1>2, <2>1, <2>2
<1>4. ASSUME NEW d \in Day, NEW s \in Store, d <= day PROVE g[d][s] = g[d - 1][s] + Net(d, s)'
  <2>1. h[d][s] = h[d - 1][s] + Net(d, s) /\ h[d - 1][s] \in Nat
    BY <1>1, <1>4 DEF Hist
  <2>2. g[d - 1] = h[d - 1]
    <3>1. d - 1 # day /\ d - 1 \in 0 .. LastDay
      BY <1>1, <1>4
    <3> QED
      BY <1>3, <3>1
  <2>3. CASE d = day
    <3>1. /\ cell'[s].onHand = cell[s].onHand + (Net(day, s)' - Net(day, s))
          /\ Net(day, s) \in Int /\ Net(day, s)' \in Int
      BY DEF Moved
    <3>2. h[day][s] = cell[s].onHand
      BY DEF Hist
    <3>3. Net(d, s)' = Net(day, s)' /\ Net(d, s) = Net(day, s)
      BY <1>1, <2>3 DEF Net
    <3>4. g[d][s] = cell'[s].onHand
      BY <1>3, <2>3
    <3>5. h[d][s] = cell[s].onHand
      BY <2>3, <3>2
    <3> QED
      BY <2>1, <2>2, <3>1, <3>3, <3>4, <3>5
  <2>4. CASE d # day
    <3>1. Net(d, s)' = Net(d, s)
      BY <2>4 DEF Moved
    <3>2. g[d] = h[d]
      BY <1>1, <1>3, <2>4
    <3> QED
      BY <2>1, <2>2, <3>1, <3>2
  <2> QED
    BY <2>3, <2>4
<1>5. \A r \in snaps : /\ r \in [on : Day, cell : Store, units : Nat] /\ r.on \in Day /\ r.cell \in Store
                       /\ r.on < day /\ r.on # day /\ IsSnapshotDay(r.on) /\ r.units = g[r.on][r.cell]
                       /\ cell'[r.cell].exists
  <2> SUFFICES ASSUME NEW r \in snaps
               PROVE  /\ r \in [on : Day, cell : Store, units : Nat] /\ r.on \in Day /\ r.cell \in Store
                      /\ r.on < day /\ r.on # day /\ IsSnapshotDay(r.on) /\ r.units = g[r.on][r.cell]
                      /\ cell'[r.cell].exists
    OBVIOUS
  <2>1. /\ r \in [on : Day, cell : Store, units : Nat] /\ Past(r.on) /\ IsSnapshotDay(r.on)
        /\ r.units = h[r.on][r.cell] /\ cell[r.cell].exists
    BY DEF Hist
  <2>2. r.on \in Day /\ r.cell \in Store
    BY <2>1
  <2>3. r.on < day /\ r.on # day
    BY <1>1, <2>1, <2>2 DEF Past
  <2>4. g[r.on] = h[r.on]
    BY <1>1, <1>3, <2>2, <2>3
  <2> QED
    BY <2>1, <2>2, <2>3, <2>4 DEF Moved
<1>6. ASSUME NEW d \in Day, NEW s \in Store, d < day, IsSnapshotDay(d), RowsOf(d, s) = {}
      PROVE  /\ g[d][s] = 0
             /\ (\E r \in snaps : r.cell = s /\ r.on < d) =>
                  Gone(s)' /\ \A e \in Day : d <= e /\ e <= day => g[e][s] = 0
  <2>1. Past(d)
    BY <1>6 DEF Past
  <2>2. h[d][s] = 0 /\ ((\E r \in snaps : r.cell = s /\ r.on < d) =>
                          Gone(s) /\ \A e \in Day : d <= e /\ e <= day => h[e][s] = 0)
    BY <1>6, <2>1 DEF Hist
  <2>3. d # day /\ g[d] = h[d]
    <3>1. d \in Int /\ day \in Int /\ d < day /\ d \in 0 .. LastDay
      BY <1>1, <1>6
    <3>2. d # day
      BY <3>1
    <3> QED
      BY <1>3, <3>1, <3>2
  <2>4. ASSUME \E r \in snaps : r.cell = s /\ r.on < d
        PROVE  Gone(s)' /\ \A e \in Day : d <= e /\ e <= day => g[e][s] = 0
    <3>1. Gone(s) /\ \A e \in Day : d <= e /\ e <= day => h[e][s] = 0
      BY <2>2, <2>4
    <3>2. cell'[s] = cell[s]
      BY <3>1 DEF Moved
    <3>3. Gone(s)'
      BY <1>1, <3>1, <3>2 DEF Gone
    <3>4. g[day][s] = 0
      BY <1>3, <3>1, <3>2 DEF Gone
    <3>5. ASSUME NEW e \in Day, d <= e, e <= day PROVE g[e][s] = 0
      <4>1. CASE e = day
        BY <3>4, <4>1
      <4>2. CASE e # day
        BY <1>1, <1>3, <3>1, <3>5, <4>2
      <4> QED
        BY <4>1, <4>2
    <3> QED
      BY <3>3, <3>5
  <2> QED
    BY <2>2, <2>3, <2>4
<1>7. Hist(g)'
  <2>1. \A d : Past(d)' <=> d < day
    BY <1>1 DEF Past
  <2>2. \A d \in Day, s \in Store : RowsOf(d, s)' = RowsOf(d, s)
    BY <1>1 DEF RowsOf
  <2>3. \A d \in Day, s \in Store : d <= day' => g[d][s] = g[d - 1][s] + Net(d, s)'
    BY <1>1, <1>4
  <2>4. \A s \in Store : g[day'][s] = cell'[s].onHand
    BY <1>1, <1>3
  <2>5. \A r \in snaps' : /\ r \in [on : Day, cell : Store, units : Nat]
                          /\ Past(r.on)' /\ IsSnapshotDay(r.on) /\ r.units = g[r.on][r.cell]
                          /\ cell'[r.cell].exists
    BY <1>1, <1>5, <2>1
  <2>6. \A d \in Day, s \in Store :
         Past(d)' /\ IsSnapshotDay(d) /\ RowsOf(d, s)' = {} =>
            /\ g[d][s] = 0
            /\ (\E r \in snaps' : r.cell = s /\ r.on < d) =>
                  Gone(s)' /\ \A e \in Day : d <= e /\ e <= day' => g[e][s] = 0
    BY <1>1, <1>6, <2>1, <2>2
  <2> QED
    BY <1>3, <2>3, <2>4, <2>5, <2>6 DEF Hist, IsSnapshotDay
<1> QED
  BY <1>7

\* The evening orders, and moves no stock.
LEMMA EndOfDayStock ==
    ASSUME StockInv, FlowsInv, EndOfDay
    PROVE  /\ StockInv' /\ FlowsInv'
           /\ \A s \in Store : /\ cell'[s].onHand = cell[s].onHand /\ cell'[s].exists = cell[s].exists
                               /\ cell'[s].inTransit \in Nat /\ cell'[s].inTransit >= cell[s].inTransit
                               /\ day > Discontinued[s] => cell'[s] = cell[s]
           /\ \A d \in Day, s \in Store : Net(d, s)' = Net(d, s)
<1>1. PICK target \in [Store -> StoreTargets] :
        LET order == [s \in Store |-> IF Reviewed(s) THEN Ordered(s, target[s]) ELSE 0]
            due == day + LaneTransit
        IN /\ cell' = [s \in Store |-> [cell[s] EXCEPT !.inTransit = @ + order[s]]]
           /\ arrivals' = arrivals \cup
                {[to |-> s, due |-> due, sent |-> day, quantity |-> order[s]] :
                    s \in {t \in Store : order[t] > 0 /\ due <= LastDay}}
  BY DEF EndOfDay, ReviewStores
<1> DEFINE order == [s \in Store |-> IF Reviewed(s) THEN Ordered(s, target[s]) ELSE 0]
           due == day + LaneTransit
           ship(s) == [to |-> s, due |-> due, sent |-> day, quantity |-> order[s]]
           sent == {s \in Store : order[s] > 0 /\ due <= LastDay}
<1>2. /\ \A s \in Store : cell'[s] = [cell[s] EXCEPT !.inTransit = @ + order[s]]
      /\ cell' = [s \in Store |-> cell'[s]]
      /\ arrivals' = arrivals \cup {ship(s) : s \in sent}
  BY <1>1
<1>3. /\ phase = "review" /\ flows' = flows /\ lag' = lag /\ served' = {}
      /\ day' = (IF day = LastDay THEN day ELSE day + 1)
      /\ phase' = (IF day = LastDay THEN "done" ELSE "receive")
  BY DEF EndOfDay
<1>4. ASSUME NEW s \in Store
      PROVE  /\ order[s] \in Nat /\ (order[s] > 0 => IsActive(s) /\ cell[s].sold # NoDay)
             /\ (day > Discontinued[s] => order[s] = 0)
  <2>1. Ordered(s, target[s]) \in Nat
    BY OrderIs
  <2>2. order[s] = IF Reviewed(s) THEN Ordered(s, target[s]) ELSE 0
    OBVIOUS
  <2>3. Reviewed(s) => IsActive(s) /\ cell[s].sold # NoDay
    BY DEF Reviewed
  <2>4. day > Discontinued[s] => ~ IsActive(s)
    <3>1. Discontinued[s] \in Int /\ day \in Int
      BY StoreAssumption, CellIs
    <3> QED
      BY <3>1 DEF IsActive
  <2> HIDE DEF order
  <2> QED
    BY <2>1, <2>2, <2>3, <2>4
<1>5. \A s \in Store : ship(s).to = s /\ ship(s).quantity = order[s]
  OBVIOUS
<1> HIDE DEF order, ship, due
<1>6. ASSUME NEW s \in Store
      PROVE  /\ cell'[s] \in CellState
             /\ cell'[s].onHand = cell[s].onHand /\ cell'[s].exists = cell[s].exists
             /\ cell'[s].sold = cell[s].sold
             /\ cell'[s].inTransit = cell[s].inTransit + order[s]
             /\ (order[s] = 0 => cell'[s] = cell[s])
  <2>1. cell[s] \in CellState /\ cell[s].inTransit \in Nat /\ order[s] \in Nat
    BY <1>4, CellIs
  <2> DEFINE c == cell[s]
             e == cell'[s]
             i == c.inTransit + order[s]
  <2>2. c \in CellState /\ i \in Nat /\ e = [c EXCEPT !.inTransit = i]
    BY <1>2, <2>1
  <2>3. order[s] = 0 => i = c.inTransit
    BY <2>1
  <2> HIDE DEF c, e, i
  <2>4. /\ e \in CellState /\ e.onHand = c.onHand /\ e.exists = c.exists /\ e.sold = c.sold /\ e.inTransit = i
        /\ (i = c.inTransit => e = c)
    BY <2>2 DEF CellState
  <2> QED
    BY <2>3, <2>4 DEF c, e, i
<1>7. ASSUME NEW s \in Store
      PROVE  Units(Coming(s)') <= cell'[s].inTransit
  <2>1. /\ IsFiniteSet(Coming(s)) /\ (\A a \in Coming(s) : a.quantity \in Nat \ {0})
        /\ Units(Coming(s)) \in Nat /\ Units(Coming(s)) <= cell[s].inTransit
        /\ cell[s].inTransit \in Nat /\ order[s] \in Nat
    BY <1>4, ComingIs, CellIs DEF StockInv
  <2>2. cell'[s].inTransit = cell[s].inTransit + order[s]
    BY <1>6
  <2>3. Coming(s)' = Coming(s) \cup {ship(t) : t \in {u \in sent : u = s}}
    BY <1>2, <1>5 DEF Coming
  <2>4. CASE s \notin sent \/ ship(s) \in Coming(s)
    <3>1. Coming(s)' = Coming(s)
      BY <2>3, <2>4
    <3> QED
      BY <2>1, <2>2, <3>1
  <2>5. CASE s \in sent /\ ship(s) \notin Coming(s)
    <3> DEFINE A == Coming(s) \cup {ship(s)}
    <3>1. Coming(s)' = A /\ A \ {ship(s)} = Coming(s) /\ {ship(s)} \in SUBSET A
      BY <2>3, <2>5
    <3>2. IsFiniteSet(A) /\ \A a \in A : a.quantity \in Nat
      BY <1>5, <2>1, FS_AddElement
    <3> HIDE DEF A
    <3>3. Units(A) = Units(A \ {ship(s)}) + Units({ship(s)})
      BY <3>1, <3>2, UnitsSplit
    <3>4. Units({ship(s)}) = order[s]
      BY <1>5, <2>1, UnitsOfOne
    <3>5. Units(A) = Units(Coming(s)) + order[s]
      BY <3>1, <3>3, <3>4
    <3> QED
      BY <2>1, <2>2, <3>1, <3>5
  <2> QED
    BY <2>4, <2>5
<1>8. StockInv'
  <2>1. /\ day' \in Day /\ phase' \in Parts /\ (phase' = "done" => day' = LastDay)
        /\ served' = {} /\ phase' # "sell"
    BY <1>3, NumbersOfDays DEF Parts, StockInv
  <2>2. cell' \in [Store -> CellState]
    BY <1>2, <1>6
  <2>3. ASSUME NEW s \in Store
        PROVE  cell'[s].onHand + cell'[s].inTransit > 0 \/ cell'[s].sold # NoDay => cell'[s].exists
    <3>1. /\ (cell[s].onHand > 0 => cell[s].exists) /\ (cell[s].inTransit > 0 => cell[s].exists)
          /\ (cell[s].sold # NoDay => cell[s].exists) /\ cell[s].onHand \in Nat /\ cell[s].inTransit \in Nat
      BY CellIs DEF StockInv
    <3>2. order[s] \in Nat /\ (order[s] > 0 => cell[s].sold # NoDay)
      BY <1>4
    <3> QED
      BY <1>6, <3>1, <3>2
  <2>4. IsFiniteSet(arrivals')
    <3>1. IsFiniteSet(arrivals) /\ IsFiniteSet(sent)
      BY NumbersOfDays, FS_Subset DEF StockInv
    <3>2. IsFiniteSet({ship(s) : s \in sent})
      <4> HIDE DEF sent
      <4> DEFINE f == [s \in sent |-> ship(s)]
      <4>1. f \in Surjection(sent, {ship(s) : s \in sent})
        BY DEF Surjection
      <4> QED
        BY <3>1, <4>1, FS_Surjection
    <3> QED
      BY <1>2, <3>1, <3>2, FS_Union
  <2>5. \A a \in arrivals' : a.to \in Store /\ a.quantity \in Nat \ {0}
    <3>1. \A s \in sent : ship(s).to \in Store /\ ship(s).quantity \in Nat \ {0}
      BY <1>4, <1>5
    <3>2. \A a \in arrivals : a.to \in Store /\ a.quantity \in Nat \ {0}
      BY DEF StockInv
    <3> HIDE DEF sent
    <3> QED
      BY <1>2, <3>1, <3>2
  <2> QED
    BY <1>7, <2>1, <2>2, <2>3, <2>4, <2>5 DEF StockInv, Coming
<1>9. FlowsInv'
  <2>1. FlowsTyped'
    BY <1>3 DEF FlowsInv, FlowsTyped
  <2>2. day \in Int /\ day' \in Int /\ day' >= day /\ LastDay \in Int /\ day' \in Day
        /\ \A d \in Day : d \in Int
    BY <1>3, NumbersOfDays DEF StockInv
  <2>3. \A k \in Kinds, d \in Day, s \in Store : d > day => flows'[k][d][s] = 0
    BY <1>3 DEF FlowsInv
  <2>4. \A k \in Kinds, d \in Day, s \in Store : d > day' => flows'[k][d][s] = 0
    <3>1. \A d \in Day : d > day' => d > day
      BY <2>2
    <3> QED
      BY <2>3, <3>1
  <2>5. ASSUME phase' # "done" PROVE \A k \in Kinds, s \in Store : flows'[k][day'][s] = 0
    <3>1. day' > day
      BY <1>3, <2>2, <2>5
    <3> QED
      BY <2>2, <2>3, <3>1
  <2>6. phase' \in {"done", "receive"} /\ {"received", "wasted", "sold", "short"} \subseteq Kinds
    BY <1>3 DEF Kinds
  <2>7. \A s \in Store : phase' # "done" => /\ flows'["received"][day'][s] = 0 /\ flows'["wasted"][day'][s] = 0
                                           /\ flows'["sold"][day'][s] = 0 /\ flows'["short"][day'][s] = 0
    BY <2>5, <2>6
  <2> QED
    BY <2>1, <2>4, <2>6, <2>7 DEF FlowsInv
<1>10. \A d \in Day, s \in Store : Net(d, s)' = Net(d, s)
  BY <1>3 DEF Net
<1>11. \A s \in Store : /\ cell'[s].onHand = cell[s].onHand /\ cell'[s].exists = cell[s].exists
                        /\ cell'[s].inTransit \in Nat /\ cell'[s].inTransit >= cell[s].inTransit
                        /\ day > Discontinued[s] => cell'[s] = cell[s]
  <2> SUFFICES ASSUME NEW s \in Store
               PROVE  /\ cell'[s].onHand = cell[s].onHand /\ cell'[s].exists = cell[s].exists
                      /\ cell'[s].inTransit \in Nat /\ cell'[s].inTransit >= cell[s].inTransit
                      /\ day > Discontinued[s] => cell'[s] = cell[s]
    OBVIOUS
  <2>1. order[s] \in Nat /\ cell[s].inTransit \in Nat /\ (day > Discontinued[s] => order[s] = 0)
    BY <1>4, CellIs
  <2> QED
    BY <1>6, <2>1
<1> QED
  BY <1>8, <1>9, <1>10, <1>11

\* The evening's snapshot tells the history, and the next day opens with it.
LEMMA EndOfDayHist ==
    ASSUME StockInv, FlowsInv, EndOfDay, NEW h, Hist(h)
    PROVE  \E g : Hist(g)'
<1>1. /\ day \in Day /\ day \in Int /\ LastDay \in Int /\ day <= LastDay
      /\ \A d \in Day : d \in Int /\ d \in 0 .. LastDay /\ d - 1 \in 0 .. LastDay /\ d - 1 < d
  BY NumbersOfDays DEF StockInv
<1>2. /\ phase = "review" /\ day' \in Day /\ day' \in Int /\ day' >= day
      /\ (day' = day \/ day' = day + 1) /\ (day = LastDay => day' = day)
      /\ (day' = day => phase' = "done") /\ (day' # day => phase' # "done")
      /\ snaps' = snaps \cup
         (IF IsSnapshotDay(day)
          THEN {[on |-> day, cell |-> s, units |-> cell[s].onHand] : s \in SnapshotRows(cell')}
          ELSE {})
  BY <1>1 DEF EndOfDay, SnapshotDay, IsSnapshotDay, Day
<1>3. /\ \A s \in Store : /\ cell'[s].onHand = cell[s].onHand /\ cell'[s].exists = cell[s].exists
                          /\ cell'[s].inTransit \in Nat /\ cell[s].onHand \in Nat
                          /\ day > Discontinued[s] => cell'[s] = cell[s]
                          /\ cell[s].onHand > 0 => cell[s].exists
      /\ \A d \in Day, s \in Store : Net(d, s)' = Net(d, s)
  BY EndOfDayStock, CellIs
<1>4. PICK g : g = [d \in 0 .. LastDay |-> IF d = day' THEN [s \in Store |-> cell[s].onHand] ELSE h[d]]
  OBVIOUS
<1>5. /\ h \in [0 .. LastDay -> [Store -> Nat]] /\ \A s \in Store : h[day][s] = cell[s].onHand
  BY DEF Hist
<1>6. /\ g \in [0 .. LastDay -> [Store -> Nat]]
      /\ \A s \in Store : g[day'][s] = cell[s].onHand
      /\ \A d \in 0 .. LastDay : d # day' => g[d] = h[d]
  <2>1. [s \in Store |-> cell[s].onHand] \in [Store -> Nat] /\ day' \in 0 .. LastDay
    BY <1>1, <1>2, <1>3
  <2> QED
    BY <1>4, <1>5, <2>1
<1>7. \A d \in 0 .. LastDay, s \in Store : d <= day => g[d][s] = h[d][s]
  <2> SUFFICES ASSUME NEW d \in 0 .. LastDay, NEW s \in Store, d <= day PROVE g[d][s] = h[d][s]
    OBVIOUS
  <2>1. CASE d = day'
    <3>1. day' = day
      BY <1>1, <1>2, <2>1
    <3>2. g[d][s] = cell[s].onHand
      BY <1>6, <2>1
    <3>3. h[d][s] = cell[s].onHand
      BY <1>5, <2>1, <3>1
    <3> QED
      BY <3>2, <3>3
  <2>2. CASE d # day'
    BY <1>6, <2>2
  <2> QED
    BY <2>1, <2>2
<1>8. ASSUME NEW d \in Day, NEW s \in Store, d <= day' PROVE g[d][s] = g[d - 1][s] + Net(d, s)'
  <2>1. d \in 0 .. LastDay /\ d - 1 \in 0 .. LastDay /\ d \in Int
    BY <1>1
  <2>2. CASE d <= day
    <3>1. d - 1 <= day
      BY <1>1, <2>1, <2>2
    <3>2. h[d][s] = h[d - 1][s] + Net(d, s)
      BY <2>2 DEF Hist
    <3>3. g[d][s] = h[d][s] /\ g[d - 1][s] = h[d - 1][s]
      BY <1>7, <2>1, <2>2, <3>1
    <3> QED
      BY <1>3, <3>2, <3>3
  <2>3. CASE ~ (d <= day)
    <3>1. d = day' /\ d > day /\ d - 1 = day
      BY <1>1, <1>2, <1>8, <2>1, <2>3
    <3>2. g[d][s] = cell[s].onHand
      BY <1>6, <3>1
    <3>3. g[d - 1][s] = h[day][s]
      <4>1. day \in 0 .. LastDay /\ day <= day
        BY <1>1
      <4>2. g[day][s] = h[day][s]
        BY <1>7, <4>1
      <4> QED
        BY <3>1, <4>2, Zenon
    <3>4. Net(d, s) = 0
      <4>1. {"received", "wasted", "sold", "short"} \subseteq Kinds
        BY DEF Kinds
      <4>2. /\ flows["received"][d][s] = 0 /\ flows["wasted"][d][s] = 0
            /\ flows["sold"][d][s] = 0 /\ flows["short"][d][s] = 0
        BY <3>1, <4>1 DEF FlowsInv
      <4> QED
        BY <4>2 DEF Net
    <3> QED
      BY <1>3, <1>5, <3>2, <3>3, <3>4
  <2> QED
    BY <2>2, <2>3
<1>9. \A d \in Day : (d < day' \/ phase' = "done") <=> d <= day
  <2> SUFFICES ASSUME NEW d \in Day PROVE (d < day' \/ phase' = "done") <=> d <= day
    OBVIOUS
  <2>1. d \in Int /\ d <= LastDay
    BY <1>1, NumbersOfDays
  <2>2. CASE day' = day
    <3>1. day = LastDay /\ phase' = "done"
      BY <1>1, <1>2, <2>2 DEF EndOfDay
    <3> QED
      BY <2>1, <3>1
  <2>3. CASE day' # day
    <3>1. day' = day + 1 /\ phase' # "done"
      BY <1>2, <2>3
    <3> QED
      BY <1>1, <2>1, <3>1
  <2> QED
    BY <2>2, <2>3
<1>10. ASSUME NEW r \in snaps'
       PROVE  /\ r \in [on : Day, cell : Store, units : Nat] /\ r.on \in Day /\ r.cell \in Store
              /\ r.on <= day /\ IsSnapshotDay(r.on) /\ r.units = g[r.on][r.cell]
              /\ cell'[r.cell].exists
  <2>1. CASE r \in snaps
    <3>1. /\ r \in [on : Day, cell : Store, units : Nat] /\ Past(r.on) /\ IsSnapshotDay(r.on)
          /\ r.units = h[r.on][r.cell] /\ cell[r.cell].exists
      BY <2>1 DEF Hist
    <3>2. r.on \in Day /\ r.cell \in Store
      BY <3>1
    <3>3. r.on <= day
      <4>1. r.on < day /\ r.on \in Int
        BY <1>1, <1>2, <3>1, <3>2 DEF Past
      <4> QED
        BY <1>1, <4>1
    <3>4. g[r.on][r.cell] = h[r.on][r.cell]
      BY <1>1, <1>7, <3>2, <3>3
    <3> QED
      BY <1>3, <3>1, <3>2, <3>3, <3>4
  <2>2. CASE r \notin snaps
    <3>1. PICK s \in SnapshotRows(cell') : r = [on |-> day, cell |-> s, units |-> cell[s].onHand]
      BY <1>2, <2>2
    <3>2. IsSnapshotDay(day)
      BY <1>2, <2>2
    <3>3. s \in Store /\ cell'[s].exists
      BY <3>1 DEF SnapshotRows
    <3>4. g[day][s] = cell[s].onHand
      BY <1>1, <1>5, <1>7, <3>3
    <3>5. r.on = day /\ r.cell = s /\ r.units = cell[s].onHand /\ r \in [on : Day, cell : Store, units : Nat]
      BY <1>1, <1>3, <3>1, <3>3
    <3> QED
      BY <1>1, <3>2, <3>3, <3>4, <3>5
  <2> QED
    BY <2>1, <2>2
<1>11. ASSUME NEW d \in Day, NEW s \in Store, d <= day, IsSnapshotDay(d), RowsOf(d, s)' = {}
       PROVE  /\ g[d][s] = 0
              /\ (\E r \in snaps' : r.cell = s /\ r.on < d) =>
                   Gone(s)' /\ \A e \in Day : d <= e /\ e <= day' => g[e][s] = 0
  <2>1. RowsOf(d, s) = {}
    BY <1>2, <1>11 DEF RowsOf
  <2>2. d \in 0 .. LastDay /\ g[d][s] = h[d][s] /\ d \in Int
    BY <1>1, <1>7, <1>11
  <2>3. \A r \in snaps' : r.on < d => r \in snaps
    <3> SUFFICES ASSUME NEW r \in snaps', r.on < d, r \notin snaps PROVE FALSE
      OBVIOUS
    <3>1. PICK t \in SnapshotRows(cell') : r = [on |-> day, cell |-> t, units |-> cell[t].onHand]
      BY <1>2
    <3>2. r.on = day
      BY <3>1
    <3> QED
      BY <1>1, <1>11, <2>2, <3>2
  <2>4. /\ h[d][s] = 0
        /\ (\E r \in snaps : r.cell = s /\ r.on < d) =>
             /\ Discontinued[s] < day /\ cell[s].onHand = 0 /\ cell'[s].inTransit = 0
             /\ \A e \in Day : d <= e /\ e <= day => h[e][s] = 0
    <3>1. CASE d < day
      <4>1. Past(d)
        BY <3>1 DEF Past
      <4>2. /\ h[d][s] = 0
            /\ (\E r \in snaps : r.cell = s /\ r.on < d) =>
                 Gone(s) /\ \A e \in Day : d <= e /\ e <= day => h[e][s] = 0
        BY <1>11, <2>1, <4>1 DEF Hist
      <4>3. Gone(s) => Discontinued[s] < day /\ cell[s].onHand = 0 /\ cell'[s].inTransit = 0
        <5>1. Discontinued[s] \in Int
          BY StoreAssumption
        <5> QED
          BY <1>1, <1>3, <5>1 DEF Gone
      <4> QED
        BY <4>2, <4>3
    <3>2. CASE ~ (d < day)
      <4>1. d = day
        BY <1>1, <1>11, <2>2, <3>2
      <4>2. s \notin SnapshotRows(cell')
        <5> SUFFICES ASSUME s \in SnapshotRows(cell') PROVE FALSE
          OBVIOUS
        <5> DEFINE r == [on |-> day, cell |-> s, units |-> cell[s].onHand]
        <5>1. r \in snaps'
          BY <1>2, <1>11, <4>1
        <5>2. r.on = d /\ r.cell = s
          BY <4>1
        <5> HIDE DEF r
        <5> QED
          BY <1>11, <5>1, <5>2 DEF RowsOf
      <4>3. ~ cell'[s].exists \/ (~ IsActive(s) /\ ~ (cell'[s].onHand + cell'[s].inTransit > 0))
        BY <4>2 DEF SnapshotRows
      <4>4. cell[s].onHand = 0
        BY <1>3, <4>3
      <4>5. ASSUME \E r \in snaps : r.cell = s /\ r.on < d
            PROVE  Discontinued[s] < day /\ cell'[s].inTransit = 0
        <5>1. cell[s].exists
          BY <4>5 DEF Hist
        <5>2. ~ IsActive(s) /\ ~ (cell'[s].onHand + cell'[s].inTransit > 0)
          BY <1>3, <4>3, <5>1
        <5>3. Discontinued[s] \in Int
          BY StoreAssumption
        <5> QED
          BY <1>1, <1>3, <5>2, <5>3 DEF IsActive
      <4>6. \A e \in Day : d <= e /\ e <= day => h[e][s] = 0
        <5>1. \A e \in Day : d <= e /\ e <= day => e = day
          BY <1>1, <4>1
        <5> QED
          BY <1>5, <4>4, <5>1
      <4> QED
        BY <1>1, <1>5, <4>1, <4>4, <4>5, <4>6
    <3> QED
      BY <3>1, <3>2
  <2>5. ASSUME \E r \in snaps' : r.cell = s /\ r.on < d
        PROVE  Gone(s)' /\ \A e \in Day : d <= e /\ e <= day' => g[e][s] = 0
    <3>1. \E r \in snaps : r.cell = s /\ r.on < d
      BY <2>3, <2>5
    <3>2. /\ Discontinued[s] < day /\ cell[s].onHand = 0 /\ cell'[s].inTransit = 0
          /\ \A e \in Day : d <= e /\ e <= day => h[e][s] = 0
      BY <2>4, <3>1
    <3>3. Gone(s)'
      <4>1. Discontinued[s] \in Int
        BY StoreAssumption
      <4> QED
        BY <1>1, <1>2, <1>3, <3>2, <4>1 DEF Gone
    <3>4. ASSUME NEW e \in Day, d <= e, e <= day' PROVE g[e][s] = 0
      <4>1. CASE e = day'
        BY <1>6, <3>2, <4>1
      <4>2. CASE e # day'
        <5>1. e <= day
          BY <1>1, <1>2, <3>4, <4>2
        <5>2. g[e] = h[e]
          BY <1>1, <1>6, <4>2
        <5> QED
          BY <3>2, <3>4, <5>1, <5>2
      <4> QED
        BY <4>1, <4>2
    <3> QED
      BY <3>3, <3>4
  <2> QED
    BY <2>2, <2>4, <2>5
<1>12. Hist(g)'
  <2>1. \A d \in Day : Past(d)' <=> d <= day
    BY <1>9 DEF Past
  <2>2. \A s \in Store : g[day'][s] = cell'[s].onHand
    BY <1>3, <1>6
  <2>3. \A r \in snaps' : /\ r \in [on : Day, cell : Store, units : Nat]
                          /\ Past(r.on)' /\ IsSnapshotDay(r.on) /\ r.units = g[r.on][r.cell]
                          /\ cell'[r.cell].exists
    BY <1>10, <2>1
  <2>4. \A d \in Day, s \in Store :
         Past(d)' /\ IsSnapshotDay(d) /\ RowsOf(d, s)' = {} =>
            /\ g[d][s] = 0
            /\ (\E r \in snaps' : r.cell = s /\ r.on < d) =>
                  Gone(s)' /\ \A e \in Day : d <= e /\ e <= day' => g[e][s] = 0
    BY <1>11, <2>1
  <2> QED
    BY <1>6, <1>8, <2>2, <2>3, <2>4 DEF Hist, IsSnapshotDay
<1> QED
  BY <1>12

\* The inductive invariant.
ReplayInv == StockInv /\ FlowsInv /\ \E h : Hist(h)

LEMMA ReplayInvInit == ReplayInit => ReplayInv
<1> SUFFICES ASSUME ReplayInit PROVE ReplayInv
  OBVIOUS
<1>1. PICK shelf \in [Store -> Openings] :
      /\ day = 1 /\ phase = "receive" /\ served = {} /\ SeedOpening(shelf)
      /\ lag \in Lags /\ snaps = {}
      /\ flows = [k \in Kinds |-> [d \in Day |-> [s \in Store |-> 0]]]
  BY DEF ReplayInit
<1>2. shelf \in [Store -> Nat] /\ lag \in Nat /\ arrivals = {} /\ day \in Day /\ LastDay \in Nat /\ LastDay >= 1
  <2>1. shelf \in [Store -> Nat] /\ lag \in Nat
    BY <1>1, ReplayAssumption
  <2>2. arrivals = {}
    BY <1>1 DEF SeedOpening
  <2>3. day = 1
    BY <1>1
  <2> QED
    BY <2>1, <2>2, <2>3, NumbersOfDays
<1>3. \A s \in Store : /\ cell[s] \in CellState /\ cell[s].onHand = shelf[s] /\ cell[s].inTransit = 0
                       /\ cell[s].sold = NoDay /\ (shelf[s] > 0 => cell[s].exists)
  <2> SUFFICES ASSUME NEW s \in Store
               PROVE  /\ cell[s] \in CellState /\ cell[s].onHand = shelf[s] /\ cell[s].inTransit = 0
                      /\ cell[s].sold = NoDay /\ (shelf[s] > 0 => cell[s].exists)
    OBVIOUS
  <2>1. cell[s] = [onHand |-> shelf[s], inTransit |-> 0, sold |-> NoDay, exists |-> shelf[s] > 0,
                   oldest |-> IF shelf[s] = 0 THEN NoDay ELSE 1]
    BY <1>1 DEF SeedOpening
  <2>2. shelf[s] \in Nat /\ NoDay \in Nat /\ (IF shelf[s] = 0 THEN NoDay ELSE 1) \in Nat
    BY <1>2 DEF NoDay
  <2>3. cell[s].onHand = shelf[s] /\ cell[s].inTransit = 0 /\ cell[s].sold = NoDay
    BY <2>1
  <2>6. shelf[s] > 0 => cell[s].exists
    <3> DEFINE b == shelf[s] > 0
    <3>1. cell[s] = [onHand |-> shelf[s], inTransit |-> 0, sold |-> NoDay, exists |-> b,
                     oldest |-> IF shelf[s] = 0 THEN NoDay ELSE 1]
      BY <2>1
    <3> HIDE DEF b
    <3>2. cell[s].exists = b
      BY <3>1
    <3> QED
      BY <3>2 DEF b
  <2>4. (shelf[s] > 0) \in BOOLEAN
    BY <2>2
  <2>5. cell[s] \in CellState
    BY <2>1, <2>2, <2>4 DEF CellState
  <2> QED
    BY <2>3, <2>5, <2>6
<1>4. StockInv
  <2>1. cell \in [Store -> CellState]
    <3>1. cell = [s \in Store |-> cell[s]]
      BY <1>1 DEF SeedOpening
    <3> QED
      BY <1>3, <3>1
  <2>2. \A s \in Store : Coming(s) = {}
    BY <1>2 DEF Coming
  <2>3. \A s \in Store : Units(Coming(s)) <= cell[s].inTransit
    <3>1. \A s \in Store : Units(Coming(s)) = 0
      BY <2>2, NoUnits
    <3> QED
      BY <1>3, <3>1
  <2>4. \A s \in Store : cell[s].onHand + cell[s].inTransit > 0 \/ cell[s].sold # NoDay => cell[s].exists
    BY <1>2, <1>3
  <2>5. IsFiniteSet(arrivals) /\ \A a \in arrivals : a.to \in Store /\ a.quantity \in Nat \ {0}
    BY <1>2, FS_EmptySet
  <2> QED
    BY <1>1, <1>2, <2>1, <2>3, <2>4, <2>5 DEF StockInv, Parts
<1>5. \A k \in Kinds, d \in Day, s \in Store : flows[k][d][s] = 0
  BY <1>1
<1>6. {"received", "wasted", "sold", "short"} \subseteq Kinds
  BY DEF Kinds
<1>7. FlowsInv
  <2>1. flows \in [Kinds -> [Day -> [Store -> Nat]]]
    BY <1>1
  <2>2. FlowsTyped
    BY <1>2, <1>5, <1>6, <2>1 DEF FlowsTyped
  <2> QED
    BY <1>2, <1>5, <1>6, <2>2 DEF FlowsInv
<1>8. PICK h : h = [d \in 0 .. LastDay |-> shelf]
  OBVIOUS
<1>9. Hist(h)
  <2>1. h \in [0 .. LastDay -> [Store -> Nat]] /\ \A d \in 0 .. LastDay : h[d] = shelf
    BY <1>2, <1>8
  <2>2. \A d \in Day, s \in Store : h[d][s] = h[d - 1][s] + Net(d, s)
    <3> SUFFICES ASSUME NEW d \in Day, NEW s \in Store PROVE h[d][s] = h[d - 1][s] + Net(d, s)
      OBVIOUS
    <3>1. Net(d, s) = 0
      <4>1. /\ flows["received"][d][s] = 0 /\ flows["wasted"][d][s] = 0
            /\ flows["sold"][d][s] = 0 /\ flows["short"][d][s] = 0
        BY <1>5, <1>6
      <4> QED
        BY <4>1 DEF Net
    <3>2. h[d] = shelf /\ h[d - 1] = shelf /\ shelf[s] \in Nat
      BY <1>2, <2>1, NumbersOfDays
    <3> QED
      BY <3>1, <3>2
  <2>3. \A s \in Store : h[day][s] = cell[s].onHand
    BY <1>2, <1>3, <2>1, NumbersOfDays
  <2>4. snaps = {} /\ phase # "done" /\ \A d \in Day : ~ (d < day)
    BY <1>1, NumbersOfDays
  <2> QED
    BY <2>1, <2>2, <2>3, <2>4 DEF Hist, Past
<1> QED
  BY <1>4, <1>7, <1>9 DEF ReplayInv

LEMMA ReplayInvStep == ReplayInv /\ [ReplayNext]_replayVars => ReplayInv'
<1> SUFFICES ASSUME ReplayInv, [ReplayNext]_replayVars PROVE ReplayInv'
  OBVIOUS
<1>1. StockInv /\ FlowsInv
  BY DEF ReplayInv
<1>2. PICK h : Hist(h)
  BY DEF ReplayInv
<1>3. CASE Receive
  BY <1>1, <1>2, <1>3, ReceiveMoves, HistMoves DEF ReplayInv
<1>4. CASE Expire
  BY <1>1, <1>2, <1>4, ExpireMoves, HistMoves DEF ReplayInv
<1>5. ASSUME NEW s \in Store, NEW units \in SaleUnits, Sell(s, units) PROVE ReplayInv'
  BY <1>1, <1>2, <1>5, SellMoves, HistMoves DEF ReplayInv
<1>6. CASE EndOfDay
  BY <1>1, <1>2, <1>6, EndOfDayStock, EndOfDayHist DEF ReplayInv
<1>7. CASE UNCHANGED replayVars
  <2>1. /\ day' = day /\ cell' = cell /\ arrivals' = arrivals /\ phase' = phase /\ served' = served
        /\ lag' = lag /\ snaps' = snaps /\ flows' = flows
    BY <1>7 DEF replayVars, storeVars
  <2>2. StockInv'
    BY <1>1, <2>1 DEF StockInv, Coming
  <2>3. FlowsInv'
    BY <1>1, <2>1 DEF FlowsInv, FlowsTyped
  <2>4. Hist(h)'
    BY <1>2, <2>1 DEF Hist, Past, RowsOf, Gone, Net
  <2> QED
    BY <2>2, <2>3, <2>4 DEF ReplayInv
<1> QED
  BY <1>3, <1>4, <1>5, <1>6, <1>7 DEF ReplayNext

\* When every day has run, what the invariant follows is the history.
LEMMA HistoryIsThere ==
    ASSUME ReplayInv, phase = "done", AllKnown
    PROVE  \E h : History(h)
<1>1. PICK h : Hist(h)
  BY DEF ReplayInv
<1>2. day = LastDay /\ FlowsTyped /\ LastDay \in Int /\ \A d \in Day : d \in Int /\ d <= day
  BY NumbersOfDays DEF ReplayInv, StockInv, FlowsInv
<1>3. Balanced(h, Day)
  BY <1>1, <1>2 DEF Balanced, Hist
<1>4. \A d : Past(d)
  BY DEF Past
<1>5. \A r \in snaps : /\ r \in [on : Day, cell : Store, units : Nat]
                       /\ r.on \in Day /\ IsSnapshotDay(r.on) /\ r.units = h[r.on][r.cell]
  BY <1>1 DEF Hist
<1>6. \A d \in Day, s \in Store :
         IsSnapshotDay(d) /\ RowsOf(d, s) = {} =>
            /\ h[d][s] = 0
            /\ (\E r \in snaps : r.cell = s /\ r.on < d) => \A e \in Day : e >= d => h[e][s] = 0
  <2> SUFFICES ASSUME NEW d \in Day, NEW s \in Store, IsSnapshotDay(d), RowsOf(d, s) = {}
               PROVE  /\ h[d][s] = 0
                      /\ (\E r \in snaps : r.cell = s /\ r.on < d) => \A e \in Day : e >= d => h[e][s] = 0
    OBVIOUS
  <2>1. /\ h[d][s] = 0
        /\ (\E r \in snaps : r.cell = s /\ r.on < d) =>
              Gone(s) /\ \A e \in Day : d <= e /\ e <= day => h[e][s] = 0
    BY <1>1, <1>4 DEF Hist
  <2>2. \A e \in Day : e >= d => d <= e /\ e <= day
    BY <1>2
  <2> QED
    BY <2>1, <2>2
<1>7. Told(h, Day)
  BY <1>5, <1>6 DEF Told
<1> QED
  BY <1>2, <1>3, <1>7 DEF History

\* For any stores, assortments, sales, orders and calendars: where every sale is
\* known, the replay without orders ends every period with the stock that was
\* observed, but for what it carries in stale cells.
THEOREM OracleErrorIsStaleHolds == ReplaySpec => []OracleErrorIsStale
<1>1. ReplayInv => OracleErrorIsStale
  BY HistoryIsThere, OracleOfHistory DEF OracleErrorIsStale
<1> QED
  BY <1>1, ReplayInvInit, ReplayInvStep, PTL DEF ReplaySpec

\* For any of these and any levels and covers: where every sale is known and no
\* cell is stale, a candidate that is accepted loses less than the stores
\* reported as shortfall.
THEOREM AcceptedImprovesHolds == ReplaySpec => []AcceptedImproves
<1>1. ReplayInv => AcceptedImproves
  BY HistoryIsThere, AcceptedOfHistory DEF AcceptedImproves
<1> QED
  BY <1>1, ReplayInvInit, ReplayInvStep, PTL DEF ReplaySpec

-----------------------------------------------------------------------------
\* Operators and runs are explored apart, so a behaviour of the whole is one of
\* the activations, one of a plan and one of a replayed history.
LEMMA ServiceApart == InventorySpec => Spec /\ PlanSpec /\ ReplaySpec
<1>1. InventoryInit => Init /\ PlanInit /\ ReplayInit
  BY DEF InventoryInit, RunInit
<1>2. [Build \/ Operate]_<<vars, replayVars, planVars>>
        => [Next]_vars /\ [PlanNext]_planVars /\ [ReplayNext]_replayVars
  BY DEF Build, Operate, RunNext, ReplayHistory, BuildPlan
<1> QED
  BY <1>1, <1>2, PTL DEF InventorySpec, Spec, PlanSpec, ReplaySpec

\* What holds of activations, plans and replays holds of the composed inventory
\* side.
THEOREM InventoryHolds ==
    InventorySpec => /\ [](HistoryIsOneSequence /\ OneWindowPerNode)
                     /\ [](OracleErrorIsStale /\ AcceptedImproves)
                     /\ RetryMovesNothing /\ ImplementsAuthority
                     /\ OneAlternate => []PlanIsFeasible
<1>1. CASE OneAlternate
  <2>1. PlanSpec => []PlanIsFeasible
    BY <1>1, PlanIsFeasibleHolds
  <2> QED
    BY <2>1, ServiceApart, HistoryIsOneSequenceHolds, OneWindowPerNodeHolds,
       RetryMovesNothingHolds, ImplementsAuthorityHolds, OracleErrorIsStaleHolds,
       AcceptedImprovesHolds, PTL
<1>2. CASE ~OneAlternate
  BY <1>2, ServiceApart, HistoryIsOneSequenceHolds, OneWindowPerNodeHolds,
     RetryMovesNothingHolds, ImplementsAuthorityHolds, OracleErrorIsStaleHolds,
     AcceptedImprovesHolds, PTL
<1> QED
  BY <1>1, <1>2
=============================================================================
