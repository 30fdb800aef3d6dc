------------------------------ MODULE ReadPool ------------------------------
(***************************************************************************)
(* The two limits a request of the Go API meets: the HTTP permits of       *)
(* api/internal/httpapi/app.go and the connections of the forecast pool    *)
(* (pgxpool, MaxConns = DBReadPool) of api/internal/readmodel/forecast.go. *)
(* A handler runs its statements one after the other and each one borrows  *)
(* a connection until its rows are read; the stores route asks for a       *)
(* second connection while its first result is still open.                 *)
(***************************************************************************)
EXTENDS Naturals, FiniteSets

CONSTANTS
    Clients,    \* concurrent clients, each with one request at a time
    Routes,     \* kinds of route they ask for
    Permits,    \* HTTPConcurrency
    PoolSize    \* DBReadPool

ASSUME RouteAssumption == Routes \subseteq {"health", "series", "stores"}
ASSUME LimitAssumption == Permits \in Nat \ {0} /\ PoolSize \in Nat \ {0}

VARIABLES
    handler,    \* client -> where the handler of its request stands
    asked       \* client -> the route it asked for

poolVars == <<handler, asked>>

\* Seeded fault in HoldsPermit: a handler gives its permit back before it reads.
MutEarlyRelease(r) == handler[r] \in {"revalidate", "revalidating"}

\* The permit is held from the middleware until the handler has returned.
HoldsPermit(r) == handler[r] \notin {"idle", "permit"}

\* A result set that is open pins its connection; "risk" is the stores handler
\* waiting for a second connection while its own rows are open.
HoldsRows(r) == handler[r] \in {"revalidating", "reading", "risk", "risking"}
HoldsRisk(r) == handler[r] = "risking"

InUse == Cardinality({r \in Clients : HoldsRows(r)})
           + Cardinality({r \in Clients : HoldsRisk(r)})

PermitFree == Cardinality({r \in Clients : HoldsPermit(r)}) < Permits
ConnectionFree == InUse < PoolSize

PoolInit ==
    /\ handler = [r \in Clients |-> "idle"]
    /\ asked = [r \in Clients |-> "health"]

Moves(r, from, to) == handler[r] = from /\ handler' = [handler EXCEPT ![r] = to]

Arrive(r, k) ==
    /\ Moves(r, "idle", "permit")
    /\ asked' = [asked EXCEPT ![r] = k]

\* permits <- struct{}{}; the health route touches no store.
TakePermit(r) ==
    /\ PermitFree
    /\ Moves(r, "permit", IF asked[r] = "health" THEN "done" ELSE "revalidate")
    /\ UNCHANGED asked

\* A statement borrows a connection from the pool, or waits for one.
Borrow(r) ==
    /\ ConnectionFree
    /\ \/ Moves(r, "revalidate", "revalidating")
       \/ Moves(r, "rows", "reading")
       \/ Moves(r, "risk", "risking")
    /\ UNCHANGED asked

\* The revalidation row is scanned and its connection returned; the read is
\* refused, or goes on to its rows.
Revalidated(r) ==
    /\ Moves(r, "revalidating", "rows") \/ Moves(r, "revalidating", "done")
    /\ UNCHANGED asked

\* stores() calls demandAtRisk before it reads its own rows; every other
\* handler reads its rows to the end.
AfterQuery(r) == IF asked[r] = "stores" THEN "risk" ELSE "done"

ReadRows(r) == Moves(r, "reading", AfterQuery(r)) /\ UNCHANGED asked

\* demandAtRisk closes its rows; stores() reads its own and closes them.
ReadRisk(r) == Moves(r, "risking", "done") /\ UNCHANGED asked

\* The client hangs up or a statement fails: pgx gives the handler an error and
\* its connections back.  A handler waiting for a permit does not notice.
Cancel(r) ==
    /\ handler[r] \in {"revalidate", "revalidating", "rows", "reading", "risk", "risking"}
    /\ handler' = [handler EXCEPT ![r] = "done"]
    /\ UNCHANGED asked

\* The handler returns and its permit is released.
Answer(r) == Moves(r, "done", "idle") /\ UNCHANGED asked

PoolNext ==
    \E r \in Clients :
      \/ \E k \in Routes : Arrive(r, k)
      \/ TakePermit(r) \/ Borrow(r)
      \/ Revalidated(r) \/ ReadRows(r) \/ ReadRisk(r) \/ Cancel(r)
      \/ Answer(r)

PoolSpec == PoolInit /\ [][PoolNext]_poolVars

\* Handlers run and nobody has to hang up; permits (a Go channel) and connections (pgxpool's queue) go to
\* a waiter that keeps finding one free.
PoolFairness ==
    \A r \in Clients :
      /\ WF_poolVars(Revalidated(r) \/ ReadRows(r) \/ ReadRisk(r) \/ Answer(r))
      /\ SF_poolVars(TakePermit(r))
      /\ SF_poolVars(Borrow(r))

PoolFairSpec == PoolSpec /\ PoolFairness

----------------------------------------------------------------------------
PoolTypeOK ==
    /\ handler \in [Clients -> {"idle", "permit", "revalidate", "revalidating",
                            "rows", "reading", "risk", "risking", "done"}]
    /\ asked \in [Clients -> {"health", "series", "stores"}]
    /\ \A r \in Clients : handler[r] \in {"risk", "risking"} => asked[r] = "stores"

\* A request that waits for its second connection finds one free, or some
\* handler that is not itself waiting will return one.
PoolNeverStuck ==
    (\E r \in Clients : handler[r] = "risk")
      => ConnectionFree \/ \E r \in Clients : HoldsRows(r) /\ handler[r] # "risk"

\* Execution settings change throughput only: under any pair of limits every
\* request is answered.
EveryRequestAnswered ==
    \A r \in Clients : handler[r] = "permit" ~> handler[r] = "idle"
=============================================================================
