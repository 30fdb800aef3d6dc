---------------------------- MODULE ServingReads ----------------------------
(***************************************************************************)
(* The Go API over the serving schema: cmd/server/main.go loads one        *)
(* forecast store and one inventory store at startup, and every request    *)
(* revalidates the store it uses before it reads immutable rows by the     *)
(* identity it loaded (api/internal/readmodel/{forecast,inventory}.go).    *)
(*                                                                         *)
(* Each SQL statement is an action: no read of the API runs in a           *)
(* transaction, so activations may commit between any two of them.  The    *)
(* activations themselves are the steps their modules promise, and the     *)
(* race of two activations in different scopes that ForecastActivation     *)
(* exhibits.                                                               *)
(***************************************************************************)
EXTENDS Naturals, FiniteSets

CONSTANTS
    Versions,     \* forecast versions
    Scopes,       \* activation scopes
    ScopeOf,      \* the scope a version was materialized under
    Expected,     \* versions of the publication the server is started against
    Bundles,      \* inventory versions
    ForecastOf,   \* the forecast version a bundle consumed
    Slots,        \* requests in flight
    Routes,       \* the kinds of route clients ask for
    Races,        \* whether two scopes may be activated by a race
    NoVersion, NoBundle,
    MaxMoves,     \* bound: authority moves in a behaviour
    MaxRequests   \* bound: requests in a behaviour

ASSUME ScopeAssumption == ScopeOf \in [Versions -> Scopes]
ASSUME ForecastAssumption == ForecastOf \in [Bundles -> Versions]
ASSUME RouteAssumption == Routes \subseteq {"forecast", "stores", "inventory"}
ASSUME BoundsAssumption == MaxMoves \in Nat /\ MaxRequests \in Nat

VARIABLES
    serving,    \* rows of active_forecast_versions
    chosen,     \* the bundle active_inventory_state points to
    moves,      \* authority moves so far
    boot,       \* the statement main executes next, or "down", "listening"
    scope,      \* the configured activation scope
    fstore,     \* ForecastStore: [version, reason]
    istore,     \* InventoryStore: [bundle, reason]
    pc,         \* slot -> the statement its handler executes next
    route,      \* slot -> the kind of route asked for
    answer,     \* slot -> the response
    witnessed,  \* slot -> every (serving, chosen) the request lived through
    requests    \* requests so far

authorityVars == <<serving, chosen, moves>>
storeVars == <<boot, scope, fstore, istore>>
requestVars == <<pc, route, answer, witnessed, requests>>
vars == <<authorityVars, storeVars, requestVars>>

\* A response: its HTTP status, the reason of a refusal, and what a 200 was
\* computed from; "risk" is the bundle whose demand at risk a forecast answer
\* carries.
NoAnswer == [status |-> 0, reason |-> "none", version |-> NoVersion,
             bundle |-> NoBundle, risk |-> NoBundle]
Ok(v, b, r) ==
    [NoAnswer EXCEPT !.status = 200, !.version = v, !.bundle = b, !.risk = r]

\* forecastUnavailableStatus and inventoryUnavailableStatus.
Status(reason) == IF reason \in {"lineage", "superseded"} THEN 409 ELSE 503
Refused(reason) == [NoAnswer EXCEPT !.status = Status(reason), !.reason = reason]

----------------------------------------------------------------------------
(* The serving schema.                                                     *)

\* active_inventory_versions: the pointed bundle, while its forecast serves.
ActiveBundles == {b \in Bundles : b = chosen /\ ForecastOf[b] \in serving}

Snapshot == [serving |-> serving, chosen |-> chosen]

\* Every request in flight lives through the state a move leaves behind.
Witness ==
    witnessed' = [s \in Slots |->
                    IF pc[s] = "idle" THEN witnessed[s]
                    ELSE witnessed[s] \cup {Snapshot'}]

MoveForecast(v) ==
    /\ moves < MaxMoves
    /\ v \notin serving
    /\ \/ serving' = {v}
       \/ /\ Races
          /\ \A u \in serving : ScopeOf[u] # ScopeOf[v]
          /\ serving' = serving \cup {v}
    /\ moves' = moves + 1
    /\ UNCHANGED <<chosen, storeVars, pc, route, answer, requests>>
    /\ Witness

ChooseBundle(b) ==
    /\ moves < MaxMoves
    /\ b # chosen
    /\ ForecastOf[b] \in serving
    /\ chosen' = b
    /\ moves' = moves + 1
    /\ UNCHANGED <<serving, storeVars, pc, route, answer, requests>>
    /\ Witness

----------------------------------------------------------------------------
(* Startup: main loads both stores, then listens.                          *)

NoForecast(reason) == [version |-> NoVersion, reason |-> reason]
NoInventory(reason) == [bundle |-> NoBundle, reason |-> reason]

Init ==
    /\ serving = {}
    /\ chosen = NoBundle
    /\ moves = 0
    /\ boot = "down"
    /\ scope \in Scopes
    /\ fstore = NoForecast("unmaterialized")
    /\ istore = NoInventory("unmaterialized")
    /\ pc = [s \in Slots |-> "idle"]
    /\ route = [s \in Slots |-> "forecast"]
    /\ answer = [s \in Slots |-> NoAnswer]
    /\ witnessed = [s \in Slots |-> {}]
    /\ requests = 0

Start(s) ==
    /\ boot = "down"
    /\ boot' = "forecast_count"
    /\ scope' = s
    /\ UNCHANGED <<authorityVars, fstore, istore, requestVars>>

\* What a count of active authorities means to the forecast store.
AuthorityReason(n) ==
    IF n = 0 THEN "unmaterialized" ELSE IF n = 1 THEN "unique" ELSE "ambiguous"

LoadForecastCount ==
    /\ boot = "forecast_count"
    /\ LET reason == AuthorityReason(Cardinality(serving))
       IN  IF reason = "unique"
           THEN boot' = "forecast_select" /\ UNCHANGED fstore
           ELSE boot' = "inventory_count" /\ fstore' = NoForecast(reason)
    /\ UNCHANGED <<authorityVars, scope, istore, requestVars>>

\* The row of the configured scope, if the active view still has one.
LoadForecastSelect ==
    /\ boot = "forecast_select"
    /\ boot' = "inventory_count"
    /\ LET rows == {v \in serving : ScopeOf[v] = scope}
       IN  \/ rows = {} /\ fstore' = NoForecast("unmaterialized")
           \/ \E v \in rows :
                fstore' = IF v \in Expected
                          THEN [version |-> v, reason |-> "none"]
                          ELSE NoForecast("lineage")
    /\ UNCHANGED <<authorityVars, scope, istore, requestVars>>

LoadInventoryCount ==
    /\ boot = "inventory_count"
    /\ IF ActiveBundles = {}
       THEN boot' = "listening" /\ istore' = NoInventory("unmaterialized")
       ELSE boot' = "inventory_select" /\ UNCHANGED istore
    /\ UNCHANGED <<authorityVars, scope, fstore, requestVars>>

LoadInventorySelect ==
    /\ boot = "inventory_select"
    /\ boot' = "listening"
    /\ \/ /\ ActiveBundles = {}
          /\ istore' = NoInventory("unmaterialized")
       \/ \E b \in ActiveBundles : istore' = [bundle |-> b, reason |-> "none"]
    /\ UNCHANGED <<authorityVars, scope, fstore, requestVars>>

\* The process stops or dies: its stores and its requests are gone.
Stop ==
    /\ boot # "down"
    /\ boot' = "down"
    /\ fstore' = NoForecast("unmaterialized")
    /\ istore' = NoInventory("unmaterialized")
    /\ pc' = [s \in Slots |-> "idle"]
    /\ answer' = [s \in Slots |-> NoAnswer]
    /\ witnessed' = [s \in Slots |-> {}]
    /\ UNCHANGED <<authorityVars, scope, route, requests>>

----------------------------------------------------------------------------
(* Requests.                                                               *)

Goto(s, from, to) == pc[s] = from /\ pc' = [pc EXCEPT ![s] = to]

Respond(s, response) ==
    /\ pc' = [pc EXCEPT ![s] = "answered"]
    /\ answer' = [answer EXCEPT ![s] = response]
    /\ UNCHANGED <<authorityVars, storeVars, route, witnessed, requests>>

Available(r) ==
    IF r = "inventory" THEN istore.reason = "none" ELSE fstore.reason = "none"

Arrive(s, r) ==
    /\ boot = "listening"
    /\ requests < MaxRequests
    /\ Goto(s, "idle", IF Available(r) THEN "revalidate" ELSE "unavailable")
    /\ route' = [route EXCEPT ![s] = r]
    /\ witnessed' = [witnessed EXCEPT ![s] = {Snapshot}]
    /\ requests' = requests + 1
    /\ UNCHANGED <<authorityVars, storeVars, answer>>

AnswerUnavailable(s) ==
    /\ pc[s] = "unavailable"
    /\ Respond(s, Refused(IF route[s] = "inventory" THEN istore.reason
                          ELSE fstore.reason))

\* Seeded fault in ForecastRefusal: only the store's own lineage is revalidated.
MutOwnLineageOnly(v) == IF v \in serving THEN "none" ELSE "lineage"

\* ForecastStore.Read: the count over every scope, then the store's lineage.
ForecastRefusal(v) ==
    IF Cardinality(serving) # 1 THEN "ambiguous"
    ELSE IF v \notin serving THEN "lineage" ELSE "none"

\* Seeded fault in InventoryRefusal: any active bundle will do.
MutAnyBundle(b) == IF ActiveBundles = {} THEN "invalid" ELSE "none"

\* InventoryStore.Read: one active bundle, and it is the store's.
InventoryRefusal(b) ==
    IF Cardinality(ActiveBundles) # 1 THEN "invalid"
    ELSE IF b \notin ActiveBundles THEN "superseded" ELSE "none"

Refusal(s) ==
    IF route[s] = "inventory" THEN InventoryRefusal(istore.bundle)
    ELSE ForecastRefusal(fstore.version)

RefuseRead(s) ==
    /\ pc[s] = "revalidate"
    /\ Refusal(s) # "none"
    /\ Respond(s, Refused(Refusal(s)))

Revalidate(s) ==
    /\ Goto(s, "revalidate", "rows")
    /\ Refusal(s) = "none"
    /\ UNCHANGED <<authorityVars, storeVars, route, answer, witnessed, requests>>

\* Rows of the loaded version: they never change, whoever is active now.
ReadRows(s) ==
    /\ pc[s] = "rows"
    /\ route[s] # "stores"
    /\ Respond(s, IF route[s] = "inventory"
                  THEN Ok(ForecastOf[istore.bundle], istore.bundle, NoBundle)
                  ELSE Ok(fstore.version, NoBundle, NoBundle))

\* demandAtRisk reads whichever bundle is active now; none active, or a failed
\* statement, leaves the column out.
ReadRisk(s) ==
    /\ pc[s] = "rows"
    /\ route[s] = "stores"
    /\ \/ Respond(s, Ok(fstore.version, NoBundle, NoBundle))
       \/ \E b \in ActiveBundles : Respond(s, Ok(fstore.version, NoBundle, b))

\* A statement fails: the read is refused as unmaterialized.
FailStatement(s) ==
    /\ pc[s] \in {"revalidate", "rows"}
    /\ Respond(s, Refused("unmaterialized"))

Finish(s) ==
    /\ Goto(s, "answered", "idle")
    /\ answer' = [answer EXCEPT ![s] = NoAnswer]
    /\ witnessed' = [witnessed EXCEPT ![s] = {}]
    /\ UNCHANGED <<authorityVars, storeVars, route, requests>>

----------------------------------------------------------------------------
Boot == \/ LoadForecastCount \/ LoadForecastSelect
        \/ LoadInventoryCount \/ LoadInventorySelect

Handle(s) == \/ AnswerUnavailable(s) \/ RefuseRead(s) \/ Revalidate(s)
             \/ ReadRows(s) \/ ReadRisk(s)

Next ==
    \/ \E v \in Versions : MoveForecast(v)
    \/ \E b \in Bundles : ChooseBundle(b)
    \/ \E c \in Scopes : Start(c)
    \/ Boot
    \/ Stop
    \/ \E s \in Slots :
         \/ \E r \in Routes : Arrive(s, r)
         \/ Handle(s)
         \/ FailStatement(s)
         \/ Finish(s)

Spec == Init /\ [][Next]_vars

----------------------------------------------------------------------------
Live(s) == answer[s].status = 200

\* A live forecast answer names a version that was the only authority at some
\* moment of the request, of the publication the server was started against:
\* neither a race of scopes nor an activation in mid-request is ever hidden.
ForecastAnswersHadAuthority ==
    \A s \in Slots :
      Live(s) /\ route[s] # "inventory"
        => /\ \E w \in witnessed[s] : w.serving = {answer[s].version}
           /\ answer[s].version \in Expected

\* The inventory figures in an answer, its own or the demand at risk beside a
\* forecast, come from a bundle that was active during the request.
InventoryAnswersWereActive ==
    \A s \in Slots : \A b \in {answer[s].bundle, answer[s].risk} \ {NoBundle} :
      Live(s) => \E w \in witnessed[s] : w.chosen = b /\ ForecastOf[b] \in w.serving
=============================================================================
