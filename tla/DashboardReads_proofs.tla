-------------------------- MODULE DashboardReads_proofs --------------------------
(***************************************************************************)
(* For any number of requests, versions, bundles, queries and restarts:    *)
(*  - a live answer was computed from what was active at some moment of    *)
(*    its request, however the authorities move between the statements;    *)
(*  - a client that walks the pages of a list of one version, or of one    *)
(*    bundle, has the list when it stops, although LIMIT and OFFSET may    *)
(*    show tied rows in any order;                                         *)
(*  - the tiles of a screen are sums of the rows it pages over, and the    *)
(*    tiles, companions and cards of all the screens of one bundle have    *)
(*    one number for each figure.                                          *)
(***************************************************************************)
EXTENDS DashboardReads, SetLemmas, FiniteSetTheorems, TLAPS

----------------------------------------------------------------------------
(* Answers: neither property is inductive alone; ServingInv adds what a    *)
(* handler knows at each statement.                                        *)

VersionWitnessed(s, v) == \E w \in witnessed[s] : w.serving = {v}
BundleWitnessed(s, b) == \E w \in witnessed[s] : w.chosen = b /\ ForecastOf[b] \in w.serving

\* The revalidation has seen what the route is going to read.
Revalidated(s) == IF route[s] = "inventory" THEN BundleWitnessed(s, istore.bundle)
                  ELSE VersionWitnessed(s, fstore.version)

\* What both properties ask of the answer of a slot.
Grounded(s) ==
    /\ route[s] # "inventory"
         => VersionWitnessed(s, answer[s].version) /\ answer[s].version \in Expected
    /\ \A b \in {answer[s].bundle, answer[s].risk} \ {NoBundle} : BundleWitnessed(s, b)

\* Requests exist only while the server listens, witness the present state,
\* are admitted to an available store, and answer from what they witnessed.
SlotInv(s) ==
    /\ pc[s] # "idle" => boot = "listening" /\ Snapshot \in witnessed[s]
    /\ pc[s] \in {"revalidate", "rows"} => Available(route[s])
    /\ pc[s] = "rows" => Revalidated(s)
    /\ pc[s] # "answered" => answer[s] = NoAnswer
    /\ pc[s] = "answered" /\ Live(s) => Grounded(s)

PerSlot(f) == f = [s \in Slots |-> f[s]]

ServingInv ==
    /\ PerSlot(pc) /\ PerSlot(route) /\ PerSlot(answer) /\ PerSlot(witnessed)
    /\ IsFiniteSet(serving)
    /\ fstore.reason = "none" => fstore.version \in Expected
    /\ \A s \in Slots : SlotInv(s)

\* The invariant is what the two properties say of the slots that have answered.
LEMMA GroundedAnswers ==
    ASSUME ServingInv PROVE ForecastAnswersHadAuthority /\ InventoryAnswersWereActive
<1>1. \A s \in Slots : Live(s) => pc[s] = "answered"
  BY DEF ServingInv, SlotInv, Live, NoAnswer
<1>2. \A s \in Slots : Live(s) => Grounded(s)
  BY <1>1 DEF ServingInv, SlotInv
<1> QED
  BY <1>2 DEF Grounded, VersionWitnessed, BundleWitnessed,
       ForecastAnswersHadAuthority, InventoryAnswersWereActive

\* A refusal is never live, and an answer is live with what it was made of.
LEMMA RefusalIsNotLive == ASSUME NEW r PROVE Refused(r).status # 200
  BY DEF Refused, Status, NoAnswer

LEMMA LiveAnswer ==
    ASSUME NEW v, NEW b, NEW r
    PROVE  Ok(v, b, r).version = v /\ Ok(v, b, r).bundle = b /\ Ok(v, b, r).risk = r
  BY DEF Ok, NoAnswer

\* What passes the revalidation of the forecast store is the only authority,
\* what passes that of the inventory store is active.
LEMMA RevalidatedForecast ==
    ASSUME IsFiniteSet(serving), NEW v, ForecastRefusal(v) = "none"
    PROVE  serving = {v}
<1>1. Cardinality(serving) = 1 /\ v \in serving
  BY DEF ForecastRefusal
<1>2. PICK x : serving = {x}
  BY <1>1, FS_Singleton
<1> QED
  BY <1>1, <1>2

LEMMA RevalidatedInventory ==
    ASSUME NEW b, InventoryRefusal(b) = "none"
    PROVE  chosen = b /\ ForecastOf[b] \in serving
  BY DEF InventoryRefusal, ActiveBundles

\* A slot that is left alone keeps its invariant while its witnesses grow.
LEMMA SlotKept ==
    ASSUME NEW s \in Slots, SlotInv(s), UNCHANGED <<boot, fstore, istore>>,
           pc'[s] = pc[s], route'[s] = route[s], answer'[s] = answer[s],
           witnessed[s] \subseteq witnessed'[s],
           pc[s] # "idle" => Snapshot' \in witnessed'[s]
    PROVE  SlotInv(s)'
<1>1. \A v : VersionWitnessed(s, v) => VersionWitnessed(s, v)'
  BY DEF VersionWitnessed
<1>2. \A b : BundleWitnessed(s, b) => BundleWitnessed(s, b)'
  BY DEF BundleWitnessed
<1>3. Revalidated(s) => Revalidated(s)'
  BY <1>1, <1>2 DEF Revalidated
<1>4. Grounded(s) => Grounded(s)'
  BY <1>1, <1>2 DEF Grounded
<1>5. Live(s)' = Live(s) /\ Available(route[s])' = Available(route[s])
  BY DEF Live, Available
<1> QED
  BY <1>3, <1>4, <1>5 DEF SlotInv, Available

\* A slot that becomes idle has nothing to account for.
LEMMA SlotIdle ==
    ASSUME NEW s \in Slots, pc'[s] = "idle", answer'[s] = NoAnswer
    PROVE  SlotInv(s)'
  BY DEF SlotInv

LEMMA ServingInit == Init => ServingInv
<1> SUFFICES ASSUME Init PROVE ServingInv
  OBVIOUS
<1>1. IsFiniteSet(serving)
  BY FS_EmptySet DEF Init
<1>2. PerSlot(pc) /\ PerSlot(route) /\ PerSlot(answer) /\ PerSlot(witnessed)
  BY DEF Init, PerSlot
<1>3. \A s \in Slots : SlotInv(s)
  BY DEF Init, SlotInv
<1>4. fstore.reason # "none"
  BY DEF Init, NoForecast
<1> QED
  BY <1>1, <1>2, <1>3, <1>4 DEF ServingInv

\* The authorities move: every request in flight witnesses it.
LEMMA AuthorityMoves ==
    ASSUME ServingInv,
           \/ \E v \in Versions : MoveForecast(v)
           \/ \E b \in Bundles : ChooseBundle(b)
    PROVE  ServingInv'
<1>1. UNCHANGED <<storeVars, pc, route, answer, requests>> /\ Witness
  BY DEF MoveForecast, ChooseBundle
<1>2. IsFiniteSet(serving')
  <2>1. ASSUME NEW v \in Versions, MoveForecast(v) PROVE IsFiniteSet(serving')
    <3>1. serving' = {v} \/ serving' = serving \cup {v}
      BY <2>1 DEF MoveForecast
    <3>2. IsFiniteSet({v}) /\ IsFiniteSet(serving \cup {v})
      BY FS_Singleton, FS_AddElement DEF ServingInv
    <3> QED
      BY <3>1, <3>2
  <2>2. ASSUME NEW b \in Bundles, ChooseBundle(b) PROVE IsFiniteSet(serving')
    BY <2>2 DEF ChooseBundle, ServingInv
  <2> QED
    BY <2>1, <2>2
<1>3. PerSlot(witnessed)'
  BY <1>1 DEF Witness, PerSlot
<1>4. ASSUME NEW s \in Slots PROVE SlotInv(s)'
  <2>1. /\ witnessed[s] \subseteq witnessed'[s]
        /\ pc[s] # "idle" => Snapshot' \in witnessed'[s]
    BY <1>1 DEF Witness
  <2>2. SlotInv(s)
    BY DEF ServingInv
  <2> QED
    BY <1>1, <2>1, <2>2, SlotKept DEF storeVars
<1> QED
  BY <1>1, <1>2, <1>3, <1>4 DEF ServingInv, storeVars, PerSlot

\* Start, boot and stop: no request is there while the stores change.
LEMMA StoresMove ==
    ASSUME ServingInv, (\E c \in Scopes : Start(c)) \/ Boot \/ Stop
    PROVE  ServingInv'
<1>1. \A s \in Slots : boot # "listening" => pc[s] = "idle" /\ answer[s] = NoAnswer
  BY DEF ServingInv, SlotInv
<1>2. CASE Stop
  <2>1. \A s \in Slots : pc'[s] = "idle" /\ answer'[s] = NoAnswer
    BY <1>2 DEF Stop
  <2>2. \A s \in Slots : SlotInv(s)'
    BY <2>1, SlotIdle
  <2>3. /\ PerSlot(pc)' /\ PerSlot(answer)' /\ PerSlot(witnessed)'
        /\ UNCHANGED <<serving, route>> /\ fstore'.reason # "none"
    BY <1>2 DEF Stop, PerSlot, NoForecast, authorityVars
  <2> QED
    BY <2>2, <2>3 DEF ServingInv, PerSlot
<1>3. CASE (\E c \in Scopes : Start(c)) \/ Boot
  <2>1. /\ boot # "listening" /\ UNCHANGED <<serving, pc, route, answer, witnessed>>
        /\ fstore'.reason = "none" => fstore'.version \in Expected
    <3>1. CASE \E c \in Scopes : Start(c)
      BY <3>1 DEF Start, ServingInv, authorityVars, requestVars
    <3>2. CASE LoadForecastCount
      BY <3>2 DEF LoadForecastCount, AuthorityReason, NoForecast, ServingInv, authorityVars, requestVars
    <3>3. CASE LoadForecastSelect
      BY <3>3 DEF LoadForecastSelect, NoForecast, authorityVars, requestVars
    <3>4. CASE LoadInventoryCount \/ LoadInventorySelect
      BY <3>4 DEF LoadInventoryCount, LoadInventorySelect, ServingInv, authorityVars, requestVars
    <3> QED
      BY <1>3, <3>1, <3>2, <3>3, <3>4 DEF Boot
  <2>2. \A s \in Slots : SlotInv(s)'
    BY <1>1, <2>1, SlotIdle
  <2> QED
    BY <2>1, <2>2 DEF ServingInv, PerSlot
<1> QED
  BY <1>2, <1>3

\* A handler's step touches its own slot only.
LEMMA OtherSlotsKept ==
    ASSUME ServingInv, NEW s \in Slots, UNCHANGED <<authorityVars, storeVars>>,
           \A t \in Slots \ {s} : /\ pc'[t] = pc[t] /\ route'[t] = route[t]
                                  /\ answer'[t] = answer[t] /\ witnessed'[t] = witnessed[t]
    PROVE  \A t \in Slots \ {s} : SlotInv(t)'
<1> SUFFICES ASSUME NEW t \in Slots \ {s} PROVE SlotInv(t)'
  OBVIOUS
<1>1. SlotInv(t) /\ Snapshot' = Snapshot
  BY DEF ServingInv, Snapshot, authorityVars
<1> QED
  BY <1>1, SlotKept DEF SlotInv, storeVars

LEMMA HandlerStep ==
    ASSUME ServingInv, NEW s \in Slots,
           (\E r \in Routes : Arrive(s, r)) \/ Handle(s) \/ FailStatement(s) \/ Finish(s)
    PROVE  ServingInv'
<1>1. UNCHANGED <<authorityVars, storeVars>>
  BY DEF Arrive, Handle, AnswerUnavailable, RefuseRead, Revalidate, ReadRows, ReadRisk,
       FailStatement, Finish, Respond
<1>2. /\ \/ pc' = pc \/ \E p : pc' = [pc EXCEPT ![s] = p]
      /\ \/ route' = route \/ \E r : route' = [route EXCEPT ![s] = r]
      /\ \/ answer' = answer \/ \E x : answer' = [answer EXCEPT ![s] = x]
      /\ \/ witnessed' = witnessed \/ \E w : witnessed' = [witnessed EXCEPT ![s] = w]
  BY DEF Arrive, Handle, AnswerUnavailable, RefuseRead, Revalidate, ReadRows, ReadRisk,
       FailStatement, Finish, Respond, Goto
<1>3. PerSlot(pc)' /\ PerSlot(route)' /\ PerSlot(answer)' /\ PerSlot(witnessed)'
  BY <1>2 DEF ServingInv, PerSlot
<1>4. \A t \in Slots \ {s} : SlotInv(t)'
  <2>1. \A t \in Slots \ {s} : /\ pc'[t] = pc[t] /\ route'[t] = route[t]
                               /\ answer'[t] = answer[t] /\ witnessed'[t] = witnessed[t]
    BY <1>2 DEF ServingInv, PerSlot
  <2> QED
    BY <1>1, <2>1, OtherSlotsKept
<1>5. SlotInv(s) /\ s \in DOMAIN pc /\ s \in DOMAIN route /\ s \in DOMAIN answer
      /\ s \in DOMAIN witnessed
  BY DEF ServingInv, PerSlot
<1>6. UNCHANGED <<serving, chosen, boot, fstore, istore>> /\ Snapshot' = Snapshot
  BY <1>1 DEF authorityVars, storeVars, Snapshot
<1>7. SlotInv(s)'
  <2>1. ASSUME NEW r \in Routes, Arrive(s, r) PROVE SlotInv(s)'
    <3>1. /\ boot = "listening" /\ witnessed'[s] = {Snapshot} /\ route'[s] = r
          /\ answer'[s] = NoAnswer
          /\ pc'[s] = IF Available(r) THEN "revalidate" ELSE "unavailable"
      BY <2>1, <1>5 DEF Arrive, Goto, SlotInv
    <3>2. Available(r)' = Available(r)
      BY <1>6 DEF Available
    <3> QED
      BY <3>1, <3>2, <1>6 DEF SlotInv, Available
  <2>2. CASE Revalidate(s)
    <3>1. /\ pc[s] = "revalidate" /\ pc'[s] = "rows" /\ Refusal(s) = "none"
          /\ UNCHANGED <<route, answer, witnessed>>
      BY <2>2, <1>5 DEF Revalidate, Goto
    <3>2. CASE route[s] = "inventory"
      BY <3>1, <3>2, <1>5, <1>6, RevalidatedInventory
         DEF SlotInv, Refusal, Revalidated, BundleWitnessed, Snapshot, Available
    <3>3. CASE route[s] # "inventory"
      <4>1. serving = {fstore.version}
        BY <3>1, <3>3, RevalidatedForecast DEF Refusal, ServingInv
      <4> QED
        BY <3>1, <3>3, <4>1, <1>5, <1>6
           DEF SlotInv, Revalidated, VersionWitnessed, Snapshot, Available
    <3> QED
      BY <3>2, <3>3
  <2>3. ASSUME NEW x, pc[s] # "idle", Respond(s, x),
               x.status = 200 =>
                 /\ route[s] # "inventory" => VersionWitnessed(s, x.version) /\ x.version \in Expected
                 /\ \A b \in {x.bundle, x.risk} \ {NoBundle} : BundleWitnessed(s, b)
        PROVE  SlotInv(s)'
    <3>1. /\ pc'[s] = "answered" /\ answer'[s] = x /\ UNCHANGED <<route, witnessed>>
      BY <2>3, <1>5 DEF Respond
    <3> QED
      BY <2>3, <3>1, <1>5, <1>6 DEF SlotInv, Live, Grounded, VersionWitnessed, BundleWitnessed
  <2>4. CASE AnswerUnavailable(s)
    BY <2>4, <2>3, RefusalIsNotLive DEF AnswerUnavailable
  <2>5. CASE RefuseRead(s)
    BY <2>5, <2>3, RefusalIsNotLive DEF RefuseRead
  <2>6. CASE FailStatement(s)
    BY <2>6, <2>3, RefusalIsNotLive DEF FailStatement
  <2>7. CASE ReadRows(s)
    <3>1. pc[s] = "rows" /\ Revalidated(s) /\ Available(route[s])
      BY <2>7, <1>5 DEF ReadRows, SlotInv
    <3>2. CASE route[s] = "inventory"
      BY <2>7, <3>1, <3>2, <2>3, LiveAnswer DEF ReadRows, Revalidated
    <3>3. CASE route[s] # "inventory"
      <4>1. fstore.version \in Expected
        BY <3>1, <3>3 DEF Available, ServingInv
      <4> QED
        BY <2>7, <3>1, <3>3, <4>1, <2>3, LiveAnswer DEF ReadRows, Revalidated
    <3> QED
      BY <3>2, <3>3
  <2>8. CASE ReadRisk(s)
    <3>1. pc[s] = "rows" /\ route[s] = "stores" /\ Revalidated(s) /\ Available(route[s])
      BY <2>8, <1>5 DEF ReadRisk, SlotInv
    <3>2. VersionWitnessed(s, fstore.version) /\ fstore.version \in Expected
      BY <3>1 DEF Revalidated, Available, ServingInv
    <3>3. \A b \in ActiveBundles : BundleWitnessed(s, b)
      BY <3>1, <1>5 DEF ActiveBundles, BundleWitnessed, SlotInv, Snapshot
    <3>4. CASE Respond(s, Ok(fstore.version, NoBundle, NoBundle))
      BY <3>1, <3>2, <3>4, <2>3, LiveAnswer
    <3>5. ASSUME NEW b \in ActiveBundles, Respond(s, Ok(fstore.version, NoBundle, b))
          PROVE  SlotInv(s)'
      BY <3>1, <3>2, <3>3, <3>5, <2>3, LiveAnswer
    <3> QED
      BY <2>8, <3>4, <3>5 DEF ReadRisk
  <2>9. CASE Finish(s)
    BY <2>9, <1>5, SlotIdle DEF Finish, Goto
  <2> QED
    BY <2>1, <2>2, <2>4, <2>5, <2>6, <2>7, <2>8, <2>9 DEF Handle
<1> QED
  BY <1>3, <1>4, <1>6, <1>7 DEF ServingInv

LEMMA ServingStep == ServingInv /\ [Next]_vars => ServingInv'
<1> SUFFICES ASSUME ServingInv, [Next]_vars PROVE ServingInv'
  OBVIOUS
<1>1. CASE UNCHANGED vars
  <2>1. UNCHANGED <<serving, chosen, boot, fstore, istore, pc, route, answer, witnessed>>
    BY <1>1 DEF vars, authorityVars, storeVars, requestVars
  <2>2. Snapshot' = Snapshot
    BY <2>1 DEF Snapshot
  <2>3. \A s \in Slots : SlotInv(s)'
    BY <2>1, <2>2, SlotKept DEF ServingInv, SlotInv
  <2> QED
    BY <2>1, <2>3 DEF ServingInv, PerSlot
<1> QED
  BY <1>1, AuthorityMoves, StoresMove, HandlerStep DEF Next

\* A live forecast answer names a version that was the only authority at some
\* moment of the request and belongs to the publication the server expects.
THEOREM ForecastAnswersHadAuthorityHolds == Spec => []ForecastAnswersHadAuthority
<1>1. ServingInv => ForecastAnswersHadAuthority
  BY GroundedAnswers
<1> QED
  BY <1>1, ServingInit, ServingStep, PTL DEF Spec

\* The inventory figures of an answer, its own or the demand at risk beside a
\* forecast, come from a bundle that was active during the request.
THEOREM InventoryAnswersWereActiveHolds == Spec => []InventoryAnswersWereActive
<1>1. ServingInv => InventoryAnswersWereActive
  BY GroundedAnswers
<1> QED
  BY <1>1, ServingInit, ServingStep, PTL DEF Spec

----------------------------------------------------------------------------
(* Pages: the rows of a list that tie occupy a block of positions, and the
   blocks divide the positions of the list. *)

\* A list is ordered when it is finite and its keys are integer tuples of one
\* length.
Ordered(key) ==
    /\ IsFiniteSet(DOMAIN key)
    /\ \E n \in Nat : \A r \in DOMAIN key : key[r] \in [1 .. n -> Int]

\* ORDER BY is a strict order of the tuples, and total.
LEMMA PrecedesOrders ==
    ASSUME NEW n \in Nat
    PROVE  /\ \A a \in [1 .. n -> Int] : ~ Precedes(a, a)
           /\ \A a, b \in [1 .. n -> Int] : a = b \/ Precedes(a, b) \/ Precedes(b, a)
           /\ \A a, b, c \in [1 .. n -> Int] :
                Precedes(a, b) /\ Precedes(b, c) => Precedes(a, c)
<1>1. \A a \in [1 .. n -> Int] : ~ Precedes(a, a)
  BY DEF Precedes
<1>2. ASSUME NEW a \in [1 .. n -> Int], NEW b \in [1 .. n -> Int], a # b
      PROVE  Precedes(a, b) \/ Precedes(b, a)
  <2> DEFINE D == {i \in 1 .. n : a[i] # b[i]}
  <2>1. D \subseteq Nat /\ D # {}
    BY <1>2
  <2>2. PICK i \in D : \A j \in D : i <= j
    BY <2>1, LeastNatural
  <2>3. i \in 1 .. n /\ a[i] # b[i] /\ a[i] \in Int /\ b[i] \in Int
    BY <2>2
  <2>4. \A j \in 1 .. i - 1 : a[j] = b[j]
    BY <2>2, <2>3
  <2>5. DOMAIN a = 1 .. n /\ DOMAIN b = 1 .. n
    OBVIOUS
  <2>6. CASE a[i] < b[i]
    BY <2>3, <2>4, <2>5, <2>6 DEF Precedes
  <2>7. CASE b[i] < a[i]
    BY <2>3, <2>4, <2>5, <2>7 DEF Precedes
  <2> QED
    BY <2>3, <2>6, <2>7
<1>3. ASSUME NEW a \in [1 .. n -> Int], NEW b \in [1 .. n -> Int], NEW c \in [1 .. n -> Int],
             Precedes(a, b), Precedes(b, c)
      PROVE  Precedes(a, c)
  <2>1. DOMAIN a = 1 .. n /\ DOMAIN b = 1 .. n
    OBVIOUS
  <2>2. PICK i \in 1 .. n : a[i] < b[i] /\ \A k \in 1 .. i - 1 : a[k] = b[k]
    BY <1>3, <2>1 DEF Precedes
  <2>3. PICK j \in 1 .. n : b[j] < c[j] /\ \A k \in 1 .. j - 1 : b[k] = c[k]
    BY <1>3, <2>1 DEF Precedes
  <2>4. CASE i <= j
    <3>1. a[i] < c[i]
      <4>1. a[i] \in Int /\ b[i] \in Int /\ c[i] \in Int
        OBVIOUS
      <4>2. CASE i = j
        BY <2>2, <2>3, <4>1, <4>2
      <4>3. CASE i < j
        <5>1. i \in 1 .. j - 1
          BY <4>3
        <5> QED
          BY <2>2, <2>3, <4>1, <5>1
      <4> QED
        BY <2>4, <4>2, <4>3
    <3>2. \A k \in 1 .. i - 1 : a[k] = c[k]
      <4>1. \A k \in 1 .. i - 1 : k \in 1 .. j - 1
        BY <2>4
      <4> QED
        BY <2>2, <2>3, <4>1
    <3> QED
      BY <2>1, <3>1, <3>2 DEF Precedes
  <2>5. CASE j < i
    <3>1. j \in 1 .. i - 1 /\ \A k \in 1 .. j - 1 : k \in 1 .. i - 1
      BY <2>5
    <3>2. a[j] < c[j] /\ \A k \in 1 .. j - 1 : a[k] = c[k]
      BY <2>2, <2>3, <3>1
    <3> QED
      BY <2>1, <3>2 DEF Precedes
  <2> QED
    BY <2>4, <2>5
<1> QED
  BY <1>1, <1>2, <1>3

\* The rows up to the last that ties with r are those before it and those that
\* tie with it.
UpTo(key, r) == {x \in DOMAIN key : Precedes(key[x], key[r]) \/ key[x] = key[r]}

\* The rows before a row, and those tied with it, are counted within the list.
LEMMA BeforeIs ==
    ASSUME NEW key, Ordered(key)
    PROVE  /\ Cardinality(DOMAIN key) \in Nat
           /\ \A r \in DOMAIN key :
                /\ Before(key, r) \in Nat /\ IsFiniteSet(Ties(key, r)) /\ r \in Ties(key, r)
                /\ Cardinality(Ties(key, r)) \in Nat \ {0}
                /\ Before(key, r) + Cardinality(Ties(key, r)) = Cardinality(UpTo(key, r))
                /\ Before(key, r) + Cardinality(Ties(key, r)) <= Cardinality(DOMAIN key)
           /\ \A r, s \in DOMAIN key :
                /\ key[r] = key[s] => Before(key, r) = Before(key, s) /\ Ties(key, r) = Ties(key, s)
                /\ Precedes(key[r], key[s]) =>
                     Before(key, r) + Cardinality(Ties(key, r)) <= Before(key, s)
                /\ key[r] = key[s] \/ Precedes(key[r], key[s]) \/ Precedes(key[s], key[r])
<1> DEFINE D == DOMAIN key
           Lower(r) == {x \in D : Precedes(key[x], key[r])}
<1>1. PICK n \in Nat : \A r \in D : key[r] \in [1 .. n -> Int]
  BY DEF Ordered
<1>2. /\ \A r \in D : ~ Precedes(key[r], key[r])
      /\ \A r, s \in D : key[r] = key[s] \/ Precedes(key[r], key[s]) \/ Precedes(key[s], key[r])
      /\ \A r, s, x \in D : Precedes(key[r], key[s]) /\ Precedes(key[s], key[x])
                              => Precedes(key[r], key[x])
  <2>1. /\ \A a \in [1 .. n -> Int] : ~ Precedes(a, a)
        /\ \A a, b \in [1 .. n -> Int] : a = b \/ Precedes(a, b) \/ Precedes(b, a)
        /\ \A a, b, c \in [1 .. n -> Int] :
                Precedes(a, b) /\ Precedes(b, c) => Precedes(a, c)
    BY PrecedesOrders
  <2> QED
    BY <1>1, <2>1
<1>3. IsFiniteSet(D) /\ Cardinality(D) \in Nat
  BY FS_CardinalityType DEF Ordered
<1>4. \A s \in SUBSET D : IsFiniteSet(s) /\ Cardinality(s) \in Nat /\ Cardinality(s) <= Cardinality(D)
  BY <1>3, FS_Subset, FS_CardinalityType
<1>5. \A r, s \in D : key[r] = key[s] => Before(key, r) = Before(key, s) /\ Ties(key, r) = Ties(key, s)
  BY DEF Before, Ties
<1>6. ASSUME NEW r \in D
      PROVE  /\ Before(key, r) = Cardinality(Lower(r)) /\ Lower(r) \in SUBSET D
             /\ Ties(key, r) \in SUBSET D /\ UpTo(key, r) \in SUBSET D /\ r \in Ties(key, r)
             /\ Lower(r) \cup Ties(key, r) = UpTo(key, r) /\ Lower(r) \cap Ties(key, r) = {}
  BY <1>2 DEF Before, Ties, UpTo
<1> HIDE DEF Lower
<1>7. ASSUME NEW r \in D
      PROVE  /\ Before(key, r) \in Nat /\ IsFiniteSet(Ties(key, r)) /\ r \in Ties(key, r)
             /\ Cardinality(Ties(key, r)) \in Nat \ {0}
             /\ Before(key, r) + Cardinality(Ties(key, r)) = Cardinality(UpTo(key, r))
             /\ Before(key, r) + Cardinality(Ties(key, r)) <= Cardinality(D)
  <2>1. /\ IsFiniteSet(Lower(r)) /\ IsFiniteSet(Ties(key, r)) /\ Cardinality(Lower(r)) \in Nat
        /\ Cardinality(Ties(key, r)) \in Nat /\ Cardinality(UpTo(key, r)) <= Cardinality(D)
    BY <1>4, <1>6
  <2>2. Cardinality(Ties(key, r)) # 0
    BY <1>6, <2>1, FS_EmptySet
  <2>3. Cardinality(Lower(r) \cup Ties(key, r))
          = Cardinality(Lower(r)) + Cardinality(Ties(key, r)) - Cardinality(Lower(r) \cap Ties(key, r))
    BY <2>1, FS_Union
  <2>4. Cardinality(UpTo(key, r)) = Cardinality(Lower(r)) + Cardinality(Ties(key, r))
    <3>1. Cardinality(Lower(r) \cap Ties(key, r)) = 0
      BY <1>6, FS_EmptySet
    <3>2. Cardinality(UpTo(key, r)) = Cardinality(Lower(r) \cup Ties(key, r))
      BY <1>6
    <3> QED
      BY <2>1, <2>3, <3>1, <3>2
  <2> QED
    BY <1>6, <2>1, <2>2, <2>4
<1>8. ASSUME NEW r \in D, NEW s \in D, Precedes(key[r], key[s])
      PROVE  Before(key, r) + Cardinality(Ties(key, r)) <= Before(key, s)
  <2>1. UpTo(key, r) \subseteq Lower(s)
    BY <1>2, <1>8 DEF UpTo, Lower
  <2>2. Cardinality(UpTo(key, r)) <= Cardinality(Lower(s))
    BY <1>4, <1>6, <2>1, FS_Subset
  <2> QED
    BY <1>6, <1>7, <2>2
<1> QED
  BY <1>2, <1>3, <1>5, <1>7, <1>8

\* The positions of the rows that tie with r.
Block(key, r) == (Before(key, r) + 1) .. (Before(key, r) + Cardinality(Ties(key, r)))

\* The blocks divide the positions of the list.
LEMMA BlocksDivide ==
    ASSUME NEW key, Ordered(key)
    PROVE  /\ \A r \in DOMAIN key : Block(key, r) \subseteq 1 .. Cardinality(DOMAIN key)
           /\ \A r, s \in DOMAIN key : Block(key, r) \cap Block(key, s) # {} => key[r] = key[s]
           /\ \A p \in 1 .. Cardinality(DOMAIN key) : \E r \in DOMAIN key : p \in Block(key, r)
<1> DEFINE D == DOMAIN key
           N == Cardinality(D)
           b == [r \in D |-> Before(key, r)]
           t == [r \in D |-> Cardinality(Ties(key, r))]
<1>1. /\ N \in Nat
      /\ \A r \in D : b[r] \in Nat /\ t[r] \in Nat \ {0} /\ b[r] + t[r] <= N
      /\ \A r \in D : b[r] + t[r] = Cardinality(UpTo(key, r))
      /\ \A r \in D : Block(key, r) = (b[r] + 1) .. (b[r] + t[r])
      /\ \A r, s \in D : key[r] = key[s] => b[r] = b[s]
      /\ \A r, s \in D : Precedes(key[r], key[s]) => b[r] + t[r] <= b[s]
      /\ \A r, s \in D : key[r] = key[s] \/ Precedes(key[r], key[s]) \/ Precedes(key[s], key[r])
      /\ \A r \in D : b[r] = Cardinality({x \in D : Precedes(key[x], key[r])})
  <2>1. \A r \in D : b[r] = Before(key, r) /\ t[r] = Cardinality(Ties(key, r))
    OBVIOUS
  <2> HIDE DEF b, t
  <2>2. /\ \A r \in D : Block(key, r) = (b[r] + 1) .. (b[r] + t[r])
        /\ \A r \in D : b[r] = Cardinality({x \in D : Precedes(key[x], key[r])})
    BY <2>1 DEF Block, Before
  <2>3. /\ N \in Nat
        /\ \A r \in D : b[r] \in Nat /\ t[r] \in Nat \ {0} /\ b[r] + t[r] <= N
        /\ \A r \in D : b[r] + t[r] = Cardinality(UpTo(key, r))
    BY <2>1, BeforeIs
  <2>4. /\ \A r, s \in D : key[r] = key[s] => b[r] = b[s]
        /\ \A r, s \in D : Precedes(key[r], key[s]) => b[r] + t[r] <= b[s]
        /\ \A r, s \in D : key[r] = key[s] \/ Precedes(key[r], key[s]) \/ Precedes(key[s], key[r])
    BY <2>1, BeforeIs
  <2> QED
    BY <2>2, <2>3, <2>4
<1>2. IsFiniteSet(D)
  BY DEF Ordered
<1> HIDE DEF b, t
<1>3. \A r \in D : Block(key, r) \subseteq 1 .. N
  BY <1>1
<1>4. ASSUME NEW r \in D, NEW s \in D, Precedes(key[r], key[s]) PROVE Block(key, r) \cap Block(key, s) = {}
  <2>1. b[r] + t[r] <= b[s] /\ b[r] \in Nat /\ t[r] \in Nat /\ b[s] \in Nat /\ t[s] \in Nat
    BY <1>1, <1>4
  <2> QED
    BY <1>1, <2>1
<1>5. \A r, s \in D : Block(key, r) \cap Block(key, s) # {} => key[r] = key[s]
  BY <1>1, <1>4
<1>6. ASSUME NEW p \in 1 .. N PROVE \E r \in D : p \in Block(key, r)
  <2> DEFINE S == {r \in D : b[r] < p}
  <2>1. p \in Int /\ p <= N
    BY <1>1
  <2>2. IsFiniteSet(S) /\ S \in SUBSET D /\ Cardinality(S) \in Nat
    BY <1>2, FS_Subset, FS_CardinalityType
  <2>3. p <= Cardinality(S)
    <3> SUFFICES ASSUME Cardinality(S) < p PROVE FALSE
      BY <2>1, <2>2
    <3>1. S # D
      BY <2>1, <2>2, <1>1
    <3> DEFINE R == {b[x] : x \in D \ S}
    <3>2. R \subseteq Nat /\ R # {}
      <4>1. \E x : x \in D \ S
        BY <2>2, <3>1
      <4>2. \A x \in D \ S : b[x] \in Nat
        BY <1>1
      <4> HIDE DEF b, S, D
      <4> QED
        BY <4>1, <4>2
    <3>3. PICK m \in R : \A k \in R : m <= k
      BY <3>2, LeastNatural
    <3>4. PICK y \in D \ S : b[y] = m
      BY <3>3
    <3>5. {x \in D : Precedes(key[x], key[y])} = S
      <4>1. ASSUME NEW x \in D, Precedes(key[x], key[y]) PROVE x \in S
        <5>1. b[x] + t[x] <= b[y] /\ b[x] \in Nat /\ t[x] \in Nat \ {0} /\ b[y] \in Nat
          BY <1>1, <4>1
        <5>2. b[x] < b[y]
          BY <5>1
        <5>3. x \in D \ S => b[y] <= b[x]
          BY <3>3, <3>4
        <5> QED
          BY <5>1, <5>2, <5>3
      <4>2. ASSUME NEW x \in S PROVE Precedes(key[x], key[y])
        <5>1. b[x] < p /\ b[y] >= p /\ b[x] \in Nat /\ b[y] \in Nat /\ x \in D
          BY <1>1, <2>1, <3>4
        <5>2. b[x] # b[y]
          BY <5>1, <2>1
        <5>3. CASE Precedes(key[y], key[x])
          <6>1. b[y] + t[y] <= b[x] /\ t[y] \in Nat
            BY <1>1, <5>1, <5>3
          <6> QED
            BY <2>1, <5>1, <6>1
        <5> QED
          BY <1>1, <5>1, <5>2, <5>3
      <4> QED
        BY <4>1, <4>2
    <3>6. b[y] = Cardinality(S)
      BY <1>1, <3>5
    <3> QED
      BY <2>1, <2>2, <3>4, <3>6
  <2>4. S # {}
    BY <2>1, <2>3, FS_EmptySet
  <2> DEFINE B == {b[x] : x \in S}
  <2>5. B \subseteq Int /\ B # {} /\ p \in Int /\ \A k \in B : k <= p
    <3>1. \A x \in S : b[x] \in Int /\ b[x] <= p
      BY <1>1, <2>1
    <3> HIDE DEF S
    <3> QED
      BY <2>1, <2>4, <3>1
  <2>6. Max(B) \in B /\ \A k \in B : k <= Max(B)
    <3> HIDE DEF B
    <3> QED
      BY <2>5, MaxIsThere
  <2>7. PICK r \in S : \A x \in S : b[x] <= b[r]
    BY <2>6
  <2>8. S \subseteq UpTo(key, r)
    <3> SUFFICES ASSUME NEW x \in S, Precedes(key[r], key[x]) PROVE FALSE
      BY <1>1 DEF UpTo
    <3>1. b[r] + t[r] <= b[x] /\ b[x] <= b[r] /\ b[r] \in Nat /\ t[r] \in Nat \ {0} /\ b[x] \in Nat
      BY <1>1, <2>7
    <3> QED
      BY <3>1
  <2>9. Cardinality(S) <= Cardinality(UpTo(key, r))
    <3>1. UpTo(key, r) \in SUBSET D
      BY DEF UpTo
    <3>2. IsFiniteSet(UpTo(key, r))
      BY <1>2, <3>1, FS_Subset
    <3> QED
      BY <2>8, <3>2, FS_Subset
  <2>10. b[r] < p /\ p <= b[r] + t[r] /\ b[r] \in Nat /\ t[r] \in Nat
    <3>1. b[r] < p /\ b[r] \in Nat /\ t[r] \in Nat /\ b[r] + t[r] = Cardinality(UpTo(key, r))
      BY <1>1
    <3> HIDE DEF S
    <3> QED
      BY <2>1, <2>2, <2>3, <2>9, <3>1
  <2>11. p \in Block(key, r)
    BY <1>1, <2>1, <2>10
  <2> QED
    BY <2>11
<1> QED
  BY <1>3, <1>5, <1>6

\* A page has of the rows that tie as many as they have positions in the window.
LEMMA PageTies ==
    ASSUME NEW key, Ordered(key), NEW offset \in Nat, NEW limit \in Nat,
           NEW page \in Windows(key, offset, limit)
    PROVE  /\ page \in SUBSET DOMAIN key
           /\ \A r \in DOMAIN key :
                Cardinality(page \cap Ties(key, r))
                  = Cardinality(Block(key, r) \cap ((offset + 1) .. (offset + limit)))
<1> DEFINE D == DOMAIN key
           W == (offset + 1) .. (offset + limit)
           t(r) == Cardinality(Ties(key, r))
           shown == [r \in D |-> Cardinality(Block(key, r) \cap W)]
           sure == {r \in D : shown[r] = t(r)}
           maybe == {r \in D : shown[r] \in 1 .. t(r) - 1}
<1>1. PICK extra \in SUBSET maybe :
        /\ page = sure \cup extra
        /\ \A r \in maybe : Cardinality(extra \cap Ties(key, r)) = shown[r]
  BY DEF Windows, Block
<1>2. page \in SUBSET D
  BY <1>1
<1>3. ASSUME NEW r \in D PROVE Cardinality(page \cap Ties(key, r)) = shown[r]
  <2>1. /\ Before(key, r) \in Nat /\ IsFiniteSet(Ties(key, r)) /\ r \in Ties(key, r)
        /\ t(r) \in Nat \ {0} /\ Ties(key, r) \subseteq D
        /\ \A x \in Ties(key, r) : key[x] = key[r] /\ Ties(key, x) = Ties(key, r)
                                    /\ Before(key, x) = Before(key, r)
    BY BeforeIs DEF Ties
  <2>2. \A x \in Ties(key, r) : shown[x] = shown[r] /\ t(x) = t(r)
    BY <2>1 DEF Block
  <2>3. shown[r] \in Nat /\ shown[r] <= t(r)
    <3> DEFINE B == Block(key, r)
    <3>1. IsFiniteSet(B) /\ Cardinality(B) = t(r)
      <4>1. Before(key, r) + 1 \in Int /\ Before(key, r) + t(r) \in Int
        BY <2>1
      <4> DEFINE a == Before(key, r) + 1
                 z == Before(key, r) + t(r)
      <4>2. B = a .. z
        BY DEF Block
      <4>3. a \in Int /\ z \in Int
        BY <4>1
      <4>4. (IF a > z THEN 0 ELSE z - a + 1) = t(r)
        <5> HIDE DEF t
        <5> QED
          BY <2>1
      <4> HIDE DEF a, z
      <4>5. IsFiniteSet(a .. z) /\ Cardinality(a .. z) = IF a > z THEN 0 ELSE z - a + 1
        BY <4>3, FS_Interval
      <4> HIDE DEF B, t
      <4> QED
        BY <4>2, <4>4, <4>5
    <3>2. B \cap W \in SUBSET B /\ shown[r] = Cardinality(B \cap W)
      OBVIOUS
    <3> HIDE DEF B, shown, W
    <3>3. IsFiniteSet(B \cap W) /\ Cardinality(B \cap W) <= Cardinality(B)
      BY <3>1, <3>2, FS_Subset
    <3> QED
      BY <3>1, <3>2, <3>3, FS_CardinalityType
  <2>4. sure \cap maybe = {}
    <3>1. \A x \in D : t(x) \in Nat
      BY BeforeIs
    <3> HIDE DEF t, shown
    <3> QED
      BY <3>1
  <2>5. CASE shown[r] = t(r)
    <3>1. Ties(key, r) \subseteq sure
      BY <2>1, <2>2, <2>5
    <3>2. page \cap Ties(key, r) = Ties(key, r)
      BY <1>1, <3>1
    <3> QED
      BY <2>5, <3>2
  <2>6. CASE shown[r] \in 1 .. t(r) - 1
    <3>1. Ties(key, r) \subseteq maybe /\ r \in maybe
      BY <2>1, <2>2, <2>6
    <3>2. page \cap Ties(key, r) = extra \cap Ties(key, r)
      BY <1>1, <2>4, <3>1
    <3> QED
      BY <1>1, <3>1, <3>2
  <2>7. CASE shown[r] = 0
    <3>1. Ties(key, r) \cap sure = {} /\ Ties(key, r) \cap maybe = {}
      <4>1. \A x \in Ties(key, r) : shown[x] = 0 /\ t(x) \in Nat \ {0}
        BY <2>1, <2>2, <2>7
      <4> HIDE DEF t, shown
      <4> QED
        BY <4>1
    <3>2. page \cap Ties(key, r) = {}
      BY <1>1, <3>1
    <3> QED
      BY <2>7, <3>2, FS_EmptySet
  <2> QED
    <3>1. shown[r] = t(r) \/ shown[r] \in 1 .. t(r) - 1 \/ shown[r] = 0
      <4>1. t(r) \in Nat
        BY <2>1
      <4> HIDE DEF t, shown
      <4> QED
        BY <2>3, <4>1
    <3> QED
      BY <2>5, <2>6, <2>7, <3>1
<1> QED
  BY <1>2, <1>3

\* A page has as many rows as the list has positions in the window.
LEMMA PageCount ==
    ASSUME NEW key, Ordered(key), NEW offset \in Nat, NEW limit \in Nat,
           NEW page \in Windows(key, offset, limit)
    PROVE  /\ IsFiniteSet(page)
           /\ Cardinality(page)
                = LET n == Cardinality(DOMAIN key) IN
                  IF offset >= n THEN 0 ELSE IF offset + limit >= n THEN n - offset ELSE limit
<1> DEFINE D == DOMAIN key
           n == Cardinality(D)
           W == (offset + 1) .. (offset + limit)
           one == [r \in D |-> Ties(key, r)]
           K == {one[r] : r \in D}
           of == [T \in K |-> CHOOSE r \in D : Ties(key, r) = T]
           part == [T \in K |-> page \cap T]
           slot == [T \in K |-> Block(key, of[T]) \cap W]
           total == [T \in K |-> Cardinality(page \cap T)]
<1>1. /\ page \in SUBSET D
      /\ \A r \in D : Cardinality(page \cap Ties(key, r)) = Cardinality(Block(key, r) \cap W)
  BY PageTies
<1>2. IsFiniteSet(D) /\ n \in Nat /\ IsFiniteSet(page)
  BY <1>1, FS_Subset, FS_CardinalityType DEF Ordered
<1>3. \A T \in K : of[T] \in D /\ Ties(key, of[T]) = T
  OBVIOUS
<1>4. IsFiniteSet(K)
  BY <1>2, ImageIsFinite
<1>5. Cardinality(page) = Sigma(total, K)
  <2>1. \A T \in K : part[T] \in SUBSET page /\ total[T] = Cardinality(part[T])
    OBVIOUS
  <2>2. \A T, U \in K : T # U => part[T] \cap part[U] = {}
    BY DEF Ties
  <2>3. UNION {part[T] : T \in K} = page
    <3>1. \A r \in page : r \in Ties(key, r) /\ Ties(key, r) \in K
      BY <1>1 DEF Ties
    <3>2. \A r \in page : Ties(key, r) \in K /\ r \in part[Ties(key, r)]
      BY <3>1
    <3>3. \A T \in K : part[T] \subseteq page
      OBVIOUS
    <3> HIDE DEF part, K
    <3> QED
      BY <3>2, <3>3
  <2> HIDE DEF part, total, K
  <2>4. Sigma(total, K) = Cardinality(UNION {part[T] : T \in K})
    BY <1>2, <1>4, <2>1, <2>2, CountParts
  <2> QED
    BY <2>3, <2>4
<1> DEFINE S == (1 .. n) \cap W
<1>6. Cardinality(S) = Sigma(total, K)
  <2>0. IsFiniteSet(S)
    <3>1. IsFiniteSet(1 .. n)
      BY <1>2, FS_Interval
    <3> QED
      BY <3>1, FS_Subset
  <2>1. \A T \in K : slot[T] \in SUBSET S
    <3>1. \A T \in K : Block(key, of[T]) \subseteq 1 .. n
      BY <1>3, BlocksDivide
    <3> QED
      BY <3>1
  <2>2. \A T, U \in K : T # U => slot[T] \cap slot[U] = {}
    <3> SUFFICES ASSUME NEW T \in K, NEW U \in K, slot[T] \cap slot[U] # {} PROVE T = U
      OBVIOUS
    <3>1. Block(key, of[T]) \cap Block(key, of[U]) # {} /\ of[T] \in D /\ of[U] \in D
      BY <1>3
    <3>2. key[of[T]] = key[of[U]]
      BY <3>1, BlocksDivide
    <3>3. Ties(key, of[T]) = Ties(key, of[U])
      BY <3>2 DEF Ties
    <3> QED
      BY <1>3, <3>3
  <2>3. UNION {slot[T] : T \in K} = S
    <3>1. ASSUME NEW p \in S PROVE p \in UNION {slot[T] : T \in K}
      <4>1. PICK r \in D : p \in Block(key, r)
        BY BlocksDivide
      <4>2. Ties(key, r) \in K /\ of[Ties(key, r)] \in D /\ Ties(key, of[Ties(key, r)]) = Ties(key, r)
        BY <1>3
      <4>3. key[of[Ties(key, r)]] = key[r]
        <5>1. r \in Ties(key, r)
          BY DEF Ties
        <5>2. r \in Ties(key, of[Ties(key, r)])
          BY <4>2, <5>1
        <5> QED
          BY <5>2 DEF Ties
      <4>4. Block(key, of[Ties(key, r)]) = Block(key, r)
        BY <4>2, <4>3, BeforeIs DEF Block
      <4>5. p \in slot[Ties(key, r)]
        BY <4>1, <4>2, <4>4
      <4> QED
        BY <4>2, <4>5
    <3> HIDE DEF slot, K
    <3> QED
      BY <2>1, <3>1
  <2>4. \A T \in K : total[T] = Cardinality(slot[T])
    <3> SUFFICES ASSUME NEW T \in K PROVE total[T] = Cardinality(slot[T])
      OBVIOUS
    <3>1. Cardinality(page \cap Ties(key, of[T])) = Cardinality(Block(key, of[T]) \cap W)
      BY <1>1, <1>3
    <3> QED
      BY <1>3, <3>1
  <2> HIDE DEF S, slot, total, K
  <2>5. Sigma(total, K) = Cardinality(UNION {slot[T] : T \in K})
    BY <1>4, <2>0, <2>1, <2>2, <2>4, CountParts
  <2> QED
    BY <2>3, <2>5
<1>7. Cardinality(S) = IF offset >= n THEN 0 ELSE IF offset + limit >= n THEN n - offset ELSE limit
  <2> DEFINE m == IF offset + limit >= n THEN n ELSE offset + limit
  <2>1. m \in Int /\ offset + 1 \in Int
    BY <1>2
  <2>2. S = (offset + 1) .. m
    BY <1>2
  <2>3. Cardinality((offset + 1) .. m) = IF offset + 1 > m THEN 0 ELSE m - (offset + 1) + 1
    <3> HIDE DEF m
    <3> QED
      BY <2>1, FS_Interval
  <2>4. Cardinality(S) = IF offset + 1 > m THEN 0 ELSE m - (offset + 1) + 1
    BY <2>2, <2>3
  <2>5. (IF offset + 1 > m THEN 0 ELSE m - (offset + 1) + 1)
          = IF offset >= n THEN 0 ELSE IF offset + limit >= n THEN n - offset ELSE limit
    <3> HIDE DEF n
    <3> QED
      BY <1>2
  <2> QED
    BY <2>4, <2>5
<1> QED
  BY <1>2, <1>5, <1>6, <1>7

\* Where no two rows tie, a page is the rows whose position is in the window.
LEMMA PageOfTotalOrder ==
    ASSUME NEW key, Ordered(key), \A r, s \in DOMAIN key : key[r] = key[s] => r = s,
           NEW offset \in Nat, NEW limit \in Nat, NEW page \in Windows(key, offset, limit)
    PROVE  page = {r \in DOMAIN key : offset <= Before(key, r) /\ Before(key, r) < offset + limit}
<1> DEFINE W == (offset + 1) .. (offset + limit)
<1> SUFFICES ASSUME NEW r \in DOMAIN key
             PROVE  r \in page <=> offset <= Before(key, r) /\ Before(key, r) < offset + limit
  BY PageTies
<1>1. Ties(key, r) = {r}
  BY DEF Ties
<1>2. Before(key, r) \in Nat
  BY BeforeIs
<1>3. Block(key, r) = {Before(key, r) + 1}
  <2>1. Cardinality(Ties(key, r)) = 1
    BY <1>1, FS_Singleton
  <2> QED
    BY <1>2, <2>1 DEF Block
<1>4. Cardinality(page \cap {r}) = Cardinality({Before(key, r) + 1} \cap W)
  BY <1>1, <1>3, PageTies
<1>5. r \in page => Cardinality(page \cap {r}) = 1
  <2> SUFFICES ASSUME r \in page PROVE Cardinality(page \cap {r}) = 1
    OBVIOUS
  <2>1. page \cap {r} = {r}
    OBVIOUS
  <2> QED
    BY <2>1, FS_Singleton
<1>6. r \notin page => Cardinality(page \cap {r}) = 0
  <2> SUFFICES ASSUME r \notin page PROVE Cardinality(page \cap {r}) = 0
    OBVIOUS
  <2>1. page \cap {r} = {}
    OBVIOUS
  <2> QED
    BY <2>1, FS_EmptySet
<1>7. Before(key, r) + 1 \in W => Cardinality({Before(key, r) + 1} \cap W) = 1
  <2> SUFFICES ASSUME Before(key, r) + 1 \in W
               PROVE  Cardinality({Before(key, r) + 1} \cap W) = 1
    OBVIOUS
  <2>1. {Before(key, r) + 1} \cap W = {Before(key, r) + 1}
    OBVIOUS
  <2> QED
    BY <2>1, FS_Singleton
<1>8. Before(key, r) + 1 \notin W => Cardinality({Before(key, r) + 1} \cap W) = 0
  <2> SUFFICES ASSUME Before(key, r) + 1 \notin W
               PROVE  Cardinality({Before(key, r) + 1} \cap W) = 0
    OBVIOUS
  <2>1. {Before(key, r) + 1} \cap W = {}
    OBVIOUS
  <2> QED
    BY <2>1, FS_EmptySet
<1>9. Before(key, r) + 1 \in W <=> offset <= Before(key, r) /\ Before(key, r) < offset + limit
  BY <1>2
<1> HIDE DEF W
<1> QED
  BY <1>4, <1>5, <1>6, <1>7, <1>8, <1>9

\* Every row has a position of the list.
LEMMA BeforeTheEnd ==
    ASSUME NEW key, Ordered(key), NEW r \in DOMAIN key
    PROVE  Before(key, r) \in Nat /\ Before(key, r) < Cardinality(DOMAIN key)
<1>1. /\ Before(key, r) \in Nat /\ Cardinality(Ties(key, r)) \in Nat \ {0}
      /\ Before(key, r) + Cardinality(Ties(key, r)) <= Cardinality(DOMAIN key)
      /\ Cardinality(DOMAIN key) \in Nat
  BY BeforeIs
<1> QED
  BY <1>1

----------------------------------------------------------------------------
(* A client that walks the pages of a list. *)

\* What a client that walks the pages of a list knows: nothing before the first
\* page, then the rows, the number and the total of what it passed.
Unread(w) == w.at = 0 /\ w.count = 0 /\ w.seen = {} /\ w.totals = {} /\ ~ w.twice /\ ~ w.over

\* What the client knows of a list it is walking: the rows it has counted are the
\* positions it has passed, and it has them all once where no two rows tie.
Passed(key, exact, w) ==
    LET n == Cardinality(DOMAIN key) IN
    /\ w.at \in Nat
    /\ w.totals = {n} /\ w.count = (IF w.at >= n THEN n ELSE w.at)
    /\ w.over <=> w.at >= n
    /\ exact => ~ w.twice /\ w.seen = {r \in DOMAIN key : Before(key, r) < w.at}

\* One more page of the same list keeps what the client knows.
LEMMA PassedGrows ==
    ASSUME NEW key, Ordered(key), NEW exact \in BOOLEAN,
           exact => \A r, s \in DOMAIN key : key[r] = key[s] => r = s,
           NEW w, Unread(w) \/ (Passed(key, exact, w) /\ ~ w.over),
           NEW limit \in Nat \ {0}, NEW page \in Windows(key, w.at, limit),
           NEW x, x.at = w.at + limit, x.seen = w.seen \cup page,
           x.twice <=> w.twice \/ page \cap w.seen # {},
           x.count = w.count + Cardinality(page),
           x.totals = w.totals \cup {CountOver(DOMAIN key, page)},
           x.over <=> w.at + limit >= CountOver(DOMAIN key, page)
    PROVE  Passed(key, exact, x)
<1> DEFINE n == Cardinality(DOMAIN key)
<1>1. w.at \in Nat /\ (w.at >= n => w.at = 0) /\ n \in Nat
  <2>1. n \in Nat
    BY FS_CardinalityType DEF Ordered
  <2> QED
    BY <2>1 DEF Unread, Passed
<1>2. /\ IsFiniteSet(page)
      /\ Cardinality(page) = IF w.at >= n THEN 0 ELSE IF w.at + limit >= n THEN n - w.at ELSE limit
  BY <1>1, PageCount
<1>3. CountOver(DOMAIN key, page) = n
  <2>1. CASE page = {}
    <3>1. Cardinality(page) = 0
      BY <2>1, FS_EmptySet
    <3>2. w.at >= n
      <4> HIDE DEF n
      <4> QED
        BY <1>1, <1>2, <3>1
    <3>3. n = 0
      <4> HIDE DEF n
      <4> QED
        BY <1>1, <3>2
    <3> QED
      BY <2>1, <3>3 DEF CountOver
  <2>2. CASE page # {}
    BY <2>2 DEF CountOver
  <2> QED
    BY <2>1, <2>2
<1>4. x.totals = {n}
  BY <1>3 DEF Unread, Passed
<1>5. x.over <=> x.at >= n
  BY <1>3
<1>6. x.at \in Nat /\ x.count = (IF x.at >= n THEN n ELSE x.at)
  <2>1. w.count = (IF w.at >= n THEN n ELSE w.at)
    <3>1. CASE Unread(w)
      <4>1. w.at = 0 /\ w.count = 0
        BY <3>1 DEF Unread
      <4> HIDE DEF n
      <4> QED
        BY <1>1, <4>1
    <3>2. CASE Passed(key, exact, w)
      BY <3>2 DEF Passed
    <3> QED
      BY <3>1, <3>2
  <2> HIDE DEF n
  <2> QED
    BY <1>1, <1>2, <2>1
<1>7. ASSUME exact
      PROVE  ~ x.twice /\ x.seen = {r \in DOMAIN key : Before(key, r) < x.at}
  <2>1. page = {r \in DOMAIN key : w.at <= Before(key, r) /\ Before(key, r) < w.at + limit}
    BY <1>1, <1>7, PageOfTotalOrder
  <2>2. \A r \in DOMAIN key : Before(key, r) \in Nat
    BY BeforeIs
  <2>3. ~ w.twice /\ w.seen = {r \in DOMAIN key : Before(key, r) < w.at}
    <3>1. CASE Unread(w)
      <4>1. w.at = 0 /\ w.seen = {} /\ ~ w.twice
        BY <3>1 DEF Unread
      <4> QED
        BY <2>2, <4>1
    <3>2. CASE Passed(key, exact, w)
      BY <1>7, <3>2 DEF Passed
    <3> QED
      BY <3>1, <3>2
  <2>4. page \cap w.seen = {}
    BY <1>1, <2>1, <2>2, <2>3
  <2>5. x.seen = {r \in DOMAIN key : Before(key, r) < x.at}
    BY <1>1, <2>1, <2>2, <2>3
  <2> QED
    BY <2>3, <2>4, <2>5
<1> QED
  BY <1>4, <1>5, <1>6, <1>7 DEF Passed

\* A client that stops at the total has every row of the list.
LEMMA PassedIsAll ==
    ASSUME NEW key, Ordered(key), NEW exact \in BOOLEAN, NEW w, Passed(key, exact, w), w.over
    PROVE  /\ w.totals = {Cardinality(DOMAIN key)} /\ w.count = Cardinality(DOMAIN key)
           /\ exact => ~ w.twice /\ w.seen = DOMAIN key
<1>1. w.at \in Nat /\ w.at >= Cardinality(DOMAIN key)
  BY DEF Passed
<1>2. \A r \in DOMAIN key : Before(key, r) \in Nat /\ Before(key, r) < Cardinality(DOMAIN key)
  BY BeforeTheEnd
<1>3. Cardinality(DOMAIN key) \in Nat
  BY FS_CardinalityType DEF Ordered
<1>4. \A r \in DOMAIN key : Before(key, r) < w.at
  BY <1>1, <1>2, <1>3
<1> QED
  BY <1>1, <1>4 DEF Passed

----------------------------------------------------------------------------
(* The lists of the forecast routes are ordered. *)

\* Queries that select the same rows, on whichever page of them they are.
Alike(p, q) ==
    /\ DOMAIN p = DOMAIN q
    /\ \A f \in DOMAIN q \ {"limit", "offset"} : p[f] = q[f]

\* Pages of one query are pages of one list.
LEMMA ListOfAlike ==
    ASSUME NEW v, NEW p, NEW q, Alike(p, q), DOMAIN q = QueryFields, NEW statement
    PROVE  List(statement, v, p) = List(statement, v, q)
<1>1. /\ p.market = q.market /\ p.region = q.region /\ p.store = q.store /\ p.channel = q.channel
      /\ p.type = q.type /\ p.category = q.category /\ p.class = q.class /\ p.search = q.search
      /\ p.horizon = q.horizon /\ p.weeks = q.weeks
  BY DEF Alike, QueryFields
<1>2. \A r : Filtered(p, r) <=> Filtered(q, r)
  BY <1>1 DEF Filtered
<1>3. \A r : Filtered([p EXCEPT !.category = None], r) <=> Filtered([q EXCEPT !.category = None], r)
  <2> DEFINE a == [p EXCEPT !.category = None]
             b == [q EXCEPT !.category = None]
  <2>1. /\ a.market = b.market /\ a.store = b.store /\ a.channel = b.channel
        /\ a.category = b.category
    BY <1>1 DEF Alike, QueryFields
  <2> HIDE DEF a, b
  <2>2. \A r : Filtered(a, r) <=> Filtered(b, r)
    BY <2>1 DEF Filtered
  <2> QED
    BY <2>2 DEF a, b
<1>4. \A rows : Listed(rows, p) = Listed(rows, q)
  BY <1>1, <1>2 DEF Listed
<1>5. Exceptions(v, p) = Exceptions(v, q)
  BY <1>1, <1>3 DEF Exceptions
<1>6. Workbench(v, p) = Workbench(v, q)
  <2>1. \A r : AnyColumn(p, r) <=> AnyColumn(q, r)
    BY <1>1 DEF AnyColumn
  <2>2. Window(v, p) = Window(v, q)
    BY <1>1, <1>2, <2>1 DEF Window
  <2>3. \A k : Scored(v, p, k) = Scored(v, q, k)
    BY <1>1 DEF Scored
  <2>4. \A k : AccuracyState(v, p, k) = AccuracyState(v, q, k)
    BY <2>3 DEF AccuracyState
  <2>5. \A k, rows : WorkbenchRow(v, p, k, rows) = WorkbenchRow(v, q, k, rows)
    BY <2>4 DEF WorkbenchRow
  <2> QED
    BY <2>2, <2>5 DEF Workbench
<1> QED
  BY <1>4, <1>5, <1>6 DEF List, Series, Actuals

\* The pages of one walk are of one list, by one limit.
LEMMA NormalizedAlike ==
    ASSUME NEW q, DOMAIN q = QueryFields, NEW at \in Nat, q.limit \in Int
    PROVE  LET p == Normalized([q EXCEPT !.offset = at]) IN
           /\ Alike(p, Normalized(q)) /\ DOMAIN Normalized(q) = QueryFields
           /\ p.offset = at /\ p.limit \in Nat \ {0}
<1> DEFINE o == [q EXCEPT !.offset = at]
           p == Normalized(o)
           n == Normalized(q)
<1>1. /\ DOMAIN o = QueryFields /\ o.offset = at
      /\ \A f \in QueryFields \ {"offset"} : o[f] = q[f]
  BY DEF QueryFields
<1> HIDE DEF o
<1>2. /\ DOMAIN p = QueryFields /\ DOMAIN n = QueryFields
      /\ p.market = o.market /\ n.market = q.market /\ p.region = o.region /\ n.region = q.region
      /\ p.store = o.store /\ n.store = q.store /\ p.channel = o.channel /\ n.channel = q.channel
      /\ p.category = o.category /\ n.category = q.category /\ p.class = o.class /\ n.class = q.class
      /\ p.search = o.search /\ n.search = q.search
      /\ p.offset = (IF o.offset < 0 THEN 0 ELSE o.offset)
      /\ p.limit = (IF o.limit < 1 THEN 100 ELSE IF o.limit > 1000 THEN 1000 ELSE o.limit)
  BY <1>1 DEF Normalized, QueryFields
<1>3. p.type = n.type /\ p.horizon = n.horizon /\ p.weeks = n.weeks
  BY <1>1 DEF Normalized, QueryFields
<1> HIDE DEF p, n
<1>4. o.limit = q.limit
  BY <1>1 DEF QueryFields
<1>5. Alike(p, n)
  BY <1>1, <1>2, <1>3 DEF Alike, QueryFields
<1>6. p.offset = at /\ p.limit \in Nat \ {0}
  BY <1>1, <1>2, <1>4
<1> QED
  BY <1>2, <1>5, <1>6 DEF p, n, o

\* A list of the forecast routes, row -> key.
Keyed(statement, v, q) == [r \in List(statement, v, q) |-> Order(statement, r)]

\* A tuple of integers is one of the keys that ORDER BY compares.
LEMMA Tuples ==
    ASSUME NEW a \in Int, NEW b \in Int, NEW c \in Int, NEW d \in Int, NEW e \in Int, NEW f \in Int,
           NEW g \in Int
    PROVE  /\ <<a, b, c, d, e>> \in [1 .. 5 -> Int]
           /\ <<a, b, c, d, e, f, g>> \in [1 .. 7 -> Int]
  OBVIOUS

\* SumFunction of the community modules is the sum the lemmas are about.
LEMMA SumIs ==
    ASSUME NEW S, IsFiniteSet(S), NEW w, DOMAIN w = S, \A r \in S : w[r] \in Int
    PROVE  SumFunction(w) = Sigma(w, S) /\ SumFunction(w) \in Int
  BY SumFunctionIs, SigmaType

\* What the columns of a row of the tables are.
LEMMA ColumnsAre ==
    ASSUME NEW v \in DOMAIN Version
    PROVE  /\ \A r \in Version[v].series \cup Version[v].eval :
                MarketOf[r.store] \in Int /\ r.store \in Int /\ r.sku \in Int
                /\ r.channel \in Int /\ r.h \in Int
           /\ \A r \in Version[v].eval : r.origin \in Int
<1>1. \A r \in Version[v].series \cup Version[v].eval :
        r.sku \in DOMAIN ProductRank /\ r.store \in DOMAIN MarketOf /\ r.channel \in Int
  BY TableAssumption
<1>2. \A r \in Version[v].series \cup Version[v].eval : r.h \in 1 .. 26
  BY TableAssumption
<1>3. \A r \in Version[v].eval : r.origin \in Int
  BY TableAssumption
<1>4. /\ \A s \in DOMAIN MarketOf : s \in Int /\ MarketOf[s] \in Int
      /\ \A p \in DOMAIN ProductRank : p \in Int
  BY CatalogAssumption
<1> QED
  BY <1>1, <1>2, <1>3, <1>4

\* The order of the series is total: (sku, store, channel, horizon) is its primary key.
LEMMA SeriesOrdered ==
    ASSUME NEW v \in DOMAIN Version, NEW q
    PROVE  LET key == Keyed("series", Version[v], q) IN
           Ordered(key) /\ \A r, s \in DOMAIN key : key[r] = key[s] => r = s
<1> DEFINE rows == Series(Version[v], q)
           key == [r \in rows |-> SeriesOrder(r)]
<1>1. Keyed("series", Version[v], q) = key
  BY DEF Keyed, List, Order
<1>2. rows \in SUBSET Version[v].series
  BY DEF Series, Listed
<1>3. IsFiniteSet(rows)
  BY <1>2, TableAssumption, FS_Subset
<1>4. \A r \in rows : /\ MarketOf[r.store] \in Int /\ r.store \in Int /\ r.sku \in Int
                      /\ r.channel \in Int /\ r.h \in Int
  BY <1>2, ColumnsAre
<1>5. \A r \in rows : key[r] \in [1 .. 5 -> Int]
  BY <1>4, Tuples DEF SeriesOrder
<1>6. \A r, s \in rows : Key(r) = Key(s) /\ r.h = s.h => r = s
  BY <1>2, TableAssumption
<1>7. \A r, s \in rows : key[r] = key[s] => r = s
  <2> SUFFICES ASSUME NEW r \in rows, NEW s \in rows, key[r] = key[s] PROVE r = s
    OBVIOUS
  <2>1. <<MarketOf[r.store], r.store, r.sku, r.channel, r.h>>
          = <<MarketOf[s.store], s.store, s.sku, s.channel, s.h>>
    BY DEF SeriesOrder
  <2>2. r.store = s.store /\ r.sku = s.sku /\ r.channel = s.channel /\ r.h = s.h
    BY <2>1
  <2> QED
    BY <1>6, <2>2 DEF Key
<1>8. DOMAIN key = rows
  OBVIOUS
<1> HIDE DEF key, rows
<1>9. Ordered(key)
  BY <1>3, <1>5, <1>8 DEF Ordered
<1> QED
  BY <1>1, <1>7, <1>8, <1>9

\* So is the order of the actuals, aggregated to one row for each target week.
LEMMA ActualsOrdered ==
    ASSUME NEW v \in DOMAIN Version, NEW q
    PROVE  LET key == Keyed("actuals", Version[v], q) IN
           Ordered(key) /\ \A r, s \in DOMAIN key : key[r] = key[s] => r = s
<1> DEFINE rows == Actuals(Version[v], q)
           key == [r \in rows |-> ActualsOrder(r)]
<1>1. Keyed("actuals", Version[v], q) = key
  BY DEF Keyed, List, Order
<1>2. rows \in SUBSET Version[v].eval
  BY DEF Actuals, Listed
<1>3. IsFiniteSet(rows)
  BY <1>2, TableAssumption, FS_Subset
<1>4. \A r \in rows : /\ MarketOf[r.store] \in Int /\ r.store \in Int /\ r.sku \in Int
                      /\ r.channel \in Int /\ r.h \in Int /\ r.origin \in Int
                      /\ - r.origin \in Int /\ r.origin + r.h \in Int
  <2>1. \A r \in rows : /\ MarketOf[r.store] \in Int /\ r.store \in Int /\ r.sku \in Int
                        /\ r.channel \in Int /\ r.h \in Int /\ r.origin \in Int
    BY <1>2, ColumnsAre
  <2> HIDE DEF rows
  <2> QED
    BY <2>1
<1>5. \A r \in rows : key[r] \in [1 .. 7 -> Int]
  BY <1>4, Tuples DEF ActualsOrder
<1>6. \A r, s \in rows : Key(r) = Key(s) /\ r.origin = s.origin /\ r.h = s.h => r = s
  BY <1>2, TableAssumption
<1>7. \A r, s \in rows : key[r] = key[s] => r = s
  <2> SUFFICES ASSUME NEW r \in rows, NEW s \in rows, key[r] = key[s] PROVE r = s
    OBVIOUS
  <2>1. <<-r.origin, r.origin + r.h, MarketOf[r.store], r.store, r.sku, r.channel, r.h>>
          = <<-s.origin, s.origin + s.h, MarketOf[s.store], s.store, s.sku, s.channel, s.h>>
    BY DEF ActualsOrder
  <2>2. -r.origin = -s.origin /\ r.store = s.store /\ r.sku = s.sku /\ r.channel = s.channel
        /\ r.h = s.h
    BY <2>1
  <2>3. r.origin \in Int /\ s.origin \in Int
    BY <1>4
  <2>4. r.origin = s.origin
    BY <2>2, <2>3
  <2> QED
    BY <1>6, <2>2, <2>4 DEF Key
<1>8. DOMAIN key = rows
  OBVIOUS
<1> HIDE DEF key, rows
<1>9. Ordered(key)
  BY <1>3, <1>5, <1>8 DEF Ordered
<1> QED
  BY <1>1, <1>7, <1>8, <1>9

\* The exceptions are ordered by rank, week and error only: rows may tie.
LEMMA ExceptionsOrdered ==
    ASSUME NEW v \in DOMAIN Version, NEW q
    PROVE  Ordered(Keyed("exceptions", Version[v], q))
<1> DEFINE rows == Exceptions(Version[v], q)
           key == [r \in rows |-> ExceptionsOrder(r)]
<1>1. Keyed("exceptions", Version[v], q) = key
  BY DEF Keyed, List, Order
<1>2. rows \in SUBSET Version[v].exceptions
  BY DEF Exceptions
<1>3. IsFiniteSet(rows)
  BY <1>2, TableAssumption, FS_Subset
<1>4. \A r \in rows : /\ MarketOf[r.store] \in Int /\ r.store \in Int /\ r.sku \in Int
                      /\ r.class \in Int
  BY <1>2, TableAssumption, CatalogAssumption
<1>5. \A r \in rows : key[r] \in [1 .. 5 -> Int]
  <2> SUFFICES ASSUME NEW r \in rows PROVE ExceptionsOrder(r) \in [1 .. 5 -> Int]
    OBVIOUS
  <2>1. TextRank(r.severity) \in Int
    BY DEF TextRank
  <2> QED
    BY <1>4, <2>1, Tuples DEF ExceptionsOrder
<1>6. DOMAIN key = rows
  OBVIOUS
<1> HIDE DEF key, rows
<1>7. Ordered(key)
  BY <1>3, <1>5, <1>6 DEF Ordered
<1> QED
  BY <1>1, <1>7

\* The workbench is grouped by series and ordered by the grouping in the end.
LEMMA WorkbenchOrdered ==
    ASSUME NEW v \in DOMAIN Version, NEW q
    PROVE  LET key == Keyed("workbench", Version[v], q) IN
           Ordered(key) /\ \A r, s \in DOMAIN key : key[r] = key[s] => r = s
<1> DEFINE window == Window(Version[v], q)
           known == [r \in window |-> Key(r)]
           K == {known[r] : r \in window}
           inside(k) == {r \in window : Key(r) = k}
           line == [k \in K |-> WorkbenchRow(Version[v], q, k, inside(k))]
           rows == {line[k] : k \in K}
           key == [r \in rows |-> WorkbenchOrder(r)]
<1>1. Workbench(Version[v], q) = rows
  BY DEF Workbench
<1>2. Keyed("workbench", Version[v], q) = key
  BY <1>1 DEF Keyed, List, Order
<1>3. window \in SUBSET Version[v].series
  BY DEF Window
<1>4. IsFiniteSet(window)
  BY <1>3, TableAssumption, FS_Subset
<1>5. \A r \in window : /\ r.store \in DOMAIN MarketOf /\ r.sku \in DOMAIN ProductRank /\ r.channel \in Int
                        /\ r.p50 \in Int
  BY <1>3, TableAssumption
<1>6. IsFiniteSet(K) /\ IsFiniteSet(rows)
  <2>1. IsFiniteSet(K)
    <3> HIDE DEF known, window
    <3> QED
      BY <1>4, ImageIsFinite
  <2> HIDE DEF K, line
  <2> QED
    BY <2>1, ImageIsFinite
<1>7. \A k \in K : k = <<k[1], k[2], k[3]>> /\ k[2] \in DOMAIN MarketOf /\ k[1] \in DOMAIN ProductRank /\ k[3] \in Int
  BY <1>5 DEF Key
<1>8. ASSUME NEW k \in K
      PROVE  /\ line[k].sku = k[1] /\ line[k].store = k[2] /\ line[k].channel = k[3]
             /\ line[k].forecast \in Int /\ line[k].priority \in Int
  <2> DEFINE f == [r \in inside(k) |-> r.p50]
  <2>1. line[k] = WorkbenchRow(Version[v], q, k, inside(k))
    OBVIOUS
  <2>2. /\ line[k].sku = k[1] /\ line[k].store = k[2] /\ line[k].channel = k[3]
        /\ line[k].forecast = SumFunction(f) /\ line[k].priority = Severity(Version[v], k)
    <3> HIDE DEF line, inside, K, window
    <3> QED
      BY <2>1 DEF WorkbenchRow, Sum
  <2>3. SumFunction(f) \in Int
    <3>1. IsFiniteSet(inside(k))
      BY <1>4, FS_Subset
    <3>2. DOMAIN f = inside(k) /\ \A r \in inside(k) : f[r] \in Int
      BY <1>5
    <3> HIDE DEF f, inside
    <3> QED
      BY <3>1, <3>2, SumIs
  <2>4. Severity(Version[v], k) \in Int
    <3> DEFINE S == {1} \cup {SeverityRank(r.severity) :
                                r \in {x \in Version[v].exceptions : Key(x) = k}}
    <3>1. Severity(Version[v], k) = Max(S)
      BY DEF Severity
    <3>2. \A n \in S : n \in 1 .. 3
      BY DEF SeverityRank
    <3>3. 1 \in S
      OBVIOUS
    <3> HIDE DEF S
    <3>4. S \subseteq Int /\ S # {} /\ 3 \in Int /\ \A n \in S : n <= 3
      BY <3>2, <3>3
    <3>5. Max(S) \in S
      BY <3>4, MaxIsThere
    <3> QED
      BY <3>1, <3>4, <3>5
  <2> QED
    BY <2>2, <2>3, <2>4
<1>9. \A k \in K : key[line[k]] = <<-line[k].priority, -line[k].forecast, MarketOf[k[2]], NameRank[k[2]],
                                     ProductRank[k[1]], k[1], k[3]>>
  <2> SUFFICES ASSUME NEW k \in K
               PROVE  key[line[k]] = <<-line[k].priority, -line[k].forecast, MarketOf[k[2]], NameRank[k[2]],
                                     ProductRank[k[1]], k[1], k[3]>>
    OBVIOUS
  <2>1. line[k] \in rows
    OBVIOUS
  <2> HIDE DEF line, K
  <2>2. key[line[k]] = WorkbenchOrder(line[k])
    BY <2>1
  <2> QED
    BY <1>8, <2>2 DEF WorkbenchOrder
<1> HIDE DEF line, K
<1>10. \A k \in K : key[line[k]] \in [1 .. 7 -> Int]
  <2> SUFFICES ASSUME NEW k \in K PROVE key[line[k]] \in [1 .. 7 -> Int]
    OBVIOUS
  <2>1. /\ MarketOf[k[2]] \in Int /\ NameRank[k[2]] \in Int /\ ProductRank[k[1]] \in Int
        /\ k[1] \in Int /\ k[3] \in Int
    BY <1>7, CatalogAssumption
  <2>2. -line[k].priority \in Int /\ -line[k].forecast \in Int
    BY <1>8
  <2> DEFINE a == -line[k].priority
             b == -line[k].forecast
             c == MarketOf[k[2]]
             d == NameRank[k[2]]
             e == ProductRank[k[1]]
             f == k[1]
             g == k[3]
  <2>3. key[line[k]] = <<a, b, c, d, e, f, g>>
    BY <1>9
  <2>4. a \in Int /\ b \in Int /\ c \in Int /\ d \in Int /\ e \in Int /\ f \in Int /\ g \in Int
    BY <2>1, <2>2
  <2> HIDE DEF key, a, b, c, d, e, f, g
  <2>5. <<a, b, c, d, e, f, g>> \in [1 .. 7 -> Int]
    BY <2>4, Tuples
  <2> QED
    BY <2>3, <2>5, Zenon
<1>11. \A k, l \in K : key[line[k]] = key[line[l]] => k = l
  <2> SUFFICES ASSUME NEW k \in K, NEW l \in K, key[line[k]] = key[line[l]] PROVE k = l
    OBVIOUS
  <2>1. <<-line[k].priority, -line[k].forecast, MarketOf[k[2]], NameRank[k[2]], ProductRank[k[1]], k[1], k[3]>>
          = <<-line[l].priority, -line[l].forecast, MarketOf[l[2]], NameRank[l[2]], ProductRank[l[1]], l[1], l[3]>>
    <3> HIDE DEF key
    <3> QED
      BY <1>9
  <2>2. MarketOf[k[2]] = MarketOf[l[2]] /\ NameRank[k[2]] = NameRank[l[2]] /\ k[1] = l[1] /\ k[3] = l[3]
    BY <2>1
  <2>3. k[2] \in DOMAIN NameRank /\ l[2] \in DOMAIN NameRank
    BY <1>7, CatalogAssumption
  <2>4. k[2] = l[2]
    BY <2>2, <2>3, StoreNameAssumption
  <2>5. k = <<k[1], k[2], k[3]>> /\ l = <<l[1], l[2], l[3]>>
    BY <1>7
  <2> QED
    BY <2>2, <2>4, <2>5
<1>12. DOMAIN key = rows
  OBVIOUS
<1>13. \A r \in rows : key[r] \in [1 .. 7 -> Int]
  BY <1>10
<1>14. \A r, s \in rows : key[r] = key[s] => r = s
  <2> HIDE DEF key
  <2> QED
    BY <1>11
<1> HIDE DEF key, rows
<1>15. Ordered(key)
  BY <1>6, <1>12, <1>13 DEF Ordered
<1> QED
  BY <1>2, <1>12, <1>14, <1>15

----------------------------------------------------------------------------
(* The reader of the forecast routes. *)

\* The list a client walks, as one version has it.
ListOf(v) == Keyed(reader.list[1], Version[v], Normalized(reader.list[2]))

\* Where the order of the list is total.
Exact == reader.list[1] # "exceptions"

\* What the paging client knows, as long as it has met one version.
ReaderInv ==
    /\ loaded \in DOMAIN Version \cup {None}
    /\ reader = [list |-> reader.list, at |-> reader.at, seen |-> reader.seen,
                 twice |-> reader.twice, count |-> reader.count, totals |-> reader.totals,
                 versions |-> reader.versions, over |-> reader.over]
    /\ reader.list # None => reader.list \in Lists
    /\ reader.at \in Nat /\ IsFiniteSet(reader.versions)
    /\ reader.versions = {} => Unread(reader)
    /\ reader.versions # {} => reader.list # None
    /\ \A v : reader.versions = {v} =>
         v \in DOMAIN Version /\ Passed(ListOf(v), Exact, reader)

\* Every list is ordered, and all but the exceptions totally.
LEMMA ListOrdered ==
    ASSUME NEW v \in DOMAIN Version, NEW statement \in ListRoutes, NEW q
    PROVE  LET key == Keyed(statement, Version[v], q) IN
           /\ Ordered(key) /\ DOMAIN key = List(statement, Version[v], q)
           /\ statement # "exceptions" => \A r, s \in DOMAIN key : key[r] = key[s] => r = s
<1>1. statement \in {"series", "actuals", "workbench", "exceptions"}
  BY DEF ListRoutes
<1>2. DOMAIN Keyed(statement, Version[v], q) = List(statement, Version[v], q)
  BY DEF Keyed
<1> QED
  BY <1>1, <1>2, SeriesOrdered, ActualsOrdered, WorkbenchOrdered, ExceptionsOrdered

\* The invariant holds before the first walk,
LEMMA ReaderInvInit == ScreenInit => ReaderInv
<1> SUFFICES ASSUME ScreenInit PROVE ReaderInv
  OBVIOUS
<1>1. loaded \in DOMAIN Version /\ reader = NoReader
  BY DEF ScreenInit
<1>2. /\ reader = [list |-> reader.list, at |-> reader.at, seen |-> reader.seen,
                   twice |-> reader.twice, count |-> reader.count, totals |-> reader.totals,
                   versions |-> reader.versions, over |-> reader.over]
      /\ reader.list = None /\ reader.at = 0 /\ reader.versions = {} /\ reader.seen = {}
      /\ reader.count = 0 /\ reader.totals = {} /\ reader.over = FALSE /\ reader.twice = FALSE
  BY <1>1 DEF NoReader
<1>3. Unread(reader)
  BY <1>2 DEF Unread
<1> QED
  BY <1>1, <1>2, <1>3, FS_EmptySet DEF ReaderInv

\* when a walk starts,
LEMMA ReaderInvWalk ==
    ASSUME ReaderInv, NEW list \in Lists, Walk(list) PROVE ReaderInv'
<1>1. reader = NoReader /\ reader' = [reader EXCEPT !.list = list] /\ loaded' = loaded
  BY DEF Walk
<1>2. PICK g : g = reader'
  OBVIOUS
<1>3. /\ g = [list |-> g.list, at |-> g.at, seen |-> g.seen,
              twice |-> g.twice, count |-> g.count, totals |-> g.totals,
              versions |-> g.versions, over |-> g.over]
      /\ g.list = list /\ g.at = 0 /\ g.versions = {} /\ g.seen = {}
      /\ g.count = 0 /\ g.totals = {} /\ g.over = FALSE /\ g.twice = FALSE
  BY <1>1, <1>2 DEF NoReader
<1>4. Unread(g)
  BY <1>3 DEF Unread
<1>5. Unread(reader')
  BY <1>2, <1>4
<1> QED
  BY <1>1, <1>2, <1>3, <1>5, FS_EmptySet DEF ReaderInv

\* after each page,
LEMMA ReaderInvTurn ==
    ASSUME ReaderInv, Turn PROVE ReaderInv'
<1> DEFINE statement == reader.list[1]
           q == Normalized([reader.list[2] EXCEPT !.offset = reader.at])
           v == Version[loaded]
           rows == List(statement, v, q)
<1>1. reader.list # None /\ ~ reader.over /\ loaded # None /\ loaded' = loaded
  BY DEF Turn
<1>2. PICK page \in Pages(statement, v, q) :
        reader' = [reader EXCEPT
                  !.at = @ + q.limit,
                  !.seen = @ \cup page,
                  !.twice = @ \/ page \cap reader.seen # {},
                  !.count = @ + Cardinality(page),
                  !.totals = @ \cup {CountOver(rows, page)},
                  !.versions = @ \cup {loaded},
                  !.over = reader.at + q.limit >= CountOver(rows, page)]
  BY DEF Turn
<1>3. PICK g : g = reader'
  OBVIOUS
<1>4. /\ reader.list \in Lists /\ loaded \in DOMAIN Version /\ reader.at \in Nat
      /\ IsFiniteSet(reader.versions)
  BY <1>1 DEF ReaderInv
<1>5. PICK again : again <=> (reader.twice \/ page \cap reader.seen # {})
  OBVIOUS
<1>6. PICK last : last <=> reader.at + q.limit >= CountOver(rows, page)
  OBVIOUS
<1> DEFINE lim == q.limit
           tot == CountOver(rows, page)
           size == Cardinality(page)
<1>7. /\ g = [list |-> g.list, at |-> g.at, seen |-> g.seen,
              twice |-> g.twice, count |-> g.count, totals |-> g.totals,
              versions |-> g.versions, over |-> g.over]
      /\ g.list = reader.list /\ g.at = reader.at + lim /\ g.seen = reader.seen \cup page
      /\ g.count = reader.count + size /\ g.totals = reader.totals \cup {tot}
      /\ g.versions = reader.versions \cup {loaded}
      /\ (g.over <=> last) /\ (g.twice <=> again)
  <2>1. reader = [list |-> reader.list, at |-> reader.at, seen |-> reader.seen,
                 twice |-> reader.twice, count |-> reader.count, totals |-> reader.totals,
                 versions |-> reader.versions, over |-> reader.over]
    BY DEF ReaderInv
  <2>2. reader' = [reader EXCEPT !.at = @ + lim, !.seen = @ \cup page,
                      !.twice = @ \/ page \cap reader.seen # {},
                      !.count = @ + size, !.totals = @ \cup {tot},
                      !.versions = @ \cup {loaded}, !.over = reader.at + lim >= tot]
    BY <1>2
  <2> HIDE DEF lim, tot, size
  <2> DEFINE a == (reader.twice \/ page \cap reader.seen # {})
             b == (reader.at + lim >= tot)
  <2>3. reader' = [reader EXCEPT !.at = @ + lim, !.seen = @ \cup page,
                      !.twice = a, !.count = @ + size, !.totals = @ \cup {tot},
                      !.versions = @ \cup {loaded}, !.over = b]
    BY <2>2
  <2>4. (a <=> again) /\ (b <=> last)
    BY <1>5, <1>6 DEF lim, tot
  <2> HIDE DEF a, b
  <2>5. g = [list |-> reader.list, at |-> reader.at + lim, seen |-> reader.seen \cup page,
             twice |-> a, count |-> reader.count + size, totals |-> reader.totals \cup {tot},
             versions |-> reader.versions \cup {loaded}, over |-> b]
    BY <1>3, <2>1, <2>3
  <2>6. /\ g = [list |-> g.list, at |-> g.at, seen |-> g.seen,
                twice |-> g.twice, count |-> g.count, totals |-> g.totals,
                versions |-> g.versions, over |-> g.over]
        /\ g.list = reader.list /\ g.at = reader.at + lim /\ g.seen = reader.seen \cup page
        /\ g.count = reader.count + size /\ g.totals = reader.totals \cup {tot}
        /\ g.versions = reader.versions \cup {loaded} /\ g.over = b /\ g.twice = a
    BY <2>5
  <2>7. (g.over <=> last) /\ (g.twice <=> again)
    BY <2>4, <2>6, Zenon
  <2> QED
    BY <2>6, <2>7
<1>8. /\ DOMAIN reader.list[2] = QueryFields /\ reader.list[2].limit \in Int
      /\ statement \in ListRoutes
  BY <1>4, ListAssumption DEF QueryFields
<1>9. /\ Alike(q, Normalized(reader.list[2])) /\ DOMAIN Normalized(reader.list[2]) = QueryFields
      /\ q.offset = reader.at /\ lim \in Nat \ {0}
  BY <1>4, <1>8, NormalizedAlike
<1>10. rows = List(statement, v, Normalized(reader.list[2]))
  BY <1>9, ListOfAlike
<1> DEFINE key == ListOf(loaded)
<1>11. /\ Ordered(key) /\ DOMAIN key = rows
       /\ Exact => \A r, s \in DOMAIN key : key[r] = key[s] => r = s
  BY <1>4, <1>8, <1>10, ListOrdered DEF ListOf, Exact
<1>12. page \in Windows(key, reader.at, lim)
  BY <1>2, <1>9, <1>10 DEF Pages, ListOf, Keyed
<1>13. ASSUME NEW w, g.versions = {w} PROVE w = loaded /\ Passed(key, Exact, g)
  <2>1. w = loaded /\ (reader.versions = {} \/ reader.versions = {loaded})
    BY <1>7, <1>13
  <2>2. Unread(reader) \/ (Passed(key, Exact, reader) /\ ~ reader.over)
    BY <1>1, <2>1 DEF ReaderInv
  <2>3. Exact \in BOOLEAN
    BY DEF Exact
  <2>4. /\ g.twice <=> reader.twice \/ page \cap reader.seen # {}
        /\ g.over <=> reader.at + lim >= CountOver(DOMAIN key, page)
        /\ g.totals = reader.totals \cup {CountOver(DOMAIN key, page)}
        /\ g.count = reader.count + Cardinality(page)
        /\ g.at = reader.at + lim /\ g.seen = reader.seen \cup page
    <3>1. tot = CountOver(DOMAIN key, page)
      BY <1>11
    <3>2. g.over <=> reader.at + lim >= tot
      BY <1>6, <1>7, Zenon
    <3>3. g.over <=> reader.at + lim >= CountOver(DOMAIN key, page)
      BY <3>1, <3>2, Zenon
    <3>4. g.twice <=> reader.twice \/ page \cap reader.seen # {}
      BY <1>5, <1>7, Zenon
    <3> HIDE DEF key, lim, tot
    <3> QED
      BY <1>7, <3>1, <3>3, <3>4
  <2>5. lim \in Nat \ {0}
    BY <1>9
  <2> HIDE DEF key, lim
  <2>6. Passed(key, Exact, g)
    BY <1>11, <1>12, <2>2, <2>3, <2>4, <2>5, PassedGrows
  <2> QED
    BY <2>1, <2>6
<1>14. ListOf(loaded)' = key /\ Exact' = Exact
  <2>1. reader'.list = reader.list
    BY <1>3, <1>7
  <2> QED
    BY <1>1, <2>1 DEF ListOf, Exact
<1>15. \A w : reader'.versions = {w} => w \in DOMAIN Version /\ Passed(ListOf(w), Exact, reader)'
  <2> SUFFICES ASSUME NEW w, reader'.versions = {w}
               PROVE  w \in DOMAIN Version /\ Passed(ListOf(w), Exact, reader)'
    OBVIOUS
  <2>1. w = loaded /\ Passed(key, Exact, g)
    BY <1>3, <1>13
  <2>2. ListOf(w)' = key
    BY <1>14, <2>1, <1>1
  <2>3. Passed(ListOf(w)', Exact', reader')
    BY <1>3, <1>14, <2>1, <2>2
  <2> QED
    BY <1>4, <2>1, <2>3
<1>16. g.at \in Nat /\ IsFiniteSet(g.versions) /\ g.versions # {}
  <2>1. lim \in Nat
    BY <1>9
  <2> HIDE DEF lim
  <2> QED
    BY <1>4, <1>7, <2>1, FS_AddElement
<1> HIDE DEF key, lim, tot, size
<1>17. /\ reader'.list \in Lists /\ reader'.list # None /\ reader'.at \in Nat
       /\ IsFiniteSet(reader'.versions) /\ reader'.versions # {}
  BY <1>1, <1>3, <1>4, <1>7, <1>16
<1>18. reader' = [list |-> reader'.list, at |-> reader'.at, seen |-> reader'.seen,
                 twice |-> reader'.twice, count |-> reader'.count, totals |-> reader'.totals,
                 versions |-> reader'.versions, over |-> reader'.over]
  BY <1>3, <1>7
<1>19. loaded' \in DOMAIN Version \cup {None}
  BY <1>1, <1>4
<1> QED
  BY <1>15, <1>17, <1>18, <1>19 DEF ReaderInv

\* and so after every step.
LEMMA ReaderInvStep == ReaderInv /\ [ScreenNext]_screenVars => ReaderInv'
<1> SUFFICES ASSUME ReaderInv, [ScreenNext]_screenVars PROVE ReaderInv'
  OBVIOUS
<1>1. ASSUME reader' = reader, loaded' \in DOMAIN Version \cup {None} PROVE ReaderInv'
  BY <1>1 DEF ReaderInv, ListOf, Exact
<1>2. loaded \in DOMAIN Version \cup {None}
  BY DEF ReaderInv
<1>3. CASE OpenPage
  BY <1>1, <1>2, <1>3 DEF OpenPage
<1>4. CASE LeavePage
  BY <1>1, <1>2, <1>4 DEF LeavePage
<1>5. CASE Kill
  BY <1>1, <1>5 DEF Kill
<1>6. CASE Turn
  BY <1>6, ReaderInvTurn
<1>7. CASE \E f \in Filters : Choose(f) \/ Expire(f)
  BY <1>1, <1>2, <1>7 DEF Choose, Expire
<1>8. CASE \E k \in Keys : Settle(k)
  BY <1>1, <1>2, <1>8 DEF Settle
<1>9. CASE \E v \in DOMAIN Version : Restart(v)
  BY <1>1, <1>9 DEF Restart
<1>10. CASE \E list \in Lists : Walk(list)
  BY <1>10, ReaderInvWalk
<1>11. CASE UNCHANGED screenVars
  BY <1>1, <1>2, <1>11 DEF screenVars
<1> QED
  BY <1>3, <1>4, <1>5, <1>6, <1>7, <1>8, <1>9, <1>10, <1>11 DEF ScreenNext

\* For any versions, lists, limits and restarts: a walk that met one version ends
\* with the rows, the number and the total of its list.
THEOREM PagesCoverTheListHolds == ScreenSpec => []PagesCoverTheList
<1>1. ReaderInv => PagesCoverTheList
  <2> SUFFICES ASSUME ReaderInv, reader.over, Cardinality(reader.versions) = 1
               PROVE  LET statement == reader.list[1]
                          rows == UNION {List(statement, Version[v], Normalized(reader.list[2])) :
                                           v \in reader.versions}
                      IN  /\ reader.totals = {Cardinality(rows)} /\ reader.count = Cardinality(rows)
                          /\ statement # "exceptions" => reader.seen = rows /\ ~reader.twice
    BY DEF PagesCoverTheList
  <2>1. PICK v : reader.versions = {v}
    BY FS_Singleton DEF ReaderInv
  <2>2. v \in DOMAIN Version /\ Passed(ListOf(v), Exact, reader) /\ reader.list \in Lists
    BY <2>1 DEF ReaderInv
  <2>3. Ordered(ListOf(v)) /\ DOMAIN ListOf(v)
              = List(reader.list[1], Version[v], Normalized(reader.list[2]))
    BY <2>2, ListAssumption, ListOrdered DEF ListOf
  <2>4. Exact \in BOOLEAN
    BY DEF Exact
  <2>5. /\ reader.totals = {Cardinality(DOMAIN ListOf(v))} /\ reader.count = Cardinality(DOMAIN ListOf(v))
        /\ Exact => ~ reader.twice /\ reader.seen = DOMAIN ListOf(v)
    BY <2>2, <2>3, <2>4, PassedIsAll
  <2>6. UNION {List(reader.list[1], Version[w], Normalized(reader.list[2])) : w \in reader.versions}
          = DOMAIN ListOf(v)
    BY <2>1, <2>3
  <2> QED
    BY <2>5, <2>6 DEF Exact
<1> QED
  BY <1>1, ReaderInvInit, ReaderInvStep, PTL DEF ScreenSpec

----------------------------------------------------------------------------
(* The money of the inventory screens is a number. *)

\* The routes of the inventory screens.
ScreenNames ==
    {"overview", "stores", "warehouses", "planner", "orders", "ageing", "valuation", "health",
     "waste", "buffers", "transfers", "suppliers", "allocations", "exceptions"}

\* Keys of four to six columns are integer tuples.
LEMMA KeyTuples ==
    ASSUME NEW a \in Int, NEW b \in Int, NEW c \in Int, NEW d \in Int, NEW e \in Int, NEW f \in Int
    PROVE  /\ <<a, b, c, d>> \in [1 .. 4 -> Int]
           /\ <<a, b, c, d, e>> \in [1 .. 5 -> Int]
           /\ <<a, b, c, d, e, f>> \in [1 .. 6 -> Int]
  OBVIOUS

\* A sum over rows and a sum over what stands for them.
LEMMA SumImage ==
    ASSUME NEW F, IsFiniteSet(DOMAIN F), \A x \in DOMAIN F : F[x] \in Int,
           NEW f, \A x, y \in DOMAIN F : f[x] = f[y] => x = y,
           NEW G, DOMAIN G = {f[x] : x \in DOMAIN F}, \A x \in DOMAIN F : G[f[x]] = F[x]
    PROVE  SumFunction(G) = SumFunction(F)
<1> DEFINE S == DOMAIN F
<1>1. \A x \in S : G[f[x]] \in Int /\ F[x] = G[f[x]]
  OBVIOUS
<1>2. Sigma(G, {f[x] : x \in S}) = Sigma(F, S)
  BY <1>1, SigmaImage
<1> QED
  BY <1>2, SumFunctionIs

\* Money is an integer: a product that skips NULL,
LEMMA TimesIs == \A a, b \in Int : Times(a, b) \in Int
  BY DEF Times, Null

\* in the reporting currency,
LEMMA ReportedIs == \A m \in DOMAIN Rate, a \in Int : Reported(m, a) \in Int
  BY TimesIs, PlaceAssumption DEF Reported

\* the greatest of what a join finds, or NULL,
LEMMA GreatestIs ==
    ASSUME NEW T, IsFiniteSet(T), NEW S \in SUBSET T, NEW name, \A x \in T : x[name] \in Int
    PROVE  Max({Null} \cup {x[name] : x \in S}) \in Int
<1> DEFINE g == [x \in S |-> x[name]]
           V == {x[name] : x \in S}
<1>1. IsFiniteSet(S)
  BY FS_Subset
<1>2. V = {g[x] : x \in S}
  OBVIOUS
<1> HIDE DEF g
<1>3. IsFiniteSet(V)
  BY <1>1, <1>2, ImageIsFinite
<1>4. V \subseteq Int
  OBVIOUS
<1> HIDE DEF V
<1>5. IsFiniteSet({Null} \cup V) /\ {Null} \cup V \subseteq Int /\ {Null} \cup V # {}
  BY <1>3, <1>4, FS_AddElement DEF Null
<1>6. Max({Null} \cup V) \in {Null} \cup V
  BY <1>5, FiniteMax
<1> QED
  BY <1>5, <1>6 DEF V

\* a column of the row a join finds,
LEMMA OfIs ==
    ASSUME NEW T, IsFiniteSet(T), NEW r, NEW name, \A x \in T : x[name] \in Int
    PROVE  Of(T, r, name) \in Int
<1>1. Using(T, r) \in SUBSET T
  BY DEF Using
<1> QED
  BY <1>1, GreatestIs DEF Of

\* and units at their cost.
LEMMA PricedIs ==
    ASSUME NEW v \in DOMAIN Stock, NEW r, r.market \in DOMAIN Rate, NEW units \in Int
    PROVE  Priced(Stock[v], r, units) \in Int
<1>1. IsFiniteSet(Stock[v].dimension)
  BY GrainAssumption
<1>2. \A x \in Stock[v].dimension : x.cost \in Int
  BY ColumnAssumption
<1>3. Of(Stock[v].dimension, r, "cost") \in Int
  BY <1>1, <1>2, OfIs
<1> QED
  BY <1>3, TimesIs, ReportedIs DEF Priced

\* A sum over a part of a finite set is an integer,
LEMMA SumsAre ==
    ASSUME NEW T, IsFiniteSet(T), NEW F, DOMAIN F \in SUBSET T, \A x \in DOMAIN F : F[x] \in Int
    PROVE  SumFunction(F) \in Int
<1>1. IsFiniteSet(DOMAIN F)
  BY FS_Subset
<1>2. Sigma(F, DOMAIN F) \in Int
  BY <1>1, SigmaType
<1> QED
  BY <1>2, SumFunctionIs

\* so is the cost of a category, an average weighted by demand,
LEMMA CategoryCostIs ==
    ASSUME NEW v \in DOMAIN Stock, NEW r
    PROVE  CategoryCost(Stock[v], r) \in Int
<1> DEFINE b == Stock[v]
           cells == {d \in b.dimension : d.node = r.node /\ Category[d.sku] = r.category}
           costed == {d \in cells : d.cost # Null}
           daily == [d \in cells |-> d.daily]
           worth == [d \in costed |-> d.cost * d.daily]
           cost == [d \in costed |-> d.cost]
           sold == SumFunction(daily)
<1>1. IsFiniteSet(b.dimension)
  BY GrainAssumption
<1>2. \A x \in b.dimension : x.cost \in Int /\ x.daily \in Int
  BY ColumnAssumption
<1>3. cells \in SUBSET b.dimension /\ costed \in SUBSET b.dimension
  OBVIOUS
<1>4. \A x \in costed : x.cost * x.daily \in Int
  BY <1>2
<1>5. sold \in Int /\ SumFunction(worth) \in Int /\ SumFunction(cost) \in Int
  <2>1. /\ DOMAIN daily = cells /\ DOMAIN worth = costed /\ DOMAIN cost = costed
        /\ \A x \in cells : daily[x] \in Int
        /\ \A x \in costed : worth[x] \in Int /\ cost[x] \in Int
    BY <1>2, <1>4
  <2> HIDE DEF daily, worth, cost, cells, costed
  <2> QED
    BY <1>1, <1>3, <2>1, SumsAre
<1>6. IsFiniteSet(costed) /\ (costed # {} => Cardinality(costed) \in Nat \ {0})
  <2>1. IsFiniteSet(costed)
    BY <1>1, <1>3, FS_Subset
  <2> HIDE DEF costed
  <2> QED
    BY <2>1, FS_CardinalityType, FS_EmptySet
<1>7. CategoryCost(b, r) = CASE sold > 0 -> SumFunction(worth) \div sold
                             [] sold = 0 /\ costed # {} -> SumFunction(cost) \div Cardinality(costed)
                             [] OTHER -> Null
  BY DEF CategoryCost, Sum
<1> HIDE DEF sold, worth, cost, costed, b
<1>8. CASE sold > 0
  <2>1. sold \in Nat \ {0} /\ SumFunction(worth) \div sold \in Int
    BY <1>5, <1>8
  <2>2. CategoryCost(b, r) = SumFunction(worth) \div sold
    BY <1>7, <1>8
  <2> QED
    BY <2>1, <2>2 DEF b
<1>9. CASE ~(sold > 0) /\ sold = 0 /\ costed # {}
  <2>1. SumFunction(cost) \div Cardinality(costed) \in Int
    BY <1>5, <1>6, <1>9
  <2>2. CategoryCost(b, r) = SumFunction(cost) \div Cardinality(costed)
    BY <1>7, <1>9
  <2> QED
    BY <2>1, <2>2 DEF b
<1>10. CASE ~(sold > 0) /\ ~(sold = 0 /\ costed # {})
  <2>1. CategoryCost(b, r) = Null
    BY <1>7, <1>10
  <2> QED
    BY <2>1 DEF b, Null
<1> QED
  BY <1>8, <1>9, <1>10

\* and the money of a row of each table.
LEMMA RowValueIs ==
    ASSUME NEW v \in DOMAIN Stock,
           NEW table \in {"ageing", "waste", "buffers", "transfers", "recommendations", "valuation"},
           NEW r \in Stock[v][table]
    PROVE  RowValue(Stock[v], table, r) \in Int
<1> DEFINE b == Stock[v]
<1>1. r.market \in DOMAIN Rate
  BY ColumnAssumption
<1>2. CASE table = "ageing"
  <2>1. r.onHand \in Int
    BY <1>2, ColumnAssumption
  <2> QED
    BY <1>1, <1>2, <2>1, PricedIs DEF RowValue
<1>3. CASE table = "waste"
  <2>1. r.expiring \in Int
    BY <1>3, ColumnAssumption
  <2> QED
    BY <1>1, <1>3, <2>1, PricedIs DEF RowValue
<1>4. CASE table = "buffers"
  <2>1. r.units \in Int
    BY <1>4, ColumnAssumption
  <2> QED
    BY <1>1, <1>4, <2>1, PricedIs DEF RowValue
<1>5. CASE table \in {"transfers", "recommendations"}
  <2>1. r.units \in Int
    BY <1>5, ColumnAssumption
  <2>2. IsFiniteSet(b.dimension) /\ \A x \in b.dimension : x.cost \in Int
    BY GrainAssumption, ColumnAssumption
  <2>3. MarketCost(b, r) \in Int
    <3> DEFINE S == {x \in b.dimension : x.market = r.market /\ x.sku = r.sku}
    <3>1. S \in SUBSET b.dimension /\ MarketCost(b, r) = Max({Null} \cup {d.cost : d \in S})
      BY DEF MarketCost
    <3>2. PICK cost, all : cost = "cost" /\ all = b.dimension
      OBVIOUS
    <3>3. IsFiniteSet(all) /\ (\A x \in all : x[cost] \in Int) /\ S \in SUBSET all
          /\ {d.cost : d \in S} = {d[cost] : d \in S}
      BY <2>2, <3>1, <3>2
    <3>4. PICK few : few = S
      OBVIOUS
    <3>5. IsFiniteSet(all) /\ (\A x \in all : x[cost] \in Int) /\ few \in SUBSET all
      BY <3>3, <3>4
    <3>6. Max({Null} \cup {d[cost] : d \in few}) \in Int
      BY <3>5, GreatestIs
    <3>7. {d[cost] : d \in few} = {d.cost : d \in S}
      BY <3>3, <3>4
    <3> QED
      BY <3>1, <3>6, <3>7
  <2>4. RowValue(b, table, r) = Reported(r.market, Times(r.units, MarketCost(b, r)))
    BY <1>5 DEF RowValue
  <2> QED
    BY <1>1, <2>1, <2>3, <2>4, TimesIs, ReportedIs
<1>6. CASE table = "valuation"
  <2>1. r.variance \in Int
    BY <1>6, ColumnAssumption
  <2>2. RowValue(b, table, r) = Reported(r.market, Times(r.variance, CategoryCost(b, r)))
    BY <1>6 DEF RowValue
  <2> QED
    BY <1>1, <2>1, <2>2, CategoryCostIs, TimesIs, ReportedIs
<1> QED
  BY <1>2, <1>3, <1>4, <1>5, <1>6

\* A join that finds one row at most has one row for each on its left.
LEMMA JoinsOnce ==
    ASSUME NEW S, NEW R, \A r \in S : \A x, y \in R[r] : x = y
    PROVE  \E f : /\ UNION {{<<r, x>> : x \in IF R[r] = {} THEN {NoRow} ELSE R[r]} : r \in S}
                       = {f[r] : r \in S}
                  /\ \A r \in S : f[r] = <<r, f[r][2]>> /\ f[r][2] \in R[r] \cup {NoRow}
<1> DEFINE x(r) == CHOOSE y \in IF R[r] = {} THEN {NoRow} ELSE R[r] : TRUE
           f == [r \in S |-> <<r, x(r)>>]
<1>1. \A r \in S : (IF R[r] = {} THEN {NoRow} ELSE R[r]) = {x(r)}
  OBVIOUS
<1>2. \A r \in S : f[r] = <<r, x(r)>> /\ x(r) \in R[r] \cup {NoRow}
  <2>1. \A r \in S : x(r) \in R[r] \cup {NoRow}
    BY <1>1
  <2> HIDE DEF x
  <2> QED
    BY <2>1
<1> HIDE DEF x, f
<1>3. UNION {{<<r, y>> : y \in IF R[r] = {} THEN {NoRow} ELSE R[r]} : r \in S} = {f[r] : r \in S}
  BY <1>1, <1>2
<1>4. \A r \in S : f[r] = <<r, f[r][2]>> /\ f[r][2] \in R[r] \cup {NoRow}
  BY <1>2
<1> QED
  BY <1>3, <1>4

----------------------------------------------------------------------------
(* The lists of the inventory screens are ordered. *)

\* The tables of a bundle that screens page over.
TableNames ==
    {"positions", "recommendations", "ageing", "valuation", "health", "waste", "buffers",
     "transfers", "suppliers", "allocations", "exceptions"}

\* Every screen has a table.
LEMMA TableIs == \A screen \in ScreenNames : Table(screen) \in TableNames
  BY DEF Table, ScreenNames, TableNames

\* The rows a screen pages through are rows of its projection.
LEMMA ScopeIs ==
    ASSUME NEW v \in DOMAIN Stock, NEW screen \in ScreenNames, NEW q
    PROVE  /\ Scope(Stock[v], screen, q) \in SUBSET Stock[v][Table(screen)]
           /\ IsFiniteSet(Stock[v][Table(screen)]) /\ IsFiniteSet(Scope(Stock[v], screen, q))
<1> DEFINE table == Table(screen)
<1>1. table \in TableNames
  BY TableIs
<1>2. IsFiniteSet(Stock[v][table])
  <2> HIDE DEF table
  <2> QED
    BY <1>1, GrainAssumption DEF TableNames
<1>3. RowsOf(Stock[v], table) = Stock[v][table]
  <2> HIDE DEF table
  <2> QED
    BY <1>1 DEF RowsOf, TableNames
<1>4. Scope(Stock[v], screen, q) \in SUBSET Stock[v][table]
  BY <1>3 DEF Scope, InScope
<1> QED
  BY <1>2, <1>4, FS_Subset

\* What ignoring a row of Stock Health costs is an integer.
LEMMA ExposureIs ==
    ASSUME NEW v \in DOMAIN Stock, NEW r \in Stock[v].health,
           NEW risk \in Using(Stock[v].risk, r) \cup {NoRow}
    PROVE  Exposure(Stock[v], r, risk) \in Int
<1> DEFINE b == Stock[v]
<1>1. r.market \in DOMAIN Rate
  BY ColumnAssumption
<1>2. Priced(b, r, Of(b.positions, r, "onHand")) \in Int
  <2>1. IsFiniteSet(b.positions) /\ \A x \in b.positions : x.onHand \in Int
    BY GrainAssumption, ColumnAssumption
  <2>2. Of(b.positions, r, "onHand") \in Int
    BY <2>1, OfIs
  <2> QED
    BY <1>1, <2>2, PricedIs
<1>3. CASE risk \in Using(b.risk, r)
  <2>1. risk.value \in Int
    BY <1>3, ColumnAssumption DEF Using
  <2>2. Reported(r.market, risk.value) \in Int
    BY <1>1, <2>1, ReportedIs
  <2> QED
    BY <1>2, <2>2 DEF Exposure, Null
<1>4. CASE risk = NoRow
  <2>1. Column(risk, "value") = Null
    BY <1>4 DEF Column, NoRow
  <2> QED
    BY <1>2, <2>1 DEF Exposure
<1> QED
  BY <1>3, <1>4

\* A cell has at most one oldest bucket.
LEMMA OneBucket ==
    ASSUME NEW v \in DOMAIN Stock, NEW r, NEW x \in AgeingOf(Stock[v], r), NEW y \in AgeingOf(Stock[v], r)
    PROVE  x = y
<1> DEFINE buckets == {z.bucket : z \in Using(Stock[v].ageing, r)}
<1>1. buckets \subseteq 1 .. 5
  BY ColumnAssumption DEF Using
<1>2. PICK k \in buckets : x = [bucket |-> k] /\ \A m \in buckets : BucketText[k] <= BucketText[m]
  BY DEF AgeingOf
<1>3. PICK l \in buckets : y = [bucket |-> l] /\ \A m \in buckets : BucketText[l] <= BucketText[m]
  BY DEF AgeingOf
<1>4. \A m \in 1 .. 5 : BucketText[m] = CASE m = 1 -> 1 [] m = 2 -> 3 [] m = 3 -> 4 [] m = 4 -> 5 [] OTHER -> 2
  BY DEF BucketText
<1>5. k \in 1 .. 5 /\ l \in 1 .. 5 /\ BucketText[k] <= BucketText[l] /\ BucketText[l] <= BucketText[k]
  BY <1>1, <1>2, <1>3
<1>6. k = l
  BY <1>4, <1>5
<1> QED
  BY <1>2, <1>3, <1>6

\* Stock Health joins the ageing and the risk of a row: one of each at most.
LEMMA HealthPage ==
    ASSUME NEW v \in DOMAIN Stock, NEW rows \in SUBSET Stock[v].health
    PROVE  LET b == Stock[v] IN
           \E f : /\ {[row |-> p[1][1], value |-> Exposure(b, p[1][1], p[2]), class |-> p[1][1].class] :
                        p \in LeftJoin(LeftJoin(rows, LAMBDA r : AgeingOf(b, r)),
                                       LAMBDA p : Using(b.risk, p[1]))} = {f[r] : r \in rows}
                  /\ \A r \in rows : f[r].row = r /\ f[r].value \in Int
<1> DEFINE b == Stock[v]
           A == [r \in rows |-> AgeingOf(b, r)]
           J == LeftJoin(rows, LAMBDA r : AgeingOf(b, r))
           R == [p \in J |-> Using(b.risk, p[1])]
           K == LeftJoin(J, LAMBDA p : Using(b.risk, p[1]))
           At(p) == [row |-> p[1][1], value |-> Exposure(b, p[1][1], p[2]), class |-> p[1][1].class]
<1>1. PICK g : J = {g[r] : r \in rows} /\ \A r \in rows : g[r] = <<r, g[r][2]>>
  <2>1. \A r \in rows : \A x, y \in A[r] : x = y
    BY OneBucket
  <2>2. J = UNION {{<<r, x>> : x \in IF A[r] = {} THEN {NoRow} ELSE A[r]} : r \in rows}
    BY DEF LeftJoin
  <2>3. PICK T : T = A
    OBVIOUS
  <2> HIDE DEF A, J
  <2>4. (\A r \in rows : \A x, y \in T[r] : x = y)
        /\ J = UNION {{<<r, x>> : x \in IF T[r] = {} THEN {NoRow} ELSE T[r]} : r \in rows}
    BY <2>1, <2>2, <2>3
  <2>5. \E g : J = {g[r] : r \in rows}
               /\ \A r \in rows : g[r] = <<r, g[r][2]>> /\ g[r][2] \in T[r] \cup {NoRow}
    BY <2>4, JoinsOnce
  <2> QED
    BY <2>5
<1>2. PICK h : K = {h[p] : p \in J} /\ \A p \in J : h[p] = <<p, h[p][2]>> /\ h[p][2] \in R[p] \cup {NoRow}
  <2>1. \A p \in J : \A x, y \in R[p] : x = y
    <3>1. \A x, y \in b.risk : x.node = y.node /\ x.sku = y.sku => x = y
      BY GrainAssumption
    <3> HIDE DEF J
    <3> QED
      BY <3>1 DEF Using
  <2>2. K = UNION {{<<p, x>> : x \in IF R[p] = {} THEN {NoRow} ELSE R[p]} : p \in J}
    <3> HIDE DEF J
    <3> QED
      BY DEF LeftJoin
  <2>3. PICK S, T : S = J /\ T = R
    OBVIOUS
  <2> HIDE DEF R, J, K
  <2>4. (\A p \in S : \A x, y \in T[p] : x = y)
        /\ K = UNION {{<<p, x>> : x \in IF T[p] = {} THEN {NoRow} ELSE T[p]} : p \in S}
    BY <2>1, <2>2, <2>3
  <2>5. \E h : K = {h[p] : p \in S} /\ \A p \in S : h[p] = <<p, h[p][2]>> /\ h[p][2] \in T[p] \cup {NoRow}
    BY <2>4, JoinsOnce
  <2> QED
    BY <2>3, <2>5
<1>3. \A p \in J : R[p] = Using(b.risk, p[1])
  OBVIOUS
<1> HIDE DEF J, K, R
<1> DEFINE f == [r \in rows |-> At(h[g[r]])]
<1>4. \A r \in rows : g[r] \in J /\ g[r][1] = r /\ h[g[r]][1] = g[r]
                      /\ h[g[r]][2] \in Using(b.risk, r) \cup {NoRow}
  BY <1>1, <1>2, <1>3
<1>5. \A r \in rows : f[r].row = r /\ f[r].value \in Int
  <2> SUFFICES ASSUME NEW r \in rows PROVE f[r].row = r /\ f[r].value \in Int
    OBVIOUS
  <2>1. Exposure(b, r, h[g[r]][2]) \in Int
    BY <1>4, ExposureIs
  <2> QED
    BY <1>4, <2>1
<1>6. {At(p) : p \in K} = {f[r] : r \in rows}
  BY <1>1, <1>2
<1> QED
  BY <1>5, <1>6 DEF K, J

\* A page has one row for each row of its scope, with the money of that row.
LEMMA PageIsImage ==
    ASSUME NEW v \in DOMAIN Stock, NEW screen \in ScreenNames, NEW q
    PROVE  \E f :
             /\ PageRows(Stock[v], screen, q) = {f[r] : r \in Scope(Stock[v], screen, q)}
             /\ \A r \in Scope(Stock[v], screen, q) :
                  /\ f[r].row = r
                  /\ IF screen = "health" THEN f[r].value \in Int
                     ELSE f[r].value = RowValue(Stock[v], Table(screen), r)
<1> DEFINE b == Stock[v]
           rows == Scope(b, screen, q)
           table == Table(screen)
           At(r, value, class) == [row |-> r, value |-> value, class |-> class]
           Class(r) == IF table = "recommendations"
                       THEN {h.class : h \in Using(b.health, r)} ELSE {}
<1>0. table = "health" <=> screen = "health"
  BY DEF Table, ScreenNames
<1>1. CASE screen = "health"
  <2>1. rows \in SUBSET b.health
    BY <1>1, <1>0, ScopeIs
  <2>2. PageRows(b, screen, q)
          = {[row |-> p[1][1], value |-> Exposure(b, p[1][1], p[2]), class |-> p[1][1].class] :
               p \in LeftJoin(LeftJoin(rows, LAMBDA r : AgeingOf(b, r)),
                              LAMBDA p : Using(b.risk, p[1]))}
    BY <1>0, <1>1 DEF PageRows
  <2>3. PICK S : S = rows
    OBVIOUS
  <2> HIDE DEF rows
  <2>4. \E f : /\ {[row |-> p[1][1], value |-> Exposure(b, p[1][1], p[2]), class |-> p[1][1].class] :
                        p \in LeftJoin(LeftJoin(S, LAMBDA r : AgeingOf(b, r)),
                                       LAMBDA p : Using(b.risk, p[1]))} = {f[r] : r \in S}
               /\ \A r \in S : f[r].row = r /\ f[r].value \in Int
    BY <2>1, <2>3, HealthPage
  <2>5. \E f : PageRows(b, screen, q) = {f[r] : r \in rows}
               /\ \A r \in rows : f[r].row = r /\ f[r].value \in Int
    BY <2>2, <2>3, <2>4
  <2> QED
    BY <1>1, <2>5 DEF rows
<1>2. CASE screen # "health"
  <2> DEFINE f == [r \in rows |-> At(r, RowValue(b, table, r), Class(r))]
  <2>1. PageRows(b, screen, q) = {At(r, RowValue(b, table, r), Class(r)) : r \in rows}
    BY <1>0, <1>2 DEF PageRows
  <2>2. {At(r, RowValue(b, table, r), Class(r)) : r \in rows} = {f[r] : r \in rows}
    OBVIOUS
  <2>3. \A r \in rows : f[r].row = r /\ f[r].value = RowValue(b, table, r)
    OBVIOUS
  <2> HIDE DEF f
  <2> QED
    BY <1>2, <2>1, <2>2, <2>3
<1> QED
  BY <1>1, <1>2

\* Columns of ORDER BY are integers: NULLS LAST,
LEMMA DescIs == \A n \in Int : Desc(n) \in Int
  BY DEF Desc

\* and the ranks of the classes.
LEMMA RanksAre ==
    \A class : Urgency(class) \in Int /\ HealthRank(class) \in Int
  BY DEF Urgency, HealthRank

\* ORDER BY compares tuples of integers, and no two rows of a page have the same key,
\* save where the key leaves the channel of an exception out.
LEMMA RankOfRow ==
    ASSUME NEW v \in DOMAIN Stock, NEW screen \in ScreenNames, NEW rows \in SUBSET Stock[v][Table(screen)],
           NEW f, \A r \in rows : f[r].row = r /\ (screen = "health" => f[r].value \in Int)
    PROVE  /\ \E n \in Nat : \A r \in rows : Ranking(screen, f[r]) \in [1 .. n -> Int]
           /\ screen # "exceptions" =>
                \A r, s \in rows : Ranking(screen, f[r]) = Ranking(screen, f[s]) => r = s
<1> DEFINE b == Stock[v]
<1>1. CASE screen \in {"overview", "stores", "warehouses"}
  <2>1. rows \subseteq b.positions
    BY <1>1 DEF Table
  <2>2. \A r \in rows : /\ r.market \in Int /\ r.node \in Int /\ r.sku \in Int /\ r.onHand \in Nat
                        /\ -r.onHand \in Int
    <3>1. \A r \in rows : r.market \in Int /\ r.node \in Int /\ r.sku \in Int /\ r.onHand \in Nat
      BY <2>1, ColumnAssumption
    <3> QED
      BY <3>1
  <2>3. \A r, s \in rows : r.node = s.node /\ r.sku = s.sku => r = s
    BY <2>1, GrainAssumption
  <2>4. \A r \in rows : Ranking(screen, f[r]) = <<-r.onHand, r.market, r.node, r.sku>>
    BY <1>1 DEF Ranking, Table
  <2>5. \A r \in rows : Ranking(screen, f[r]) \in [1 .. 4 -> Int]
    BY <2>2, <2>4, KeyTuples
  <2>6. \A r, s \in rows : Ranking(screen, f[r]) = Ranking(screen, f[s]) => r = s
    BY <2>3, <2>4
  <2> QED
    BY <2>5, <2>6
<1>2. CASE screen = "ageing"
  <2>1. rows \subseteq b.ageing
    BY <1>2 DEF Table
  <2>2. \A r \in rows : /\ r.market \in Int /\ r.node \in Int /\ r.sku \in Int
                        /\ -r.bucket \in Int /\ -r.onHand \in Int /\ r.bucket \in Int
    <3>1. \A r \in rows : /\ r.market \in Int /\ r.node \in Int /\ r.sku \in Int
                          /\ r.bucket \in 1 .. 5 /\ r.onHand \in Int
      BY <2>1, ColumnAssumption
    <3> QED
      BY <3>1
  <2>3. \A r, s \in rows : r.node = s.node /\ r.sku = s.sku /\ r.bucket = s.bucket => r = s
    BY <2>1, GrainAssumption
  <2>4. \A r \in rows : Ranking(screen, f[r]) = <<-r.bucket, -r.onHand, r.market, r.node, r.sku>>
    BY <1>2 DEF Ranking, Table
  <2>5. \A r \in rows : Ranking(screen, f[r]) \in [1 .. 5 -> Int]
    BY <2>2, <2>4, KeyTuples
  <2>6. \A r, s \in rows : Ranking(screen, f[r]) = Ranking(screen, f[s]) => r = s
    <3> SUFFICES ASSUME NEW r \in rows, NEW s \in rows, Ranking(screen, f[r]) = Ranking(screen, f[s])
                 PROVE  r = s
      OBVIOUS
    <3>1. <<-r.bucket, -r.onHand, r.market, r.node, r.sku>>
            = <<-s.bucket, -s.onHand, s.market, s.node, s.sku>>
      BY <2>4
    <3>2. -r.bucket = -s.bucket /\ r.node = s.node /\ r.sku = s.sku
      BY <3>1
    <3>3. r.bucket \in Int /\ s.bucket \in Int
      BY <2>2
    <3>4. r.bucket = s.bucket
      BY <3>2, <3>3
    <3> QED
      BY <2>3, <3>2, <3>4
  <2> QED
    BY <2>5, <2>6
<1>3. CASE screen = "transfers"
  <2>1. rows \subseteq b.transfers
    BY <1>3 DEF Table
  <2>2. \A r \in rows : /\ r.market \in Int /\ r.lane \in Int /\ r.sku \in Int
                        /\ Desc(r.benefit) \in Int /\ -r.units \in Int
    <3>1. \A r \in rows : /\ r.market \in Int /\ r.lane \in Int /\ r.sku \in Int
                          /\ r.benefit \in Int /\ r.units \in Int
      BY <2>1, ColumnAssumption
    <3> QED
      BY <3>1, DescIs
  <2>3. \A r, s \in rows : r.market = s.market /\ r.lane = s.lane /\ r.sku = s.sku => r = s
    BY <2>1, GrainAssumption
  <2>4. \A r \in rows : Ranking(screen, f[r]) = <<Desc(r.benefit), -r.units, r.market, r.lane, r.sku>>
    BY <1>3 DEF Ranking, Table
  <2>5. \A r \in rows : Ranking(screen, f[r]) \in [1 .. 5 -> Int]
    BY <2>2, <2>4, KeyTuples
  <2>6. \A r, s \in rows : Ranking(screen, f[r]) = Ranking(screen, f[s]) => r = s
    BY <2>3, <2>4
  <2> QED
    BY <2>5, <2>6
<1>4. CASE screen = "valuation"
  <2>1. rows \subseteq b.valuation
    BY <1>4 DEF Table
  <2>2. \A r \in rows : /\ r.market \in Int /\ r.node \in Int /\ r.category \in Int
                        /\ Desc(r.gross) \in Int
    <3>1. \A r \in rows : /\ r.market \in Int /\ r.node \in Int /\ r.category \in Int
                          /\ r.gross \in Int
      BY <2>1, ColumnAssumption
    <3> QED
      BY <3>1, DescIs
  <2>3. \A r, s \in rows : r.node = s.node /\ r.category = s.category => r = s
    BY <2>1, GrainAssumption
  <2>4. \A r \in rows : Ranking(screen, f[r]) = <<Desc(r.gross), r.market, r.node, r.category>>
    BY <1>4 DEF Ranking, Table
  <2>5. \A r \in rows : Ranking(screen, f[r]) \in [1 .. 4 -> Int]
    BY <2>2, <2>4, KeyTuples
  <2>6. \A r, s \in rows : Ranking(screen, f[r]) = Ranking(screen, f[s]) => r = s
    BY <2>3, <2>4
  <2> QED
    BY <2>5, <2>6
<1>5. CASE screen = "waste"
  <2>1. rows \subseteq b.waste
    BY <1>5 DEF Table
  <2>2. \A r \in rows : /\ r.market \in Int /\ r.node \in Int /\ r.sku \in Int
                        /\ Desc(r.exposure) \in Int /\ -r.expiring \in Int
    <3>1. \A r \in rows : /\ r.market \in Int /\ r.node \in Int /\ r.sku \in Int
                          /\ r.exposure \in Int /\ r.expiring \in Int
      BY <2>1, ColumnAssumption
    <3> QED
      BY <3>1, DescIs
  <2>3. \A r, s \in rows : r.node = s.node /\ r.sku = s.sku => r = s
    BY <2>1, GrainAssumption
  <2>4. \A r \in rows :
          Ranking(screen, f[r]) = <<Desc(r.exposure), -r.expiring, r.market, r.node, r.sku>>
    BY <1>5 DEF Ranking, Table
  <2>5. \A r \in rows : Ranking(screen, f[r]) \in [1 .. 5 -> Int]
    BY <2>2, <2>4, KeyTuples
  <2>6. \A r, s \in rows : Ranking(screen, f[r]) = Ranking(screen, f[s]) => r = s
    BY <2>3, <2>4
  <2> QED
    BY <2>5, <2>6
<1>6. CASE screen = "health"
  <2>1. rows \subseteq b.health
    BY <1>6 DEF Table
  <2>2. \A r \in rows : /\ r.market \in Int /\ r.node \in Int /\ r.sku \in Int /\ r.cover \in Int
                        /\ Desc(f[r].value) \in Int /\ HealthRank(r.class) \in Int
    <3>1. \A r \in rows : r.market \in Int /\ r.node \in Int /\ r.sku \in Int /\ r.cover \in Int
      BY <2>1, ColumnAssumption
    <3> QED
      BY <1>6, <3>1, DescIs, RanksAre
  <2>3. \A r, s \in rows : r.node = s.node /\ r.sku = s.sku => r = s
    BY <2>1, GrainAssumption
  <2>4. \A r \in rows :
          Ranking(screen, f[r])
            = <<Desc(f[r].value), HealthRank(r.class), r.cover, r.market, r.node, r.sku>>
    BY <1>6 DEF Ranking, Table
  <2>5. \A r \in rows : Ranking(screen, f[r]) \in [1 .. 6 -> Int]
    <3> SUFFICES ASSUME NEW r \in rows PROVE Ranking(screen, f[r]) \in [1 .. 6 -> Int]
      OBVIOUS
    <3>1. PICK x, y : x = Desc(f[r].value) /\ y = HealthRank(r.class)
      OBVIOUS
    <3>2. <<x, y, r.cover, r.market, r.node, r.sku>> \in [1 .. 6 -> Int]
      BY <2>2, <3>1, KeyTuples
    <3> QED
      BY <2>4, <3>1, <3>2
  <2>6. \A r, s \in rows : Ranking(screen, f[r]) = Ranking(screen, f[s]) => r = s
    BY <2>3, <2>4
  <2> QED
    BY <2>5, <2>6
<1>7. CASE screen \in {"planner", "orders"}
  <2>1. rows \subseteq b.recommendations
    BY <1>7 DEF Table
  <2>2. \A r \in rows : /\ r.market \in Int /\ r.node \in Int /\ r.sku \in Int
                        /\ Urgency(f[r].class) \in Int /\ Desc(r.units) \in Int
    <3>1. \A r \in rows : r.market \in Int /\ r.node \in Int /\ r.sku \in Int /\ r.units \in Int
      BY <2>1, ColumnAssumption
    <3> QED
      BY <3>1, DescIs, RanksAre
  <2>3. \A r, s \in rows : r.node = s.node /\ r.sku = s.sku => r = s
    BY <2>1, GrainAssumption
  <2>4. \A r \in rows :
          Ranking(screen, f[r]) = <<Urgency(f[r].class), Desc(r.units), r.market, r.node, r.sku>>
    BY <1>7 DEF Ranking, Table
  <2>5. \A r \in rows : Ranking(screen, f[r]) \in [1 .. 5 -> Int]
    BY <2>2, <2>4, KeyTuples
  <2>6. \A r, s \in rows : Ranking(screen, f[r]) = Ranking(screen, f[s]) => r = s
    BY <2>3, <2>4
  <2> QED
    BY <2>5, <2>6
<1>8. CASE screen = "suppliers"
  <2>1. rows \subseteq b.suppliers
    BY <1>8 DEF Table
  <2>2. \A r \in rows : r.market \in Int /\ r.supplier \in Int /\ r.risk \in Int /\ r.onTime \in Int
    BY <2>1, ColumnAssumption
  <2>3. \A r, s \in rows : r.market = s.market /\ r.supplier = s.supplier => r = s
    BY <2>1, GrainAssumption
  <2>4. \A r \in rows : Ranking(screen, f[r]) = <<r.risk, r.onTime, r.market, r.supplier>>
    BY <1>8 DEF Ranking, Table
  <2>5. \A r \in rows : Ranking(screen, f[r]) \in [1 .. 4 -> Int]
    BY <2>2, <2>4, KeyTuples
  <2>6. \A r, s \in rows : Ranking(screen, f[r]) = Ranking(screen, f[s]) => r = s
    BY <2>3, <2>4
  <2> QED
    BY <2>5, <2>6
<1>9. CASE screen = "buffers"
  <2>1. rows \subseteq b.buffers
    BY <1>9 DEF Table
  <2>2. \A r \in rows : /\ r.market \in Int /\ r.node \in Int /\ r.sku \in Int
                        /\ r.abc \in Int /\ Desc(r.units) \in Int
    <3>1. \A r \in rows : /\ r.market \in Int /\ r.node \in Int /\ r.sku \in Int
                          /\ r.abc \in Int /\ r.units \in Int
      BY <2>1, ColumnAssumption
    <3> QED
      BY <3>1, DescIs
  <2>3. \A r, s \in rows : r.node = s.node /\ r.sku = s.sku => r = s
    BY <2>1, GrainAssumption
  <2>4. \A r \in rows : Ranking(screen, f[r]) = <<r.abc, Desc(r.units), r.market, r.node, r.sku>>
    BY <1>9 DEF Ranking, Table
  <2>5. \A r \in rows : Ranking(screen, f[r]) \in [1 .. 5 -> Int]
    BY <2>2, <2>4, KeyTuples
  <2>6. \A r, s \in rows : Ranking(screen, f[r]) = Ranking(screen, f[s]) => r = s
    BY <2>3, <2>4
  <2> QED
    BY <2>5, <2>6
<1>10. CASE screen = "allocations"
  <2>1. rows \subseteq b.allocations
    BY <1>10 DEF Table
  <2>2. \A r \in rows : /\ r.market \in Int /\ r.node \in Int /\ r.sku \in Int /\ r.channel \in Int
                        /\ r.allocated - r.requested \in Int /\ -r.requested \in Int
    <3>1. \A r \in rows : /\ r.market \in Int /\ r.node \in Int /\ r.sku \in Int /\ r.channel \in Int
                          /\ r.allocated \in Int /\ r.requested \in Int
      BY <2>1, ColumnAssumption
    <3> QED
      BY <3>1
  <2>3. \A r, s \in rows : r.node = s.node /\ r.channel = s.channel /\ r.sku = s.sku => r = s
    BY <2>1, GrainAssumption
  <2>4. \A r \in rows :
          Ranking(screen, f[r])
            = <<r.allocated - r.requested, -r.requested, r.market, r.node, r.channel, r.sku>>
    BY <1>10 DEF Ranking, Table
  <2>5. \A r \in rows : Ranking(screen, f[r]) \in [1 .. 6 -> Int]
    BY <2>2, <2>4, KeyTuples
  <2>6. \A r, s \in rows : Ranking(screen, f[r]) = Ranking(screen, f[s]) => r = s
    BY <2>3, <2>4
  <2> QED
    BY <2>5, <2>6
<1>11. CASE screen = "exceptions"
  <2>1. rows \subseteq b.exceptions
    BY <1>11 DEF Table
  <2>2. \A r \in rows : /\ r.market \in Int /\ r.node \in Int /\ r.sku \in Int
                        /\ r.severity \in Int /\ r.class \in Int
    BY <2>1, ColumnAssumption
  <2>4. \A r \in rows : Ranking(screen, f[r]) = <<r.severity, r.class, r.market, r.node, r.sku>>
    BY <1>11 DEF Ranking, Table
  <2>5. \A r \in rows : Ranking(screen, f[r]) \in [1 .. 5 -> Int]
    BY <2>2, <2>4, KeyTuples
  <2> QED
    BY <1>11, <2>5
<1> QED
  BY <1>1, <1>2, <1>3, <1>4, <1>5, <1>6, <1>7, <1>8, <1>9, <1>10, <1>11 DEF ScreenNames

\* The list of a screen, row -> key.
RankedBy(v, screen, q) == [p \in PageRows(Stock[v], screen, q) |-> Ranking(screen, p)]

\* The list of every screen is ordered, totally except the exceptions, and has
\* one row for each row of the scope.
LEMMA PageOrdered ==
    ASSUME NEW v \in DOMAIN Stock, NEW screen \in ScreenNames, NEW q
    PROVE  LET key == RankedBy(v, screen, q) IN
           /\ Ordered(key) /\ DOMAIN key = PageRows(Stock[v], screen, q)
           /\ screen # "exceptions" => \A p, r \in DOMAIN key : key[p] = key[r] => p = r
           /\ Cardinality(DOMAIN key) = Cardinality(Scope(Stock[v], screen, q))
<1> DEFINE key == RankedBy(v, screen, q)
<1>1. PICK rows : rows = Scope(Stock[v], screen, q)
  OBVIOUS
<1>2. rows \in SUBSET Stock[v][Table(screen)] /\ IsFiniteSet(rows)
  BY <1>1, ScopeIs
<1>3. PICK f : /\ PageRows(Stock[v], screen, q) = {f[r] : r \in rows}
               /\ \A r \in rows : f[r].row = r /\ (screen = "health" => f[r].value \in Int)
  BY <1>1, PageIsImage
<1>4. /\ \E n \in Nat : \A r \in rows : Ranking(screen, f[r]) \in [1 .. n -> Int]
      /\ screen # "exceptions" =>
           \A r, s \in rows : Ranking(screen, f[r]) = Ranking(screen, f[s]) => r = s
  BY <1>2, <1>3, RankOfRow, Zenon
<1>5. PICK n \in Nat : \A r \in rows : Ranking(screen, f[r]) \in [1 .. n -> Int]
  BY <1>4
<1>6. IsFiniteSet({f[r] : r \in rows}) /\ Cardinality({f[r] : r \in rows}) = Cardinality(rows)
  <2>1. \A r, s \in rows : f[r] = f[s] => r = s
    BY <1>3
  <2> QED
    BY <1>2, <2>1, ImageIsFinite
<1>7. /\ DOMAIN key = {f[r] : r \in rows}
      /\ \A p \in DOMAIN key : key[p] = Ranking(screen, p)
  BY <1>3 DEF RankedBy
<1> HIDE DEF key
<1>8. Ordered(key)
  BY <1>5, <1>6, <1>7 DEF Ordered
<1>9. screen # "exceptions" => \A p, r \in DOMAIN key : key[p] = key[r] => p = r
  BY <1>4, <1>7
<1> QED
  BY <1>1, <1>3, <1>6, <1>7, <1>8, <1>9 DEF key

\* The fields of an inventory query.
AskFields == {"market", "node", "category", "search", "limit", "offset"}

\* Alike queries have one scope, one list and one verdict on the filter.
LEMMA ScopeOfAlike ==
    ASSUME NEW b, NEW p, NEW q, Alike(p, q), DOMAIN q = AskFields, NEW screen
    PROVE  /\ \A table : InScope(b, table, p) = InScope(b, table, q)
           /\ Scope(b, screen, p) = Scope(b, screen, q)
           /\ PageRows(b, screen, p) = PageRows(b, screen, q)
           /\ Answerable(screen, p) <=> Answerable(screen, q)
<1>1. /\ p.market = q.market /\ p.node = q.node /\ p.category = q.category /\ p.search = q.search
  BY DEF Alike, AskFields
<1>2. \A columns, r : Clauses(columns, p, r) <=> Clauses(columns, q, r)
  BY <1>1 DEF Clauses
<1>3. \A table : InScope(b, table, p) = InScope(b, table, q)
  BY <1>2 DEF InScope
<1>4. Scope(b, screen, p) = Scope(b, screen, q)
  BY <1>3 DEF Scope
<1>5. PageRows(b, screen, p) = PageRows(b, screen, q)
  BY <1>4 DEF PageRows
<1>6. Answerable(screen, p) <=> Answerable(screen, q)
  BY <1>1 DEF Answerable
<1> QED
  BY <1>3, <1>4, <1>5, <1>6

\* What the handler clamps is the page, not the selection.
LEMMA InventoryNormalizedAlike ==
    ASSUME NEW q, DOMAIN q = AskFields, NEW at \in Nat, q.limit \in Int
    PROVE  LET p == InventoryNormalized([q EXCEPT !.offset = at]) IN
           Alike(p, q) /\ p.offset = at /\ p.limit \in Nat \ {0}
<1> DEFINE o == [q EXCEPT !.offset = at]
           p == InventoryNormalized(o)
<1>1. /\ DOMAIN o = AskFields /\ o.offset = at
      /\ \A f \in AskFields \ {"offset"} : o[f] = q[f]
  BY DEF AskFields
<1> HIDE DEF o
<1>2. /\ DOMAIN p = AskFields
      /\ p.market = o.market /\ p.node = o.node /\ p.category = o.category /\ p.search = o.search
      /\ p.offset = (IF o.offset < 0 THEN 0 ELSE o.offset)
      /\ p.limit = (IF o.limit < 1 \/ o.limit > 1000 THEN 20 ELSE o.limit)
  BY <1>1 DEF InventoryNormalized, AskFields
<1> HIDE DEF p
<1>3. o.limit = q.limit
  BY <1>1 DEF AskFields
<1>4. Alike(p, q)
  BY <1>1, <1>2 DEF Alike, AskFields
<1>5. p.offset = at /\ p.limit \in Nat \ {0}
  BY <1>1, <1>2, <1>3
<1> QED
  BY <1>4, <1>5 DEF p, o

----------------------------------------------------------------------------
(* The client that walks an inventory screen. *)

\* A walk is a record of these fields.
WholeWalk(w) ==
    w = [ask |-> w.ask, at |-> w.at, seen |-> w.seen, twice |-> w.twice, count |-> w.count,
         totals |-> w.totals, bundles |-> w.bundles, over |-> w.over, failed |-> w.failed]

\* What the walking client knows, as long as it has met one bundle.
WalkKnows(w) ==
    /\ WholeWalk(w) /\ w.at \in Nat /\ IsFiniteSet(w.bundles)
    /\ ~ w.over => w.ask \in Asks
    /\ w.bundles = {} => w.over \/ Unread(w)
    /\ w.bundles # {} => w.ask \in Asks /\ Answerable(w.ask[1], w.ask[2])
    /\ \A v : w.bundles = {v} =>
         v \in Bundle /\ Passed(RankedBy(v, w.ask[1], w.ask[2]), w.ask[1] # "exceptions", w)

\* The inductive invariant of the screens.
WalkInv == stocked \in Bundle /\ WalkKnows(walk) /\ told \in SUBSET (Bundle \X Asks)

\* It holds before the first walk,
LEMMA WalkInvInit == InventoryScreenInit => WalkInv
<1> SUFFICES ASSUME InventoryScreenInit PROVE WalkInv
  OBVIOUS
<1>1. stocked \in Bundle /\ walk = NoAsk /\ told = {}
  BY DEF InventoryScreenInit
<1>2. /\ WholeWalk(walk) /\ walk.at = 0 /\ walk.bundles = {} /\ walk.over
  BY <1>1 DEF NoAsk, WholeWalk
<1>3. WalkKnows(walk)
  BY <1>2, FS_EmptySet DEF WalkKnows
<1> QED
  BY <1>1, <1>3 DEF WalkInv

\* when a walk starts,
LEMMA WalkInvOpen ==
    ASSUME WalkInv, NEW ask \in Asks, OpenRoute(ask) PROVE WalkInv'
<1>1. walk' = [NoAsk EXCEPT !.ask = ask, !.over = FALSE] /\ stocked' = stocked /\ told' = told
  BY DEF OpenRoute
<1>2. PICK g : g = walk'
  OBVIOUS
<1>3. /\ WholeWalk(g)
      /\ g.ask = ask /\ g.at = 0 /\ g.bundles = {} /\ g.seen = {}
      /\ g.count = 0 /\ g.totals = {} /\ g.over = FALSE /\ g.twice = FALSE
  BY <1>1, <1>2 DEF NoAsk, WholeWalk
<1>4. Unread(g)
  BY <1>3 DEF Unread
<1>5. WalkKnows(g)
  BY <1>3, <1>4, FS_EmptySet DEF WalkKnows
<1>6. WalkKnows(walk)'
  BY <1>2, <1>5 DEF WalkKnows, RankedBy, Passed, WholeWalk, Unread
<1> QED
  BY <1>1, <1>6 DEF WalkInv, Bundle

\* The next page of a walk, for one rigid walk and the next.
LEMMA NextPage ==
    ASSUME NEW w, WalkKnows(w), ~ w.over, NEW v \in Bundle,
           NEW q, q = InventoryNormalized([w.ask[2] EXCEPT !.offset = w.at]),
           Answerable(w.ask[1], q),
           NEW page \in InventoryPages(Stock[v], w.ask[1], q),
           NEW total, total = CountOver(PageRows(Stock[v], w.ask[1], q), page),
           NEW g, WholeWalk(g), g.ask = w.ask, g.at = w.at + q.limit, g.seen = w.seen \cup page,
           g.twice <=> w.twice \/ page \cap w.seen # {},
           g.count = w.count + Cardinality(page), g.totals = w.totals \cup {total},
           g.bundles = w.bundles \cup {v}, g.over <=> w.at + q.limit >= total
    PROVE  WalkKnows(g)
<1> DEFINE screen == w.ask[1]
           key == RankedBy(v, screen, w.ask[2])
           exact == (screen # "exceptions")
<1>1. w.ask \in Asks /\ w.at \in Nat /\ IsFiniteSet(w.bundles) /\ WholeWalk(w)
  BY DEF WalkKnows
<1>2. screen \in ScreenNames /\ DOMAIN w.ask[2] = AskFields /\ w.ask[2].limit \in Int
  BY <1>1, AskAssumption DEF ScreenNames, AskFields
<1>3. Alike(q, w.ask[2]) /\ q.offset = w.at /\ q.limit \in Nat \ {0}
  <2>1. PICK r : r = w.ask[2]
    OBVIOUS
  <2>2. Alike(q, r) /\ q.offset = w.at /\ q.limit \in Nat \ {0}
    BY <1>1, <1>2, <2>1, InventoryNormalizedAlike
  <2> QED
    BY <2>1, <2>2
<1>4. /\ PageRows(Stock[v], screen, q) = PageRows(Stock[v], screen, w.ask[2])
      /\ Answerable(screen, w.ask[2])
  BY <1>2, <1>3, ScopeOfAlike
<1>5. /\ Ordered(key) /\ DOMAIN key = PageRows(Stock[v], screen, q)
      /\ exact => \A r, s \in DOMAIN key : key[r] = key[s] => r = s
  BY <1>2, <1>4, PageOrdered DEF Bundle
<1>6. page \in Windows(key, w.at, q.limit)
  BY <1>3, <1>4 DEF InventoryPages, RankedBy
<1>7. total = CountOver(DOMAIN key, page)
  BY <1>5
<1>8. ASSUME NEW u, g.bundles = {u} PROVE u = v /\ Passed(key, exact, g)
  <2>1. u = v /\ (w.bundles = {} \/ w.bundles = {v})
    BY <1>8
  <2>2. Unread(w) \/ (Passed(key, exact, w) /\ ~ w.over)
    BY <2>1 DEF WalkKnows
  <2>3. exact \in BOOLEAN
    OBVIOUS
  <2>4. PICK k, e, l : k = key /\ e = exact /\ l = q.limit
    OBVIOUS
  <2>5. g.over <=> w.at + l >= CountOver(DOMAIN k, page)
    BY <1>7, <2>4, Zenon
  <2> HIDE DEF key, exact, screen
  <2>6. /\ Ordered(k) /\ e \in BOOLEAN /\ l \in Nat \ {0}
        /\ e => \A r, s \in DOMAIN k : k[r] = k[s] => r = s
        /\ Unread(w) \/ (Passed(k, e, w) /\ ~ w.over)
        /\ page \in Windows(k, w.at, l)
    BY <1>3, <1>5, <1>6, <2>2, <2>3, <2>4
  <2>7. /\ g.at = w.at + l /\ g.seen = w.seen \cup page
        /\ (g.twice <=> w.twice \/ page \cap w.seen # {})
        /\ g.count = w.count + Cardinality(page)
        /\ g.totals = w.totals \cup {CountOver(DOMAIN k, page)}
    BY <1>7, <2>4
  <2>8. Passed(k, e, g)
    BY <2>5, <2>6, <2>7, PassedGrows
  <2> QED
    BY <2>1, <2>4, <2>8
<1>9. g.at \in Nat /\ IsFiniteSet(g.bundles) /\ g.bundles # {}
  BY <1>1, <1>3, FS_AddElement
<1>10. g.ask \in Asks /\ Answerable(g.ask[1], g.ask[2])
  BY <1>1, <1>4
<1>11. \A u : g.bundles = {u} =>
         u \in Bundle /\ Passed(RankedBy(u, g.ask[1], g.ask[2]), g.ask[1] # "exceptions", g)
  BY <1>8
<1> HIDE DEF key, exact, screen
<1> QED
  BY <1>9, <1>10, <1>11 DEF WalkKnows

\* after each page,
LEMMA WalkInvLeaf ==
    ASSUME WalkInv, Leaf PROVE WalkInv'
<1>1. PICK w, s : w = walk /\ s = stocked
  OBVIOUS
<1>2. ~ w.over /\ stocked' = s /\ s \in Bundle /\ WalkKnows(w) /\ told \in SUBSET (Bundle \X Asks)
  BY <1>1 DEF Leaf, WalkInv
<1>3. PICK q : q = InventoryNormalized([w.ask[2] EXCEPT !.offset = w.at])
  OBVIOUS
<1>4. w.ask \in Asks /\ w.at \in Nat
  BY <1>2 DEF WalkKnows
<1>5. Answerable(w.ask[1], q) <=> Answerable(w.ask[1], w.ask[2])
  <2>1. PICK r, n : r = w.ask[2] /\ n = w.ask[1]
    OBVIOUS
  <2>2. DOMAIN r = AskFields /\ r.limit \in Int
    BY <1>4, <2>1, AskAssumption DEF AskFields
  <2>3. Alike(q, r)
    BY <1>3, <1>4, <2>1, <2>2, InventoryNormalizedAlike
  <2>4. Answerable(n, q) <=> Answerable(n, r)
    BY <2>2, <2>3, ScopeOfAlike
  <2> QED
    BY <2>1, <2>4
<1>6. CASE ~ Answerable(w.ask[1], q)
  <2>1. PICK g : g = walk'
    OBVIOUS
  <2>2. g = [w EXCEPT !.over = TRUE, !.failed = TRUE] /\ told' = told
    BY <1>1, <1>3, <1>6, <2>1 DEF Leaf
  <2>3. WholeWalk(w) /\ w.bundles = {}
    BY <1>2, <1>5, <1>6 DEF WalkKnows
  <2>4. WholeWalk(g) /\ g.over /\ g.bundles = {} /\ g.at = w.at
    BY <2>2, <2>3 DEF WholeWalk
  <2>5. WalkKnows(g)
    BY <1>4, <2>4, FS_EmptySet DEF WalkKnows
  <2>6. WalkKnows(walk)'
    BY <2>1, <2>5 DEF WalkKnows, RankedBy, Passed, WholeWalk, Unread
  <2> QED
    BY <1>2, <2>2, <2>6 DEF WalkInv, Bundle
<1>7. CASE Answerable(w.ask[1], q)
  <2>1. PICK page \in InventoryPages(Stock[s], w.ask[1], q) :
          walk' = [w EXCEPT !.at = @ + q.limit,
                            !.seen = @ \cup page,
                            !.twice = @ \/ page \cap w.seen # {},
                            !.count = @ + Cardinality(page),
                            !.totals = @ \cup {CountOver(PageRows(Stock[s], w.ask[1], q), page)},
                            !.bundles = @ \cup {s},
                            !.over = w.at + q.limit >= CountOver(PageRows(Stock[s], w.ask[1], q), page)]
    BY <1>1, <1>3, <1>7 DEF Leaf
  <2>2. told' = told \cup {<<s, w.ask>>}
    BY <1>1, <1>3, <1>7 DEF Leaf
  <2>3. PICK g, total, size : g = walk' /\ size = Cardinality(page)
                              /\ total = CountOver(PageRows(Stock[s], w.ask[1], q), page)
    OBVIOUS
  <2> DEFINE a == (w.twice \/ page \cap w.seen # {})
             c == (w.at + q.limit >= total)
  <2>4. g = [w EXCEPT !.at = @ + q.limit, !.seen = @ \cup page, !.twice = a, !.count = @ + size,
                      !.totals = @ \cup {total}, !.bundles = @ \cup {s}, !.over = c]
    BY <2>1, <2>3
  <2>5. (a <=> w.twice \/ page \cap w.seen # {}) /\ (c <=> w.at + q.limit >= total)
    OBVIOUS
  <2> HIDE DEF a, c
  <2>6. WholeWalk(w)
    BY <1>2 DEF WalkKnows
  <2>7. g = [ask |-> w.ask, at |-> w.at + q.limit, seen |-> w.seen \cup page, twice |-> a,
             count |-> w.count + size, totals |-> w.totals \cup {total},
             bundles |-> w.bundles \cup {s}, over |-> c, failed |-> w.failed]
    BY <2>4, <2>6 DEF WholeWalk
  <2>8. /\ WholeWalk(g) /\ g.ask = w.ask /\ g.at = w.at + q.limit /\ g.seen = w.seen \cup page
        /\ g.count = w.count + size /\ g.totals = w.totals \cup {total}
        /\ g.bundles = w.bundles \cup {s} /\ g.over = c /\ g.twice = a
    BY <2>7 DEF WholeWalk
  <2>9. (g.over <=> w.at + q.limit >= total) /\ (g.twice <=> w.twice \/ page \cap w.seen # {})
    BY <2>5, <2>8, Zenon
  <2>10. WalkKnows(g)
    BY <1>2, <1>3, <1>7, <2>3, <2>8, <2>9, NextPage
  <2>11. WalkKnows(walk)'
    BY <2>3, <2>10 DEF WalkKnows, RankedBy, Passed, WholeWalk, Unread
  <2> QED
    BY <1>2, <1>4, <2>2, <2>11 DEF WalkInv, Bundle
<1> QED
  BY <1>6, <1>7

\* and so after every step.
LEMMA WalkInvStep == WalkInv /\ [InventoryScreenNext]_inventoryScreenVars => WalkInv'
<1> SUFFICES ASSUME WalkInv, [InventoryScreenNext]_inventoryScreenVars PROVE WalkInv'
  OBVIOUS
<1>1. ASSUME walk' = walk, told' = told, stocked' \in Bundle PROVE WalkInv'
  <2>1. WalkKnows(walk)'
    BY <1>1 DEF WalkInv, WalkKnows, RankedBy, Passed, WholeWalk, Unread
  <2> QED
    BY <1>1, <2>1 DEF WalkInv, Bundle
<1>2. CASE \E ask \in Asks : OpenRoute(ask)
  BY <1>2, WalkInvOpen
<1>3. CASE Leaf
  BY <1>3, WalkInvLeaf
<1>4. CASE \E v \in Bundle : Restock(v)
  BY <1>1, <1>4 DEF Restock
<1>5. CASE UNCHANGED inventoryScreenVars
  BY <1>1, <1>5 DEF inventoryScreenVars, WalkInv
<1> QED
  BY <1>2, <1>3, <1>4, <1>5 DEF InventoryScreenNext

----------------------------------------------------------------------------
(* Tiles are the rows under them. *)

\* A sum that skips NULL, over the rows of a page and over the rows of its table.
Skipping(F) == SumFunction([x \in {x \in DOMAIN F : F[x] # Null} |-> F[x]])

\* Summing over the rows of a page is summing over what they stand for,
LEMMA SkippingImage ==
    ASSUME NEW F, IsFiniteSet(DOMAIN F), \A x \in DOMAIN F : F[x] \in Int,
           NEW f, \A x, y \in DOMAIN F : f[x] = f[y] => x = y,
           NEW G, DOMAIN G = {f[x] : x \in DOMAIN F}, \A x \in DOMAIN F : G[f[x]] = F[x]
    PROVE  Skipping(G) = Skipping(F)
<1>1. PICK H : H = [x \in {x \in DOMAIN F : F[x] # Null} |-> F[x]]
  OBVIOUS
<1>2. PICK K : K = [x \in {x \in DOMAIN G : G[x] # Null} |-> G[x]]
  OBVIOUS
<1>3. DOMAIN H \in SUBSET DOMAIN F /\ \A x \in DOMAIN H : H[x] = F[x] /\ H[x] \in Int
  BY <1>1
<1>4. IsFiniteSet(DOMAIN H)
  BY <1>3, FS_Subset
<1>5. DOMAIN K = {f[x] : x \in DOMAIN H} /\ \A x \in DOMAIN H : K[f[x]] = H[x]
  <2>1. /\ \A x \in DOMAIN F : x \in DOMAIN H <=> F[x] # Null
        /\ \A y \in DOMAIN G : y \in DOMAIN K <=> G[y] # Null
        /\ DOMAIN H \subseteq DOMAIN F /\ DOMAIN K \subseteq DOMAIN G
    BY <1>1, <1>2
  <2>2. DOMAIN K = {f[x] : x \in DOMAIN H}
    BY <2>1
  <2>3. \A x \in DOMAIN H : K[f[x]] = H[x]
    BY <1>2, <1>3, <2>1
  <2> QED
    BY <2>2, <2>3
<1>6. \A x, y \in DOMAIN H : f[x] = f[y] => x = y
  BY <1>3
<1>7. SumFunction(K) = SumFunction(H)
  BY <1>3, <1>4, <1>5, <1>6, SumImage
<1> QED
  BY <1>1, <1>2, <1>7 DEF Skipping

\* What is summed without NULL is summed with the worth of every row.
Worth(F) == [x \in DOMAIN F |-> IF F[x] = Null THEN 0 ELSE F[x]]

\* as a sum of what each row is worth.
LEMMA SkippingIs ==
    ASSUME NEW F, IsFiniteSet(DOMAIN F), \A x \in DOMAIN F : F[x] \in Int
    PROVE  Skipping(F) = Sigma(Worth(F), DOMAIN F) /\ Skipping(F) \in Int
<1>1. PICK H : H = [x \in {x \in DOMAIN F : F[x] # Null} |-> F[x]]
  OBVIOUS
<1>2. PICK W : W = Worth(F)
  OBVIOUS
<1>3. PICK A, B : A = {x \in DOMAIN F : F[x] # Null} /\ B = {x \in DOMAIN F : F[x] = Null}
  OBVIOUS
<1>4. /\ A \in SUBSET DOMAIN F /\ B \in SUBSET DOMAIN F /\ A \cap B = {} /\ A \cup B = DOMAIN F
      /\ DOMAIN H = A /\ \A x \in A : H[x] = W[x]
      /\ \A x \in B : W[x] = 0
      /\ \A x \in DOMAIN F : W[x] \in Int
  BY <1>1, <1>2, <1>3 DEF Worth
<1>5. IsFiniteSet(A) /\ IsFiniteSet(B)
  BY <1>4, FS_Subset
<1>6. Sigma(W, A \cup B) = Sigma(W, A) + Sigma(W, B)
  BY <1>4, SigmaUnion
<1>7. Sigma(W, B) = 0
  BY <1>4, <1>5, SigmaZero
<1>8. Sigma(H, A) = Sigma(W, A) /\ Sigma(W, A) \in Int
  BY <1>4, <1>5, SigmaSame, SigmaType
<1>9. Skipping(F) = Sigma(H, A)
  BY <1>1, <1>4, SumFunctionIs DEF Skipping
<1> QED
  BY <1>2, <1>4, <1>6, <1>7, <1>8, <1>9

\* The joined cells of a position: one for each.
LEMMA NeedJoin ==
    ASSUME NEW b, NEW rows
    PROVE  \E f : /\ LeftJoin(rows, LAMBDA r : Need(b, r)) = {f[r] : r \in rows}
                  /\ \A r \in rows : f[r] = <<r, f[r][2]>> /\ f[r][2] \in Need(b, r) \cup {NoRow}
<1>1. PICK T : T = [r \in rows |-> Need(b, r)]
  OBVIOUS
<1>2. \A r \in rows : \A x, y \in T[r] : x = y
  BY <1>1 DEF Need
<1>3. LeftJoin(rows, LAMBDA r : Need(b, r))
        = UNION {{<<r, x>> : x \in IF T[r] = {} THEN {NoRow} ELSE T[r]} : r \in rows}
  BY <1>1 DEF LeftJoin
<1>4. \E f : /\ UNION {{<<r, x>> : x \in IF T[r] = {} THEN {NoRow} ELSE T[r]} : r \in rows}
                  = {f[r] : r \in rows}
             /\ \A r \in rows : f[r] = <<r, f[r][2]>> /\ f[r][2] \in T[r] \cup {NoRow}
  BY <1>2, JoinsOnce
<1> QED
  BY <1>1, <1>3, <1>4

\* The cells of a tile are the rows it is given.
LEMMA CellsAreRows ==
    ASSUME NEW v \in DOMAIN Stock, NEW table \in TableNames, NEW rows, IsFiniteSet(rows)
    PROVE  Tiles(Stock[v], table, rows).cells = Cardinality(rows)
<1> DEFINE b == Stock[v]
<1>1. CASE table = "positions"
  <2>1. PICK f : /\ LeftJoin(rows, LAMBDA r : Need(b, r)) = {f[r] : r \in rows}
                 /\ \A r \in rows : f[r] = <<r, f[r][2]>> /\ f[r][2] \in Need(b, r) \cup {NoRow}
    BY NeedJoin
  <2>2. \A r, s \in rows : f[r] = f[s] => r = s
    BY <2>1
  <2>3. Cardinality({f[r] : r \in rows}) = Cardinality(rows)
    BY <2>2, ImageIsFinite
  <2>4. Tiles(b, table, rows).cells = Cardinality(LeftJoin(rows, LAMBDA r : Need(b, r)))
    BY <1>1 DEF Tiles, PositionTiles
  <2> QED
    BY <2>1, <2>3, <2>4
<1>2. CASE table = "recommendations"
  BY <1>2 DEF Tiles, OrderTiles
<1>3. CASE table \in TableNames \ {"positions", "recommendations"}
  BY <1>3 DEF Tiles, TableNames
<1> QED
  BY <1>1, <1>2, <1>3

\* The units of orders and transfers are those of their rows,
LEMMA UnitsAreRows ==
    ASSUME NEW v \in DOMAIN Stock, NEW table \in {"recommendations", "transfers"},
           NEW rows \in SUBSET Stock[v][table], IsFiniteSet(rows),
           NEW f, \A r \in rows : f[r].row = r
    PROVE  Tiles(Stock[v], table, rows).units = SumOf(LAMBDA p : p.row.units, {f[r] : r \in rows})
<1>1. PICK F, P : F = [r \in rows |-> r.units] /\ P = {f[r] : r \in rows}
  OBVIOUS
<1>2. PICK G : G = [p \in P |-> p.row.units]
  OBVIOUS
<1>3. \A r \in rows : r.units \in Int
  BY ColumnAssumption
<1>4. /\ DOMAIN F = rows /\ \A r \in DOMAIN F : F[r] \in Int
      /\ \A r, s \in DOMAIN F : f[r] = f[s] => r = s
      /\ DOMAIN G = {f[r] : r \in DOMAIN F} /\ \A r \in DOMAIN F : G[f[r]] = F[r]
  BY <1>1, <1>2, <1>3
<1>5. Skipping(G) = Skipping(F)
  BY <1>4, SkippingImage
<1>6. SumOf(LAMBDA p : p.row.units, P) = Skipping(G)
  BY <1>2 DEF SumOf, Sum, Skipping
<1>7. SumOf(LAMBDA r : r.units, rows) = Skipping(F)
  BY <1>1 DEF SumOf, Sum, Skipping
<1>8. SumOf(LAMBDA r : r["units"], rows) = Skipping(F)
  BY <1>1 DEF SumOf, Sum, Skipping
<1>9. CASE table = "recommendations"
  <2>1. Tiles(Stock[v], table, rows).units = SumOf(LAMBDA r : r.units, rows)
    BY <1>9 DEF Tiles, OrderTiles
  <2> QED
    BY <1>1, <1>5, <1>6, <1>7, <2>1
<1>10. CASE table = "transfers"
  <2>1. Tiles(Stock[v], table, rows).units = SumOf(LAMBDA r : r["units"], rows)
    BY <1>10 DEF Tiles
  <2> QED
    BY <1>1, <1>5, <1>6, <1>8, <2>1
<1> QED
  BY <1>9, <1>10

\* A part of a sum that skips NULL.
LEMMA SkippingPart ==
    ASSUME NEW F, IsFiniteSet(DOMAIN F), \A x \in DOMAIN F : F[x] \in Int, NEW S \in SUBSET DOMAIN F
    PROVE  SumFunction([x \in {x \in S : F[x] # Null} |-> F[x]]) = Sigma(Worth(F), S)
<1>1. PICK H, V, W : H = [x \in S |-> F[x]] /\ V = Worth(F) /\ W = Worth([x \in S |-> F[x]])
  OBVIOUS
<1>2. DOMAIN H = S /\ IsFiniteSet(S) /\ \A x \in S : H[x] \in Int
  BY <1>1, FS_Subset
<1>3. \A x \in S : V[x] = W[x] /\ V[x] \in Int
  BY <1>1 DEF Worth
<1>4. Sigma(W, S) = Sigma(V, S)
  BY <1>2, <1>3, SigmaSame
<1>5. Skipping(H) = Sigma(W, S)
  BY <1>1, <1>2, SkippingIs
<1>6. [x \in {x \in S : F[x] # Null} |-> F[x]] = [x \in {x \in DOMAIN H : H[x] # Null} |-> H[x]]
  BY <1>1
<1> QED
  BY <1>1, <1>4, <1>5, <1>6 DEF Skipping

\* and so are the units on hand,
LEMMA HeldIsRows ==
    ASSUME NEW v \in DOMAIN Stock, NEW table \in {"positions", "ageing"},
           NEW rows \in SUBSET Stock[v][table], IsFiniteSet(rows),
           NEW f, \A r \in rows : f[r].row = r
    PROVE  Tiles(Stock[v], table, rows).units = SumOf(LAMBDA p : p.row.onHand, {f[r] : r \in rows})
<1>1. PICK F, P : F = [r \in rows |-> r.onHand] /\ P = {f[r] : r \in rows}
  OBVIOUS
<1>2. PICK G : G = [p \in P |-> p.row.onHand]
  OBVIOUS
<1>3. \A r \in rows : r.onHand \in Int /\ (table = "positions" => r.onHand # Null)
  <2>1. table = "positions" => \A r \in rows : r.onHand \in Nat
    BY ColumnAssumption
  <2>2. table = "ageing" => \A r \in rows : r.onHand \in Int
    BY ColumnAssumption
  <2> QED
    BY <2>1, <2>2 DEF Null
<1>4. /\ DOMAIN F = rows /\ \A r \in DOMAIN F : F[r] \in Int
      /\ \A r, s \in DOMAIN F : f[r] = f[s] => r = s
      /\ DOMAIN G = {f[r] : r \in DOMAIN F} /\ \A r \in DOMAIN F : G[f[r]] = F[r]
  BY <1>1, <1>2, <1>3
<1>5. Skipping(G) = Skipping(F)
  BY <1>4, SkippingImage
<1>6. SumOf(LAMBDA p : p.row.onHand, P) = Skipping(G)
  BY <1>2 DEF SumOf, Sum, Skipping
<1>7. CASE table = "ageing"
  <2>1. Tiles(Stock[v], table, rows).units = SumOf(LAMBDA r : r["onHand"], rows)
    BY <1>7 DEF Tiles
  <2>2. SumOf(LAMBDA r : r["onHand"], rows) = Skipping(F)
    BY <1>1 DEF SumOf, Sum, Skipping
  <2> QED
    BY <1>1, <1>5, <1>6, <2>1, <2>2
<1>8. CASE table = "positions"
  <2>0. PICK cells : cells = LeftJoin(rows, LAMBDA r : Need(Stock[v], r))
    OBVIOUS
  <2>1. PICK g : cells = {g[r] : r \in rows} /\ \A r \in rows : g[r] = <<r, g[r][2]>>
    <3>1. \E g : /\ LeftJoin(rows, LAMBDA r : Need(Stock[v], r)) = {g[r] : r \in rows}
                 /\ \A r \in rows : g[r] = <<r, g[r][2]>> /\ g[r][2] \in Need(Stock[v], r) \cup {NoRow}
      BY NeedJoin
    <3> QED
      BY <2>0, <3>1
  <2>2. PICK K : K = [p \in cells |-> p[1].onHand]
    OBVIOUS
  <2>3. Tiles(Stock[v], table, rows).units = SumFunction(K)
    BY <1>8, <2>0, <2>2 DEF Tiles, PositionTiles, Sum
  <2>4. /\ \A r, s \in DOMAIN F : g[r] = g[s] => r = s
        /\ DOMAIN K = {g[r] : r \in DOMAIN F} /\ \A r \in DOMAIN F : K[g[r]] = F[r]
    BY <1>1, <2>1, <2>2
  <2>5. SumFunction(K) = SumFunction(F)
    BY <1>4, <2>4, SumImage
  <2>6. [x \in {x \in DOMAIN F : F[x] # Null} |-> F[x]] = F
    BY <1>1, <1>3, <1>8
  <2>7. Skipping(F) = SumFunction(F)
    BY <2>6 DEF Skipping
  <2> QED
    BY <1>1, <1>5, <1>6, <2>3, <2>5, <2>7
<1> QED
  BY <1>7, <1>8

\* and the money of what is aged, wasted, buffered, moved or valued.
LEMMA ValueIsRows ==
    ASSUME NEW v \in DOMAIN Stock,
           NEW table \in {"ageing", "waste", "buffers", "transfers", "valuation"},
           NEW rows \in SUBSET Stock[v][table], IsFiniteSet(rows),
           NEW f, \A r \in rows : f[r].row = r /\ f[r].value = RowValue(Stock[v], table, r)
    PROVE  Tiles(Stock[v], table, rows).value = SumOf(LAMBDA p : p.value, {f[r] : r \in rows})
<1>1. PICK F, P : F = [r \in rows |-> RowValue(Stock[v], table, r)] /\ P = {f[r] : r \in rows}
  OBVIOUS
<1>2. PICK G : G = [p \in P |-> p.value]
  OBVIOUS
<1>3. \A r \in rows : RowValue(Stock[v], table, r) \in Int
  BY RowValueIs
<1>4. /\ DOMAIN F = rows /\ IsFiniteSet(DOMAIN F) /\ \A r \in DOMAIN F : F[r] \in Int
      /\ \A r, s \in DOMAIN F : f[r] = f[s] => r = s
      /\ DOMAIN G = {f[r] : r \in DOMAIN F} /\ \A r \in DOMAIN F : G[f[r]] = F[r]
  BY <1>1, <1>2, <1>3
<1>5. Skipping(G) = Skipping(F)
  <2>1. PICK h : h = f
    OBVIOUS
  <2>2. /\ IsFiniteSet(DOMAIN F) /\ \A r \in DOMAIN F : F[r] \in Int
        /\ \A r, s \in DOMAIN F : h[r] = h[s] => r = s
        /\ DOMAIN G = {h[r] : r \in DOMAIN F} /\ \A r \in DOMAIN F : G[h[r]] = F[r]
    BY <1>4, <2>1
  <2> QED
    BY <2>2, SkippingImage
<1>6. SumOf(LAMBDA p : p.value, P) = Skipping(G)
  BY <1>2 DEF SumOf, Sum, Skipping
<1>7. SumOf(LAMBDA r : RowValue(Stock[v], table, r), rows) = Skipping(F)
  BY <1>1 DEF SumOf, Sum, Skipping
<1>8. Tiles(Stock[v], table, rows).value = SumOf(LAMBDA r : RowValue(Stock[v], table, r), rows)
  <2>1. CASE table = "ageing"
    BY <2>1 DEF Tiles
  <2>2. CASE table = "valuation"
    BY <2>2 DEF Tiles
  <2>3. CASE table = "transfers"
    BY <2>3 DEF Tiles
  <2>4. CASE table \in {"waste", "buffers"}
    BY <2>4 DEF Tiles
  <2> QED
    BY <2>1, <2>2, <2>3, <2>4
<1> QED
  BY <1>1, <1>5, <1>6, <1>7, <1>8

\* The money in stores and in warehouses is the money of the positions.
LEMMA KindsAreTheValue ==
    ASSUME NEW v \in DOMAIN Stock, NEW rows \in SUBSET Stock[v].positions, IsFiniteSet(rows)
    PROVE  LET tile == Tiles(Stock[v], "positions", rows) IN
           tile.stores + tile.warehouses = tile.value
<1> DEFINE b == Stock[v]
           tile == Tiles(b, "positions", rows)
<1>0. PICK cells : cells = LeftJoin(rows, LAMBDA r : Need(b, r))
  OBVIOUS
<1>1. PICK g : cells = {g[r] : r \in rows} /\ \A r \in rows : g[r] = <<r, g[r][2]>>
  <2>1. \E g : /\ LeftJoin(rows, LAMBDA r : Need(b, r)) = {g[r] : r \in rows}
               /\ \A r \in rows : g[r] = <<r, g[r][2]>> /\ g[r][2] \in Need(b, r) \cup {NoRow}
    BY NeedJoin
  <2> QED
    BY <1>0, <2>1
<1>2. PICK F : F = [p \in cells |-> Priced(b, p[1], p[1].onHand)]
  OBVIOUS
<1>3. PICK A, B : A = {p \in cells : Kind[p[1].node] \in {"store"}}
                  /\ B = {p \in cells : Kind[p[1].node] \in Warehouses}
  OBVIOUS
<1>4. IsFiniteSet(cells)
  BY <1>1, ImageIsFinite
<1>5. \A p \in cells : p[1] \in rows
  BY <1>1
<1>6. \A p \in cells : F[p] \in Int
  <2>1. \A r \in rows : r.market \in DOMAIN Rate /\ r.onHand \in Int
    BY ColumnAssumption
  <2> QED
    BY <1>2, <1>5, <2>1, PricedIs
<1>7. A \cup B = cells /\ A \cap B = {} /\ A \in SUBSET cells /\ B \in SUBSET cells
  <2>1. \A p \in cells : Kind[p[1].node] \in {"store"} \cup Warehouses
    BY <1>5, PlaceAssumption, ColumnAssumption
  <2> QED
    BY <1>3, <2>1 DEF Warehouses
<1>8. DOMAIN F = cells
  BY <1>2
<1>9. ASSUME NEW S \in SUBSET cells
      PROVE  SumOf(LAMBDA p : Priced(b, p[1], p[1].onHand), S) = Sigma(Worth(F), S)
  <2>1. SumFunction([x \in {x \in S : F[x] # Null} |-> F[x]]) = Sigma(Worth(F), S)
    BY <1>4, <1>6, <1>8, SkippingPart
  <2>2. SumOf(LAMBDA p : Priced(b, p[1], p[1].onHand), S)
          = SumFunction([x \in {x \in S : F[x] # Null} |-> F[x]])
    BY <1>2 DEF SumOf, Sum
  <2> QED
    BY <2>1, <2>2
<1>10. /\ tile.value = SumOf(LAMBDA p : Priced(b, p[1], p[1].onHand), cells)
       /\ tile.stores = SumOf(LAMBDA p : Priced(b, p[1], p[1].onHand), A)
       /\ tile.warehouses = SumOf(LAMBDA p : Priced(b, p[1], p[1].onHand), B)
  BY <1>0, <1>3 DEF Tiles, PositionTiles
<1>11. \A p \in cells : Worth(F)[p] \in Int
  BY <1>6, <1>8 DEF Worth
<1>12. Sigma(Worth(F), A \cup B) = Sigma(Worth(F), A) + Sigma(Worth(F), B)
  BY <1>4, <1>7, <1>11, SigmaUnion
<1> QED
  BY <1>7, <1>9, <1>10, <1>12

\* The sizes of two parts add up.
LEMMA CountApart ==
    ASSUME NEW S, IsFiniteSet(S), NEW A, NEW B, A \cup B = S, A \cap B = {}
    PROVE  Cardinality(S) = Cardinality(A) + Cardinality(B)
<1>1. IsFiniteSet(A) /\ IsFiniteSet(B)
  BY FS_Subset
<1>2. Cardinality(A) \in Nat /\ Cardinality(B) \in Nat /\ Cardinality(A \cap B) = 0
  BY <1>1, FS_CardinalityType, FS_EmptySet
<1>3. Cardinality(A \cup B) = Cardinality(A) + Cardinality(B) - Cardinality(A \cap B)
  BY <1>1, FS_Union
<1> DEFINE a == Cardinality(A)
           c == Cardinality(B)
           d == Cardinality(A \cap B)
<1>4. Cardinality(S) = a + c - d /\ a \in Nat /\ c \in Nat /\ d = 0
  BY <1>2, <1>3
<1> HIDE DEF a, c, d
<1>5. Cardinality(S) = a + c
  BY <1>4
<1> QED
  BY <1>5 DEF a, c

\* The orders of a tile are the rows that order something, within budget or above.
LEMMA OrdersAreRows ==
    ASSUME NEW v \in DOMAIN Stock, NEW rows, IsFiniteSet(rows), NEW f, \A r \in rows : f[r].row = r
    PROVE  LET tile == Tiles(Stock[v], "recommendations", rows) IN
           /\ tile.orders = Cardinality({p \in {f[r] : r \in rows} : p.row.units > 0})
           /\ tile.within + tile.above = tile.orders
<1> DEFINE tile == Tiles(Stock[v], "recommendations", rows)
           Within(r) == RunningValue(Stock[v], r) <= Budget[r.market]
<1>1. PICK S, A, B : /\ S = {r \in rows : r.units > 0}
                     /\ A = {r \in S : Within(r)} /\ B = {r \in S : ~ Within(r)}
  OBVIOUS
<1>2. /\ tile.orders = Cardinality(S)
      /\ tile.within = Cardinality(A) /\ tile.above = Cardinality(B)
  BY <1>1 DEF Tiles, OrderTiles
<1>3. IsFiniteSet(S) /\ A \cup B = S /\ A \cap B = {}
  <2>1. S \in SUBSET rows
    BY <1>1
  <2> HIDE DEF Within
  <2> QED
    BY <1>1, <2>1, FS_Subset
<1>4. Cardinality(S) = Cardinality(A) + Cardinality(B)
  BY <1>3, CountApart
<1>5. {p \in {f[r] : r \in rows} : p.row.units > 0} = {f[r] : r \in S}
  BY <1>1
<1>6. Cardinality({f[r] : r \in S}) = Cardinality(S)
  <2>1. \A r, s \in S : f[r] = f[s] => r = s
    BY <1>1
  <2> QED
    BY <1>3, <2>1, ImageIsFinite
<1> QED
  BY <1>2, <1>4, <1>5, <1>6

\* The classes of Stock Health partition its cells.
LEMMA ClassesAreRows ==
    ASSUME NEW v \in DOMAIN Stock, NEW rows \in SUBSET Stock[v].health, IsFiniteSet(rows)
    PROVE  LET tile == Tiles(Stock[v], "health", rows) IN
           tile.cells = tile.atRisk + SumFunction([c \in DOMAIN tile.classes |-> tile.classes[c]])
<1> DEFINE tile == Tiles(Stock[v], "health", rows)
           K == {"healthy", "overstock", "stockout"}
<1>1. PICK A, part, total :
        /\ A = {r \in rows : r.class \in {"understock", "dead"}}
        /\ part = [c \in K |-> {r \in rows : r.class = c}]
        /\ total = [c \in K |-> Cardinality({r \in rows : r.class = c})]
  OBVIOUS
<1>2. tile.cells = Cardinality(rows) /\ tile.atRisk = Cardinality(A) /\ tile.classes = total
  BY <1>1 DEF Tiles
<1>3. [c \in DOMAIN total |-> total[c]] = total /\ DOMAIN total = K
  BY <1>1
<1>4. PICK kinds, B : kinds = K /\ B = UNION {part[c] : c \in K}
  OBVIOUS
<1>5. /\ IsFiniteSet(kinds)
      /\ \A c \in kinds : part[c] \in SUBSET rows
      /\ \A c, d \in kinds : c # d => part[c] \cap part[d] = {}
      /\ \A c \in kinds : total[c] = Cardinality(part[c])
      /\ B = UNION {part[c] : c \in kinds}
  <2>1. IsFiniteSet(kinds)
    <3>1. IsFiniteSet({}) /\ kinds = (({} \cup {"healthy"}) \cup {"overstock"}) \cup {"stockout"}
      BY <1>4, FS_EmptySet
    <3> QED
      BY <3>1, FS_AddElement
  <2> QED
    BY <1>1, <1>4, <2>1
<1>6. Sigma(total, kinds) = Cardinality(B)
  BY <1>5, CountParts
<1>7. A \cup B = rows /\ A \cap B = {}
  <2>1. \A r \in rows : r.class \in {"healthy", "overstock", "stockout", "understock", "dead"}
    BY ColumnAssumption
  <2> QED
    BY <1>1, <1>4, <2>1
<1>8. Cardinality(rows) = Cardinality(A) + Cardinality(B)
  BY <1>7, CountApart
<1>9. SumFunction(total) = Sigma(total, kinds)
  BY <1>3, <1>4, SumFunctionIs
<1> QED
  BY <1>2, <1>3, <1>6, <1>8, <1>9

\* For any bundles, asks and restarts: a walk that met one bundle ends with the
\* rows, the units, the money and the classes of its tiles.
THEOREM TilesAreTheRowsHolds == InventoryScreenSpec => []TilesAreTheRows
<1>1. ASSUME WalkInv, Walked PROVE TilesAreTheRows
  <2>1. PICK w : w = walk
    OBVIOUS
  <2>2. WalkKnows(w) /\ w.over /\ Cardinality(w.bundles) = 1
    BY <1>1, <2>1 DEF WalkInv, Walked
  <2>3. PICK v : w.bundles = {v}
    BY <2>2, FS_Singleton DEF WalkKnows
  <2>4. PICK screen, q, table : screen = w.ask[1] /\ q = w.ask[2] /\ table = Table(screen)
    OBVIOUS
  <2>5. /\ v \in DOMAIN Stock /\ w.ask \in Asks /\ w.ask = <<screen, q>> /\ screen \in ScreenNames
        /\ Passed(RankedBy(v, screen, q), screen # "exceptions", w)
    <3>1. w.ask \in Asks /\ v \in Bundle
      BY <2>2, <2>3 DEF WalkKnows
    <3>2. w.ask = <<w.ask[1], w.ask[2]>> /\ w.ask[1] \in ScreenNames
      BY <3>1, AskAssumption DEF ScreenNames
    <3> QED
      BY <2>2, <2>3, <2>4, <3>1, <3>2 DEF WalkKnows, Bundle
  <2>6. PICK rows, pages : rows = Scope(Stock[v], screen, q) /\ pages = PageRows(Stock[v], screen, q)
    OBVIOUS
  <2>7. table \in TableNames /\ rows \in SUBSET Stock[v][table] /\ IsFiniteSet(rows)
    BY <2>4, <2>5, <2>6, ScopeIs, TableIs
  <2>8. /\ w.totals = {Cardinality(rows)} /\ w.count = Cardinality(rows)
        /\ screen # "exceptions" => ~ w.twice /\ w.seen = pages
    <3>1. PICK key, exact : key = RankedBy(v, screen, q) /\ exact = (screen # "exceptions")
      OBVIOUS
    <3>2. Ordered(key) /\ DOMAIN key = pages /\ Cardinality(DOMAIN key) = Cardinality(rows)
      BY <2>5, <2>6, <3>1, PageOrdered
    <3>3. exact \in BOOLEAN /\ Passed(key, exact, w)
      BY <2>5, <3>1
    <3>4. /\ w.totals = {Cardinality(DOMAIN key)} /\ w.count = Cardinality(DOMAIN key)
          /\ exact => ~ w.twice /\ w.seen = DOMAIN key
      BY <2>2, <3>2, <3>3, PassedIsAll
    <3> QED
      BY <3>1, <3>2, <3>4
  <2>9. PICK f : /\ pages = {f[r] : r \in rows}
                 /\ \A r \in rows : /\ f[r].row = r
                                    /\ screen # "health" => f[r].value = RowValue(Stock[v], table, r)
    <3>1. \E f : /\ PageRows(Stock[v], screen, q) = {f[r] : r \in Scope(Stock[v], screen, q)}
                 /\ \A r \in Scope(Stock[v], screen, q) :
                      /\ f[r].row = r
                      /\ IF screen = "health" THEN f[r].value \in Int
                         ELSE f[r].value = RowValue(Stock[v], Table(screen), r)
      BY <2>5, PageIsImage
    <3> QED
      BY <2>4, <2>6, <3>1
  <2>10. PICK tile : tile = Tiles(Stock[v], table, rows)
    OBVIOUS
  <2>11. TileOf(walk.ask) = tile
    <3>1. (CHOOSE u \in walk.bundles : TRUE) = v
      BY <2>1, <2>3
    <3>2. <<v, w.ask>> \in Bundle \X Asks
      BY <2>5 DEF Bundle
    <3>3. Screens[<<v, w.ask>>] = InventorySummary(Stock[v], screen, q)
      <4>1. PICK x : x = <<v, w.ask>>
        OBVIOUS
      <4>2. x \in Bundle \X Asks
        BY <3>2, <4>1
      <4>4. Screens[x] = InventorySummary(Stock[x[1]], x[2][1], x[2][2])
        BY <4>2, Zenon DEF Screens
      <4>3. x[1] = v /\ x[2][1] = screen /\ x[2][2] = q
        BY <2>4, <4>1
      <4> QED
        BY <4>1, <4>3, <4>4
    <3>4. InventorySummary(Stock[v], screen, q)[table] = tile
      BY <2>4, <2>6, <2>10 DEF InventorySummary
    <3> QED
      <4>1. TileOf(walk.ask) = Screens[<<v, w.ask>>][Table(w.ask[1])]
        BY <2>1, <3>1 DEF TileOf
      <4> QED
        BY <2>4, <3>3, <3>4, <4>1
  <2>12. tile.cells = Cardinality(rows)
    BY <2>5, <2>7, <2>10, CellsAreRows
  <2>13. table = "health" <=> screen = "health"
    BY <2>4, <2>5 DEF Table, ScreenNames
  <2>14. table # "exceptions" => screen # "exceptions"
    BY <2>4 DEF Table
  <2>15. table \in {"recommendations", "transfers"} => tile.units = SumOf(LAMBDA p : p.row.units, w.seen)
    BY <2>5, <2>7, <2>8, <2>9, <2>10, <2>14, UnitsAreRows
  <2>16. table \in {"positions", "ageing"} => tile.units = SumOf(LAMBDA p : p.row.onHand, w.seen)
    BY <2>5, <2>7, <2>8, <2>9, <2>10, <2>14, HeldIsRows
  <2>17. table \in {"ageing", "waste", "buffers", "transfers", "valuation"} =>
           tile.value = SumOf(LAMBDA p : p.value, w.seen)
    BY <2>5, <2>7, <2>8, <2>9, <2>10, <2>13, <2>14, ValueIsRows
  <2>18. table = "positions" => tile.stores + tile.warehouses = tile.value
    BY <2>5, <2>7, <2>10, KindsAreTheValue
  <2>19. table = "recommendations" =>
           /\ tile.orders = Cardinality({p \in w.seen : table = "recommendations" /\ p.row.units > 0})
           /\ tile.within + tile.above = tile.orders
    <3> SUFFICES ASSUME table = "recommendations"
                 PROVE  /\ tile.orders
                             = Cardinality({p \in w.seen : table = "recommendations" /\ p.row.units > 0})
                        /\ tile.within + tile.above = tile.orders
      OBVIOUS
    <3>1. {p \in w.seen : table = "recommendations" /\ p.row.units > 0}
            = {p \in {f[r] : r \in rows} : p.row.units > 0}
      BY <2>8, <2>9, <2>14
    <3>2. /\ tile.orders = Cardinality({p \in {f[r] : r \in rows} : p.row.units > 0})
          /\ tile.within + tile.above = tile.orders
      BY <2>5, <2>7, <2>9, <2>10, OrdersAreRows
    <3> QED
      BY <3>1, <3>2
  <2>20. table = "health" =>
           tile.cells = tile.atRisk + Sum(LAMBDA c : tile.classes[c], DOMAIN tile.classes)
    BY <2>5, <2>7, <2>10, ClassesAreRows DEF Sum
  <2> QED
    BY <2>1, <2>4, <2>8, <2>11, <2>12, <2>15, <2>16, <2>17, <2>18, <2>19, <2>20
       DEF TilesAreTheRows, RowsTotal
<1>2. WalkInv => TilesAreTheRows
  BY <1>1 DEF TilesAreTheRows
<1> QED
  BY <1>2, WalkInvInit, WalkInvStep, PTL DEF InventoryScreenSpec

----------------------------------------------------------------------------
(* Tiles and cards are sums over the rows they are given, so that a card adds
   up to the tile over the rows of its groups. *)

\* The same cells of a position, whatever rows are joined with it.
LEMMA NeedJoins ==
    ASSUME NEW b, NEW rows
    PROVE  \E f : /\ \A S \in SUBSET rows : LeftJoin(S, LAMBDA r : Need(b, r)) = {f[r] : r \in S}
                  /\ \A r \in rows : f[r] = <<r, f[r][2]>> /\ f[r][2] \in Need(b, r) \cup {NoRow}
<1>1. PICK T : T = [r \in rows |-> IF Need(b, r) = {} THEN {NoRow} ELSE Need(b, r)]
  OBVIOUS
<1>2. PICK f : f = [r \in rows |-> <<r, CHOOSE x \in T[r] : TRUE>>]
  OBVIOUS
<1>3. \A r \in rows : T[r] = {f[r][2]} /\ f[r] = <<r, f[r][2]>>
  <2>1. \A r \in rows : \E x : T[r] = {x}
    BY <1>1 DEF Need
  <2>2. \A r \in rows : T[r] = {CHOOSE x \in T[r] : TRUE}
    BY <2>1
  <2> QED
    BY <1>2, <2>2
<1>4. ASSUME NEW S \in SUBSET rows
      PROVE  LeftJoin(S, LAMBDA r : Need(b, r)) = {f[r] : r \in S}
  <2>1. LeftJoin(S, LAMBDA r : Need(b, r)) = UNION {{<<r, x>> : x \in T[r]} : r \in S}
    BY <1>1 DEF LeftJoin
  <2>2. UNION {{<<r, x>> : x \in T[r]} : r \in S} = {f[r] : r \in S}
    BY <1>3
  <2> QED
    BY <2>1, <2>2
<1>5. \A r \in rows : f[r] = <<r, f[r][2]>> /\ f[r][2] \in Need(b, r) \cup {NoRow}
  BY <1>1, <1>3
<1> QED
  BY <1>4, <1>5

\* What is summed without NULL, over a part of what there is.
Skipped(F, S) == SumFunction([x \in {x \in S : F[x] # Null} |-> F[x]])

\* The image of a set, as an operator the provers see through.
Image(g, S) == {g[r] : r \in S}

\* A sum over an image, when no two members have the same one.
LEMMA SigmaOfImage ==
    ASSUME NEW S, IsFiniteSet(S), NEW g, \A x, y \in S : g[x] = g[y] => x = y,
           NEW w, \A x \in S : w[g[x]] \in Int, NEW v, \A x \in S : v[x] = w[g[x]]
    PROVE  Sigma(w, Image(g, S)) = Sigma(v, S)
  BY SigmaImage DEF Image

\* A sum over joined cells is a sum over their rows.
LEMMA JoinedAdds ==
    ASSUME NEW rows, IsFiniteSet(rows), NEW g, \A r, s \in rows : g[r] = g[s] => r = s,
           NEW F, DOMAIN F = Image(g, rows), \A r \in rows : F[g[r]] \in Int
    PROVE  \E W : /\ \A r \in rows : W[r] \in Int
                  /\ \A S \in SUBSET rows : Skipped(F, Image(g, S)) = Sigma(W, S)
<1>1. PICK V : V = Worth(F)
  OBVIOUS
<1>2. PICK W : W = [r \in rows |-> V[g[r]]]
  OBVIOUS
<1>3. /\ IsFiniteSet(DOMAIN F) /\ \A x \in DOMAIN F : F[x] \in Int
      /\ \A x \in DOMAIN F : V[x] \in Int
  <2>1. IsFiniteSet({g[r] : r \in rows})
    BY ImageIsFinite
  <2> QED
    BY <1>1, <2>1 DEF Worth, Image
<1>4. \A r \in rows : W[r] = V[g[r]] /\ W[r] \in Int
  BY <1>2, <1>3 DEF Image
<1>5. ASSUME NEW S \in SUBSET rows
      PROVE  Skipped(F, Image(g, S)) = Sigma(W, S)
  <2>1. PICK C : C = Image(g, S)
    OBVIOUS
  <2>2. C \in SUBSET DOMAIN F
    BY <2>1 DEF Image
  <2>3. Skipped(F, C) = Sigma(V, C)
    BY <1>1, <1>3, <2>2, SkippingPart DEF Skipped
  <2>4. IsFiniteSet(S)
    BY FS_Subset
  <2>5. /\ \A r, s \in S : g[r] = g[s] => r = s
        /\ \A r \in S : V[g[r]] \in Int
        /\ \A r \in S : W[r] = V[g[r]]
    BY <1>4
  <2>6. Sigma(V, C) = Sigma(W, S)
    BY <2>1, <2>4, <2>5, SigmaOfImage
  <2> QED
    BY <2>1, <2>3, <2>6
<1> QED
  BY <1>4, <1>5

\* The outbound need of a position is an integer.
LEMMA NeedIs ==
    ASSUME NEW v \in DOMAIN Stock, NEW r \in Stock[v].positions,
           NEW p, p = <<r, p[2]>>, p[2] \in Need(Stock[v], r) \cup {NoRow}
    PROVE  Column(p[2], "need") \in Int /\ Filled(p) \in Int
<1>1. PICK x : x = p[2]
  OBVIOUS
<1>2. r.onHand \in Int
  BY ColumnAssumption
<1>3. CASE x = NoRow
  <2>1. Column(x, "need") = Null
    BY <1>3 DEF Column, NoRow
  <2> QED
    BY <1>1, <2>1 DEF Filled, Null
<1>4. CASE x \in Need(Stock[v], r)
  <2>1. PICK F : F = [y \in Drawn(Stock[v], r) |-> y.units]
    OBVIOUS
  <2>2. IsFiniteSet(Stock[v].recommendations) /\ \A y \in Stock[v].recommendations : y.units \in Int
    BY GrainAssumption, ColumnAssumption
  <2>3. DOMAIN F \in SUBSET Stock[v].recommendations /\ \A y \in DOMAIN F : F[y] \in Int
    BY <2>1, <2>2 DEF Drawn
  <2>4. SumFunction(F) \in Int
    BY <2>2, <2>3, SumsAre
  <2>5. x = [need |-> SumFunction(F)]
    BY <1>4, <2>1 DEF Need, Sum
  <2>6. Column(x, "need") = SumFunction(F) /\ x.need = SumFunction(F)
    BY <2>5 DEF Column
  <2>7. \A a, c \in Int : Min({a, c}) \in Int
    <3> SUFFICES ASSUME NEW a \in Int, NEW c \in Int PROVE Min({a, c}) \in Int
      OBVIOUS
    <3>1. \E m \in {a, c} : \A n \in {a, c} : m <= n
      <4>1. CASE a <= c
        BY <4>1
      <4>2. CASE c <= a
        BY <4>2
      <4> QED
        BY <4>1, <4>2
    <3>2. Min({a, c}) \in {a, c}
      BY <3>1 DEF Min
    <3> QED
      BY <3>2
  <2>8. Filled(p) = IF Column(x, "need") = Null THEN Null ELSE Min({x.need, r.onHand})
    BY <1>1 DEF Filled
  <2> QED
    BY <1>1, <1>2, <2>4, <2>6, <2>7, <2>8 DEF Null
<1> QED
  BY <1>1, <1>3, <1>4

\* A tile is a sum of something over the rows it is given.
Adds(b, table, rows, name) ==
    \E W : /\ \A r \in rows : W[r] \in Int
           /\ \A S \in SUBSET rows : Tiles(b, table, S)[name] = Sigma(W, S)

\* The tile of the positions is such a sum,
LEMMA PositionTileAdds ==
    ASSUME NEW v \in DOMAIN Stock, NEW rows \in SUBSET Stock[v].positions, IsFiniteSet(rows),
           NEW name \in {"units", "value", "damaged", "need", "filled"}
    PROVE  Adds(Stock[v], "positions", rows, name)
<1> DEFINE b == Stock[v]
           Cells(S) == LeftJoin(S, LAMBDA r : Need(b, r))
<1>1. PICK g : /\ \A S \in SUBSET rows : Cells(S) = Image(g, S)
               /\ \A r \in rows : g[r] = <<r, g[r][2]>> /\ g[r][2] \in Need(b, r) \cup {NoRow}
  <2>1. \E g : /\ \A S \in SUBSET rows : LeftJoin(S, LAMBDA r : Need(b, r)) = {g[r] : r \in S}
               /\ \A r \in rows : g[r] = <<r, g[r][2]>> /\ g[r][2] \in Need(b, r) \cup {NoRow}
    BY NeedJoins
  <2> QED
    BY <2>1 DEF Image
<1>2. /\ \A r, s \in rows : g[r] = g[s] => r = s
      /\ \A r \in rows : g[r][1] = r
  BY <1>1
<1>3. \A r \in rows : /\ r.market \in DOMAIN Rate /\ r.onHand \in Nat /\ r.damaged \in Nat
                      /\ r.onHand # Null
  BY ColumnAssumption DEF Null
<1>4. ASSUME NEW F, DOMAIN F = Image(g, rows), \A r \in rows : F[g[r]] \in Int,
             \A S \in SUBSET rows : Tiles(b, "positions", S)[name] = Skipped(F, Image(g, S))
      PROVE  Adds(b, "positions", rows, name)
  <2>1. \E W : /\ \A r \in rows : W[r] \in Int
               /\ \A S \in SUBSET rows : Skipped(F, Image(g, S)) = Sigma(W, S)
    BY <1>2, <1>4, JoinedAdds
  <2> QED
    BY <1>4, <2>1 DEF Adds
<1>5. PICK C : C = Image(g, rows)
  OBVIOUS
<1>6. \A S \in SUBSET rows : Image(g, S) \in SUBSET C
  BY <1>5 DEF Image
<1>7. CASE name = "units"
  <2>1. PICK F : F = [p \in C |-> p[1].onHand]
    OBVIOUS
  <2>2. DOMAIN F = Image(g, rows) /\ \A r \in rows : F[g[r]] \in Int
    BY <1>2, <1>3, <1>5, <2>1 DEF Image
  <2>3. ASSUME NEW S \in SUBSET rows
        PROVE  Tiles(b, "positions", S)[name] = Skipped(F, Image(g, S))
    <3>1. PICK D : D = Image(g, S)
      OBVIOUS
    <3>2. Tiles(b, "positions", S)[name] = SumFunction([p \in Cells(S) |-> p[1].onHand])
      BY <1>7 DEF Tiles, PositionTiles, Sum
    <3>3. Cells(S) = D /\ D \in SUBSET C
      BY <1>1, <1>6, <3>1
    <3>4. \A p \in D : p[1].onHand # Null
      BY <1>2, <1>3, <3>1 DEF Image
    <3>5. [p \in D |-> p[1].onHand] = [x \in {x \in D : F[x] # Null} |-> F[x]]
      BY <2>1, <3>3, <3>4
    <3> HIDE DEF Cells
    <3> QED
      BY <3>1, <3>2, <3>3, <3>5 DEF Skipped
  <2> QED
    BY <1>4, <2>2, <2>3
<1>8. CASE name = "value"
  <2>1. PICK F : F = [p \in C |-> Priced(b, p[1], p[1].onHand)]
    OBVIOUS
  <2>2. DOMAIN F = Image(g, rows) /\ \A r \in rows : F[g[r]] \in Int
    BY <1>2, <1>3, <1>5, <2>1, PricedIs DEF Image
  <2>3. ASSUME NEW S \in SUBSET rows
        PROVE  Tiles(b, "positions", S)[name] = Skipped(F, Image(g, S))
    <3>1. PICK D : D = Image(g, S)
      OBVIOUS
    <3>2. Tiles(b, "positions", S)[name] = SumOf(LAMBDA p : Priced(b, p[1], p[1].onHand), Cells(S))
      BY <1>8 DEF Tiles, PositionTiles
    <3>3. Cells(S) = D /\ D \in SUBSET C
      BY <1>1, <1>6, <3>1
    <3>4. SumOf(LAMBDA p : Priced(b, p[1], p[1].onHand), D)
            = SumFunction([x \in {x \in D : F[x] # Null} |-> F[x]])
      BY <2>1, <3>3 DEF SumOf, Sum
    <3> HIDE DEF Cells
    <3> QED
      BY <3>1, <3>2, <3>3, <3>4 DEF Skipped
  <2> QED
    BY <1>4, <2>2, <2>3
<1>9. CASE name = "damaged"
  <2>1. PICK F : F = [p \in C |-> Priced(b, p[1], p[1].damaged)]
    OBVIOUS
  <2>2. DOMAIN F = Image(g, rows) /\ \A r \in rows : F[g[r]] \in Int
    BY <1>2, <1>3, <1>5, <2>1, PricedIs DEF Image
  <2>3. ASSUME NEW S \in SUBSET rows
        PROVE  Tiles(b, "positions", S)[name] = Skipped(F, Image(g, S))
    <3>1. PICK D : D = Image(g, S)
      OBVIOUS
    <3>2. Tiles(b, "positions", S)[name] = SumOf(LAMBDA p : Priced(b, p[1], p[1].damaged), Cells(S))
      BY <1>9 DEF Tiles, PositionTiles
    <3>3. Cells(S) = D /\ D \in SUBSET C
      BY <1>1, <1>6, <3>1
    <3>4. SumOf(LAMBDA p : Priced(b, p[1], p[1].damaged), D)
            = SumFunction([x \in {x \in D : F[x] # Null} |-> F[x]])
      BY <2>1, <3>3 DEF SumOf, Sum
    <3> HIDE DEF Cells
    <3> QED
      BY <3>1, <3>2, <3>3, <3>4 DEF Skipped
  <2> QED
    BY <1>4, <2>2, <2>3
<1>10. \A r \in rows : Column(g[r][2], "need") \in Int /\ Filled(g[r]) \in Int
  BY <1>1, NeedIs
<1>11. CASE name = "need"
  <2>1. PICK F : F = [p \in C |-> Column(p[2], "need")]
    OBVIOUS
  <2>2. DOMAIN F = Image(g, rows) /\ \A r \in rows : F[g[r]] \in Int
    BY <1>5, <1>10, <2>1 DEF Image
  <2>3. ASSUME NEW S \in SUBSET rows
        PROVE  Tiles(b, "positions", S)[name] = Skipped(F, Image(g, S))
    <3>1. PICK D : D = Image(g, S)
      OBVIOUS
    <3>2. Tiles(b, "positions", S)[name] = SumOf(LAMBDA p : Column(p[2], "need"), Cells(S))
      BY <1>11 DEF Tiles, PositionTiles
    <3>3. Cells(S) = D /\ D \in SUBSET C
      BY <1>1, <1>6, <3>1
    <3>4. SumOf(LAMBDA p : Column(p[2], "need"), D)
            = SumFunction([x \in {x \in D : F[x] # Null} |-> F[x]])
      BY <2>1, <3>3 DEF SumOf, Sum
    <3> HIDE DEF Cells
    <3> QED
      BY <3>1, <3>2, <3>3, <3>4 DEF Skipped
  <2> QED
    BY <1>4, <2>2, <2>3
<1>12. CASE name = "filled"
  <2>1. PICK F : F = [p \in C |-> Filled(p)]
    OBVIOUS
  <2>2. DOMAIN F = Image(g, rows) /\ \A r \in rows : F[g[r]] \in Int
    BY <1>5, <1>10, <2>1 DEF Image
  <2>3. ASSUME NEW S \in SUBSET rows
        PROVE  Tiles(b, "positions", S)[name] = Skipped(F, Image(g, S))
    <3>1. PICK D : D = Image(g, S)
      OBVIOUS
    <3>2. Tiles(b, "positions", S)[name] = SumOf(LAMBDA p : Filled(p), Cells(S))
      BY <1>12 DEF Tiles, PositionTiles
    <3>3. Cells(S) = D /\ D \in SUBSET C
      BY <1>1, <1>6, <3>1
    <3>4. SumOf(LAMBDA p : Filled(p), D) = SumFunction([x \in {x \in D : F[x] # Null} |-> F[x]])
      BY <2>1, <3>3 DEF SumOf, Sum
    <3> HIDE DEF Cells
    <3> QED
      BY <3>1, <3>2, <3>3, <3>4 DEF Skipped
  <2> QED
    BY <1>4, <2>2, <2>3
<1> QED
  BY <1>7, <1>8, <1>9, <1>11, <1>12

\* a sum that skips NULL is one,
LEMMA SkippedAdds ==
    ASSUME NEW b, NEW table, NEW rows, IsFiniteSet(rows), NEW name,
           NEW F, DOMAIN F = rows, \A r \in rows : F[r] \in Int,
           \A S \in SUBSET rows : Tiles(b, table, S)[name] = Skipped(F, S)
    PROVE  Adds(b, table, rows, name)
<1>1. PICK W : W = Worth(F)
  OBVIOUS
<1>2. \A r \in rows : W[r] \in Int
  BY <1>1 DEF Worth
<1>3. \A S \in SUBSET rows : Skipped(F, S) = Sigma(W, S)
  BY <1>1, SkippingPart DEF Skipped
<1> QED
  BY <1>2, <1>3 DEF Adds

\* and so is a count.
LEMMA CountAdds ==
    ASSUME NEW b, NEW table, NEW rows, IsFiniteSet(rows), NEW name, NEW A,
           \A S \in SUBSET rows : Tiles(b, table, S)[name] = Cardinality(S \cap A)
    PROVE  Adds(b, table, rows, name)
<1>1. PICK W : W = [r \in rows |-> IF r \in A THEN 1 ELSE 0]
  OBVIOUS
<1>2. \A r \in rows : W[r] \in Int /\ (r \in A => W[r] = 1) /\ (r \notin A => W[r] = 0)
  BY <1>1
<1>3. ASSUME NEW S \in SUBSET rows PROVE Sigma(W, S) = Cardinality(S \cap A)
  <2>1. IsFiniteSet(S) /\ IsFiniteSet(S \cap A) /\ IsFiniteSet(S \ A)
    BY FS_Subset
  <2>2. PICK B, C : B = S \cap A /\ C = S \ A
    OBVIOUS
  <2>3. Sigma(W, B) = Cardinality(B)
    BY <1>2, <2>1, <2>2, SigmaCounts
  <2>4. Sigma(W, C) = 0
    BY <1>2, <2>1, <2>2, SigmaZero
  <2>5. Sigma(W, B \cup C) = Sigma(W, B) + Sigma(W, C)
    <3>1. /\ \A r \in S : W[r] \in Int
          /\ B \in SUBSET S /\ C \in SUBSET S /\ B \cap C = {}
      BY <1>2, <2>2
    <3> QED
      BY <2>1, <3>1, SigmaUnion
  <2>6. B \cup C = S /\ Cardinality(B) \in Nat
    BY <2>1, <2>2, FS_CardinalityType
  <2>7. Sigma(W, S) = Cardinality(B) + 0
    BY <2>3, <2>4, <2>5, <2>6
  <2>8. \A n \in Nat : n + 0 = n
    OBVIOUS
  <2>9. Sigma(W, S) = Cardinality(B)
    BY <2>6, <2>7, <2>8
  <2> QED
    BY <2>2, <2>9
<1>4. \A S \in SUBSET rows : Tiles(b, table, S)[name] = Sigma(W, S)
  BY <1>3
<1> QED
  BY <1>2, <1>4 DEF Adds

\* The tiles that a card divides.
LEMMA CardTileAdds ==
    ASSUME NEW v \in DOMAIN Stock, NEW table, NEW name,
           \/ table = "positions" /\ name \in {"units", "value", "damaged", "need", "filled"}
           \/ table = "ageing" /\ name \in {"units", "value"}
           \/ table = "valuation" /\ name = "gross"
           \/ table = "buffers" /\ name = "value"
           \/ table = "recommendations" /\ name = "orders"
           \/ table = "health" /\ name = "cells",
           NEW rows \in SUBSET Stock[v][table], IsFiniteSet(rows)
    PROVE  Adds(Stock[v], table, rows, name)
<1> DEFINE b == Stock[v]
<1>1. CASE table = "positions" /\ name \in {"units", "value", "damaged", "need", "filled"}
  BY <1>1, PositionTileAdds
<1>2. CASE table = "ageing" /\ name = "units"
  <2>1. PICK F : F = [r \in rows |-> r["onHand"]]
    OBVIOUS
  <2>2. DOMAIN F = rows /\ \A r \in rows : F[r] \in Int
    BY <1>2, <2>1, ColumnAssumption
  <2>3. \A S \in SUBSET rows : Tiles(b, table, S)[name] = Skipped(F, S)
    <3> SUFFICES ASSUME NEW S \in SUBSET rows PROVE Tiles(b, table, S)[name] = Skipped(F, S)
      OBVIOUS
    <3>1. Tiles(b, table, S)[name] = SumOf(LAMBDA r : r["onHand"], S)
      BY <1>2 DEF Tiles
    <3>2. SumOf(LAMBDA r : r["onHand"], S) = Skipped(F, S)
      BY <2>1 DEF SumOf, Sum, Skipped
    <3> QED
      BY <3>1, <3>2
  <2> QED
    BY <2>2, <2>3, SkippedAdds
<1>3. CASE (table = "ageing" \/ table = "buffers") /\ name = "value"
  <2>1. PICK F : F = [r \in rows |-> RowValue(b, table, r)]
    OBVIOUS
  <2>2. DOMAIN F = rows /\ \A r \in rows : F[r] \in Int
    BY <1>3, <2>1, RowValueIs
  <2>3. \A S \in SUBSET rows : Tiles(b, table, S)[name] = Skipped(F, S)
    <3> SUFFICES ASSUME NEW S \in SUBSET rows PROVE Tiles(b, table, S)[name] = Skipped(F, S)
      OBVIOUS
    <3>1. Tiles(b, table, S)[name] = SumOf(LAMBDA r : RowValue(b, table, r), S)
      <4>1. CASE table = "ageing"
        BY <1>3, <4>1 DEF Tiles
      <4>2. CASE table = "buffers"
        BY <1>3, <4>2 DEF Tiles
      <4> QED
        BY <1>3, <4>1, <4>2
    <3>2. SumOf(LAMBDA r : RowValue(b, table, r), S) = Skipped(F, S)
      BY <2>1 DEF SumOf, Sum, Skipped
    <3> QED
      BY <3>1, <3>2
  <2> QED
    BY <2>2, <2>3, SkippedAdds
<1>4. CASE table = "valuation" /\ name = "gross"
  <2>1. PICK F : F = [r \in rows |-> Reported(r.market, r.gross)]
    OBVIOUS
  <2>2. \A r \in rows : r.market \in DOMAIN Rate /\ r.gross \in Int
    BY <1>4, ColumnAssumption
  <2>3. DOMAIN F = rows /\ \A r \in rows : F[r] \in Int
    BY <2>1, <2>2, ReportedIs
  <2>4. \A S \in SUBSET rows : Tiles(b, table, S)[name] = Skipped(F, S)
    <3> SUFFICES ASSUME NEW S \in SUBSET rows PROVE Tiles(b, table, S)[name] = Skipped(F, S)
      OBVIOUS
    <3>1. Tiles(b, table, S)[name] = SumOf(LAMBDA r : Reported(r.market, r.gross), S)
      BY <1>4 DEF Tiles
    <3>2. SumOf(LAMBDA r : Reported(r.market, r.gross), S) = Skipped(F, S)
      BY <2>1 DEF SumOf, Sum, Skipped
    <3> QED
      BY <3>1, <3>2
  <2> QED
    BY <2>3, <2>4, SkippedAdds
<1>5. CASE table = "recommendations" /\ name = "orders"
  <2>1. PICK A : A = {r \in rows : r.units > 0}
    OBVIOUS
  <2>2. \A S \in SUBSET rows : Tiles(b, table, S)[name] = Cardinality(S \cap A)
    <3> SUFFICES ASSUME NEW S \in SUBSET rows PROVE Tiles(b, table, S)[name] = Cardinality(S \cap A)
      OBVIOUS
    <3>1. Tiles(b, table, S)[name] = Cardinality({r \in S : r.units > 0})
      BY <1>5 DEF Tiles, OrderTiles
    <3>2. {r \in S : r.units > 0} = S \cap A
      BY <2>1
    <3> QED
      BY <3>1, <3>2
  <2> QED
    BY <2>2, CountAdds
<1>6. CASE table = "health" /\ name = "cells"
  <2>1. \A S \in SUBSET rows : Tiles(b, table, S)[name] = Cardinality(S \cap rows)
    <3> SUFFICES ASSUME NEW S \in SUBSET rows PROVE Tiles(b, table, S)[name] = Cardinality(S \cap rows)
      OBVIOUS
    <3>1. Tiles(b, table, S)[name] = Cardinality(S)
      BY <1>6 DEF Tiles
    <3>2. S \cap rows = S
      OBVIOUS
    <3> QED
      BY <3>1, <3>2
  <2> QED
    BY <2>1, CountAdds
<1> QED
  BY <1>1, <1>2, <1>3, <1>4, <1>5, <1>6

\* What the groups of a card have between them.
LEMMA GroupsAddUp ==
    ASSUME NEW rows, IsFiniteSet(rows), NEW W, \A r \in rows : W[r] \in Int,
           NEW group, NEW total, DOMAIN total = {group[r] : r \in rows},
           \A g \in DOMAIN total : total[g] = Sigma(W, {r \in rows : group[r] = g})
    PROVE  SumFunction(total) = Sigma(W, rows)
<1>1. PICK K, part : K = DOMAIN total /\ part = [g \in K |-> {r \in rows : group[r] = g}]
  OBVIOUS
<1>2. /\ IsFiniteSet(K)
      /\ \A g \in K : part[g] \in SUBSET rows
      /\ \A g, h \in K : g # h => part[g] \cap part[h] = {}
      /\ \A g \in K : total[g] = Sigma(W, part[g])
  <2>1. IsFiniteSet({group[r] : r \in rows})
    BY ImageIsFinite
  <2> QED
    BY <1>1, <2>1
<1>3. PICK whole : whole = UNION {part[g] : g \in K}
  OBVIOUS
<1>4. whole = rows
  <2>1. \A g \in K : part[g] \in SUBSET rows
    BY <1>2
  <2>2. \A r \in rows : group[r] \in K /\ r \in part[group[r]]
    BY <1>1
  <2> QED
    BY <1>3, <2>1, <2>2
<1>5. Sigma(total, K) = Sigma(W, UNION {part[g] : g \in K})
  BY <1>2, SigmaParts
<1> QED
  BY <1>1, <1>3, <1>4, <1>5, SumFunctionIs

----------------------------------------------------------------------------
(* Every figure has one home. *)

\* A figure has one place where it is at home: a tile of the screen it is told of.
Home(b, on, name, q) == Tiles(b, Table(on), Scope(b, on, q))[name]

\* The screens that restrict nothing have the scope of their projection.
LEMMA PlainScope ==
    ASSUME NEW b, NEW q
    PROVE  /\ \A t \in {"ageing", "valuation", "health", "buffers", "transfers", "suppliers",
                        "exceptions", "allocations", "pool"} :
                Table(t) = t /\ Scope(b, t, q) = InScope(b, t, q)
           /\ Table("waste") = "waste"
           /\ \A s \in {"planner", "orders"} :
                /\ Table(s) = "recommendations"
                /\ Scope(b, s, q) = InScope(b, "recommendations", q)
           /\ Table("overview") = "positions" /\ Scope(b, "overview", q) = InScope(b, "positions", q)
           /\ Table("stores") = "positions" /\ Table("warehouses") = "positions"
<1>1. \A t \in {"ageing", "valuation", "health", "buffers", "transfers", "suppliers",
                 "exceptions", "allocations", "pool"} : Table(t) = t /\ \A r : OfRoute(t, r)
  BY DEF Table, OfRoute
<1>2. \A s \in {"planner", "orders"} : Table(s) = "recommendations" /\ \A r : OfRoute(s, r)
  BY DEF Table, OfRoute
<1>3. Table("overview") = "positions" /\ \A r : OfRoute("overview", r)
  BY DEF Table, OfRoute
<1>4. Table("waste") = "waste" /\ Table("stores") = "positions" /\ Table("warehouses") = "positions"
  BY DEF Table
<1> QED
  BY <1>1, <1>2, <1>3, <1>4 DEF Scope

\* A card adds up to its tile over the rows of all its groups.
LEMMA CardSumIs ==
    ASSUME NEW v \in DOMAIN Stock, NEW screen, NEW card, NEW q, NEW name, NEW rows, IsFiniteSet(rows),
           rows = CardScope(Stock[v], screen, card, q), Adds(Stock[v], SourceOf(card), rows, name)
    PROVE  CardSum(Stock[v], screen, card, q, name) = Tiles(Stock[v], SourceOf(card), rows)[name]
<1> DEFINE b == Stock[v]
           source == SourceOf(card)
<1>1. PICK W : /\ \A r \in rows : W[r] \in Int
               /\ \A S \in SUBSET rows : Tiles(b, source, S)[name] = Sigma(W, S)
  BY DEF Adds
<1>2. PICK group, groups : /\ group = [r \in rows |-> GroupOf(card, r)]
                           /\ groups = Card(b, screen, card, q)
  OBVIOUS
<1>3. PICK total : total = [g \in DOMAIN groups |-> groups[g][name]]
  OBVIOUS
<1>4. groups = [g \in {GroupOf(card, r) : r \in rows} |->
                  Tiles(b, source, {r \in rows : GroupOf(card, r) = g})]
  BY <1>2 DEF Card
<1>5. DOMAIN total = {group[r] : r \in rows}
  BY <1>2, <1>3, <1>4
<1>6. \A g \in DOMAIN total : total[g] = Sigma(W, {r \in rows : group[r] = g})
  <2> SUFFICES ASSUME NEW g \in DOMAIN total
               PROVE  total[g] = Sigma(W, {r \in rows : group[r] = g})
    OBVIOUS
  <2>1. PICK S : S = {r \in rows : GroupOf(card, r) = g}
    OBVIOUS
  <2>2. total[g] = Tiles(b, source, S)[name]
    BY <1>3, <1>4, <2>1
  <2>3. S = {r \in rows : group[r] = g} /\ S \in SUBSET rows
    BY <1>2, <2>1
  <2> QED
    BY <1>1, <2>2, <2>3
<1>7. SumFunction(total) = Sigma(W, rows)
  BY <1>1, <1>5, <1>6, GroupsAddUp
<1>8. CardSum(b, screen, card, q, name) = SumFunction(total)
  BY <1>2, <1>3 DEF CardSum, Sum
<1> QED
  BY <1>1, <1>7, <1>8

\* The overview splits its money as the screens of stores and warehouses have it.
LEMMA StoresAndWarehouses ==
    ASSUME NEW v \in DOMAIN Stock, NEW q
    PROVE  LET tile == Tiles(Stock[v], "positions", Scope(Stock[v], "overview", q)) IN
           /\ tile.stores = Home(Stock[v], "stores", "value", q)
           /\ tile.warehouses = Home(Stock[v], "warehouses", "value", q)
<1> DEFINE b == Stock[v]
           Value(S) == SumOf(LAMBDA p : Priced(b, p[1], p[1].onHand), S)
<1>1. PICK rows, A, B : /\ rows = Scope(b, "overview", q)
                        /\ A = Scope(b, "stores", q) /\ B = Scope(b, "warehouses", q)
  OBVIOUS
<1>2. /\ rows = InScope(b, "positions", q)
      /\ A = {r \in rows : Kind[r.node] \in {"store"}}
      /\ B = {r \in rows : Kind[r.node] \in Warehouses}
  BY <1>1, PlainScope DEF Scope, OfRoute
<1>3. PICK g : /\ \A S \in SUBSET rows : LeftJoin(S, LAMBDA r : Need(b, r)) = {g[r] : r \in S}
               /\ \A r \in rows : g[r] = <<r, g[r][2]>> /\ g[r][2] \in Need(b, r) \cup {NoRow}
  BY NeedJoins
<1>4. PICK C : C = LeftJoin(rows, LAMBDA r : Need(b, r))
  OBVIOUS
<1>5. C = {g[r] : r \in rows} /\ \A r \in rows : g[r][1] = r
  <2>1. LeftJoin(rows, LAMBDA r : Need(b, r)) = {g[r] : r \in rows}
    BY <1>3
  <2>2. C = {g[r] : r \in rows}
    BY <1>4, <2>1
  <2>3. \A r \in rows : g[r][1] = r
    BY <1>3
  <2> QED
    BY <2>2, <2>3
<1>6. LeftJoin(A, LAMBDA r : Need(b, r)) = {p \in C : Kind[p[1].node] \in {"store"}}
  <2>1. LeftJoin(A, LAMBDA r : Need(b, r)) = {g[r] : r \in A}
    BY <1>2, <1>3
  <2>2. {g[r] : r \in A} = {p \in C : Kind[p[1].node] \in {"store"}}
    BY <1>2, <1>5
  <2> QED
    BY <2>1, <2>2
<1>7. LeftJoin(B, LAMBDA r : Need(b, r)) = {p \in C : Kind[p[1].node] \in Warehouses}
  <2>1. LeftJoin(B, LAMBDA r : Need(b, r)) = {g[r] : r \in B}
    BY <1>2, <1>3
  <2>2. {g[r] : r \in B} = {p \in C : Kind[p[1].node] \in Warehouses}
    BY <1>2, <1>5
  <2> QED
    BY <2>1, <2>2
<1>8. /\ Tiles(b, "positions", rows).stores = Value({p \in C : Kind[p[1].node] \in {"store"}})
      /\ Tiles(b, "positions", rows).warehouses = Value({p \in C : Kind[p[1].node] \in Warehouses})
  BY <1>4 DEF Tiles, PositionTiles
<1>9. /\ Tiles(b, "positions", A).value = Value(LeftJoin(A, LAMBDA r : Need(b, r)))
      /\ Tiles(b, "positions", B).value = Value(LeftJoin(B, LAMBDA r : Need(b, r)))
  BY DEF Tiles, PositionTiles
<1>10. /\ Home(b, "stores", "value", q) = Tiles(b, "positions", A).value
       /\ Home(b, "warehouses", "value", q) = Tiles(b, "positions", B).value
  BY <1>1, PlainScope DEF Home
<1> HIDE DEF Value
<1> QED
  BY <1>1, <1>6, <1>7, <1>8, <1>9, <1>10

\* The kinds of location add up to the gross value.
LEMMA KindsAreTheGross ==
    ASSUME NEW v \in DOMAIN Stock, NEW rows \in SUBSET Stock[v].valuation, IsFiniteSet(rows)
    PROVE  LET kinds == Tiles(Stock[v], "kinds", rows) IN
           kinds.stores + kinds.warehouses = Tiles(Stock[v], "valuation", rows).gross
<1> DEFINE b == Stock[v]
<1>1. PICK F : F = [r \in rows |-> Reported(r.market, r.gross)]
  OBVIOUS
<1>2. DOMAIN F = rows /\ \A r \in rows : F[r] \in Int
  <2>1. \A r \in rows : r.market \in DOMAIN Rate /\ r.gross \in Int
    BY ColumnAssumption
  <2> QED
    BY <1>1, <2>1, ReportedIs
<1>3. PICK A, B : /\ A = {r \in rows : Kind[r.node] \in {"store"}}
                  /\ B = {r \in rows : Kind[r.node] \in Warehouses}
  OBVIOUS
<1>4. A \cup B = rows /\ A \cap B = {} /\ A \in SUBSET rows /\ B \in SUBSET rows
  <2>1. \A r \in rows : Kind[r.node] \in {"store"} \cup Warehouses
    BY PlaceAssumption, ColumnAssumption
  <2> QED
    BY <1>3, <2>1 DEF Warehouses
<1>5. ASSUME NEW S \in SUBSET rows
      PROVE  SumOf(LAMBDA r : Reported(r.market, r.gross), S) = Sigma(Worth(F), S)
  <2>1. Skipped(F, S) = Sigma(Worth(F), S)
    BY <1>2, SkippingPart DEF Skipped
  <2>2. SumOf(LAMBDA r : Reported(r.market, r.gross), S) = Skipped(F, S)
    BY <1>1 DEF SumOf, Sum, Skipped
  <2> QED
    BY <2>1, <2>2
<1>6. /\ Tiles(b, "kinds", rows).stores = SumOf(LAMBDA r : Reported(r.market, r.gross), A)
      /\ Tiles(b, "kinds", rows).warehouses = SumOf(LAMBDA r : Reported(r.market, r.gross), B)
  BY <1>3 DEF Tiles
<1>7. Tiles(b, "valuation", rows).gross = SumOf(LAMBDA r : Reported(r.market, r.gross), rows)
  BY DEF Tiles
<1>8. \A r \in rows : Worth(F)[r] \in Int
  BY <1>2 DEF Worth
<1>9. Sigma(Worth(F), A \cup B) = Sigma(Worth(F), A) + Sigma(Worth(F), B)
  BY <1>4, <1>8, SigmaUnion
<1> QED
  BY <1>4, <1>5, <1>6, <1>7, <1>9

\* The rows of a card, without the filter on the category.
LEMMA CardScopeIs ==
    ASSUME NEW b, NEW screen, NEW card, NEW q, q.category = None
    PROVE  CardScope(b, screen, card, q)
             = {r \in InScope(b, SourceOf(card), q) :
                  /\ SourceOf(card) = "positions" => OfRoute(screen, r)
                  /\ card = "leadTime" => r.units > 0}
  BY DEF CardScope

\* What a card tells, its home tells,
LEMMA CardFiguresAtHome ==
    ASSUME NEW v \in DOMAIN Stock, NEW screen \in ScreenNames, NEW q,
           NEW f \in CardFigures(Stock[v], screen, q)
    PROVE  f[3] = Home(Stock[v], f[1], f[2], q)
<1> DEFINE b == Stock[v]
           Sum3(card, name) == CardSum(b, screen, card, q, name)
<1>1. q.category = None
  BY DEF CardFigures
<1>2. PICK card \in CardsOf(screen) :
        f \in CASE SourceOf(card) = "positions" ->
                {<<screen, name, CardSum(b, screen, card, q, name)>> :
                   name \in {"units", "value", "damaged", "need", "filled"}}
          [] card = "buckets" ->
                {<<"ageing", name, CardSum(b, screen, card, q, name)>> : name \in {"units", "value"}}
          [] card = "leadTime" -> {<<"orders", "orders", CardSum(b, screen, card, q, "orders")>>}
          [] card = "valued" -> {<<"valuation", "gross", CardSum(b, screen, card, q, "gross")>>}
          [] card = "segments" -> {<<"buffers", "value", CardSum(b, screen, card, q, "value")>>}
          [] OTHER -> {<<"health", "cells", CardSum(b, screen, card, q, "cells")>>}
  BY <1>1 DEF CardFigures
<1>3. PICK rows : rows = CardScope(b, screen, card, q)
  OBVIOUS
<1>4. rows = {r \in InScope(b, SourceOf(card), q) :
                /\ SourceOf(card) = "positions" => OfRoute(screen, r)
                /\ card = "leadTime" => r.units > 0}
  BY <1>1, <1>3, CardScopeIs
<1>5. ASSUME NEW on \in ScreenNames, NEW name, rows \in SUBSET Scope(b, on, q),
             Table(on) = SourceOf(card),
             \/ Table(on) = "positions" /\ name \in {"units", "value", "damaged", "need", "filled"}
             \/ Table(on) = "ageing" /\ name \in {"units", "value"}
             \/ Table(on) = "valuation" /\ name = "gross"
             \/ Table(on) = "buffers" /\ name = "value"
             \/ Table(on) = "recommendations" /\ name = "orders"
             \/ Table(on) = "health" /\ name = "cells"
      PROVE  CardSum(b, screen, card, q, name) = Tiles(b, Table(on), rows)[name]
  <2>1. rows \in SUBSET b[Table(on)] /\ IsFiniteSet(rows)
    BY <1>5, ScopeIs, FS_Subset
  <2>2. PICK table : table = Table(on)
    OBVIOUS
  <2>3. Adds(b, table, rows, name)
    <3>1. \/ table = "positions" /\ name \in {"units", "value", "damaged", "need", "filled"}
          \/ table = "ageing" /\ name \in {"units", "value"}
          \/ table = "valuation" /\ name = "gross"
          \/ table = "buffers" /\ name = "value"
          \/ table = "recommendations" /\ name = "orders"
          \/ table = "health" /\ name = "cells"
      BY <1>5, <2>2
    <3>2. rows \in SUBSET b[table] /\ IsFiniteSet(rows)
      BY <2>1, <2>2
    <3> QED
      BY <3>1, <3>2, CardTileAdds
  <2>4. Adds(b, SourceOf(card), rows, name) /\ IsFiniteSet(rows)
    BY <1>5, <2>1, <2>2, <2>3
  <2>5. CardSum(b, screen, card, q, name) = Tiles(b, SourceOf(card), rows)[name]
    BY <1>3, <2>4, CardSumIs
  <2> QED
    BY <1>5, <2>5
<1>6. CASE SourceOf(card) = "positions"
  <2>1. screen \in {"overview", "stores", "warehouses"}
    BY <1>6 DEF CardsOf, SourceOf, Table, ScreenNames
  <2>2. Table(screen) = "positions" /\ rows = Scope(b, screen, q)
    <3>1. Table(screen) = "positions"
      BY <2>1 DEF Table
    <3>2. card # "leadTime"
      BY <1>6 DEF SourceOf
    <3> QED
      BY <1>4, <1>6, <3>1, <3>2 DEF Scope
  <2>3. PICK name \in {"units", "value", "damaged", "need", "filled"} :
          f = <<screen, name, CardSum(b, screen, card, q, name)>>
    <3>1. f \in {<<screen, name, CardSum(b, screen, card, q, name)>> :
                   name \in {"units", "value", "damaged", "need", "filled"}}
      <4>1. card # "buckets" /\ card # "leadTime" /\ card # "valued" /\ card # "segments"
        BY <1>6 DEF SourceOf
      <4> QED
        BY <1>2, <1>6, <4>1
    <3>2. \E name \in {"units", "value", "damaged", "need", "filled"} :
             f = <<screen, name, CardSum(b, screen, card, q, name)>>
      BY <3>1, Zenon
    <3> QED
      BY <3>2
  <2>4. CardSum(b, screen, card, q, name) = Tiles(b, Table(screen), rows)[name]
    BY <1>5, <1>6, <2>2
  <2> QED
    BY <2>2, <2>3, <2>4 DEF Home
<1>7. CASE card = "buckets"
  <2>1. SourceOf(card) = "ageing" /\ Table("ageing") = "ageing" /\ rows = Scope(b, "ageing", q)
    <3>1. SourceOf(card) = "ageing"
      BY <1>7 DEF SourceOf
    <3> QED
      BY <1>4, <1>7, <3>1, PlainScope
  <2>2. PICK name \in {"units", "value"} : f = <<"ageing", name, CardSum(b, screen, card, q, name)>>
    BY <1>2, <1>7, <2>1
  <2>3. CardSum(b, screen, card, q, name) = Tiles(b, Table("ageing"), rows)[name]
    BY <1>5, <2>1 DEF ScreenNames
  <2> QED
    BY <2>1, <2>2, <2>3 DEF Home
<1>8. CASE card = "leadTime"
  <2>1. SourceOf(card) = "recommendations" /\ Table("orders") = "recommendations"
    BY <1>8, PlainScope DEF SourceOf
  <2>2. rows = {r \in Scope(b, "orders", q) : r.units > 0}
    BY <1>4, <1>8, <2>1, PlainScope
  <2>3. f = <<"orders", "orders", CardSum(b, screen, card, q, "orders")>>
    BY <1>2, <1>8, <2>1
  <2>4. CardSum(b, screen, card, q, "orders") = Tiles(b, Table("orders"), rows)["orders"]
    BY <1>5, <2>1, <2>2 DEF ScreenNames
  <2>5. \A S : Tiles(b, "recommendations", S).orders = Cardinality({r \in S : r.units > 0})
    BY DEF Tiles, OrderTiles
  <2>6. {r \in rows : r.units > 0} = {r \in Scope(b, "orders", q) : r.units > 0}
    BY <2>2
  <2>7. Tiles(b, Table("orders"), rows)["orders"]
          = Tiles(b, Table("orders"), Scope(b, "orders", q))["orders"]
    BY <2>1, <2>5, <2>6
  <2> QED
    BY <2>3, <2>4, <2>7 DEF Home
<1>9. CASE card = "valued"
  <2>1. SourceOf(card) = "valuation" /\ Table("valuation") = "valuation" /\ rows = Scope(b, "valuation", q)
    <3>1. SourceOf(card) = "valuation"
      BY <1>9 DEF SourceOf
    <3> QED
      BY <1>4, <1>9, <3>1, PlainScope
  <2>2. f = <<"valuation", "gross", CardSum(b, screen, card, q, "gross")>>
    BY <1>2, <1>9, <2>1
  <2>3. CardSum(b, screen, card, q, "gross") = Tiles(b, Table("valuation"), rows)["gross"]
    BY <1>5, <2>1 DEF ScreenNames
  <2> QED
    BY <2>1, <2>2, <2>3 DEF Home
<1>10. CASE card = "segments"
  <2>1. SourceOf(card) = "buffers" /\ Table("buffers") = "buffers" /\ rows = Scope(b, "buffers", q)
    <3>1. SourceOf(card) = "buffers"
      BY <1>10 DEF SourceOf
    <3> QED
      BY <1>4, <1>10, <3>1, PlainScope
  <2>2. f = <<"buffers", "value", CardSum(b, screen, card, q, "value")>>
    BY <1>2, <1>10, <2>1
  <2>3. CardSum(b, screen, card, q, "value") = Tiles(b, Table("buffers"), rows)["value"]
    BY <1>5, <2>1 DEF ScreenNames
  <2> QED
    BY <2>1, <2>2, <2>3 DEF Home
<1>11. CASE card = "triage"
  <2>1. SourceOf(card) = "health" /\ Table("health") = "health" /\ rows = Scope(b, "health", q)
    <3>1. SourceOf(card) = "health"
      BY <1>11 DEF SourceOf
    <3> QED
      BY <1>4, <1>11, <3>1, PlainScope
  <2>2. f = <<"health", "cells", CardSum(b, screen, card, q, "cells")>>
    BY <1>2, <1>11, <2>1
  <2>3. CardSum(b, screen, card, q, "cells") = Tiles(b, Table("health"), rows)["cells"]
    BY <1>5, <2>1 DEF ScreenNames
  <2> QED
    BY <2>1, <2>2, <2>3 DEF Home
<1>12. card \in {"buckets", "warehouses", "locations", "categories", "valued", "triage", "segments",
                 "leadTime"}
  BY DEF CardsOf
<1>13. card \in {"warehouses", "locations", "categories"} => SourceOf(card) = "positions"
  BY DEF SourceOf
<1> QED
  BY <1>6, <1>7, <1>8, <1>9, <1>10, <1>11, <1>12, <1>13

\* and so for the tile of the screen and its companions.
LEMMA TileFiguresAtHome ==
    ASSUME NEW v \in DOMAIN Stock, NEW screen \in ScreenNames, NEW q,
           NEW f \in TileFigures(InventorySummary(Stock[v], screen, q), screen)
    PROVE  f[3] = Home(Stock[v], f[1], f[2], q)
<1> DEFINE b == Stock[v]
<1>1. PICK tiles, own : tiles = InventorySummary(b, screen, q) /\ own = Table(screen)
  OBVIOUS
<1>2. PICK on : on = [t \in DOMAIN tiles |->
                        CASE t = "positions" -> (IF t = own THEN screen ELSE "overview")
                          [] t = "recommendations" -> "orders"
                          [] OTHER -> t]
  OBVIOUS
<1>3. DOMAIN tiles = Companions(screen) \cup {own}
  BY <1>1 DEF InventorySummary
<1>4. \A t \in DOMAIN tiles : tiles[t] = IF t = own THEN Tiles(b, t, Scope(b, screen, q))
                                         ELSE Tiles(b, t, InScope(b, t, q))
  BY <1>1 DEF InventorySummary
<1>5. ASSUME NEW t \in DOMAIN tiles, t # "kinds"
      PROVE  tiles[t] = Tiles(b, Table(on[t]), Scope(b, on[t], q))
  <2>1. CASE t = own
    <3>1. screen \in {"overview", "stores", "warehouses"} =>
            own = "positions" /\ on[t] = screen /\ Table(on[t]) = t
      BY <1>1, <1>2, <2>1 DEF Table
    <3>2. screen \in {"planner", "orders"} =>
            /\ own = "recommendations" /\ on[t] = "orders" /\ Table(on[t]) = t
            /\ Scope(b, on[t], q) = Scope(b, screen, q)
      BY <1>1, <1>2, <2>1, PlainScope
    <3>3. screen \in ScreenNames \ {"overview", "stores", "warehouses", "planner", "orders"} =>
            own = screen /\ on[t] = screen /\ Table(on[t]) = t
      BY <1>1, <1>2, <2>1 DEF Table, ScreenNames
    <3> QED
      BY <1>4, <2>1, <3>1, <3>2, <3>3
  <2>2. CASE t # own
    <3>1. t \in {"health", "transfers", "valuation", "suppliers", "recommendations", "positions", "pool"}
      BY <1>3, <1>5, <2>2 DEF Companions
    <3>2. tiles[t] = Tiles(b, t, InScope(b, t, q))
      BY <1>4, <2>2
    <3>3. t \in {"health", "transfers", "valuation", "suppliers", "pool"} =>
            on[t] = t /\ Table(on[t]) = t /\ Scope(b, on[t], q) = InScope(b, t, q)
      BY <1>2, PlainScope
    <3>4. t = "positions" => Table(on[t]) = t /\ Scope(b, on[t], q) = InScope(b, t, q)
      BY <1>2, <2>2, PlainScope
    <3>5. t = "recommendations" => Table(on[t]) = t /\ Scope(b, on[t], q) = InScope(b, t, q)
      BY <1>2, PlainScope
    <3> QED
      BY <3>1, <3>2, <3>3, <3>4, <3>5
  <2> QED
    BY <2>1, <2>2
<1>6. ASSUME NEW t \in DOMAIN tiles, t # "kinds", NEW name, f = <<on[t], name, tiles[t][name]>>
      PROVE  f[3] = Home(b, f[1], f[2], q)
  BY <1>5, <1>6 DEF Home
<1>7. f \in (CASE screen = "overview" ->
                     {<<"stores", "value", tiles[own].stores>>,
                      <<"warehouses", "value", tiles[own].warehouses>>}
               [] OTHER -> {})
      \/ \E t \in DOMAIN tiles :
           f \in CASE t = "positions" /\ t = own ->
                  {<<screen, name, tiles[t][name]>> :
                     name \in {"units", "value", "damaged", "need", "filled"}}
            [] t = "positions" /\ t # own ->
                  {<<"overview", name, tiles[t][name]>> : name \in {"units", "value", "damaged"}}
            [] t = "recommendations" ->
                  {<<"orders", name, tiles[t][name]>> : name \in {"orders", "units", "value", "above"}}
            [] t = "kinds" -> {<<"valuation", "gross", tiles[t].stores + tiles[t].warehouses>>}
            [] t = "valuation" -> {<<t, name, tiles[t][name]>> : name \in {"gross", "value"}}
            [] t = "pool" -> {<<t, name, tiles[t][name]>> : name \in {"cells", "units"}}
            [] t = "allocations" -> {<<t, name, tiles[t][name]>> : name \in {"units", "allocated"}}
            [] t \in {"ageing", "transfers"} ->
                  {<<t, name, tiles[t][name]>> : name \in {"units", "value"}}
            [] t \in {"waste", "buffers"} ->
                  {<<t, name, tiles[t][name]>> : name \in {"cells", "value"}}
            [] OTHER -> {<<t, name, tiles[t][name]>> : name \in {"cells"}}
  BY <1>1 DEF TileFigures
<1>8. CASE f \in (CASE screen = "overview" ->
                     {<<"stores", "value", tiles[own].stores>>,
                      <<"warehouses", "value", tiles[own].warehouses>>}
               [] OTHER -> {})
  <2>1. screen = "overview" /\ own = "positions" /\ own \in DOMAIN tiles
    BY <1>1, <1>3, <1>8, PlainScope
  <2>2. tiles[own] = Tiles(b, "positions", Scope(b, "overview", q))
    BY <1>4, <2>1
  <2>3. f \in {<<"stores", "value", tiles[own].stores>>,
               <<"warehouses", "value", tiles[own].warehouses>>}
    BY <1>8, <2>1
  <2>4. /\ tiles[own].stores = Home(b, "stores", "value", q)
        /\ tiles[own].warehouses = Home(b, "warehouses", "value", q)
    BY <2>2, StoresAndWarehouses
  <2> QED
    BY <2>3, <2>4
<1>9. ASSUME NEW t \in DOMAIN tiles, t = "kinds",
             f = <<"valuation", "gross", tiles[t].stores + tiles[t].warehouses>>
      PROVE  f[3] = Home(b, f[1], f[2], q)
  <2>1. PICK rows : rows = Scope(b, "valuation", q)
    OBVIOUS
  <2>2. Table("valuation") = "valuation" /\ rows = InScope(b, "valuation", q)
    BY <2>1, PlainScope
  <2>3. InScope(b, "kinds", q) = InScope(b, "valuation", q)
    BY DEF InScope, RowsOf, Filterable
  <2>4. own # "kinds"
    BY <1>1, TableIs DEF TableNames
  <2>5. tiles[t] = Tiles(b, "kinds", rows)
    BY <1>4, <1>9, <2>2, <2>3, <2>4
  <2>6. rows \in SUBSET b.valuation /\ IsFiniteSet(rows)
    BY <2>1, <2>2, ScopeIs DEF ScreenNames
  <2>7. Tiles(b, "kinds", rows).stores + Tiles(b, "kinds", rows).warehouses
          = Tiles(b, "valuation", rows).gross
    BY <2>6, KindsAreTheGross
  <2>8. f[3] = Tiles(b, "valuation", rows).gross
    BY <1>9, <2>5, <2>7
  <2> QED
    BY <1>9, <2>1, <2>2, <2>8 DEF Home
<1>10. ASSUME NEW t \in DOMAIN tiles,
              f \in CASE t = "positions" /\ t = own ->
                  {<<screen, name, tiles[t][name]>> :
                     name \in {"units", "value", "damaged", "need", "filled"}}
            [] t = "positions" /\ t # own ->
                  {<<"overview", name, tiles[t][name]>> : name \in {"units", "value", "damaged"}}
            [] t = "recommendations" ->
                  {<<"orders", name, tiles[t][name]>> : name \in {"orders", "units", "value", "above"}}
            [] t = "kinds" -> {<<"valuation", "gross", tiles[t].stores + tiles[t].warehouses>>}
            [] t = "valuation" -> {<<t, name, tiles[t][name]>> : name \in {"gross", "value"}}
            [] t = "pool" -> {<<t, name, tiles[t][name]>> : name \in {"cells", "units"}}
            [] t = "allocations" -> {<<t, name, tiles[t][name]>> : name \in {"units", "allocated"}}
            [] t \in {"ageing", "transfers"} ->
                  {<<t, name, tiles[t][name]>> : name \in {"units", "value"}}
            [] t \in {"waste", "buffers"} ->
                  {<<t, name, tiles[t][name]>> : name \in {"cells", "value"}}
            [] OTHER -> {<<t, name, tiles[t][name]>> : name \in {"cells"}}
       PROVE  \/ t = "kinds" /\ f = <<"valuation", "gross", tiles[t].stores + tiles[t].warehouses>>
              \/ t # "kinds" /\ \E name : f = <<on[t], name, tiles[t][name]>>
  <2>1. CASE t = "positions" /\ t = own
    <3>1. on[t] = screen /\ t # "kinds"
      BY <1>2, <2>1
    <3>2. f \in {<<screen, name, tiles[t][name]>> :
                   name \in {"units", "value", "damaged", "need", "filled"}}
      BY <1>10, <2>1
    <3>3. \E name : f = <<screen, name, tiles[t][name]>>
      BY <3>2, Zenon
    <3> QED
      BY <3>1, <3>3, Zenon
  <2>2. CASE t = "positions" /\ t # own
    BY <1>2, <1>10, <2>2
  <2>3. CASE t = "recommendations"
    BY <1>2, <1>10, <2>3
  <2>4. CASE t = "kinds"
    BY <1>10, <2>4
  <2>5. CASE t \notin {"positions", "recommendations", "kinds"}
    <3>1. on[t] = t
      BY <1>2, <2>5
    <3>2. \E name : f = <<t, name, tiles[t][name]>>
      BY <1>10, <2>5
    <3> QED
      BY <2>5, <3>1, <3>2
  <2> QED
    BY <2>1, <2>2, <2>3, <2>4, <2>5
<1> QED
  BY <1>6, <1>7, <1>8, <1>9, <1>10

\* A home tile depends on the filters only, not on the page.
LEMMA HomeOfAlike ==
    ASSUME NEW b, NEW p, NEW q, Alike(p, q), DOMAIN q = AskFields, NEW on, NEW name
    PROVE  Home(b, on, name, p) = Home(b, on, name, q)
<1>1. Scope(b, on, p) = Scope(b, on, q)
  BY ScopeOfAlike
<1> QED
  BY <1>1 DEF Home

\* Queries of one filter are alike.
LEMMA FiltersAlike ==
    ASSUME NEW p, NEW q, DOMAIN p = AskFields, DOMAIN q = AskFields, Filter(p) = Filter(q)
    PROVE  Alike(p, q)
<1>1. \A f \in AskFields \ {"limit", "offset"} : Filter(p)[f] = p[f] /\ Filter(q)[f] = q[f]
  BY DEF Filter, AskFields
<1>2. \A f \in AskFields \ {"limit", "offset"} : p[f] = q[f]
  BY <1>1
<1> QED
  BY <1>2 DEF Alike, AskFields

\* Every figure of every screen equals its home.
LEMMA FiguresAtHome ==
    ASSUME NEW x \in Bundle \X Asks, NEW f \in Figures[x]
    PROVE  f[3] = Home(Stock[x[1]], f[1], f[2], x[2][2])
<1>1. PICK v, screen, q : v = x[1] /\ screen = x[2][1] /\ q = x[2][2]
  OBVIOUS
<1>2. v \in DOMAIN Stock /\ screen \in ScreenNames
  BY <1>1, AskAssumption DEF Bundle, ScreenNames
<1>3. Figures[x] = TileFigures(Screens[x], x[2][1]) \cup CardFigures(Stock[x[1]], x[2][1], x[2][2])
  BY Zenon DEF Figures
<1>4. Screens[x] = InventorySummary(Stock[x[1]], x[2][1], x[2][2])
  BY Zenon DEF Screens
<1>5. \/ f \in TileFigures(InventorySummary(Stock[v], screen, q), screen)
      \/ f \in CardFigures(Stock[v], screen, q)
  BY <1>1, <1>3, <1>4
<1>6. f[3] = Home(Stock[v], f[1], f[2], q)
  BY <1>2, <1>5, TileFiguresAtHome, CardFiguresAtHome
<1> QED
  BY <1>1, <1>6

\* Two figures of one kind have one home, so no two screens differ on one.
LEMMA NothingContradicts ==
    ASSUME NEW x \in Bundle \X Asks, NEW y \in Bundle \X Asks
    PROVE  ~ Contradict(x, y)
<1> SUFFICES ASSUME x[1] = y[1], Filter(x[2][2]) = Filter(y[2][2]),
                    NEW f \in Figures[x], NEW g \in Figures[y], f[1] = g[1], f[2] = g[2]
             PROVE  f[3] = g[3]
  BY DEF Contradict
<1>1. PICK v, p, q : v = x[1] /\ p = x[2][2] /\ q = y[2][2]
  OBVIOUS
<1>2. DOMAIN p = AskFields /\ DOMAIN q = AskFields
  BY <1>1, AskAssumption DEF AskFields
<1>3. Alike(p, q)
  BY <1>1, <1>2, FiltersAlike
<1>4. Home(Stock[v], f[1], f[2], p) = Home(Stock[v], f[1], f[2], q)
  BY <1>2, <1>3, HomeOfAlike
<1>5. f[3] = Home(Stock[x[1]], f[1], f[2], x[2][2]) /\ g[3] = Home(Stock[y[1]], g[1], g[2], y[2][2])
  BY FiguresAtHome
<1> QED
  BY <1>1, <1>4, <1>5

\* For any bundles, asks and restarts: the screens of one bundle under one filter
\* have one number for each figure, whichever tile, companion or card tells it.
THEOREM ScreensAgreeHolds == InventoryScreenSpec => []ScreensAgree
<1>1. WalkInv => ScreensAgree
  <2> SUFFICES ASSUME WalkInv, NEW x \in told, NEW y \in told PROVE <<x, y>> \notin Contradictions
    BY DEF ScreensAgree
  <2>1. told \in SUBSET (Bundle \X Asks)
    BY DEF WalkInv
  <2>2. \A z, w \in Bundle \X Asks : ~ Contradict(z, w)
    BY NothingContradicts
  <2>3. Contradictions = {}
    BY <2>2 DEF Contradictions
  <2> QED
    BY <2>3
<1>2. WalkInv /\ [InventoryScreenNext]_inventoryScreenVars => WalkInv'
  BY WalkInvStep
<1> QED
  BY <1>1, <1>2, WalkInvInit, PTL DEF InventoryScreenSpec

----------------------------------------------------------------------------
(* The panels of the forecast page. *)

\* The demand and the error of each row of a backtest.
Demands(E) == [r \in E |-> r.actual]
Errors(E) == [r \in E |-> r.p50 - r.actual]

\* The size of the error of each set of rows, and of a family of such sets.
Misses(E) == [X \in SUBSET E |-> AbsOf(Sigma(Errors(E), X))]
CellsOf(rows, cell) == {{r \in rows : cell[r] = c} : c \in {cell[r] : r \in rows}}

Backtest(E) == IsFiniteSet(E) /\ \A r \in E : r.actual \in Int /\ r.p50 \in Int

\* What the demand and the errors of a part of a backtest are.
LEMMA RowsAreNumbers ==
    ASSUME NEW E, Backtest(E), NEW S \in SUBSET E
    PROVE  /\ IsFiniteSet(S) /\ IsFiniteSet(SUBSET E)
           /\ \A r \in S : Demands(E)[r] = r.actual /\ Demands(E)[r] \in Int
           /\ \A r \in S : Errors(E)[r] = r.p50 - r.actual /\ Errors(E)[r] \in Int
           /\ Sigma(Errors(E), S) \in Int
           /\ Misses(E)[S] = AbsOf(Sigma(Errors(E), S)) /\ Misses(E)[S] \in Nat
<1>1. IsFiniteSet(S) /\ IsFiniteSet(SUBSET E)
  BY FS_Subset, FS_SUBSET DEF Backtest
<1>2. /\ \A r \in S : Demands(E)[r] = r.actual /\ Demands(E)[r] \in Int
      /\ \A r \in S : Errors(E)[r] = r.p50 - r.actual /\ Errors(E)[r] \in Int
  BY DEF Backtest, Demands, Errors
<1>3. Sigma(Errors(E), S) \in Int
  BY <1>1, <1>2, SigmaType
<1>4. Misses(E)[S] = AbsOf(Sigma(Errors(E), S))
  BY DEF Misses
<1> QED
  BY <1>1, <1>2, <1>3, <1>4 DEF AbsOf

\* What Additive says of some rows of a backtest: the error of a cell is taken
\* after its rows are added.
LEMMA AdditiveIs ==
    ASSUME NEW E, Backtest(E), NEW rows \in SUBSET E, NEW cell
    PROVE  LET a == Additive(rows, cell) IN
           /\ a.actual = Sigma(Demands(E), rows)
           /\ a.signed = Sigma(Errors(E), rows)
           /\ a.abs = Sigma(Misses(E), CellsOf(rows, cell))
           /\ a.n = Cardinality(rows)
<1> DEFINE C == {cell[r] : r \in rows}
           In(c) == {r \in rows : cell[r] = c}
           part == [c \in C |-> In(c)]
           error == [r \in rows |-> r.p50 - r.actual]
           demand == [r \in rows |-> r.actual]
           signed == [c \in C |-> SumFunction([r \in In(c) |-> r.p50 - r.actual])]
           abs == [c \in C |-> AbsOf(SumFunction([r \in In(c) |-> r.p50 - r.actual]))]
<1>1. LET a == Additive(rows, cell) IN
      /\ a.actual = SumFunction(demand) /\ a.signed = SumFunction(signed)
      /\ a.abs = SumFunction(abs) /\ a.n = Cardinality(rows)
  BY DEF Additive, Sum
<1>2. IsFiniteSet(rows) /\ IsFiniteSet(C)
  <2>1. IsFiniteSet(rows)
    BY RowsAreNumbers
  <2>2. IsFiniteSet({cell[r] : r \in rows})
    BY <2>1, ImageIsFinite
  <2> QED
    BY <2>1, <2>2
<1>3. SumFunction(demand) = Sigma(Demands(E), rows)
  <2>1. SumFunction(demand) = Sigma(demand, rows)
    BY SumFunctionIs
  <2>2. \A r \in rows : demand[r] = Demands(E)[r] /\ Demands(E)[r] \in Int
    BY RowsAreNumbers
  <2> HIDE DEF demand
  <2>3. Sigma(demand, rows) = Sigma(Demands(E), rows)
    BY <1>2, <2>2, SigmaSame
  <2> QED
    BY <2>1, <2>3
<1>4. \A c \in C : SumFunction([r \in In(c) |-> r.p50 - r.actual]) = Sigma(Errors(E), In(c))
  <2> TAKE c \in C
  <2>1. PICK w : w = [r \in In(c) |-> r.p50 - r.actual]
    OBVIOUS
  <2>2. SumFunction(w) = Sigma(w, In(c))
    BY <2>1, SumFunctionIs
  <2>3. PICK S : S = In(c)
    OBVIOUS
  <2>4. S \in SUBSET E
    BY <2>3
  <2>5. IsFiniteSet(S) /\ \A r \in S : w[r] = Errors(E)[r] /\ Errors(E)[r] \in Int
    BY <2>1, <2>3, <2>4, RowsAreNumbers
  <2>6. Sigma(w, S) = Sigma(Errors(E), S)
    BY <2>5, SigmaSame
  <2> QED
    BY <2>1, <2>2, <2>3, <2>6
<1>5. /\ \A c \in C : part[c] \in SUBSET rows /\ part[c] \in SUBSET E /\ part[c] # {}
      /\ \A c, d \in C : c # d => part[c] \cap part[d] = {}
      /\ UNION {part[c] : c \in C} = rows
      /\ {part[c] : c \in C} = CellsOf(rows, cell)
  <2>1. \A c \in C : part[c] = {r \in rows : cell[r] = c} /\ \E r \in rows : cell[r] = c
    OBVIOUS
  <2>2. \A r \in rows : cell[r] \in C
    OBVIOUS
  <2>3. {part[c] : c \in C} = CellsOf(rows, cell)
    BY DEF CellsOf
  <2> HIDE DEF C, part, In
  <2>4. \A c \in C : part[c] \in SUBSET rows /\ part[c] \in SUBSET E /\ part[c] # {}
    BY <2>1
  <2>5. \A c, d \in C : c # d => part[c] \cap part[d] = {}
    BY <2>1
  <2>6. UNION {part[c] : c \in C} = rows
    BY <2>1, <2>2
  <2> QED
    BY <2>3, <2>4, <2>5, <2>6
<1>6. /\ \A c \in C : signed[c] = Sigma(Errors(E), part[c])
      /\ \A c \in C : abs[c] = AbsOf(Sigma(Errors(E), part[c]))
      /\ DOMAIN signed = C /\ DOMAIN abs = C
  BY <1>4
<1> HIDE DEF C, In, part, signed, abs
<1>7. SumFunction(signed) = Sigma(Errors(E), rows)
  <2>1. SumFunction(signed) = Sigma(signed, C)
    BY <1>6, SumFunctionIs
  <2>2. \A r \in rows : Errors(E)[r] \in Int
    BY RowsAreNumbers
  <2>3. Sigma(signed, C) = Sigma(Errors(E), UNION {part[c] : c \in C})
    BY <1>2, <1>5, <1>6, <2>2, SigmaParts
  <2> QED
    BY <1>5, <2>1, <2>3
<1>8. SumFunction(abs) = Sigma(Misses(E), CellsOf(rows, cell))
  <2>1. SumFunction(abs) = Sigma(abs, C)
    BY <1>6, SumFunctionIs
  <2>2. \A c \in C : Misses(E)[part[c]] \in Int /\ abs[c] = Misses(E)[part[c]]
    <3> TAKE c \in C
    <3>1. PICK S : S = part[c]
      OBVIOUS
    <3>2. S \in SUBSET E
      BY <1>5, <3>1
    <3>3. Misses(E)[S] = AbsOf(Sigma(Errors(E), S)) /\ Misses(E)[S] \in Nat
      BY <3>2, RowsAreNumbers
    <3> QED
      BY <1>6, <3>1, <3>3
  <2>3. \A c, d \in C : part[c] = part[d] => c = d
    BY <1>5
  <2>4. Sigma(Misses(E), {part[c] : c \in C}) = Sigma(abs, C)
    BY <1>2, <2>2, <2>3, SigmaImage
  <2> QED
    BY <1>5, <2>1, <2>4
<1> QED
  BY <1>1, <1>3, <1>7, <1>8

\* Rows divided into parts, given as row -> its part.
Partitioned(S, P) ==
    \A r \in S : r \in P[r] /\ P[r] \in SUBSET S /\ \A x \in P[r] : P[x] = P[r]

\* Errors cancel in a sum: it misses by no more than its terms do.
LEMMA AbsAdds ==
    ASSUME NEW K, IsFiniteSet(K), NEW e, \A k \in K : e[k] \in Int,
           NEW a, \A k \in K : a[k] = AbsOf(e[k])
    PROVE  AbsOf(Sigma(e, K)) <= Sigma(a, K)
<1> DEFINE T == {s \in SUBSET K : Sigma(e, s) \in Int /\ Sigma(a, s) \in Int
                                    /\ AbsOf(Sigma(e, s)) <= Sigma(a, s)}
<1>1. {} \in T
  BY SigmaEmpty DEF AbsOf
<1>2. ASSUME NEW s \in SUBSET K, s \in T, NEW x \in K \ s PROVE s \cup {x} \in T
  <2>1. /\ IsFiniteSet(s) /\ \A y \in s : e[y] \in Int /\ a[y] \in Int
        /\ e[x] \in Int /\ a[x] \in Int
    BY FS_Subset DEF AbsOf
  <2>2. /\ Sigma(e, s \cup {x}) = e[x] + Sigma(e, s)
        /\ Sigma(a, s \cup {x}) = a[x] + Sigma(a, s)
    BY <2>1, SigmaAdd
  <2>3. PICK m, n, i, j : m = Sigma(e, s) /\ n = Sigma(a, s) /\ i = e[x] /\ j = a[x]
    OBVIOUS
  <2>4. m \in Int /\ n \in Int /\ i \in Int /\ AbsOf(m) <= n /\ j = AbsOf(i)
    BY <1>2, <2>1, <2>3
  <2>5. i + m \in Int /\ j + n \in Int /\ AbsOf(i + m) <= j + n
    BY <2>4 DEF AbsOf
  <2> QED
    BY <2>2, <2>3, <2>5
<1>3. SUBSET K \subseteq T
  <2> HIDE DEF T
  <2> QED
    BY <1>1, <1>2, SubsetsReached
<1> QED
  BY <1>3

\* Larger cells never miss by more than the smaller ones they are made of.
LEMMA CoarserMissesLess ==
    ASSUME NEW E, Backtest(E), NEW S \in SUBSET E, NEW P, NEW Q,
           Partitioned(S, P), Partitioned(S, Q), \A r \in S : Q[r] \in SUBSET P[r]
    PROVE  Sigma(Misses(E), Image(P, S)) <= Sigma(Misses(E), Image(Q, S))
<1>1. PICK F, G : F = Image(P, S) /\ G = Image(Q, S)
  OBVIOUS
<1>2. IsFiniteSet(S)
  BY RowsAreNumbers
<1>3. IsFiniteSet(F) /\ IsFiniteSet(G)
  <2>1. IsFiniteSet({P[r] : r \in S}) /\ IsFiniteSet({Q[r] : r \in S})
    BY <1>2, ImageIsFinite
  <2> QED
    BY <1>1, <2>1 DEF Image
<1>4. /\ \A X \in F : \E r \in S : X = P[r]
      /\ \A Y \in G : \E r \in S : Y = Q[r]
      /\ \A r \in S : P[r] \in F /\ Q[r] \in G
  BY <1>1 DEF Image
<1>5. /\ \A X \in F \cup G : X \in SUBSET S /\ X \in SUBSET E /\ X # {}
      /\ \A X, Z \in F : X # Z => X \cap Z = {}
      /\ \A Y, Z \in G : Y # Z => Y \cap Z = {}
  <2>1. \A X \in F \cup G : X \in SUBSET S /\ X # {}
    BY <1>4 DEF Partitioned
  <2>2. ASSUME NEW R, Partitioned(S, R), NEW r \in S, NEW s \in S, NEW x \in R[r], x \in R[s]
        PROVE  R[r] = R[s]
    BY <2>2 DEF Partitioned
  <2>3. \A X, Z \in F : X # Z => X \cap Z = {}
    <3> SUFFICES ASSUME NEW X \in F, NEW Z \in F, NEW x \in X, x \in Z PROVE X = Z
      OBVIOUS
    <3>1. PICK r \in S, s \in S : X = P[r] /\ Z = P[s]
      BY <1>4
    <3> QED
      BY <2>2, <3>1
  <2>4. \A Y, Z \in G : Y # Z => Y \cap Z = {}
    <3> SUFFICES ASSUME NEW X \in G, NEW Z \in G, NEW x \in X, x \in Z PROVE X = Z
      OBVIOUS
    <3>1. PICK r \in S, s \in S : X = Q[r] /\ Z = Q[s]
      BY <1>4
    <3> QED
      BY <2>2, <3>1
  <2> QED
    BY <2>1, <2>3, <2>4
<1>6. \A X \in F \cup G : Misses(E)[X] = AbsOf(Sigma(Errors(E), X)) /\ Misses(E)[X] \in Int
                          /\ Sigma(Errors(E), X) \in Int
  <2> TAKE X \in F \cup G
  <2>1. X \in SUBSET E
    BY <1>5
  <2>2. /\ Misses(E)[X] = AbsOf(Sigma(Errors(E), X)) /\ Misses(E)[X] \in Nat
        /\ Sigma(Errors(E), X) \in Int
    BY <2>1, RowsAreNumbers
  <2> QED
    BY <2>2
<1>7. PICK inside : inside = [X \in F |-> {Y \in G : Y \in SUBSET X}]
  OBVIOUS
<1>8. \A X \in F : /\ inside[X] \in SUBSET G
                   /\ \A Y \in inside[X] : Y \in G /\ Y \in SUBSET X
                   /\ \A Y \in G : Y \in SUBSET X => Y \in inside[X]
  BY <1>7
<1>9. ASSUME NEW X \in F PROVE AbsOf(Sigma(Errors(E), X)) <= Sigma(Misses(E), inside[X])
  <2>1. PICK K : K = inside[X]
    OBVIOUS
  <2>2. K \in SUBSET G /\ IsFiniteSet(K)
    BY <1>3, <1>8, <2>1, FS_Subset
  <2>3. PICK part, e : part = [Y \in K |-> Y] /\ e = [Y \in K |-> Sigma(Errors(E), Y)]
    OBVIOUS
  <2>4. /\ \A Y \in K : part[Y] \in SUBSET S /\ part[Y] = Y
        /\ \A Y, Z \in K : Y # Z => part[Y] \cap part[Z] = {}
        /\ \A Y \in K : e[Y] = Sigma(Errors(E), part[Y]) /\ e[Y] \in Int
                        /\ Misses(E)[Y] = AbsOf(e[Y])
    BY <1>5, <1>6, <2>2, <2>3
  <2>5. \A r \in S : Errors(E)[r] \in Int
    BY RowsAreNumbers
  <2>6. Sigma(e, K) = Sigma(Errors(E), UNION {part[Y] : Y \in K})
    BY <1>2, <2>2, <2>4, <2>5, SigmaParts
  <2>7. UNION {part[Y] : Y \in K} = X
    <3>1. ASSUME NEW x \in X PROVE \E Y \in K : x \in part[Y]
      <4>1. PICK r \in S : X = P[r]
        BY <1>4
      <4>2. x \in S /\ P[x] = X /\ x \in Q[x] /\ Q[x] \in SUBSET P[x] /\ Q[x] \in G
        BY <1>4, <4>1 DEF Partitioned
      <4>3. Q[x] \in K
        BY <1>8, <2>1, <4>2
      <4> QED
        BY <2>4, <4>2, <4>3
    <3>2. \A Y \in K : part[Y] \in SUBSET X
      BY <1>8, <2>1, <2>4
    <3> QED
      BY <3>1, <3>2
  <2>8. AbsOf(Sigma(e, K)) <= Sigma(Misses(E), K)
    BY <2>2, <2>4, AbsAdds
  <2> QED
    BY <2>1, <2>6, <2>7, <2>8
<1>10. PICK total : total = [X \in F |-> Sigma(Misses(E), inside[X])]
  OBVIOUS
<1>11. \A X \in F : total[X] = Sigma(Misses(E), inside[X])
  BY <1>10
<1>12. \A X \in F : total[X] \in Int /\ Misses(E)[X] <= total[X] /\ Misses(E)[X] \in Int
  <2> TAKE X \in F
  <2>1. inside[X] \in SUBSET G /\ IsFiniteSet(inside[X]) /\ \A Y \in inside[X] : Misses(E)[Y] \in Int
    BY <1>3, <1>6, <1>8, FS_Subset
  <2>2. Sigma(Misses(E), inside[X]) \in Int
    BY <2>1, SigmaType
  <2> QED
    BY <1>6, <1>9, <1>11, <2>2
<1>13. \A X, Z \in F : X # Z => inside[X] \cap inside[Z] = {}
  BY <1>5, <1>8
<1>14. UNION {inside[X] : X \in F} = G
  <2>1. ASSUME NEW Y \in G PROVE \E X \in F : Y \in inside[X]
    <3>1. PICK r \in S : Y = Q[r]
      BY <1>4
    <3>2. P[r] \in F /\ Y \in SUBSET P[r]
      BY <1>4, <3>1
    <3>3. Y \in inside[P[r]]
      BY <1>8, <3>2
    <3> QED
      BY <3>2, <3>3
  <2> QED
    BY <1>8, <2>1
<1>15. Sigma(total, F) = Sigma(Misses(E), UNION {inside[X] : X \in F})
  <2>1. \A Y \in G : Misses(E)[Y] \in Int
    BY <1>6
  <2>2. \A X \in F : inside[X] \in SUBSET G
    BY <1>8
  <2> QED
    BY <1>3, <1>11, <1>13, <2>1, <2>2, SigmaParts
<1>16. Sigma(Misses(E), F) <= Sigma(total, F)
  BY <1>3, <1>12, SigmaAtMost
<1> QED
  BY <1>1, <1>14, <1>15, <1>16

\* Sums over parts that cover a set.
LEMMA SigmaCover ==
    ASSUME NEW S, IsFiniteSet(S), NEW w, \A r \in S : w[r] \in Int, NEW K, IsFiniteSet(K),
           NEW part, \A k \in K : part[k] \in SUBSET S,
           \A k, l \in K : k # l => part[k] \cap part[l] = {},
           \A r \in S : \E k \in K : r \in part[k],
           NEW total, \A k \in K : total[k] = Sigma(w, part[k])
    PROVE  Sigma(total, K) = Sigma(w, S)
<1>1. UNION {part[k] : k \in K} = S
  OBVIOUS
<1>2. Sigma(total, K) = Sigma(w, UNION {part[k] : k \in K})
  BY SigmaParts
<1> QED
  BY <1>1, <1>2

\* Counts over parts that cover a set.
LEMMA CountCover ==
    ASSUME NEW S, IsFiniteSet(S), NEW K, IsFiniteSet(K),
           NEW part, \A k \in K : part[k] \in SUBSET S,
           \A k, l \in K : k # l => part[k] \cap part[l] = {},
           \A r \in S : \E k \in K : r \in part[k],
           NEW total, \A k \in K : total[k] = Cardinality(part[k])
    PROVE  Sigma(total, K) = Cardinality(S)
<1>1. UNION {part[k] : k \in K} = S
  OBVIOUS
<1>2. Sigma(total, K) = Cardinality(UNION {part[k] : k \in K})
  BY CountParts
<1> QED
  BY <1>1, <1>2

\* What families of cells miss by adds up to what all of the cells do.
LEMMA FamiliesAddUp ==
    ASSUME NEW E, Backtest(E), NEW K, IsFiniteSet(K),
           NEW family, \A k \in K : family[k] \in SUBSET SUBSET E,
           \A k, l \in K : k # l => family[k] \cap family[l] = {},
           NEW abs, \A k \in K : abs[k] = Sigma(Misses(E), family[k]),
           NEW F, \A X : X \in F <=> \E k \in K : X \in family[k]
    PROVE  Sigma(abs, K) = Sigma(Misses(E), F)
<1>1. PICK sets : sets = SUBSET E
  OBVIOUS
<1>2. IsFiniteSet(sets)
  <2>1. E \in SUBSET E
    OBVIOUS
  <2> QED
    BY <1>1, <2>1, RowsAreNumbers
<1>3. \A X \in sets : Misses(E)[X] \in Int
  <2> TAKE X \in sets
  <2>1. X \in SUBSET E
    BY <1>1
  <2>2. Misses(E)[X] \in Nat
    BY <2>1, RowsAreNumbers
  <2> QED
    BY <2>2
<1>4. \A k \in K : family[k] \in SUBSET sets
  BY <1>1
<1>5. Sigma(abs, K) = Sigma(Misses(E), UNION {family[k] : k \in K})
  BY <1>2, <1>3, <1>4, SigmaParts
<1>6. UNION {family[k] : k \in K} = F
  OBVIOUS
<1> QED
  BY <1>5, <1>6

OfKind(S, kind, k) == {r \in S : kind[r] = k}
Peers(S, kind, cell, r) == {x \in S : kind[x] = kind[r] /\ cell[x] = cell[r]}

ByKind(S, kind, cell, K, T) ==
    /\ \A k : k \in K <=> \E r \in S : k = kind[r]
    /\ \A k \in K : T[k] = Additive(OfKind(S, kind, k), cell)
Columns(K, T, actual, signed, n, abs) ==
    \A k \in K : /\ actual[k] = T[k].actual /\ signed[k] = T[k].signed
                 /\ n[k] = T[k].n /\ abs[k] = T[k].abs

\* The aggregates of the rows of one kind after the other add up to those of all
\* rows, their absolute errors to those of the cells within one kind.
LEMMA AdditiveParts ==
    ASSUME NEW E, Backtest(E), NEW S \in SUBSET E, NEW kind, NEW cell,
           NEW K, NEW T, ByKind(S, kind, cell, K, T), NEW P, \A r \in S : P[r] = Peers(S, kind, cell, r),
           NEW actual, NEW signed, NEW n, NEW abs, Columns(K, T, actual, signed, n, abs)
    PROVE  /\ Sigma(actual, K) = Sigma(Demands(E), S)
           /\ Sigma(signed, K) = Sigma(Errors(E), S)
           /\ Sigma(n, K) = Cardinality(S)
           /\ Sigma(abs, K) = Sigma(Misses(E), Image(P, S))
<1>1. \A k : k \in K <=> \E r \in S : k = kind[r]
  BY DEF ByKind
<1>2. \A k \in K : T[k] = Additive(OfKind(S, kind, k), cell)
  BY DEF ByKind
<1>3. IsFiniteSet(S) /\ IsFiniteSet(K) /\ IsFiniteSet(SUBSET E)
  <2>1. IsFiniteSet(S) /\ IsFiniteSet(SUBSET E)
    BY RowsAreNumbers
  <2>2. IsFiniteSet({kind[r] : r \in S})
    BY <2>1, ImageIsFinite
  <2>3. K = {kind[r] : r \in S}
    BY <1>1
  <2> QED
    BY <2>1, <2>2, <2>3
<1>4. PICK part : part = [k \in K |-> OfKind(S, kind, k)]
  OBVIOUS
<1>5. PICK family : family = [k \in K |-> CellsOf(part[k], cell)]
  OBVIOUS
<1>6. \A k \in K : part[k] = {r \in S : kind[r] = k} /\ part[k] \in SUBSET S /\ part[k] \in SUBSET E
                   /\ T[k] = Additive(part[k], cell)
  BY <1>2, <1>4 DEF OfKind
<1>7. \A k, l \in K : k # l => part[k] \cap part[l] = {}
  BY <1>6
<1>8. \A k \in K : /\ actual[k] = Sigma(Demands(E), part[k])
                   /\ signed[k] = Sigma(Errors(E), part[k])
                   /\ n[k] = Cardinality(part[k])
                   /\ abs[k] = Sigma(Misses(E), family[k])
  <2> TAKE k \in K
  <2>1. PICK R : R = part[k]
    OBVIOUS
  <2>2. R \in SUBSET E /\ T[k] = Additive(R, cell)
    BY <1>6, <2>1
  <2>3. LET a == Additive(R, cell) IN
        /\ a.actual = Sigma(Demands(E), R) /\ a.signed = Sigma(Errors(E), R)
        /\ a.abs = Sigma(Misses(E), CellsOf(R, cell)) /\ a.n = Cardinality(R)
    BY <2>2, AdditiveIs
  <2> QED
    BY <1>5, <2>1, <2>2, <2>3 DEF Columns
<1>9. \A r \in S : \E k \in K : r \in part[k]
  BY <1>1, <1>6
<1>10. /\ Sigma(actual, K) = Sigma(Demands(E), S) /\ Sigma(signed, K) = Sigma(Errors(E), S)
       /\ Sigma(n, K) = Cardinality(S)
  <2>1. \A k \in K : part[k] \in SUBSET S
    BY <1>6
  <2>2. \A k \in K : actual[k] = Sigma(Demands(E), part[k])
    BY <1>8
  <2>3. \A k \in K : signed[k] = Sigma(Errors(E), part[k])
    BY <1>8
  <2>4. \A k \in K : n[k] = Cardinality(part[k])
    BY <1>8
  <2>5. IsFiniteSet(S) /\ IsFiniteSet(K)
    BY <1>3
  <2>6. \A r \in S : Demands(E)[r] \in Int
    BY RowsAreNumbers
  <2>7. \A r \in S : Errors(E)[r] \in Int
    BY RowsAreNumbers
  <2>8. Sigma(actual, K) = Sigma(Demands(E), S)
    BY <1>7, <1>9, <2>1, <2>2, <2>5, <2>6, SigmaCover
  <2>9. Sigma(signed, K) = Sigma(Errors(E), S)
    BY <1>7, <1>9, <2>1, <2>3, <2>5, <2>7, SigmaCover
  <2>10. Sigma(n, K) = Cardinality(S)
    BY <1>7, <1>9, <2>1, <2>4, <2>5, CountCover
  <2> QED
    BY <2>8, <2>9, <2>10
<1>11. \A k \in K, X \in SUBSET E :
         X \in family[k] <=> \E r \in S : kind[r] = k /\ X = P[r]
  <2> TAKE k \in K, X \in SUBSET E
  <2>1. family[k] = CellsOf(part[k], cell)
    BY <1>5
  <2>2. X \in family[k] <=> \E r \in part[k] : X = {x \in part[k] : cell[x] = cell[r]}
    BY <2>1 DEF CellsOf
  <2>3. \A r \in part[k] : r \in S /\ kind[r] = k /\ P[r] = {x \in part[k] : cell[x] = cell[r]}
    BY <1>6 DEF Peers
  <2>4. \A r \in S : kind[r] = k => r \in part[k]
    BY <1>6
  <2>5. ASSUME X \in family[k] PROVE \E r \in S : kind[r] = k /\ X = P[r]
    <3>1. PICK r \in part[k] : X = {x \in part[k] : cell[x] = cell[r]}
      BY <2>2, <2>5
    <3> QED
      BY <2>3, <3>1
  <2>6. ASSUME NEW r \in S, kind[r] = k, X = P[r] PROVE X \in family[k]
    <3>1. r \in part[k] /\ X = {x \in part[k] : cell[x] = cell[r]}
      BY <2>3, <2>4, <2>6
    <3> QED
      BY <2>2, <3>1
  <2> QED
    BY <2>5, <2>6
<1>12. \A k \in K : family[k] \in SUBSET SUBSET E
  <2> TAKE k \in K
  <2>1. family[k] = CellsOf(part[k], cell) /\ part[k] \in SUBSET E
    BY <1>5, <1>6
  <2> QED
    BY <2>1 DEF CellsOf
<1>13. \A k, l \in K : k # l => family[k] \cap family[l] = {}
  <2> SUFFICES ASSUME NEW k \in K, NEW l \in K, NEW X \in family[k], X \in family[l] PROVE k = l
    BY Zenon
  <2>1. PICK r \in S : kind[r] = k /\ X = P[r]
    BY <1>11, <1>12
  <2>2. PICK x \in S : kind[x] = l /\ X = P[x]
    BY <1>11, <1>12
  <2>3. x \in P[x] /\ \A y \in P[r] : kind[y] = k
    BY <2>1 DEF Peers
  <2> QED
    BY <2>1, <2>2, <2>3
<1>14. PICK F : F = Image(P, S)
  OBVIOUS
<1>15. \A X : X \in F <=> \E k \in K : X \in family[k]
  <2>1. \A r \in S : P[r] \in SUBSET E /\ kind[r] \in K
    BY <1>1 DEF Peers
  <2>2. ASSUME NEW r \in S PROVE \E k \in K : P[r] \in family[k]
    BY <1>11, <2>1
  <2>3. ASSUME NEW k \in K, NEW X \in family[k] PROVE \E r \in S : X = P[r]
    BY <1>11, <1>12
  <2> QED
    BY <1>14, <2>2, <2>3 DEF Image
<1>16. Sigma(abs, K) = Sigma(Misses(E), F)
  <2>1. \A k \in K : abs[k] = Sigma(Misses(E), family[k])
    BY <1>8
  <2>2. \A X : X \in F <=> \E k \in K : X \in family[k]
    BY <1>15
  <2>3. IsFiniteSet(K)
    BY <1>3
  <2> QED
    BY <1>12, <1>13, <2>1, <2>2, <2>3, FamiliesAddUp
<1> QED
  BY <1>10, <1>14, <1>16

\* The backtest of a version is one.
LEMMA BacktestOf == \A v \in DOMAIN Version : Backtest(Version[v].eval)
  BY TableAssumption DEF Backtest

\* The rows the headline tile is about, and the cells its errors are taken in.
Counted(v, q) == {r \in HorizonScope(Version[v], q) : r.h <= q.weeks}
TileCell(q, r) == <<GrainCell(q, r), r.origin>>
TilePeers(v, q) ==
    [r \in Counted(v, q) |-> {x \in Counted(v, q) : x.h = r.h /\ TileCell(q, x) = TileCell(q, r)}]

\* The headline tile adds up the rows it counts, over all its horizons.
LEMMA TileIs ==
    ASSUME NEW v \in DOMAIN Version, NEW q
    PROVE  LET E == Version[v].eval
               S == Counted(v, q)
           IN  /\ Tile(v, q).actual = Sigma(Demands(E), S)
               /\ Tile(v, q).signed = Sigma(Errors(E), S)
               /\ Tile(v, q).n = Cardinality(S)
               /\ Tile(v, q).abs = Sigma(Misses(E), Image(TilePeers(v, q), S))
<1>1. PICK E, S, P : E = Version[v].eval /\ S = Counted(v, q) /\ P = TilePeers(v, q)
  OBVIOUS
<1>2. PICK scored, cell : /\ scored = HorizonScope(Version[v], q)
                          /\ cell = [r \in scored |-> TileCell(q, r)]
  OBVIOUS
<1>3. PICK T : T = Horizons(Version[v], q)
  OBVIOUS
<1>4. T = [h \in {r.h : r \in scored} |-> Additive({r \in scored : r.h = h}, cell)]
  BY <1>2, <1>3 DEF Horizons, TileCell
<1>5. PICK K : K = {h \in DOMAIN T : h <= q.weeks}
  OBVIOUS
<1>6. PICK actual, signed, n, abs :
        /\ actual = [h \in K |-> T[h].actual] /\ signed = [h \in K |-> T[h].signed]
        /\ n = [h \in K |-> T[h].n] /\ abs = [h \in K |-> T[h].abs]
  OBVIOUS
<1>7. /\ Tile(v, q).actual = SumFunction(actual) /\ Tile(v, q).signed = SumFunction(signed)
      /\ Tile(v, q).n = SumFunction(n) /\ Tile(v, q).abs = SumFunction(abs)
  BY <1>3, <1>5, <1>6 DEF Tile, Sum
<1>8. /\ SumFunction(actual) = Sigma(actual, K) /\ SumFunction(signed) = Sigma(signed, K)
      /\ SumFunction(n) = Sigma(n, K) /\ SumFunction(abs) = Sigma(abs, K)
  <2>1. DOMAIN actual = K /\ DOMAIN signed = K /\ DOMAIN n = K /\ DOMAIN abs = K
    BY <1>6
  <2> QED
    BY <2>1, SumFunctionIs
<1>9. PICK kind : kind = [r \in S |-> r.h]
  OBVIOUS
<1>10. /\ Backtest(E) /\ S \in SUBSET E
       /\ \A r : r \in S <=> r \in scored /\ r.h <= q.weeks
       /\ \A r \in S : kind[r] = r.h /\ cell[r] = TileCell(q, r)
  BY <1>1, <1>2, <1>9, BacktestOf DEF Counted, HorizonScope
<1>11. \A k : k \in K <=> \E r \in S : k = kind[r]
  BY <1>4, <1>5, <1>10
<1>12. \A k \in K : T[k] = Additive(OfKind(S, kind, k), cell)
  <2> TAKE k \in K
  <2>1. k <= q.weeks /\ T[k] = Additive({r \in scored : r.h = k}, cell)
    BY <1>4, <1>5
  <2>2. {r \in scored : r.h = k} = OfKind(S, kind, k)
    BY <1>10, <2>1 DEF OfKind
  <2> QED
    BY <2>1, <2>2
<1>13. \A r \in S : P[r] = Peers(S, kind, cell, r)
  <2>1. \A r \in S : P[r] = {x \in S : x.h = r.h /\ TileCell(q, x) = TileCell(q, r)}
    BY <1>1 DEF TilePeers
  <2> QED
    BY <1>10, <2>1 DEF Peers
<1>14. /\ Sigma(actual, K) = Sigma(Demands(E), S) /\ Sigma(signed, K) = Sigma(Errors(E), S)
       /\ Sigma(n, K) = Cardinality(S) /\ Sigma(abs, K) = Sigma(Misses(E), Image(P, S))
  <2>1. Backtest(E)
    BY <1>10
  <2>2. S \in SUBSET E
    BY <1>10
  <2>3. ByKind(S, kind, cell, K, T)
    BY <1>11, <1>12 DEF ByKind
  <2>4. Columns(K, T, actual, signed, n, abs)
    BY <1>6 DEF Columns
  <2> QED
    BY <1>13, <2>1, <2>2, <2>3, <2>4, AdditiveParts
<1> QED
  BY <1>1, <1>7, <1>8, <1>14

\* Every store that was scored is one of the stores of the version.
LEMMA ScoredStores ==
    ASSUME NEW v \in DOMAIN Version, NEW r \in Version[v].eval \cup Version[v].series
    PROVE  Key(r) \in Dimensions(Version[v]) /\ r.store \in StoreRows(Version[v])
<1>1. Key(r) \in Dimensions(Version[v]) /\ Key(r)[2] = r.store
  BY DEF Dimensions, Key
<1>2. r.store \in DOMAIN MarketOf
  BY TableAssumption
<1>3. MarketOf[r.store] \in Markets(Version[v])
  BY <1>1 DEF Markets
<1> QED
  BY <1>1, <1>2, <1>3 DEF StoreRows

\* The cells of a row of the stores panel.
StorePeers(v, q) ==
    [r \in StoreScope(Version[v], q) |->
       {x \in StoreScope(Version[v], q) : x.store = r.store /\ x.origin = r.origin /\ x.h = r.h}]

\* The stores panel adds up its rows, over all its stores.
LEMMA StoresAre ==
    ASSUME NEW v \in DOMAIN Version, NEW q
    PROVE  LET E == Version[v].eval
               S == StoreScope(Version[v], q)
               T == Stores(Version[v], q)
           IN  /\ SumFunction([s \in DOMAIN T |-> T[s].actual]) = Sigma(Demands(E), S)
               /\ SumFunction([s \in DOMAIN T |-> T[s].signed]) = Sigma(Errors(E), S)
               /\ SumFunction([s \in DOMAIN T |-> T[s].n]) = Cardinality(S)
               /\ SumFunction([s \in DOMAIN T |-> T[s].abs])
                    = Sigma(Misses(E), Image(StorePeers(v, q), S))
<1>1. PICK E, S, P : /\ E = Version[v].eval /\ S = StoreScope(Version[v], q)
                     /\ P = StorePeers(v, q)
  OBVIOUS
<1>2. PICK T, K : T = Stores(Version[v], q) /\ K = DOMAIN T
  OBVIOUS
<1>3. PICK kind, cell : /\ kind = [r \in S |-> r.store]
                        /\ cell = [r \in S |-> <<r.origin, r.h>>]
  OBVIOUS
<1>4. T = [s \in {r.store : r \in S} \cap StoreRows(Version[v]) |->
             Additive({r \in S : r.store = s}, cell)]
  BY <1>1, <1>2, <1>3 DEF Stores
<1>5. Backtest(E) /\ S \in SUBSET E
  BY <1>1, BacktestOf DEF StoreScope
<1>6. \A r \in S : r.store \in StoreRows(Version[v])
  BY <1>1, <1>5, ScoredStores
<1>7. \A r \in S : kind[r] = r.store /\ cell[r] = <<r.origin, r.h>>
  BY <1>3
<1>8. \A k : k \in K <=> \E r \in S : k = kind[r]
  BY <1>2, <1>4, <1>6, <1>7
<1>9. \A k \in K : T[k] = Additive(OfKind(S, kind, k), cell)
  <2> TAKE k \in K
  <2>1. T[k] = Additive({r \in S : r.store = k}, cell)
    BY <1>2, <1>4
  <2>2. {r \in S : r.store = k} = OfKind(S, kind, k)
    BY <1>7 DEF OfKind
  <2> QED
    BY <2>1, <2>2
<1>10. \A r \in S : P[r] = Peers(S, kind, cell, r)
  <2>1. \A r \in S : P[r] = {x \in S : x.store = r.store /\ x.origin = r.origin /\ x.h = r.h}
    BY <1>1 DEF StorePeers
  <2> QED
    BY <1>7, <2>1 DEF Peers
<1>11. PICK actual, signed, n, abs :
        /\ actual = [s \in K |-> T[s].actual] /\ signed = [s \in K |-> T[s].signed]
        /\ n = [s \in K |-> T[s].n] /\ abs = [s \in K |-> T[s].abs]
  OBVIOUS
<1>12. /\ SumFunction(actual) = Sigma(actual, K) /\ SumFunction(signed) = Sigma(signed, K)
       /\ SumFunction(n) = Sigma(n, K) /\ SumFunction(abs) = Sigma(abs, K)
  <2>1. DOMAIN actual = K /\ DOMAIN signed = K /\ DOMAIN n = K /\ DOMAIN abs = K
    BY <1>11
  <2> QED
    BY <2>1, SumFunctionIs
<1>13. /\ Sigma(actual, K) = Sigma(Demands(E), S) /\ Sigma(signed, K) = Sigma(Errors(E), S)
       /\ Sigma(n, K) = Cardinality(S) /\ Sigma(abs, K) = Sigma(Misses(E), Image(P, S))
  <2>1. Backtest(E)
    BY <1>5
  <2>2. S \in SUBSET E
    BY <1>5
  <2>3. ByKind(S, kind, cell, K, T)
    BY <1>8, <1>9 DEF ByKind
  <2>4. Columns(K, T, actual, signed, n, abs)
    BY <1>11 DEF Columns
  <2> QED
    BY <1>10, <2>1, <2>2, <2>3, <2>4, AdditiveParts
<1> QED
  BY <1>1, <1>2, <1>11, <1>12, <1>13

\* What the server makes of a selection of the page.
LEMMA QueryIs ==
    ASSUME NEW f \in Filters
    PROVE  /\ DOMAIN Query(f) = QueryFields /\ Query(f).horizon = 0
           /\ Query(f).weeks \in Int /\ Query(f).weeks >= 1
           /\ \A c \in {"market", "region", "store", "channel", "category", "search"} :
                Query(f)[c] = Selection[f][c]
           /\ Selection[f].type = None => Query(f).type = None
<1>1. /\ DOMAIN Selection[f] = QueryFields /\ Selection[f].horizon = 0
      /\ Selection[f].weeks \in Int
  BY FilterAssumption
<1>2. PICK s : s = Selection[f]
  OBVIOUS
<1> DEFINE n == Normalized(s)
<1>3. /\ DOMAIN n = QueryFields /\ n.horizon = 0
      /\ n.weeks = (IF s.weeks < 1 THEN 4 ELSE IF s.weeks > 26 THEN 26 ELSE s.weeks)
      /\ n.type = (IF s.type \in {"online", "store"} THEN s.type ELSE None)
      /\ n.market = s.market /\ n.region = s.region /\ n.store = s.store
      /\ n.channel = s.channel /\ n.category = s.category /\ n.search = s.search
  BY <1>1, <1>2 DEF Normalized, QueryFields
<1> HIDE DEF n
<1>4. n.weeks \in Int /\ n.weeks >= 1
  BY <1>1, <1>2, <1>3
<1>5. \A c \in {"market", "region", "store", "channel", "category", "search"} : n[c] = s[c]
  BY <1>3
<1>6. s.type = None => n.type = None
  BY <1>3
<1> QED
  BY <1>2, <1>3, <1>4, <1>5, <1>6 DEF Query, n

\* The headline is what its stores add up to.
LEMMA HeadlineIsTheStores ==
    ASSUME SearchesOneColumn, NEW v \in DOMAIN Version, NEW f \in Filters
    PROVE  LET q == Query(f)
               tile == Tile(v, q)
               stores == Stores(Version[v], q)
           IN  /\ tile.actual = SumFunction([s \in DOMAIN stores |-> stores[s].actual])
               /\ tile.signed = SumFunction([s \in DOMAIN stores |-> stores[s].signed])
               /\ tile.n = SumFunction([s \in DOMAIN stores |-> stores[s].n])
               /\ Grain(q) = "market_portfolio" =>
                    tile.abs <= SumFunction([s \in DOMAIN stores |-> stores[s].abs])
<1>1. PICK q, E, S : q = Query(f) /\ E = Version[v].eval /\ S = StoreScope(Version[v], q)
  OBVIOUS
<1>2. q.horizon = 0
  BY <1>1, QueryIs
<1>3. \A r \in E : OneLine(q, r) <=> AnyColumn(q, r)
  BY <1>1 DEF SearchesOneColumn
<1>4. Counted(v, q) = S
  BY <1>1, <1>2, <1>3 DEF Counted, HorizonScope, StoreScope
<1>5. Backtest(E) /\ S \in SUBSET E
  BY <1>1, BacktestOf DEF StoreScope
<1>6. ASSUME Grain(q) = "market_portfolio"
      PROVE  Sigma(Misses(E), Image(TilePeers(v, q), S)) <= Sigma(Misses(E), Image(StorePeers(v, q), S))
  <2>1. PICK P, Q : P = TilePeers(v, q) /\ Q = StorePeers(v, q)
    OBVIOUS
  <2>2. \A r \in S : P[r] = {x \in S : /\ x.h = r.h /\ x.origin = r.origin
                                       /\ MarketOf[x.store] = MarketOf[r.store]}
    <3>1. \A r, x : TileCell(q, x) = TileCell(q, r)
                       <=> x.origin = r.origin /\ MarketOf[x.store] = MarketOf[r.store]
      BY <1>6 DEF TileCell, GrainCell
    <3>2. \A r \in S : P[r] = {x \in S : x.h = r.h /\ TileCell(q, x) = TileCell(q, r)}
      BY <1>4, <2>1 DEF TilePeers
    <3> QED
      BY <3>1, <3>2
  <2>3. \A r \in S : Q[r] = {x \in S : x.store = r.store /\ x.origin = r.origin /\ x.h = r.h}
    BY <1>1, <2>1 DEF StorePeers
  <2>4. Partitioned(S, P)
    <3>1. \A r \in S : r \in P[r] /\ P[r] \in SUBSET S
      BY <2>2
    <3>2. ASSUME NEW r \in S, NEW x \in P[r] PROVE P[x] = P[r]
      <4>1. x \in S /\ x.h = r.h /\ x.origin = r.origin /\ MarketOf[x.store] = MarketOf[r.store]
        BY <2>2, <3>2
      <4> QED
        BY <2>2, <4>1
    <3> QED
      BY <3>1, <3>2 DEF Partitioned
  <2>5. Partitioned(S, Q)
    <3>1. \A r \in S : r \in Q[r] /\ Q[r] \in SUBSET S
      BY <2>3
    <3>2. ASSUME NEW r \in S, NEW x \in Q[r] PROVE Q[x] = Q[r]
      <4>1. x \in S /\ x.store = r.store /\ x.origin = r.origin /\ x.h = r.h
        BY <2>3, <3>2
      <4> QED
        BY <2>3, <4>1
    <3> QED
      BY <3>1, <3>2 DEF Partitioned
  <2>6. \A r \in S : Q[r] \in SUBSET P[r]
    BY <2>2, <2>3
  <2> QED
    BY <1>5, <2>1, <2>4, <2>5, <2>6, CoarserMissesLess
<1>7. PICK stores, K : stores = Stores(Version[v], q) /\ K = DOMAIN stores
  OBVIOUS
<1>8. /\ Tile(v, q).actual = Sigma(Demands(E), S) /\ Tile(v, q).signed = Sigma(Errors(E), S)
      /\ Tile(v, q).n = Cardinality(S)
      /\ Tile(v, q).abs = Sigma(Misses(E), Image(TilePeers(v, q), S))
  BY <1>1, <1>4, TileIs
<1>9. /\ SumFunction([s \in K |-> stores[s].actual]) = Sigma(Demands(E), S)
      /\ SumFunction([s \in K |-> stores[s].signed]) = Sigma(Errors(E), S)
      /\ SumFunction([s \in K |-> stores[s].n]) = Cardinality(S)
      /\ SumFunction([s \in K |-> stores[s].abs]) = Sigma(Misses(E), Image(StorePeers(v, q), S))
  BY <1>1, <1>7, StoresAre
<1> QED
  BY <1>1, <1>6, <1>7, <1>8, <1>9

\* What a statement takes of a row's series does not tell two rows of one series apart.
LEMMA TrendOfSeries ==
    ASSUME NEW v \in DOMAIN Version, NEW q, NEW r \in TrendScope(Version[v], q),
           NEW t \in Version[v].eval, Key(t) = Key(r)
    PROVE  t \in TrendScope(Version[v], q)
<1>1. t.sku = r.sku /\ t.store = r.store /\ t.channel = r.channel
  BY DEF Key
<1>2. Filtered(q, t) /\ Joined(Version[v], q, t) /\ AnyColumn(q, t)
  BY <1>1 DEF TrendScope, Filtered, Joined, AnyColumn, Key
<1> QED
  BY <1>2 DEF TrendScope

TrendAt(v, q, w) == {e \in TrendScope(Version[v], q) : e.origin + e.h = w}
DemandAt(v, q, w) == Sum(LAMBDA x : x[2], {<<Key(r), r.actual>> : r \in TrendAt(v, q, w)})

\* The trend's actual of a week is its demand, each series counted once.
LEMMA TrendCountsOnce ==
    ASSUME WholeBacktest, NEW v \in DOMAIN Version, NEW q,
           NEW w \in DOMAIN Weekly(Version[v], q)
    PROVE  Weekly(Version[v], q)[w].actual = DemandAt(v, q, w)
<1>1. PICK E, S, At : /\ E = Version[v].eval /\ S = TrendScope(Version[v], q)
                      /\ At = TrendAt(v, q, w)
  OBVIOUS
<1>2. Backtest(E) /\ S \in SUBSET E
  BY <1>1, BacktestOf DEF TrendScope
<1>3. \A r : r \in At <=> r \in S /\ r.origin + r.h = w
  BY <1>1 DEF TrendAt
<1>4. \A r \in E : r.origin \in Int /\ r.h \in 1 .. 26 /\ r.actual \in Int
  BY <1>1, TableAssumption
<1>5. PICK fresh : fresh = Min({r.h : r \in At})
  OBVIOUS
<1>6. PICK R : R = {r \in At : r.h = fresh}
  OBVIOUS
<1>7. At # {} /\ Weekly(Version[v], q)[w].actual = SumFunction([r \in R |-> r.actual])
  <2>1. At = {r \in S : r.origin + r.h = w}
    BY <1>3
  <2>2. w \in {r.origin + r.h : r \in S}
    BY <1>1 DEF Weekly
  <2>3. At # {}
    BY <2>1, <2>2
  <2>4. Weekly(Version[v], q)[w].actual = SumFunction([r \in R |-> r.actual])
    BY <1>1, <1>5, <1>6, <2>1 DEF Weekly, Sum
  <2> QED
    BY <2>3, <2>4
<1>8. \E r \in At : r.h = fresh
  <2>1. {r.h : r \in At} \subseteq Nat
    BY <1>2, <1>3, <1>4
  <2>2. {r.h : r \in At} # {}
    BY <1>7
  <2>3. fresh \in {r.h : r \in At}
    BY <1>5, <2>1, <2>2, MinIsThere
  <2> QED
    BY <2>3
<1>9. R \in SUBSET E /\ \A r : r \in R <=> r \in S /\ r.origin + r.h = w /\ r.h = fresh
  BY <1>2, <1>3, <1>6
<1>10. IsFiniteSet(R) /\ \A r \in R : Demands(E)[r] = r.actual /\ Demands(E)[r] \in Int
  BY <1>2, <1>9, RowsAreNumbers
<1>11. PICK once, demand, second :
         /\ once = [r \in R |-> <<Key(r), r.actual>>] /\ demand = [r \in R |-> r.actual]
         /\ second = [x \in {once[r] : r \in R} |-> x[2]]
  OBVIOUS
<1>12. \A r \in R : once[r] = <<Key(r), r.actual>> /\ demand[r] = r.actual
                    /\ second[once[r]] = demand[r] /\ second[once[r]] \in Int
  <2>1. \A r \in R : once[r] = <<Key(r), r.actual>> /\ demand[r] = r.actual /\ r.actual \in Int
    BY <1>4, <1>9, <1>11
  <2>2. \A r \in R : second[once[r]] = once[r][2]
    BY <1>11
  <2> QED
    BY <2>1, <2>2
<1>13. \A r, s \in R : once[r] = once[s] => r = s
  <2> SUFFICES ASSUME NEW r \in R, NEW s \in R, once[r] = once[s] PROVE r = s
    OBVIOUS
  <2>1. Key(r) = Key(s)
    BY <1>12
  <2>2. r.h = s.h /\ r.origin = s.origin
    <3>1. r \in E /\ s \in E /\ r.origin + r.h = w /\ s.origin + s.h = w /\ r.h = fresh /\ s.h = fresh
      BY <1>9
    <3> QED
      BY <1>4, <3>1
  <2> QED
    BY <1>1, <1>9, <2>1, <2>2, TableAssumption
<1>14. PICK X : X = {once[r] : r \in R}
  OBVIOUS
<1>15. \A x : x \in X <=> \E r \in At : x = <<Key(r), r.actual>>
  <2>1. ASSUME NEW r \in R PROVE r \in At /\ once[r] = <<Key(r), r.actual>>
    BY <1>3, <1>9, <1>12
  <2>2. ASSUME NEW r \in At PROVE \E t \in R : once[t] = <<Key(r), r.actual>>
    <3>1. PICK s \in At : s.h = fresh
      BY <1>8
    <3>2. r \in E /\ s \in E /\ r.origin + r.h = w /\ s.origin + s.h = w
      BY <1>2, <1>3
    <3>3. PICK t \in E : Key(t) = Key(r) /\ t.origin = s.origin /\ t.h = s.h
      BY <1>1, <3>2 DEF WholeBacktest
    <3>4. t.origin + t.h = w /\ t.h = fresh
      BY <3>1, <3>2, <3>3
    <3>5. t \in S
      BY <1>1, <1>3, <3>3, TrendOfSeries
    <3>6. t \in R
      BY <1>9, <3>4, <3>5
    <3>7. t.actual = r.actual
      <4>1. \A x, y \in E : x.origin + x.h = y.origin + y.h /\ Key(x) = Key(y) => x.actual = y.actual
        BY <1>1 DEF WholeBacktest
      <4>2. t \in E /\ r \in E /\ t.origin + t.h = r.origin + r.h /\ Key(t) = Key(r)
        BY <3>2, <3>3, <3>4
      <4> QED
        BY <4>1, <4>2
    <3> QED
      BY <1>12, <3>3, <3>6, <3>7
  <2> QED
    BY <1>14, <2>1, <2>2
<1>16. DemandAt(v, q, w) = SumFunction(second)
  <2>1. X = {<<Key(r), r.actual>> : r \in At}
    BY <1>15
  <2> QED
    BY <1>1, <1>11, <1>14, <2>1 DEF DemandAt, Sum
<1>17. SumFunction(second) = Sigma(second, X) /\ SumFunction(demand) = Sigma(demand, R)
  <2>1. DOMAIN second = X /\ DOMAIN demand = R
    BY <1>11, <1>14
  <2> QED
    BY <2>1, SumFunctionIs
<1>18. Sigma(second, X) = Sigma(demand, R)
  <2>1. Sigma(second, Image(once, R)) = Sigma(demand, R)
    <3>1. \A r \in R : second[once[r]] \in Int
      BY <1>12
    <3>2. \A r \in R : demand[r] = second[once[r]]
      BY <1>12
    <3>3. IsFiniteSet(R)
      BY <1>10
    <3> QED
      BY <1>13, <3>1, <3>2, <3>3, SigmaOfImage
  <2> QED
    BY <1>14, <2>1 DEF Image
<1> QED
  BY <1>7, <1>11, <1>16, <1>17, <1>18

\* Nothing selected admits everything, and the empty search is found everywhere.
LEMMA EmptySearch == \A p \in DOMAIN ProductRank : Matches(SkuWords[p], <<>>)
<1> TAKE p \in DOMAIN ProductRank
<1>1. SkuWords[p] \in Seq(STRING)
  BY CatalogAssumption
<1>2. SubSeq(SkuWords[p], 0 + 1, 0 + Len(<<>>)) = <<>> /\ 0 \in 0 .. Len(SkuWords[p]) - Len(<<>>)
  BY <1>1
<1> QED
  BY <1>2 DEF Matches

\* With nothing selected the window holds every series up to the horizon asked for.
LEMMA WholeWindow ==
    ASSUME NEW v \in DOMAIN Version
    PROVE  \A r : r \in Window(Version[v], Query(Unfiltered))
                    <=> r \in Version[v].series /\ r.h <= Query(Unfiltered).weeks
<1>1. PICK q : q = Query(Unfiltered)
  OBVIOUS
<1>2. /\ q.market = None /\ q.region = None /\ q.store = None /\ q.channel = None
      /\ q.category = None /\ q.type = None /\ q.search = <<>>
  <2>1. /\ Unfiltered \in Filters /\ Selection[Unfiltered].search = <<>>
        /\ \A c \in {"market", "region", "store", "channel", "type", "category"} :
             Selection[Unfiltered][c] = None
    BY FilterAssumption
  <2> QED
    BY <1>1, <2>1, QueryIs
<1>3. \A r \in Version[v].series : r.sku \in DOMAIN ProductRank
  BY TableAssumption
<1>4. \A r \in Version[v].series : AnyColumn(q, r)
  BY <1>2, <1>3, EmptySearch DEF AnyColumn
<1>5. \A r \in Version[v].series : Filtered(q, r)
  BY <1>2 DEF Filtered, Admits
<1>6. \A r \in Version[v].series : /\ Key(r) \in Dimensions(Version[v])
                                   /\ r.store \in StoreRows(Version[v])
  BY ScoredStores
<1>7. \A x : Admits(q.region, x) /\ Admits(q.type, x)
  BY <1>2 DEF Admits
<1> QED
  BY <1>1, <1>4, <1>5, <1>6, <1>7 DEF Window

\* With nothing selected the workbench has a row for each series the summary counts.
LEMMA EverySeriesIsListed ==
    ASSUME NEW v \in DOMAIN Version
    PROVE  Cardinality(Workbench(Version[v], Query(Unfiltered))) = Summary(Version[v]).seriesCount
<1>1. PICK q, W, ones : /\ q = Query(Unfiltered) /\ W = Window(Version[v], q)
                        /\ ones = {r \in Version[v].series : r.h = 1}
  OBVIOUS
<1>2. PICK row : row = [r \in ones |-> WorkbenchRow(Version[v], q, Key(r), {x \in W : Key(x) = Key(r)})]
  OBVIOUS
<1>3. Summary(Version[v]).seriesCount = Cardinality(ones)
  BY <1>1 DEF Summary, SeriesCount
<1>4. IsFiniteSet(ones)
  <2>1. IsFiniteSet(Version[v].series)
    BY TableAssumption
  <2> QED
    BY <1>1, <2>1, FS_Subset
<1>5. \A r, s \in ones : row[r] = row[s] => r = s
  <2> SUFFICES ASSUME NEW r \in ones, NEW s \in ones, row[r] = row[s] PROVE r = s
    OBVIOUS
  <2>1. \A x \in ones : /\ row[x].sku = x.sku /\ row[x].store = x.store
                        /\ row[x].channel = x.channel
    BY <1>2 DEF WorkbenchRow, Key
  <2>2. Key(r) = Key(s)
    BY <2>1 DEF Key
  <2> QED
    BY <1>1, <2>2, TableAssumption
<1>6. q.weeks \in Int /\ q.weeks >= 1
  BY <1>1, FilterAssumption, QueryIs
<1>7. \A r : r \in W <=> r \in Version[v].series /\ r.h <= q.weeks
  BY <1>1, WholeWindow
<1>8. \A r \in ones : r \in W
  BY <1>1, <1>6, <1>7
<1>9. \A r \in W : \E s \in ones : Key(s) = Key(r)
  <2>1. \A r \in Version[v].series : \E s \in Version[v].series : Key(s) = Key(r) /\ s.h = 1
    BY TableAssumption
  <2> QED
    BY <1>1, <1>7, <2>1
<1>10. Workbench(Version[v], q) = {row[r] : r \in ones}
  <2>1. PICK keys : keys = {Key(r) : r \in W}
    OBVIOUS
  <2>2. \A k : k \in keys <=> \E r \in ones : k = Key(r)
    BY <1>8, <1>9, <2>1
  <2>3. PICK rowOf : rowOf = [k \in keys |-> WorkbenchRow(Version[v], q, k, {x \in W : Key(x) = k})]
    OBVIOUS
  <2>4. Workbench(Version[v], q) = {rowOf[k] : k \in keys}
    BY <1>1, <2>1, <2>3 DEF Workbench
  <2>5. \A r \in ones : row[r] = rowOf[Key(r)]
    BY <1>2, <2>2, <2>3
  <2> QED
    BY <2>2, <2>4, <2>5
<1>11. Cardinality({row[r] : r \in ones}) = Cardinality(ones)
  BY <1>4, <1>5, ImageIsFinite
<1> QED
  BY <1>1, <1>3, <1>10, <1>11

\* The query with one region, and with one channel type, chosen.
InRegion(q, x) == [q EXCEPT !.region = x]
OfType(q, x) == [q EXCEPT !.type = x]

\* Choosing a region, or a channel type, changes nothing else of a query.
LEMMA ChosenIs ==
    ASSUME NEW q, DOMAIN q = QueryFields, NEW x
    PROVE  /\ \A c \in QueryFields \ {"region"} : InRegion(q, x)[c] = q[c]
           /\ \A c \in QueryFields \ {"type"} : OfType(q, x)[c] = q[c]
           /\ InRegion(q, x).region = x /\ OfType(q, x).type = x
  BY DEF InRegion, OfType, QueryFields

\* What is counted, and what is listed, of one region.
LEMMA RegionPart ==
    ASSUME NEW v \in DOMAIN Version, NEW q, DOMAIN q = QueryFields, q.region = None,
           NEW x, x # None
    PROVE  /\ \A r : r \in Counted(v, InRegion(q, x))
                       <=> r \in Counted(v, q) /\ RegionOf[r.store] = x
           /\ \A r : r \in Window(Version[v], InRegion(q, x))
                       <=> r \in Window(Version[v], q) /\ RegionOf[r.store] = x
<1>1. PICK p : p = InRegion(q, x)
  OBVIOUS
<1>2. /\ p.market = q.market /\ p.store = q.store /\ p.channel = q.channel /\ p.type = q.type
      /\ p.category = q.category /\ p.search = q.search /\ p.horizon = q.horizon
      /\ p.weeks = q.weeks /\ p.region = x
  BY <1>1, ChosenIs DEF QueryFields
<1>3. \A r : Filtered(p, r) <=> Filtered(q, r)
  BY <1>2 DEF Filtered
<1>4. \A r : (AnyColumn(p, r) <=> AnyColumn(q, r)) /\ (OneLine(p, r) <=> OneLine(q, r))
  BY <1>2 DEF AnyColumn, OneLine
<1>5. \A y : Admits(q.region, y) /\ (Admits(p.region, y) <=> x = y)
  BY <1>2 DEF Admits
<1>6. \A r \in Version[v].eval : Joined(Version[v], p, r)
                                   <=> Joined(Version[v], q, r) /\ RegionOf[r.store] = x
  <2> TAKE r \in Version[v].eval
  <2>1. r.store \in StoreRows(Version[v])
    BY ScoredStores
  <2> QED
    BY <1>2, <1>5, <2>1 DEF Joined
<1>7. \A r : r \in Counted(v, p) <=> r \in Counted(v, q) /\ RegionOf[r.store] = x
  BY <1>2, <1>3, <1>4, <1>6 DEF Counted, HorizonScope
<1>8. \A r : r \in Window(Version[v], p) <=> r \in Window(Version[v], q) /\ RegionOf[r.store] = x
  BY <1>2, <1>3, <1>4, <1>5 DEF Window
<1> QED
  BY <1>1, <1>7, <1>8

\* What is counted of one channel type.
LEMMA TypePart ==
    ASSUME NEW v \in DOMAIN Version, NEW q, DOMAIN q = QueryFields, q.type = None,
           NEW x, x # None
    PROVE  \A r : r \in Counted(v, OfType(q, x)) <=> r \in Counted(v, q) /\ TypeOf[r.channel] = x
<1>1. PICK p : p = OfType(q, x)
  OBVIOUS
<1>2. /\ p.market = q.market /\ p.store = q.store /\ p.channel = q.channel
      /\ p.region = q.region /\ p.category = q.category /\ p.search = q.search
      /\ p.horizon = q.horizon /\ p.weeks = q.weeks /\ p.type = x
  BY <1>1, ChosenIs DEF QueryFields
<1>3. \A r : (Filtered(p, r) <=> Filtered(q, r)) /\ (OneLine(p, r) <=> OneLine(q, r))
  BY <1>2 DEF Filtered, OneLine
<1>4. \A y : Admits(q.type, y) /\ (Admits(p.type, y) <=> x = y)
  BY <1>2 DEF Admits
<1>5. \A r \in Version[v].eval : Joined(Version[v], p, r)
                                   <=> Joined(Version[v], q, r) /\ TypeOf[r.channel] = x
  <2> TAKE r \in Version[v].eval
  <2>1. Key(r) \in Dimensions(Version[v])
    BY ScoredStores
  <2> QED
    BY <1>2, <1>4, <2>1 DEF Joined
<1> QED
  BY <1>1, <1>2, <1>3, <1>5 DEF Counted, HorizonScope

OfKey(S, k) == {r \in S : Key(r) = k}

Regions == {RegionOf[s] : s \in DOMAIN RegionOf}

\* The regions of the stores, and of every row.
LEMMA RegionsAre ==
    /\ IsFiniteSet(Regions) /\ None \notin Regions
    /\ \A v \in DOMAIN Version : \A r \in Version[v].series \cup Version[v].eval :
         RegionOf[r.store] \in Regions
<1>1. IsFiniteSet(DOMAIN RegionOf) /\ \A s \in DOMAIN RegionOf : RegionOf[s] # None
  BY CatalogAssumption
<1>2. IsFiniteSet({RegionOf[s] : s \in DOMAIN RegionOf})
  BY <1>1, ImageIsFinite
<1>3. \A v \in DOMAIN Version : \A r \in Version[v].series \cup Version[v].eval :
        r.store \in DOMAIN RegionOf
  BY TableAssumption, CatalogAssumption
<1> QED
  BY <1>1, <1>2, <1>3 DEF Regions

\* The tile's actual over the regions, one after the other.
LEMMA RegionsAddUp ==
    ASSUME NEW v \in DOMAIN Version, NEW q, DOMAIN q = QueryFields, q.region = None
    PROVE  Tile(v, q).actual = SumFunction([r \in Regions |-> Tile(v, InRegion(q, r)).actual])
<1>1. PICK E, S, K : E = Version[v].eval /\ S = Counted(v, q) /\ K = Regions
  OBVIOUS
<1>2. PICK part, total : /\ part = [x \in K |-> Counted(v, InRegion(q, x))]
                         /\ total = [x \in K |-> Tile(v, InRegion(q, x)).actual]
  OBVIOUS
<1>3. /\ S \in SUBSET E /\ Backtest(E) /\ IsFiniteSet(K)
      /\ \A r \in S : RegionOf[r.store] \in K
  BY <1>1, BacktestOf, RegionsAre DEF Counted, HorizonScope
<1>4. \A x \in K : \A r : r \in part[x] <=> r \in S /\ RegionOf[r.store] = x
  BY <1>1, <1>2, RegionPart, RegionsAre
<1>5. \A x \in K : part[x] \in SUBSET S
  BY <1>4
<1>6. \A x, y \in K : x # y => part[x] \cap part[y] = {}
  BY <1>4
<1>7. \A r \in S : \E x \in K : r \in part[x]
  BY <1>3, <1>4
<1>8. \A x \in K : total[x] = Sigma(Demands(E), part[x])
  BY <1>1, <1>2, TileIs
<1>9. IsFiniteSet(S)
  BY <1>3, RowsAreNumbers
<1>10. \A r \in S : Demands(E)[r] \in Int
  BY <1>3, RowsAreNumbers
<1>11. Sigma(total, K) = Sigma(Demands(E), S)
  BY <1>3, <1>5, <1>6, <1>7, <1>8, <1>9, <1>10, SigmaCover
<1>12. SumFunction(total) = Sigma(total, K)
  BY <1>2, SumFunctionIs
<1>13. SumFunction([r \in Regions |-> Tile(v, InRegion(q, r)).actual]) = SumFunction(total)
  BY <1>1, <1>2
<1> QED
  BY <1>1, <1>11, <1>12, <1>13, TileIs

\* The workbench over the regions.
LEMMA RegionsList ==
    ASSUME NEW v \in DOMAIN Version, NEW q, DOMAIN q = QueryFields, q.region = None
    PROVE  Workbench(Version[v], q) = UNION {Workbench(Version[v], InRegion(q, x)) : x \in Regions}
<1>1. PICK W : W = Window(Version[v], q)
  OBVIOUS
<1>2. \A x \in Regions : \A r : r \in Window(Version[v], InRegion(q, x))
                                  <=> r \in W /\ RegionOf[r.store] = x
  BY <1>1, RegionPart, RegionsAre
<1>3. \A r \in W : RegionOf[r.store] \in Regions
  BY <1>1, RegionsAre DEF Window
<1>4. \A x, k, R : WorkbenchRow(Version[v], InRegion(q, x), k, R) = WorkbenchRow(Version[v], q, k, R)
  <2> TAKE x, k, R
  <2>1. InRegion(q, x).weeks = q.weeks
    BY ChosenIs DEF QueryFields
  <2>2. Scored(Version[v], InRegion(q, x), k) = Scored(Version[v], q, k)
    BY <2>1 DEF Scored
  <2>3. AccuracyState(Version[v], InRegion(q, x), k) = AccuracyState(Version[v], q, k)
    BY <2>2 DEF AccuracyState
  <2> QED
    BY <2>3 DEF WorkbenchRow
<1>5. \A k : {r \in W : Key(r) = k} = OfKey(W, k)
  BY DEF OfKey
<1>6. \A x \in Regions, r \in W : RegionOf[r.store] = x =>
         OfKey(Window(Version[v], InRegion(q, x)), Key(r)) = OfKey(W, Key(r))
  <2> TAKE x \in Regions, r \in W
  <2> HAVE RegionOf[r.store] = x
  <2>1. \A s : Key(s) = Key(r) => s.store = r.store
    BY DEF Key
  <2> QED
    BY <1>2, <2>1 DEF OfKey
<1>7. \A p, b : b \in Workbench(Version[v], p) <=>
         \E r \in Window(Version[v], p) :
            b = WorkbenchRow(Version[v], p, Key(r), OfKey(Window(Version[v], p), Key(r)))
  BY DEF Workbench, OfKey
<1>8. ASSUME NEW x \in Regions, NEW b
      PROVE  b \in Workbench(Version[v], InRegion(q, x)) <=>
               \E r \in W : RegionOf[r.store] = x /\ b = WorkbenchRow(Version[v], q, Key(r), OfKey(W, Key(r)))
  <2>1. PICK p, U : p = InRegion(q, x) /\ U = Window(Version[v], p)
    OBVIOUS
  <2>2. b \in Workbench(Version[v], p) <=>
          \E r \in U : b = WorkbenchRow(Version[v], p, Key(r), OfKey(U, Key(r)))
    BY <1>7, <2>1
  <2>3. \A r : r \in U <=> r \in W /\ RegionOf[r.store] = x
    BY <1>2, <2>1
  <2>4. \A r \in U : WorkbenchRow(Version[v], p, Key(r), OfKey(U, Key(r)))
                       = WorkbenchRow(Version[v], q, Key(r), OfKey(W, Key(r)))
    BY <1>4, <1>6, <2>1, <2>3
  <2> QED
    BY <2>1, <2>2, <2>3, <2>4
<1>9. \A b : b \in Workbench(Version[v], q) <=>
         \E r \in W : b = WorkbenchRow(Version[v], q, Key(r), OfKey(W, Key(r)))
  BY <1>1, <1>7
<1>10. \A b : b \in Workbench(Version[v], q) <=>
         \E x \in Regions : b \in Workbench(Version[v], InRegion(q, x))
  BY <1>3, <1>8, <1>9
<1> QED
  BY <1>10

\* The rows the tile counts, by channel type.
LEMMA TypesAddUp ==
    ASSUME NEW v \in DOMAIN Version, NEW q, DOMAIN q = QueryFields, q.type = None
    PROVE  Tile(v, q).n = Tile(v, OfType(q, "online")).n + Tile(v, OfType(q, "store")).n
<1>1. PICK S, A, B : /\ S = Counted(v, q) /\ A = Counted(v, OfType(q, "online"))
                     /\ B = Counted(v, OfType(q, "store"))
  OBVIOUS
<1>2. None # "online" /\ None # "store"
  BY CatalogAssumption
<1>3. /\ \A r : r \in A <=> r \in S /\ TypeOf[r.channel] = "online"
      /\ \A r : r \in B <=> r \in S /\ TypeOf[r.channel] = "store"
  BY <1>1, <1>2, TypePart
<1>4. \A r \in S : TypeOf[r.channel] \in {"online", "store"}
  <2>1. S \subseteq Version[v].eval
    BY <1>1 DEF Counted, HorizonScope
  <2> QED
    BY <2>1, TableAssumption, CatalogAssumption
<1>5. A \cup B = S /\ A \cap B = {}
  BY <1>3, <1>4
<1>6. IsFiniteSet(S)
  <2>1. S \in SUBSET Version[v].eval /\ Backtest(Version[v].eval)
    BY <1>1, BacktestOf DEF Counted, HorizonScope
  <2> QED
    BY <2>1, RowsAreNumbers
<1>7. Cardinality(S) = Cardinality(A) + Cardinality(B)
  BY <1>5, <1>6, CountApart
<1> QED
  BY <1>1, <1>7, TileIs

\* The selections a page offers divide what it shows, whatever the data.
LEMMA SelectionsDivide ==
    ASSUME NEW v \in DOMAIN Version, NEW f \in Filters PROVE AddsUp(v, f)
<1>1. PICK q : q = Query(f)
  OBVIOUS
<1>2. DOMAIN q = QueryFields
  BY <1>1, QueryIs
<1>3. q.region = None =>
        /\ Tile(v, q).actual = SumFunction([r \in Regions |-> Tile(v, InRegion(q, r)).actual])
        /\ Workbench(Version[v], q) = UNION {Workbench(Version[v], InRegion(q, r)) : r \in Regions}
  BY <1>2, RegionsAddUp, RegionsList
<1>4. q.type = None =>
        Tile(v, q).n = Tile(v, OfType(q, "online")).n + Tile(v, OfType(q, "store")).n
  BY <1>2, TypesAddUp
<1> QED
  BY <1>1, <1>3, <1>4 DEF AddsUp, InRegion, OfType, Regions, Sum

\* The panels of one version under one selection tell one story.
LEMMA PanelsAgree ==
    ASSUME WholeBacktest, SearchesOneColumn, NEW v \in DOMAIN Version, NEW f \in Filters
    PROVE  Reconciles(v, f)
<1>1. PICK q, stores : q = Query(f) /\ stores = Stores(Version[v], q)
  OBVIOUS
<1>2. /\ Tile(v, q).actual = SumFunction([s \in DOMAIN stores |-> stores[s].actual])
      /\ Tile(v, q).signed = SumFunction([s \in DOMAIN stores |-> stores[s].signed])
      /\ Tile(v, q).n = SumFunction([s \in DOMAIN stores |-> stores[s].n])
      /\ Grain(q) = "market_portfolio" =>
           Tile(v, q).abs <= SumFunction([s \in DOMAIN stores |-> stores[s].abs])
  BY <1>1, HeadlineIsTheStores
<1>3. f = Unfiltered => Cardinality(Workbench(Version[v], q)) = Summary(Version[v]).seriesCount
  BY <1>1, EverySeriesIsListed
<1>4. \A w \in DOMAIN Weekly(Version[v], q) : Weekly(Version[v], q)[w].actual = DemandAt(v, q, w)
  BY TrendCountsOnce
<1> QED
  BY <1>1, <1>2, <1>3, <1>4 DEF Reconciles, DemandAt, TrendAt, Sum

\* For any tables, selections and restarts, if every week of the backtest is whole
\* and the searches the page sends find in one column what they find in a line: the
\* panels of one screen that came from one version tell one story, and the regions
\* and the channel types divide it.
THEOREM PanelsReconcileHolds ==
    ASSUME WholeBacktest, SearchesOneColumn
    PROVE  ScreenSpec => []PanelsReconcile
<1>1. \A v \in DOMAIN Version, f \in Filters : <<v, f>> \in Reconciled
  <2> TAKE v \in DOMAIN Version, f \in Filters
  <2>1. Reconciles(v, f) /\ AddsUp(v, f)
    BY PanelsAgree, SelectionsDivide
  <2>2. <<v, f>> \in (IF Reconciles(v, f) /\ AddsUp(v, f) THEN {<<v, f>>} ELSE {})
    BY <2>1
  <2>3. Reconciled = UNION {IF Reconciles(x, g) /\ AddsUp(x, g) THEN {<<x, g>>} ELSE {} :
                              x \in DOMAIN Version, g \in Filters}
    BY DEF Reconciled, Answers
  <2> QED
    BY <2>2, <2>3
<1>2. ScreenInit => filters \in Filters
  BY FilterAssumption DEF ScreenInit
<1>3. filters \in Filters /\ [ScreenNext]_screenVars => (filters \in Filters)'
  BY FilterAssumption DEF ScreenNext, screenVars, OpenPage, LeavePage, Kill, Turn, Choose, Expire,
     Settle, Restart, Walk
<1>4. filters \in Filters => PanelsReconcile
  BY <1>1 DEF PanelsReconcile
<1> QED
  BY <1>2, <1>3, <1>4, PTL DEF ScreenSpec

----------------------------------------------------------------------------
(* The three kinds of reads together. *)

\* An exploration of the reads is one of the requests, one of the forecast lists
\* and one of the inventory screens, so that each proves what it proves alone:
\* answers are of what was active, walks cover their list, tiles are their rows
\* and screens agree.
THEOREM ReadsHold ==
    ReadsSpec => /\ []ForecastAnswersHadAuthority
                 /\ []InventoryAnswersWereActive
                 /\ []PagesCoverTheList
                 /\ []TilesAreTheRows
                 /\ []ScreensAgree
<1>1. ReadsInit => Init /\ ScreenInit /\ InventoryScreenInit
  BY DEF ReadsInit
<1>2. ASSUME [Request \/ ReadForecast \/ ReadInventory]_<<vars, screenVars, inventoryScreenVars>>
      PROVE  [Next]_vars /\ [ScreenNext]_screenVars /\ [InventoryScreenNext]_inventoryScreenVars
  <2>1. CASE Request
    BY <2>1 DEF Request
  <2>2. CASE ReadForecast
    BY <2>2 DEF ReadForecast
  <2>3. CASE ReadInventory
    BY <2>3 DEF ReadInventory
  <2>4. CASE UNCHANGED <<vars, screenVars, inventoryScreenVars>>
    BY <2>4
  <2> QED
    BY <1>2, <2>1, <2>2, <2>3, <2>4
<1>3. ReadsSpec => Spec /\ ScreenSpec /\ InventoryScreenSpec
  BY <1>1, <1>2, PTL DEF ReadsSpec, Spec, ScreenSpec, InventoryScreenSpec
<1> QED
  BY <1>3, ForecastAnswersHadAuthorityHolds, InventoryAnswersWereActiveHolds,
     PagesCoverTheListHolds, TilesAreTheRowsHolds, ScreensAgreeHolds, PTL
=============================================================================
