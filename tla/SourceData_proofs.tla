-------------------------- MODULE SourceData_proofs --------------------------
(***************************************************************************)
(* Theorems about the data side, for any stock, drops, callers and sales.  *)
(* Landing: whatever the source does, snapshots are whole, verified and    *)
(* permanent, and a call that returns names a snapshot of the very         *)
(* manifest it read.  Simulation: what a warehouse has promised, damaged   *)
(* or locked in quality control is always on its shelf; its batches add up *)
(* to its stock, and so does the ledger at the end; and no shipment to a   *)
(* store is ever overdue when the lane takes at least a day.  Evidence: an *)
(* approved publication is complete and a later extraction agrees with it. *)
(***************************************************************************)
EXTENDS SourceData, SetLemmas

\* A call under way knows its drop and has no outcome yet; what it has staged
\* so far are the bytes its drop declares, whatever the source holds by now.
CallInv(l) ==
    /\ pc[l] # "idle" => drop[l] \in Drops /\ outcome[l] = "none"
    /\ outcome[l] \in {"landed", "replayed"} => drop[l] \in Drops
    /\ pc[l] # "copy" => copied[l] = 0
    /\ pc[l] = "copy" =>
         \A o \in Objects : o <= copied[l] => staged[l][o] = Bytes[drop[l]][o]

LandingInv ==
    /\ TypeOK
    /\ \A l \in Landers : CallInv(l)
    /\ SnapshotsAreTheirDrop
    /\ ReturnedDropIsLanded

LEMMA IdsOfDrops == \A d \in Drops : IdOf(d) \in Ids
  BY DEF Ids

LEMMA LandingInit == Init => LandingInv
<1> SUFFICES ASSUME Init PROVE LandingInv
  OBVIOUS
<1>1. source \in [Objects -> Contents]
  BY BytesAssumption DEF Init
<1>2. TypeOK
  BY <1>1, BoundAssumption, ObjectAssumption DEF Init, TypeOK, Empty
<1>3. SnapshotsAreTheirDrop /\ ReturnedDropIsLanded
  BY DEF Init, SnapshotsAreTheirDrop, ReturnedDropIsLanded
<1> QED
  BY <1>2, <1>3 DEF Init, LandingInv, CallInv

\* Steps that leave the snapshots and every call alone.
LEMMA ProducerStep ==
    ASSUME LandingInv, NEW d \in Drops,
           RegenerateManifest(d) \/ \E o \in Objects : RegenerateObject(d, o)
    PROVE  LandingInv'
<1> USE DEF RegenerateManifest, RegenerateObject, caller
<1>1. Bytes[d] \in [Objects -> Contents]
  BY BytesAssumption
<1>2. TypeOK'
  BY <1>1, BoundAssumption DEF LandingInv, TypeOK
<1> QED
  BY <1>2 DEF LandingInv, CallInv, SnapshotsAreTheirDrop, ReturnedDropIsLanded, Id

\* A call that ends without promoting leaves the snapshots alone, and reports
\* a replay only if it has found the snapshot of its own manifest.
LEMMA EndStep ==
    ASSUME LandingInv, NEW l \in Landers, NEW r,
           r \in {"collision", "mismatch", "native_reused", "os_error",
                  "replayed"},
           pc[l] # "idle",
           r = "replayed" => snapshots[Id(l)] # Nothing /\ SameEvidence(l),
           Raise(l, r)
    PROVE  LandingInv'
<1> USE DEF Raise, End
<1>1. TypeOK'
  BY ObjectAssumption DEF LandingInv, TypeOK, Empty
<1>2. \A k \in Landers : CallInv(k)'
  BY DEF LandingInv, TypeOK, CallInv
<1>3. SnapshotsAreTheirDrop'
  BY DEF LandingInv, SnapshotsAreTheirDrop
<1>4. ReturnedDropIsLanded'
  BY DEF LandingInv, TypeOK, ReturnedDropIsLanded, Id, SameEvidence
<1> QED
  BY <1>1, <1>2, <1>3, <1>4 DEF LandingInv

\* The rename: what is staged by now is the whole drop.
LEMMA PromoteStep ==
    ASSUME LandingInv, NEW l \in Landers, Promote(l)
    PROVE  /\ LandingInv'
           /\ snapshots[Id(l)] = Nothing
           /\ snapshots' = [snapshots EXCEPT ![Id(l)] =
                              [drop |-> drop[l], objects |-> Bytes[drop[l]]]]
<1> USE DEF Promote, AllCopied, FinalFree, End
<1>1. drop[l] \in Drops /\ Id(l) \in Ids
  BY IdsOfDrops DEF LandingInv, CallInv, Id
<1>2. staged[l] = Bytes[drop[l]]
  <2>1. staged[l] \in [Objects -> Contents \cup {Nothing}]
    BY DEF LandingInv, TypeOK
  <2>2. Bytes[drop[l]] \in [Objects -> Contents]
    BY <1>1, BytesAssumption
  <2>3. \A o \in Objects : o <= copied[l]
    BY ObjectAssumption DEF Objects
  <2>4. \A o \in Objects : staged[l][o] = Bytes[drop[l]][o]
    BY <2>3 DEF LandingInv, CallInv
  <2> QED
    BY <2>1, <2>2, <2>4
<1>3. [drop |-> drop[l], objects |-> staged[l]] \in Snapshots
  BY <1>1, <1>2, BytesAssumption DEF Snapshots
<1>4. TypeOK'
  BY <1>1, <1>3, ObjectAssumption DEF LandingInv, TypeOK, Empty
<1>5. \A k \in Landers : CallInv(k)'
  BY <1>1 DEF LandingInv, TypeOK, CallInv
<1>6. SnapshotsAreTheirDrop'
  BY <1>1, <1>2 DEF LandingInv, TypeOK, SnapshotsAreTheirDrop, Id
<1>7. ReturnedDropIsLanded'
  <2> SUFFICES ASSUME NEW k \in Landers, outcome'[k] \in {"landed", "replayed"}
               PROVE  snapshots'[Id(k)'] # Nothing
                        /\ snapshots'[Id(k)'].drop = drop'[k]
    BY DEF ReturnedDropIsLanded
  <2>1. CASE k = l
    BY <2>1, <1>1, <1>3, NothingAssumption DEF LandingInv, TypeOK, Id
  <2>2. CASE k # l
    <3>1. snapshots[Id(k)] # Nothing /\ snapshots[Id(k)].drop = drop[k]
      BY <2>2 DEF LandingInv, TypeOK, ReturnedDropIsLanded
    <3>2. Id(k)' = Id(k) /\ Id(k) # Id(l)
      BY <3>1 DEF Id
    <3> QED
      BY <3>1, <3>2, <1>1 DEF LandingInv, TypeOK
  <2> QED
    BY <2>1, <2>2
<1>8. snapshots[Id(l)] = Nothing
  OBVIOUS
<1> QED
  BY <1>2, <1>4, <1>5, <1>6, <1>7, <1>8 DEF LandingInv

\* The steps of a call up to its rename.
LEMMA CallStep ==
    ASSUME LandingInv, NEW l \in Landers,
           ReadManifest(l) \/ FindNoSnapshot(l) \/ Stage(l) \/ CopyObject(l)
             \/ Crash(l)
    PROVE  LandingInv' /\ UNCHANGED snapshots
<1>1. CASE ReadManifest(l)
  <2> USE <1>1 DEF ReadManifest, Goto
  <2>1. TypeOK'
    BY BoundAssumption DEF LandingInv, TypeOK
  <2>2. \A k \in Landers : CallInv(k)'
    BY DEF LandingInv, TypeOK, CallInv
  <2>3. SnapshotsAreTheirDrop' /\ ReturnedDropIsLanded'
    BY DEF LandingInv, TypeOK, SnapshotsAreTheirDrop, ReturnedDropIsLanded, Id
  <2> QED
    BY <2>1, <2>2, <2>3 DEF LandingInv
<1>2. CASE FindNoSnapshot(l) \/ Stage(l)
  <2> USE <1>2 DEF FindNoSnapshot, Stage, Goto
  <2>1. TypeOK'
    BY DEF LandingInv, TypeOK
  <2>2. \A k \in Landers : CallInv(k)'
    BY ObjectAssumption DEF LandingInv, TypeOK, CallInv, Objects
  <2>3. SnapshotsAreTheirDrop' /\ ReturnedDropIsLanded'
    BY DEF LandingInv, TypeOK, SnapshotsAreTheirDrop, ReturnedDropIsLanded, Id
  <2> QED
    BY <2>1, <2>2, <2>3 DEF LandingInv
<1>3. CASE CopyObject(l)
  <2> DEFINE n == copied[l] + 1
  <2> USE <1>3 DEF CopyObject
  <2>1. n \in Objects /\ source[n] = Bytes[drop[l]][n] /\ copied[l] \in Nat
    BY ObjectAssumption DEF LandingInv, TypeOK, Verified
  <2>2. TypeOK'
    BY <2>1, ObjectAssumption DEF LandingInv, TypeOK, Objects
  <2>3. \A k \in Landers : CallInv(k)'
    <3>1. CallInv(l)'
      <4>1. \A o \in Objects : o <= n => o = n \/ o <= copied[l]
        BY <2>1 DEF Objects
      <4>2. staged'[l] = [staged[l] EXCEPT ![n] = source[n]]
        BY DEF LandingInv, TypeOK
      <4>3. staged[l] \in [Objects -> Contents \cup {Nothing}]
        BY DEF LandingInv, TypeOK
      <4>4. copied'[l] = n
        BY DEF LandingInv, TypeOK
      <4>5. \A o \in Objects : o <= n => staged'[l][o] = Bytes[drop[l]][o]
        BY <2>1, <4>1, <4>2, <4>3 DEF LandingInv, CallInv
      <4> QED
        BY <4>4, <4>5 DEF LandingInv, CallInv
    <3>2. ASSUME NEW k \in Landers, k # l PROVE CallInv(k)'
      BY <3>2 DEF LandingInv, TypeOK, CallInv
    <3> QED
      BY <3>1, <3>2
  <2>4. SnapshotsAreTheirDrop' /\ ReturnedDropIsLanded'
    BY DEF LandingInv, TypeOK, SnapshotsAreTheirDrop, ReturnedDropIsLanded, Id
  <2> QED
    BY <2>2, <2>3, <2>4 DEF LandingInv
<1>4. CASE Crash(l)
  <2> USE <1>4 DEF Crash
  <2>1. TypeOK'
    BY BoundAssumption, ObjectAssumption DEF LandingInv, TypeOK, Empty
  <2>2. \A k \in Landers : CallInv(k)'
    BY DEF LandingInv, TypeOK, CallInv
  <2>3. SnapshotsAreTheirDrop' /\ ReturnedDropIsLanded'
    BY DEF LandingInv, TypeOK, SnapshotsAreTheirDrop, ReturnedDropIsLanded, Id
  <2> QED
    BY <2>1, <2>2, <2>3 DEF LandingInv
<1>5. UNCHANGED snapshots
  BY DEF ReadManifest, FindNoSnapshot, Stage, CopyObject, Crash
<1> QED
  BY <1>1, <1>2, <1>3, <1>4, <1>5

\* Every other way a call ends raises, and leaves the snapshots alone.
LEMMA RaiseStep ==
    ASSUME LandingInv, NEW l \in Landers,
           ReplayExisting(l) \/ RefuseCollision(l) \/ RefuseReusedNative(l)
             \/ RefuseMismatch(l) \/ LosePromotion(l)
    PROVE  LandingInv' /\ UNCHANGED snapshots
<1>1. CASE ReplayExisting(l)
  BY <1>1, EndStep DEF ReplayExisting, Raise
<1>2. CASE RefuseCollision(l)
  BY <1>2, EndStep DEF RefuseCollision, Raise
<1>3. CASE RefuseReusedNative(l)
  BY <1>3, EndStep DEF RefuseReusedNative, Raise
<1>4. CASE RefuseMismatch(l)
  BY <1>4, EndStep DEF RefuseMismatch, Raise
<1>5. CASE LosePromotion(l)
  BY <1>5, EndStep DEF LosePromotion, Raise
<1> QED
  BY <1>1, <1>2, <1>3, <1>4, <1>5

LEMMA LandingStep == LandingInv /\ [Next]_vars => LandingInv'
<1> SUFFICES ASSUME LandingInv, [Next]_vars PROVE LandingInv'
  OBVIOUS
<1>1. CASE UNCHANGED vars
  BY <1>1 DEF vars, caller, LandingInv, TypeOK, CallInv, SnapshotsAreTheirDrop,
              ReturnedDropIsLanded, Id
<1> QED
  BY <1>1, ProducerStep, CallStep, RaiseStep, PromoteStep DEF Next, Call

\* A step of the landing leaves every snapshot that is there as it is.
LEMMA StepImmutable ==
    ASSUME LandingInv, [Next]_vars
    PROVE  \A i \in Ids : snapshots[i] # Nothing => snapshots'[i] = snapshots[i]
<1>1. CASE \E l \in Landers : Promote(l)
  <2> PICK l \in Landers : Promote(l)
    BY <1>1
  <2>1. snapshots \in [Ids -> Snapshots \cup {Nothing}]
    BY DEF LandingInv, TypeOK
  <2> QED
    BY <2>1, PromoteStep
<1>2. CASE UNCHANGED snapshots
  BY <1>2
<1>3. ASSUME NEW d \in Drops, RegenerateManifest(d) \/ \E o \in Objects : RegenerateObject(d, o)
      PROVE  UNCHANGED snapshots
  BY <1>3 DEF RegenerateManifest, RegenerateObject
<1>4. UNCHANGED vars => UNCHANGED snapshots
  BY DEF vars
<1> QED
  BY <1>1, <1>2, <1>3, <1>4, CallStep, RaiseStep DEF Next, Call

LEMMA LandingAlways == Spec => []LandingInv
<1> QED
  BY LandingInit, LandingStep, PTL DEF Spec

\* Type correctness of source, snapshots and landers.
THEOREM LandingTypeCorrect == Spec => []TypeOK
<1>1. LandingInv => TypeOK
  BY DEF LandingInv
<1> QED
  BY <1>1, LandingAlways, PTL

\* A snapshot holds every object with the bytes its manifest declares, under
\* the identity they have: whatever is rewritten while it is landed.
THEOREM SnapshotsAreTheirDropHolds == Spec => []SnapshotsAreTheirDrop
<1>1. LandingInv => SnapshotsAreTheirDrop
  BY DEF LandingInv
<1> QED
  BY <1>1, LandingAlways, PTL

\* A caller told "landed" or "replayed" finds the snapshot of its own manifest.
THEOREM ReturnedDropIsLandedHolds == Spec => []ReturnedDropIsLanded
<1>1. LandingInv => ReturnedDropIsLanded
  BY DEF LandingInv
<1> QED
  BY <1>1, LandingAlways, PTL

\* No later landing, replay or race changes or removes a snapshot.
THEOREM SnapshotsImmutableHolds == Spec => SnapshotsImmutable
<1>1. LandingInv /\ [Next]_vars
        => [\A i \in Ids : snapshots[i] # Nothing
              => snapshots'[i] = snapshots[i]]_vars
  BY StepImmutable
<1> QED
  BY <1>1, LandingAlways, PTL DEF Spec, SnapshotsImmutable

-----------------------------------------------------------------------------
Counts == [Warehouse -> Nat]

\* Stock and claims are counted in units.
StockIsCounted ==
    onHand \in Counts /\ committed \in Counts /\ damaged \in Counts /\ quality \in Counts

\* So is what is planned for the days to come, where claims come from and go.
AgendaIsCounted ==
    /\ releases \in [Calendar -> Counts]
    /\ inspections \in [Calendar -> Counts]
    /\ disposals \in [Calendar -> Counts]
    /\ today \in Counts
    /\ \A r \in receipts : r.at \in Warehouse /\ r.quantity \in Nat
    /\ \A t \in transfers : t.quantity \in Nat
    /\ day \in Day

\* Claims never overlap: together they fit the stock.
ClaimsCovered == \A w \in Warehouse : committed[w] + damaged[w] + quality[w] <= onHand[w]

Quantities == StockIsCounted /\ AgendaIsCounted

ClaimInv == Quantities /\ ClaimsCovered

\* Covered claims are reported as they are.
LEMMA CoveredClaimsShow == ASSUME ClaimInv PROVE SnapshotsHideNothing
<1> SUFFICES ASSUME NEW w \in Warehouse
             PROVE  /\ SnapshotOf(w).committed = committed[w]
                    /\ SnapshotOf(w).damaged = damaged[w]
                    /\ SnapshotOf(w).qualityControl = quality[w]
  BY DEF SnapshotsHideNothing
<1>1. /\ onHand[w] \in Nat /\ committed[w] \in Nat
      /\ damaged[w] \in Nat /\ quality[w] \in Nat
      /\ committed[w] + damaged[w] + quality[w] <= onHand[w]
  BY DEF ClaimInv, Quantities, StockIsCounted, Counts, ClaimsCovered
<1>2. Lesser(onHand[w], committed[w]) = committed[w]
  BY <1>1 DEF Lesser
<1>3. Lesser(onHand[w] - committed[w], damaged[w]) = damaged[w]
  BY <1>1 DEF Lesser
<1>4. Lesser(onHand[w] - committed[w] - damaged[w], quality[w]) = quality[w]
  BY <1>1 DEF Lesser
<1> QED
  BY <1>2, <1>3, <1>4 DEF SnapshotOf

\* What is free or usable is a number that fits beside the claims.
LEMMA FreeFits ==
    ASSUME ClaimInv, NEW w \in Warehouse
    PROVE  /\ Free(w) \in Nat /\ Usable(w) \in Nat
           /\ committed[w] + damaged[w] + quality[w] + Free(w) <= onHand[w]
           /\ committed[w] + damaged[w] + quality[w] + Usable(w) <= onHand[w]
<1>1. /\ onHand[w] \in Nat /\ committed[w] \in Nat
      /\ damaged[w] \in Nat /\ quality[w] \in Nat /\ Safety \in Nat
      /\ committed[w] + damaged[w] + quality[w] <= onHand[w]
  BY SupplyAssumption DEF ClaimInv, Quantities, StockIsCounted, Counts, ClaimsCovered
<1> QED
  BY <1>1 DEF Free, Usable, Positive

\* Nothing is claimed before the first day.
LEMMA ClaimsInit == SupplyInit => ClaimInv
<1> SUFFICES ASSUME SupplyInit PROVE ClaimInv
  OBVIOUS
<1>1. None \in Counts
  BY DEF None, Counts
<1>2. day \in Day
  BY StoreAssumption DEF SupplyInit, Day
<1>3. onHand \in Counts
  BY SupplyAssumption DEF SupplyInit, Counts
<1>4. Quantities
  BY <1>1, <1>2, <1>3 DEF SupplyInit, Quantities, StockIsCounted, AgendaIsCounted
<1>5. ClaimsCovered
  BY <1>3 DEF SupplyInit, ClaimsCovered, None, Counts
<1> QED
  BY <1>4, <1>5 DEF ClaimInv

\* Today is a day of every agenda.
LEMMA TodayIsOnCalendar == day \in Day => day \in Calendar
  BY StoreAssumption, SupplyAssumption DEF Day, Calendar

\* Counts stay counts when less than all is taken, when something is added,
\* and when a day of an agenda is replaced or added to.
LEMMA RestIsCounted ==
    ASSUME NEW f \in Counts, NEW g, \A w \in Warehouse : g[w] \in Nat /\ g[w] <= f[w]
    PROVE  [w \in Warehouse |-> f[w] - g[w]] \in Counts
  BY DEF Counts

LEMMA SumIsCounted ==
    ASSUME NEW f \in Counts, NEW g, \A w \in Warehouse : g[w] \in Nat
    PROVE  [w \in Warehouse |-> f[w] + g[w]] \in Counts
  BY DEF Counts

LEMMA MoreIsCounted ==
    ASSUME NEW f \in Counts, NEW v, NEW n \in Nat
    PROVE  [f EXCEPT ![v] = @ + n] \in Counts
<1>1. \A w \in Warehouse : f[w] + n \in Nat
  BY DEF Counts
<1>2. [f EXCEPT ![v] = @ + n] = [w \in Warehouse |-> IF w = v THEN f[w] + n ELSE f[w]]
  BY DEF Counts
<1> QED
  BY <1>1, <1>2 DEF Counts

LEMMA DayIsReplaced ==
    ASSUME NEW a \in [Calendar -> Counts], NEW d, NEW c \in Counts
    PROVE  [a EXCEPT ![d] = c] \in [Calendar -> Counts]
  OBVIOUS

LEMMA DayIsAddedTo ==
    ASSUME NEW a \in [Calendar -> Counts], NEW d, NEW v, NEW n \in Nat
    PROVE  [a EXCEPT ![d][v] = @ + n] \in [Calendar -> Counts]
<1>1. CASE d \in Calendar
  <2>1. [a[d] EXCEPT ![v] = @ + n] \in Counts
    BY <1>1, MoreIsCounted
  <2> QED
    BY <2>1, <1>1
<1>2. CASE d \notin Calendar
  BY <1>2
<1> QED
  BY <1>1, <1>2

\* Claims only go with the stock they are on, or are met by free stock.
LEMMA ClaimsStep == ClaimInv /\ [SupplyNext]_simulationVars => ClaimInv'
<1> SUFFICES ASSUME ClaimInv, [SupplyNext]_simulationVars PROVE ClaimInv'
  OBVIOUS
<1> USE DEF ClaimInv, Quantities
<1>a. day \in Calendar /\ day \in Int
  BY TodayIsOnCalendar, StoreAssumption DEF AgendaIsCounted, Day
<1>b. \A w \in Warehouse :
        /\ onHand[w] \in Nat /\ committed[w] \in Nat /\ damaged[w] \in Nat /\ quality[w] \in Nat
        /\ committed[w] + damaged[w] + quality[w] <= onHand[w]
  BY DEF StockIsCounted, Counts, ClaimsCovered
<1>c. \A w \in Warehouse :
        /\ releases[day][w] \in Nat /\ inspections[day][w] \in Nat
        /\ disposals[day][w] \in Nat /\ today[w] \in Nat
  BY <1>a DEF AgendaIsCounted, Counts
<1>d. None \in Counts
  BY DEF None, Counts
<1>e. \A w \in Warehouse :
        /\ Free(w) \in Nat /\ Usable(w) \in Nat
        /\ committed[w] + damaged[w] + quality[w] + Free(w) <= onHand[w]
        /\ committed[w] + damaged[w] + quality[w] + Usable(w) <= onHand[w]
  BY FreeFits
<1>1. CASE ReleaseFulfilments
  <2> DEFINE taken == [w \in Warehouse |-> Lesser(releases[day][w], Lesser(committed[w], onHand[w]))]
  <2>1. \A w \in Warehouse : taken[w] \in Nat /\ taken[w] <= committed[w] /\ taken[w] <= onHand[w]
    BY <1>b, <1>c DEF Lesser
  <2>2. /\ onHand' = [w \in Warehouse |-> onHand[w] - taken[w]]
        /\ committed' = [w \in Warehouse |-> committed[w] - taken[w]]
        /\ releases' = [releases EXCEPT ![day] = None]
        /\ UNCHANGED <<day, damaged, quality, inspections, disposals, receipts, transfers, today>>
    BY <1>1 DEF ReleaseFulfilments
  <2> HIDE DEF taken
  <2>3. StockIsCounted'
    BY <2>1, <2>2, RestIsCounted DEF StockIsCounted
  <2>4. AgendaIsCounted'
    BY <1>d, <2>2, DayIsReplaced DEF AgendaIsCounted
  <2>5. ClaimsCovered'
    BY <1>b, <2>1, <2>2 DEF ClaimsCovered
  <2> QED
    BY <2>3, <2>4, <2>5
<1>2. CASE ReleaseInspected
  <2> DEFINE passed == [w \in Warehouse |-> Lesser(inspections[day][w], quality[w])]
  <2>1. \A w \in Warehouse : passed[w] \in Nat /\ passed[w] <= quality[w]
    BY <1>b, <1>c DEF Lesser
  <2>2. \A w \in Warehouse : Positive(quality[w] - inspections[day][w]) = quality[w] - passed[w]
    BY <1>b, <1>c DEF Lesser, Positive
  <2>3. /\ quality' = [w \in Warehouse |-> quality[w] - passed[w]]
        /\ inspections' = [inspections EXCEPT ![day] = None]
        /\ UNCHANGED <<day, onHand, committed, damaged, releases, disposals, receipts, transfers, today>>
    BY <1>2, <2>2 DEF ReleaseInspected
  <2> HIDE DEF passed
  <2>4. StockIsCounted'
    BY <2>1, <2>3, RestIsCounted DEF StockIsCounted
  <2>5. AgendaIsCounted'
    BY <1>d, <2>3, DayIsReplaced DEF AgendaIsCounted
  <2>6. ClaimsCovered'
    BY <1>b, <2>1, <2>3 DEF ClaimsCovered
  <2> QED
    BY <2>4, <2>5, <2>6
<1>3. CASE DisposeDamaged
  <2> DEFINE taken == [w \in Warehouse |-> Lesser(disposals[day][w], Lesser(damaged[w], onHand[w]))]
  <2>1. \A w \in Warehouse : taken[w] \in Nat /\ taken[w] <= damaged[w] /\ taken[w] <= onHand[w]
    BY <1>b, <1>c DEF Lesser
  <2>2. /\ onHand' = [w \in Warehouse |-> onHand[w] - taken[w]]
        /\ damaged' = [w \in Warehouse |-> damaged[w] - taken[w]]
        /\ disposals' = [disposals EXCEPT ![day] = None]
        /\ UNCHANGED <<day, committed, quality, releases, inspections, receipts, transfers, today>>
    BY <1>3 DEF DisposeDamaged
  <2> HIDE DEF taken
  <2>3. StockIsCounted'
    BY <2>1, <2>2, RestIsCounted DEF StockIsCounted
  <2>4. AgendaIsCounted'
    BY <1>d, <2>2, DayIsReplaced DEF AgendaIsCounted
  <2>5. ClaimsCovered'
    BY <1>b, <2>1, <2>2 DEF ClaimsCovered
  <2> QED
    BY <2>3, <2>4, <2>5
<1>4. ASSUME NEW l \in lots, ExpireBatch(l) PROVE ClaimInv'
  <2>1. PICK n \in 0 .. Free(l.at) :
          /\ onHand' = [onHand EXCEPT ![l.at] = @ - n]
          /\ UNCHANGED <<day, committed, damaged, quality, agenda, today>>
    BY <1>4 DEF ExpireBatch
  <2>2. l.at \in Warehouse => n \in Nat /\ n <= Free(l.at)
    BY <2>1, <1>e
  <2>3. \A w \in Warehouse : /\ onHand'[w] \in Nat
                             /\ committed[w] + damaged[w] + quality[w] <= onHand'[w]
    BY <2>1, <2>2, <1>b, <1>e DEF StockIsCounted, Counts
  <2>4. StockIsCounted'
    BY <2>1, <2>3 DEF StockIsCounted, Counts
  <2>5. AgendaIsCounted'
    BY <2>1 DEF AgendaIsCounted, agenda
  <2>6. ClaimsCovered'
    BY <2>1, <2>3 DEF ClaimsCovered
  <2> QED
    BY <2>4, <2>5, <2>6
<1>5. CASE \/ ExpiryDone \/ StoresReceive \/ StoresExpire \/ PurchasesReceived
           \/ TransfersReceived \/ NoTransfer \/ DemandServed \/ UNCHANGED simulationVars
  <2>1. UNCHANGED <<day, stock, agenda, today>>
    BY <1>5 DEF ExpiryDone, StoresReceive, StoresExpire, PurchasesReceived,
         TransfersReceived, NoTransfer, DemandServed, simulationVars, supplyVars
  <2> QED
    BY <2>1 DEF StockIsCounted, AgendaIsCounted, ClaimsCovered, stock, agenda
<1>6. CASE LoseStock
  <2>1. PICK lost \in [Warehouse -> 0 .. MaxOpening] :
          /\ \A w \in Warehouse : lost[w] <= Free(w)
          /\ onHand' = [w \in Warehouse |-> onHand[w] - lost[w]]
          /\ UNCHANGED <<day, committed, damaged, quality, agenda, today>>
    BY <1>6 DEF LoseStock
  <2>2. \A w \in Warehouse : lost[w] \in Nat /\ lost[w] <= Free(w)
    BY <2>1, SupplyAssumption
  <2>3. \A w \in Warehouse : /\ lost[w] <= onHand[w]
                             /\ committed[w] + damaged[w] + quality[w] <= onHand[w] - lost[w]
    BY <2>2, <1>b, <1>e
  <2>4. StockIsCounted'
    BY <2>1, <2>2, <2>3, RestIsCounted DEF StockIsCounted
  <2>5. AgendaIsCounted'
    BY <2>1 DEF AgendaIsCounted, agenda
  <2>6. ClaimsCovered'
    BY <2>1, <2>3 DEF ClaimsCovered
  <2> QED
    BY <2>4, <2>5, <2>6
<1>7. ASSUME NEW r \in receipts, ReceivePurchase(r) PROVE ClaimInv'
  <2>1. PICK broken \in 0 .. 1, held \in 0 .. MaxHeld, lag \in 1 .. MaxLag :
          /\ broken > 0 => Handling /\ r.quantity > 0
          /\ IF Handling /\ r.quantity > broken
             THEN held \in 1 .. r.quantity - broken ELSE held = 0
          /\ onHand' = [onHand EXCEPT ![r.at] = @ + r.quantity]
          /\ damaged' = [damaged EXCEPT ![r.at] = @ + broken]
          /\ disposals' = [disposals EXCEPT ![day + lag][r.at] = @ + broken]
          /\ quality' = [quality EXCEPT ![r.at] = @ + held]
          /\ inspections' = [inspections EXCEPT ![day + 1][r.at] = @ + held]
          /\ receipts' = receipts \ {r}
          /\ UNCHANGED <<day, committed, releases, transfers, today>>
    BY <1>7 DEF ReceivePurchase
  <2>2. r.at \in Warehouse /\ r.quantity \in Nat
    BY DEF AgendaIsCounted
  <2>3. broken \in Nat /\ held \in Nat
    BY <2>1, SupplyAssumption
  <2>4. broken + held <= r.quantity
    BY <2>1, <2>2, <2>3
  <2>5. StockIsCounted'
    BY <2>1, <2>2, <2>3, MoreIsCounted DEF StockIsCounted
  <2>6. AgendaIsCounted'
    <3>1. disposals' \in [Calendar -> Counts] /\ inspections' \in [Calendar -> Counts]
      BY <2>1, <2>3, DayIsAddedTo DEF AgendaIsCounted
    <3> QED
      BY <3>1, <2>1 DEF AgendaIsCounted
  <2>7. ClaimsCovered'
    BY <1>b, <2>1, <2>2, <2>3, <2>4 DEF ClaimsCovered, StockIsCounted, Counts
  <2> QED
    BY <2>5, <2>6, <2>7
<1>8. ASSUME NEW t \in transfers, ReceiveTransfer(t) PROVE ClaimInv'
  <2>1. /\ onHand' = [onHand EXCEPT ![Destination] = @ + t.quantity]
        /\ transfers' = transfers \ {t}
        /\ UNCHANGED <<day, committed, damaged, quality, releases, inspections,
                      disposals, receipts, today>>
    BY <1>8 DEF ReceiveTransfer
  <2>2. t.quantity \in Nat
    BY DEF AgendaIsCounted
  <2>3. StockIsCounted'
    BY <2>1, <2>2, MoreIsCounted DEF StockIsCounted
  <2>4. AgendaIsCounted'
    BY <2>1 DEF AgendaIsCounted
  <2>5. ClaimsCovered'
    BY <1>b, <2>1, <2>2 DEF ClaimsCovered, StockIsCounted, Counts
  <2> QED
    BY <2>3, <2>4, <2>5
<1>9. CASE Replenish
  <2>1. PICK order \in [Warehouse -> 0 .. MaxOrder], late \in [Warehouse -> 0 .. MaxLate],
             short \in [Warehouse -> 0 .. MaxShort] :
          /\ receipts' = receipts \cup
               {[at |-> w, sent |-> day, due |-> day + Lead + late[w],
                 quantity |-> Positive(order[w] - short[w])] :
                   w \in {v \in Warehouse : order[v] > 0}}
          /\ UNCHANGED <<day, stock, releases, inspections, disposals, transfers, today>>
    BY <1>9 DEF Replenish
  <2>2. \A w \in Warehouse : order[w] \in Int /\ short[w] \in Int
    BY <2>1
  <2>3. \A w \in Warehouse : Positive(order[w] - short[w]) \in Nat
    BY <2>2 DEF Positive
  <2>4. \A r \in receipts' : r.at \in Warehouse /\ r.quantity \in Nat
    BY <2>1, <2>3 DEF AgendaIsCounted
  <2>5. AgendaIsCounted'
    BY <2>1, <2>4 DEF AgendaIsCounted
  <2> QED
    BY <2>1, <2>5 DEF StockIsCounted, ClaimsCovered, stock
<1>10. CASE ShipTransfer
  <2>1. PICK n \in 1 .. Usable(Source), transit \in 1 .. MaxLag :
          /\ onHand' = [onHand EXCEPT ![Source] = @ - n]
          /\ transfers' = transfers \cup
              (IF day + transit <= LastDay
               THEN {[sent |-> day, due |-> day + transit, quantity |-> n,
                      pieces |-> {p \in {[born |-> l.born, expiry |-> l.expiry,
                                          quantity |-> Drawn(LotsAt(Source), n, l)] : l \in LotsAt(Source)} :
                                    p.quantity > 0}]}
               ELSE {})
          /\ UNCHANGED <<day, committed, damaged, quality, releases, inspections,
                        disposals, receipts, today>>
    BY <1>10 DEF ShipTransfer
  <2>2. n \in Nat /\ n <= Usable(Source)
    BY <2>1, <1>e, SupplyAssumption
  <2>3. \A t \in transfers' : t.quantity \in Nat
    BY <2>1, <2>2 DEF AgendaIsCounted
  <2>4. \A w \in Warehouse : /\ onHand'[w] \in Nat
                             /\ committed[w] + damaged[w] + quality[w] <= onHand'[w]
    BY <2>1, <2>2, <1>b, <1>e DEF StockIsCounted, Counts
  <2>5. StockIsCounted'
    BY <2>1, <2>4 DEF StockIsCounted, Counts
  <2>6. AgendaIsCounted'
    BY <2>1, <2>3 DEF AgendaIsCounted
  <2>7. ClaimsCovered'
    BY <2>1, <2>4 DEF ClaimsCovered
  <2> QED
    BY <2>5, <2>6, <2>7
<1>11. ASSUME NEW s \in Store, Sell(s) PROVE ClaimInv'
  <2>1. PICK took \in [Warehouse -> 0 .. MaxDemand] :
          /\ \A w \in Warehouse : took[w] <= Usable(w)
          /\ committed' = [w \in Warehouse |-> committed[w] + took[w]]
          /\ today' = [w \in Warehouse |-> today[w] + took[w]]
          /\ UNCHANGED <<day, onHand, damaged, quality, agenda>>
    BY <1>11 DEF Sell, Allocates
  <2>2. \A w \in Warehouse : took[w] \in Nat /\ took[w] <= Usable(w)
    BY <2>1, SupplyAssumption
  <2>3. \A w \in Warehouse : committed[w] + took[w] + damaged[w] + quality[w] <= onHand[w]
    BY <2>2, <1>b, <1>e
  <2>4. StockIsCounted'
    BY <2>1, <2>2, SumIsCounted DEF StockIsCounted
  <2>5. AgendaIsCounted'
    BY <2>1, <2>2, SumIsCounted DEF AgendaIsCounted, agenda
  <2>6. ClaimsCovered'
    BY <2>1, <2>3 DEF ClaimsCovered
  <2> QED
    BY <2>4, <2>5, <2>6
<1>12. CASE ShipOrders
  <2>1. PICK atOnce \in [Warehouse -> 0 .. MaxDemand * Cardinality(Store)], lag \in 1 .. MaxLag :
          /\ \A w \in Warehouse : atOnce[w] <= today[w]
          /\ onHand' = [w \in Warehouse |-> onHand[w] - Lesser(atOnce[w], Lesser(committed[w], onHand[w]))]
          /\ committed' = [w \in Warehouse |-> committed[w] - Lesser(atOnce[w], Lesser(committed[w], onHand[w]))]
          /\ releases' = [releases EXCEPT
                ![day + lag] = [w \in Warehouse |-> @[w] + today[w] - atOnce[w]]]
          /\ today' = None
          /\ UNCHANGED <<day, damaged, quality, inspections, disposals, receipts, transfers>>
    BY <1>12 DEF ShipOrders
  <2> DEFINE taken == [w \in Warehouse |-> Lesser(atOnce[w], Lesser(committed[w], onHand[w]))]
             later == [w \in Warehouse |-> releases[day + lag][w] + today[w] - atOnce[w]]
  <2>2. \A w \in Warehouse : atOnce[w] \in Nat /\ atOnce[w] <= today[w]
    BY <2>1
  <2>3. \A w \in Warehouse : taken[w] \in Nat /\ taken[w] <= committed[w] /\ taken[w] <= onHand[w]
    BY <1>b, <2>2 DEF Lesser
  <2>4. /\ onHand' = [w \in Warehouse |-> onHand[w] - taken[w]]
        /\ committed' = [w \in Warehouse |-> committed[w] - taken[w]]
    BY <2>1
  <2>5. releases' \in [Calendar -> Counts]
    <3>1. CASE day + lag \in Calendar
      <4>1. later \in Counts
        BY <3>1, <1>c, <2>2 DEF AgendaIsCounted, Counts
      <4>2. releases' = [releases EXCEPT ![day + lag] = later]
        BY <2>1, <3>1 DEF AgendaIsCounted
      <4> QED
        BY <4>1, <4>2, DayIsReplaced DEF AgendaIsCounted
    <3>2. CASE day + lag \notin Calendar
      BY <3>2, <2>1 DEF AgendaIsCounted
    <3> QED
      BY <3>1, <3>2
  <2> HIDE DEF taken, later
  <2>6. StockIsCounted'
    BY <2>1, <2>3, <2>4, RestIsCounted DEF StockIsCounted
  <2>7. AgendaIsCounted'
    BY <1>d, <2>1, <2>5 DEF AgendaIsCounted
  <2>8. ClaimsCovered'
    BY <1>b, <2>1, <2>3, <2>4 DEF ClaimsCovered
  <2> QED
    BY <2>6, <2>7, <2>8
<1>13. CASE EndOfDay
  <2>1. /\ day' = IF day = LastDay THEN day ELSE day + 1
        /\ UNCHANGED <<stock, agenda, today>>
    BY <1>13 DEF EndOfDay
  <2>2. day' \in Day
    BY <2>1, StoreAssumption DEF AgendaIsCounted, Day
  <2> QED
    BY <2>1, <2>2 DEF StockIsCounted, AgendaIsCounted, ClaimsCovered, stock, agenda
<1> QED
  BY <1>1, <1>2, <1>3, <1>4, <1>5, <1>6, <1>7, <1>8, <1>9, <1>10, <1>11, <1>12, <1>13 DEF SupplyNext

\* What a snapshot reports as committed, damaged or in quality control is what
\* the simulation means by it, for every run: reservations, damage, inspection,
\* expiry, losses, transfers and disposals never compete for the same unit.
THEOREM SnapshotsHideNothingHolds == SupplySpec => []SnapshotsHideNothing
<1>1. SupplyInit => ClaimInv
  BY ClaimsInit
<1>2. ClaimInv /\ [SupplyNext]_simulationVars => ClaimInv'
  BY ClaimsStep
<1>3. ClaimInv => SnapshotsHideNothing
  BY CoveredClaimsShow
<1> QED
  BY <1>1, <1>2, <1>3, PTL DEF SupplySpec

-----------------------------------------------------------------------------
\* Store shipments.  A lane of no days is a hypothesis and not an assumption:
\* the configuration accepts it, and the code then queues a shipment for the
\* day whose arrivals it has already received.
LaneTakesADay == LaneTransit > 0

ShipmentInv ==
    /\ day \in Day
    /\ \A a \in arrivals : a.due \in Nat
    /\ NothingOverdue

\* Every phase keeps the shipments, but for the morning, which receives all of
\* the day, and the evening, which sends some for a later day.
LEMMA ShipmentsStep ==
    ASSUME LaneTakesADay, ShipmentInv, [SupplyNext]_simulationVars
    PROVE  ShipmentInv'
<1> USE DEF ShipmentInv
<1>a. day \in Nat /\ LastDay \in Nat
  BY StoreAssumption DEF Day
<1>1. CASE UNCHANGED <<day, phase, arrivals>>
  BY <1>1 DEF NothingOverdue, Overdue
<1>2. CASE StoresReceive
  <2>1. UNCHANGED <<day, phase>> /\ arrivals' \subseteq arrivals
    BY <1>2 DEF StoresReceive, ReceiveAtStores, supplyVars
  <2> QED
    BY <2>1 DEF NothingOverdue, Overdue
<1>3. CASE StoresExpire
  <2>1. UNCHANGED <<day, arrivals>> /\ \A a \in arrivals : a.due # day
    BY <1>3 DEF StoresExpire, ExpireAtStores, Arriving
  <2> QED
    BY <2>1 DEF NothingOverdue, Overdue
<1>4. CASE EndOfDay
  <2>1. \A a \in arrivals : a.due > day
    BY <1>4, <1>a DEF EndOfDay, Running, NothingOverdue, Overdue
  <2>2. \A a \in arrivals' : a \in arrivals \/ (a.due = day + LaneTransit /\ a.due <= LastDay)
    <3>1. PICK target \in [Store -> StoreTargets] :
            LET order == [s \in Store |-> IF Reviewed(s) THEN Ordered(s, target[s]) ELSE 0]
                due == day + LaneTransit
            IN arrivals' = arrivals \cup
                 {[to |-> s, due |-> due, sent |-> day, quantity |-> order[s]] :
                     s \in {t \in Store : order[t] > 0 /\ due <= LastDay}}
      BY <1>4, Zenon DEF EndOfDay, ReviewStores
    <3> DEFINE order == [s \in Store |-> IF Reviewed(s) THEN Ordered(s, target[s]) ELSE 0]
               due == day + LaneTransit
    <3>2. arrivals' = arrivals \cup
            {[to |-> s, due |-> due, sent |-> day, quantity |-> order[s]] :
                s \in {t \in Store : order[t] > 0 /\ due <= LastDay}}
      BY <3>1, Zenon
    <3>3. due = day + LaneTransit
      OBVIOUS
    <3> HIDE DEF order, due
    <3> QED
      BY <3>2, <3>3
  <2>3. \A a \in arrivals' : a.due \in Nat /\ a.due > day
    BY <2>1, <2>2, <1>a, StoreAssumption DEF LaneTakesADay
  <2>4. /\ day' = IF day = LastDay THEN day ELSE day + 1
        /\ phase' = IF day = LastDay THEN "done" ELSE "release"
    BY <1>4 DEF EndOfDay
  <2>5. day' \in Day
    BY <2>4, StoreAssumption DEF Day
  <2>6. NothingOverdue'
    BY <2>3, <2>4, <1>a DEF NothingOverdue, Overdue
  <2> QED
    BY <2>3, <2>5, <2>6
<1>5. CASE ReleaseFulfilments \/ ReleaseInspected \/ DisposeDamaged \/ ExpiryDone \/ LoseStock
  <2>1. UNCHANGED <<day, arrivals>> /\ phase' \in {"inspect", "dispose", "expire", "lose", "stores"}
    BY <1>5 DEF ReleaseFulfilments, ReleaseInspected, DisposeDamaged, ExpiryDone, LoseStock, storeVars
  <2>2. phase \in {"release", "inspect", "dispose", "expire", "lose"}
    BY <1>5 DEF ReleaseFulfilments, ReleaseInspected, DisposeDamaged, ExpiryDone, LoseStock, Running
  <2> QED
    BY <2>1, <2>2 DEF NothingOverdue, Overdue
<1>6. CASE PurchasesReceived \/ TransfersReceived \/ Replenish \/ ShipTransfer
           \/ NoTransfer \/ DemandServed \/ ShipOrders
  <2>1. UNCHANGED <<day, arrivals>>
    BY <1>6 DEF PurchasesReceived, TransfersReceived, Replenish, ShipTransfer,
         NoTransfer, DemandServed, ShipOrders, storeVars
  <2>2. phase \in {"receive", "arrive", "replenish", "transfer", "sell", "ship"}
    BY <1>6 DEF PurchasesReceived, TransfersReceived, Replenish, ShipTransfer,
         NoTransfer, DemandServed, ShipOrders, Running
  <2> QED
    BY <2>1, <2>2 DEF NothingOverdue, Overdue
<1>7. ASSUME NEW l \in lots, ExpireBatch(l) PROVE UNCHANGED <<day, phase, arrivals>>
  BY <1>7 DEF ExpireBatch, storeVars
<1>8. ASSUME NEW r \in receipts, ReceivePurchase(r) PROVE UNCHANGED <<day, phase, arrivals>>
  BY <1>8 DEF ReceivePurchase, storeVars
<1>9. ASSUME NEW t \in transfers, ReceiveTransfer(t) PROVE UNCHANGED <<day, phase, arrivals>>
  BY <1>9 DEF ReceiveTransfer, storeVars
<1>10. ASSUME NEW s \in Store, Sell(s) PROVE UNCHANGED <<day, phase, arrivals>>
  BY <1>10 DEF Sell, SellAt
<1>11. CASE UNCHANGED simulationVars
  BY <1>11, <1>1 DEF simulationVars, storeVars, supplyVars
<1> QED
  BY <1>1, <1>2, <1>3, <1>4, <1>5, <1>6, <1>7, <1>8, <1>9, <1>10, <1>11 DEF SupplyNext

\* No shipment to a store is ever overdue: what the evening queues for a day is
\* received by the stores on the morning of that day.
THEOREM NothingOverdueHolds == ASSUME LaneTakesADay PROVE SupplySpec => []NothingOverdue
<1>1. SupplyInit => ShipmentInv
  BY StoreAssumption DEF SupplyInit, SeedOpening, ShipmentInv, NothingOverdue, Day
<1>2. ShipmentInv /\ [SupplyNext]_simulationVars => ShipmentInv'
  BY ShipmentsStep
<1>3. ShipmentInv => NothingOverdue
  BY DEF ShipmentInv
<1> QED
  BY <1>1, <1>2, <1>3, PTL DEF SupplySpec

-----------------------------------------------------------------------------
\* Batches: a warehouse has one of a receipt day and an expiry day at most.
Lot == [at : Warehouse, born : Nat, left : Nat, expiry : Nat, check : Nat]

LeftOf == [l \in Lot |-> l.left]

Apart(L) == \A l, m \in L : l.at = m.at /\ l.born = m.born /\ l.expiry = m.expiry => l = m

\* The batches of one warehouse.
Batches(L, w) ==
    IsFiniteSet(L) /\ L \subseteq Lot /\ Apart(L) /\ \A l \in L : l.at = w

LotsOK(L) ==
    /\ L \subseteq Lot /\ Apart(L)
    /\ \A w \in Warehouse : IsFiniteSet({l \in L : l.at = w})

LEMMA LeftIsSum ==
    ASSUME NEW L, IsFiniteSet(L), L \subseteq Lot
    PROVE  Left(L) = Sigma(LeftOf, L) /\ Left(L) \in Nat
<1> DEFINE v == [l \in L |-> l.left]
<1>1. Left(L) = SumFunction(v) /\ DOMAIN v = L
  BY DEF Left
<1>2. \A l \in L : LeftOf[l] \in Nat /\ LeftOf[l] \in Int /\ v[l] = LeftOf[l]
  BY DEF LeftOf, Lot
<1> HIDE DEF v
<1>3. SumFunction(v) = Sigma(v, DOMAIN v)
  BY SumFunctionIs
<1>4. Sigma(v, L) = Sigma(LeftOf, L)
  BY <1>2, SigmaSame
<1>5. Sigma(LeftOf, L) \in Nat
  BY <1>2, SigmaNat
<1> QED
  BY <1>1, <1>3, <1>4, <1>5

LEMMA SoonerOrders ==
    ASSUME NEW w, NEW L, Batches(L, w), NEW l \in L, NEW m \in L
    PROVE  /\ l # m => Sooner(l, m) \/ Sooner(m, l)
           /\ ~(Sooner(l, m) /\ Sooner(m, l))
           /\ \A k \in L : Sooner(k, l) /\ Sooner(l, m) => Sooner(k, m)
<1>1. \A k \in L : k.at = w /\ k.born \in Nat /\ k.expiry \in Nat
  BY DEF Batches, Lot
<1>2. l # m => l.born # m.born \/ l.expiry # m.expiry
  BY DEF Batches, Apart
<1> QED
  BY <1>1, <1>2 DEF Sooner, NoDay

LEMMA FewerBatches ==
    ASSUME NEW w, NEW L, Batches(L, w), NEW M \in SUBSET L
    PROVE  Batches(M, w)
  BY FS_Subset DEF Batches, Apart

\* One batch is the last one.
LEMMA LastBatch ==
    ASSUME NEW w, NEW L, Batches(L, w), L # {}
    PROVE  \E l \in L : \A m \in L \ {l} : Sooner(m, l)
<1> DEFINE HasLast(s) == \E l \in s : \A m \in s \ {l} : Sooner(m, l)
           T == {s \in SUBSET L : s = {} \/ HasLast(s)}
<1>1. {} \in T
  OBVIOUS
<1>2. ASSUME NEW s \in SUBSET L, s \in T, NEW x \in L \ s
      PROVE  s \cup {x} \in T
  <2>1. CASE s = {}
    BY <2>1
  <2>2. CASE s # {}
    <3>1. PICK l \in s : \A m \in s \ {l} : Sooner(m, l)
      BY <1>2, <2>2
    <3>2. CASE Sooner(x, l)
      <4>1. \A m \in (s \cup {x}) \ {l} : Sooner(m, l)
        BY <3>1, <3>2
      <4> QED
        BY <4>1
    <3>3. CASE Sooner(l, x)
      <4>1. \A m \in (s \cup {x}) \ {x} : Sooner(m, x)
        BY <3>1, <3>3, SoonerOrders
      <4> QED
        BY <4>1
    <3> QED
      BY <3>2, <3>3, SoonerOrders
  <2> QED
    BY <2>1, <2>2
<1>3. SUBSET L \subseteq T
  <2> HIDE DEF T
  <2>1. IsFiniteSet(L)
    BY DEF Batches
  <2> QED
    BY <1>1, <1>2, <2>1, SubsetsReached
<1> QED
  BY <1>3

\* What is drawn from the batches is what is asked for, or all they have.
LEMMA DrawnSums ==
    ASSUME NEW w, NEW L, Batches(L, w), NEW n \in Nat
    PROVE  /\ \A l \in L : Drawn(L, n, l) \in Nat /\ Drawn(L, n, l) <= l.left
           /\ Sigma([l \in L |-> Drawn(L, n, l)], L) = Lesser(Left(L), n)
<1> DEFINE Draw(s) == [l \in s |-> Drawn(s, n, l)]
<1>1. ASSUME NEW s \in SUBSET L, NEW l \in s
      PROVE  /\ Drawn(s, n, l) \in Nat /\ Drawn(s, n, l) <= l.left
             /\ Draw(s)[l] = Drawn(s, n, l) /\ Draw(s)[l] \in Nat
  <2>1. {m \in s : Sooner(m, l)} \subseteq L
    OBVIOUS
  <2>2. Left({m \in s : Sooner(m, l)}) \in Nat
    <3>1. Batches({m \in s : Sooner(m, l)}, w)
      BY FewerBatches
    <3> QED
      BY <3>1, LeftIsSum DEF Batches
  <2>3. l.left \in Nat
    BY DEF Batches, Lot
  <2> QED
    BY <2>2, <2>3 DEF Drawn, Lesser, Positive
<1> DEFINE N == {k \in Nat : \A s \in SUBSET L : Cardinality(s) = k =>
                               Sigma(Draw(s), s) = Lesser(Left(s), n)}
<1>2. \A k \in Nat : (\A j \in Nat : j < k => j \in N) => k \in N
  <2>1. ASSUME NEW k \in Nat, \A j \in Nat : j < k => j \in N,
               NEW s \in SUBSET L, Cardinality(s) = k
        PROVE  Sigma(Draw(s), s) = Lesser(Left(s), n)
    <3>a. Batches(s, w) /\ IsFiniteSet(s) /\ s \subseteq Lot
      BY FewerBatches DEF Batches
    <3>b. Left(s) = Sigma(LeftOf, s) /\ Left(s) \in Nat
      BY <3>a, LeftIsSum
    <3>1. CASE s = {}
      <4>1. Sigma(Draw(s), s) = 0 /\ Left(s) = 0
        BY <3>1, <3>b, SigmaEmpty
      <4> QED
        BY <4>1 DEF Lesser
    <3>2. CASE s # {}
      <4>1. PICK x \in s : \A m \in s \ {x} : Sooner(m, x)
        BY <3>2, <3>a, LastBatch
      <4> DEFINE r == s \ {x}
      <4>2. r \in SUBSET L /\ Batches(r, w) /\ IsFiniteSet(r) /\ r \subseteq Lot
        BY <3>a, FewerBatches DEF Batches
      <4>3. Cardinality(r) = k - 1 /\ k - 1 \in Nat /\ k - 1 < k
        <5>1. Cardinality(s) \in Nat /\ Cardinality(s) # 0
          BY <3>a, <3>2, FS_CardinalityType, FS_EmptySet
        <5>2. Cardinality(s \ {x}) = Cardinality(s) - 1
          BY <3>a, FS_RemoveElement
        <5> QED
          BY <2>1, <5>1, <5>2
      <4>4. Sigma(Draw(r), r) = Lesser(Left(r), n)
        BY <2>1, <4>2, <4>3
      <4>5. {m \in s : Sooner(m, x)} = r
        <5>1. ~Sooner(x, x)
          BY <3>a, SoonerOrders
        <5> QED
          BY <4>1, <5>1
      <4>6. ASSUME NEW l \in r PROVE Draw(s)[l] = Draw(r)[l]
        <5>1. ~Sooner(x, l)
          BY <3>a, <4>1, SoonerOrders
        <5>2. {m \in s : Sooner(m, l)} = {m \in r : Sooner(m, l)}
          BY <5>1
        <5>3. Drawn(s, n, l) = Drawn(r, n, l)
          BY <5>2, Zenon DEF Drawn
        <5> QED
          BY <5>3
      <4>7. Left(r) = Sigma(LeftOf, r) /\ Left(r) \in Nat
        BY <4>2, LeftIsSum
      <4>8. Draw(s)[x] = Lesser(x.left, Positive(n - Left(r)))
        BY <4>5 DEF Drawn
      <4>9. x.left \in Nat /\ LeftOf[x] = x.left /\ \A l \in s : LeftOf[l] \in Int
        BY <3>a DEF Lot, LeftOf
      <4>10. Left(s) = x.left + Left(r)
        <5>1. Sigma(LeftOf, s) = LeftOf[x] + Sigma(LeftOf, s \ {x})
          BY <3>a, <4>9, SigmaRemove
        <5> QED
          BY <3>b, <4>7, <4>9, <5>1
      <4>11. \A l \in s : Draw(s)[l] \in Int
        BY <1>1
      <4>12. \A l \in r : Draw(r)[l] \in Int
        BY <1>1, <4>2
      <4> HIDE DEF Draw
      <4>13. Sigma(Draw(s), s) = Draw(s)[x] + Sigma(Draw(s), r)
        BY <3>a, <4>11, SigmaRemove
      <4>14. Sigma(Draw(s), r) = Sigma(Draw(r), r)
        BY <4>2, <4>6, <4>12, SigmaSame
      <4> HIDE DEF r
      <4> QED
        BY <4>4, <4>7, <4>8, <4>9, <4>10, <4>13, <4>14 DEF Lesser, Positive
    <3> QED
      BY <3>1, <3>2
  <2> QED
    BY <2>1
<1>3. Nat \subseteq N
  <2> HIDE DEF N
  <2> QED
    BY <1>2, NaturalsReached
<1>4. Cardinality(L) \in Nat
  BY FS_CardinalityType DEF Batches
<1> QED
  BY <1>1, <1>3, <1>4

\* What is left of the batches, and that they stay apart.
LEMMA DepletedIs ==
    ASSUME NEW w, NEW L, Batches(L, w), NEW n \in Nat, n <= Left(L)
    PROVE  Batches(Depleted(L, n), w) /\ Left(Depleted(L, n)) = Left(L) - n
<1> DEFINE after == [m \in L |-> [m EXCEPT !.left = @ - Drawn(L, n, m)]]
           all == {after[m] : m \in L}
           rest == {l \in all : l.left > 0}
           draw == [l \in L |-> Drawn(L, n, l)]
           kept == [l \in L |-> l.left - Drawn(L, n, l)]
<1>1. Depleted(L, n) = rest
  BY DEF Depleted
<1>a. IsFiniteSet(L) /\ L \subseteq Lot /\ Apart(L) /\ \A l \in L : l.at = w
  BY DEF Batches
<1>2. ASSUME NEW l \in L
      PROVE  /\ draw[l] \in Nat /\ draw[l] <= l.left /\ l.left \in Nat
             /\ kept[l] = l.left - draw[l] /\ kept[l] \in Nat
             /\ after[l] \in Lot /\ after[l].left = kept[l]
             /\ after[l].at = l.at /\ after[l].born = l.born /\ after[l].expiry = l.expiry
             /\ LeftOf[l] = l.left /\ LeftOf[after[l]] = kept[l]
  <2>1. l \in Lot /\ l.left \in Nat
    BY <1>a DEF Lot
  <2>2. Drawn(L, n, l) \in Nat /\ Drawn(L, n, l) <= l.left
    BY DrawnSums
  <2>3. l.left - Drawn(L, n, l) \in Nat
    BY <2>1, <2>2
  <2>4. /\ after[l] = [l EXCEPT !.left = l.left - Drawn(L, n, l)]
        /\ draw[l] = Drawn(L, n, l) /\ kept[l] = l.left - Drawn(L, n, l)
    OBVIOUS
  <2> DEFINE k == l.left - Drawn(L, n, l)
  <2> HIDE DEF k, after, draw, kept
  <2>5. /\ after[l] \in Lot /\ after[l].left = k
        /\ after[l].at = l.at /\ after[l].born = l.born /\ after[l].expiry = l.expiry
    BY <2>1, <2>3, <2>4 DEF Lot, k
  <2>6. LeftOf[l] = l.left /\ LeftOf[after[l]] = k
    BY <2>1, <2>5 DEF LeftOf
  <2> QED
    BY <2>1, <2>2, <2>3, <2>4, <2>5, <2>6 DEF k
<1> HIDE DEF after, draw, kept
<1>3. \A l, m \in L : after[l] = after[m] => l = m
  BY <1>2, <1>a DEF Apart
<1>4. IsFiniteSet(all) /\ Sigma(LeftOf, all) = Sigma(kept, L)
  <2>1. \A l \in L : LeftOf[after[l]] \in Int
    BY <1>2
  <2>2. \A l \in L : kept[l] = LeftOf[after[l]]
    BY <1>2
  <2>3. IsFiniteSet(L)
    BY <1>a
  <2> QED
    BY <1>3, <2>1, <2>2, <2>3, SigmaImage
<1>5. Sigma(LeftOf, L) = Sigma(kept, L) + Sigma(draw, L)
  <2>1. \A l \in L : kept[l] \in Int /\ draw[l] \in Int /\ LeftOf[l] = kept[l] + draw[l]
    BY <1>2
  <2>2. \A l \in L : kept[l] \in Int
    BY <2>1
  <2>3. \A l \in L : draw[l] \in Int
    BY <2>1
  <2>4. \A l \in L : LeftOf[l] = kept[l] + draw[l]
    BY <2>1
  <2> QED
    BY <1>a, <2>2, <2>3, <2>4, SigmaPlus
<1>6. Sigma(draw, L) = n
  BY <1>a, DrawnSums, LeftIsSum DEF draw, Lesser
<1>7. all \subseteq Lot
  BY <1>2
<1>8. Sigma(LeftOf, all) = Sigma(LeftOf, rest)
  <2>1. /\ IsFiniteSet(rest) /\ IsFiniteSet(all \ rest)
        /\ rest \in SUBSET all /\ all \ rest \in SUBSET all
        /\ rest \cap (all \ rest) = {} /\ rest \cup (all \ rest) = all
    BY <1>4, FS_Subset
  <2>2. \A l \in all : LeftOf[l] \in Int /\ l.left \in Nat /\ LeftOf[l] = l.left
    BY <1>7 DEF LeftOf, Lot
  <2>3. \A l \in all \ rest : LeftOf[l] = 0
    BY <2>2
  <2> HIDE DEF all, rest
  <2>4. Sigma(LeftOf, rest \cup (all \ rest)) = Sigma(LeftOf, rest) + Sigma(LeftOf, all \ rest)
    BY <1>4, <2>1, <2>2, SigmaUnion
  <2>5. Sigma(LeftOf, all \ rest) = 0
    BY <2>1, <2>3, SigmaZero
  <2>6. Sigma(LeftOf, rest) \in Int
    BY <2>1, <2>2, SigmaType
  <2>7. Sigma(LeftOf, all) = Sigma(LeftOf, rest) + Sigma(LeftOf, all \ rest)
    BY <2>1, <2>4, Zenon
  <2> QED
    BY <2>5, <2>6, <2>7
<1>9. IsFiniteSet(rest) /\ rest \subseteq Lot
  BY <1>4, <1>7, FS_Subset
<1>10. Left(rest) = Sigma(LeftOf, rest) /\ Left(L) = Sigma(LeftOf, L) /\ Left(rest) \in Nat /\ Left(L) \in Nat
  <2> HIDE DEF rest
  <2> QED
    BY <1>9, <1>a, LeftIsSum
<1>11. Left(rest) = Left(L) - n
  <2>1. Sigma(kept, L) \in Int
    <3>1. \A l \in L : kept[l] \in Int
      BY <1>2
    <3> QED
      BY <1>a, <3>1, SigmaType
  <2> HIDE DEF rest, all
  <2>2. Left(rest) = Sigma(kept, L)
    BY <1>4, <1>8, <1>10, Zenon
  <2>3. Left(L) = Sigma(kept, L) + n
    BY <1>5, <1>6, <1>10, Zenon
  <2> QED
    BY <2>1, <2>2, <2>3
<1>12. Apart(rest) /\ \A l \in rest : l.at = w
  BY <1>2, <1>a DEF Apart
<1> QED
  BY <1>1, <1>9, <1>11, <1>12 DEF Batches

LEMMA BatchesOf ==
    ASSUME NEW L, LotsOK(L), NEW w \in Warehouse
    PROVE  Batches({l \in L : l.at = w}, w)
  BY DEF LotsOK, Batches, Apart

\* _deplete_batches takes what it is asked for at every warehouse, and does not
\* raise, as long as the stock is there.
LEMMA DepleteTakes ==
    ASSUME LotsOK(lots), ~failed, \A w \in Warehouse : Left(LotsAt(w)) = onHand[w],
           NEW taken, \A w \in Warehouse : taken[w] \in Nat /\ taken[w] <= onHand[w],
           Deplete(taken)
    PROVE  /\ LotsOK(lots') /\ ~failed'
           /\ \A w \in Warehouse : Left({l \in lots' : l.at = w}) = onHand[w] - taken[w]
<1>1. ASSUME NEW w \in Warehouse
      PROVE  /\ Batches(Depleted(LotsAt(w), taken[w]), w)
             /\ Left(Depleted(LotsAt(w), taken[w])) = onHand[w] - taken[w]
             /\ ~(taken[w] > Left(LotsAt(w)))
  <2>1. Batches(LotsAt(w), w) /\ Left(LotsAt(w)) = onHand[w]
    BY BatchesOf DEF LotsAt
  <2>2. taken[w] \in Nat /\ taken[w] <= Left(LotsAt(w))
    OBVIOUS
  <2>3. Left(LotsAt(w)) \in Nat
    BY <2>1, LeftIsSum DEF Batches
  <2> QED
    BY <2>1, <2>2, <2>3, DepletedIs
<1> DEFINE D(w) == Depleted(LotsAt(w), taken[w])
<1>2. lots' = UNION {D(w) : w \in Warehouse}
  BY DEF Deplete
<1>3. ~failed'
  <2>1. failed' = (failed \/ \E w \in Warehouse : taken[w] > Left(LotsAt(w)))
    BY DEF Deplete
  <2> QED
    BY <1>1, <2>1, Zenon
<1>4. \A w \in Warehouse : Batches(D(w), w)
  BY <1>1
<1>5. \A w \in Warehouse : Left(D(w)) = onHand[w] - taken[w]
  BY <1>1
<1> HIDE DEF D
<1>6. \A w \in Warehouse : {l \in lots' : l.at = w} = D(w)
  BY <1>2, <1>4 DEF Batches
<1>7. LotsOK(lots')
  <2>1. lots' \subseteq Lot
    BY <1>2, <1>4 DEF Batches
  <2>2. ASSUME NEW l \in lots', NEW m \in lots',
               l.at = m.at /\ l.born = m.born /\ l.expiry = m.expiry
        PROVE  l = m
    <3>1. l.at \in Warehouse
      BY <2>1 DEF Lot
    <3>2. l \in D(l.at) /\ m \in D(l.at)
      BY <1>6, <2>2, <3>1
    <3> QED
      BY <1>4, <2>2, <3>1, <3>2 DEF Batches, Apart
  <2>3. \A w \in Warehouse : IsFiniteSet({l \in lots' : l.at = w})
    BY <1>4, <1>6 DEF Batches
  <2> QED
    BY <2>1, <2>2, <2>3 DEF LotsOK, Apart
<1> QED
  BY <1>3, <1>5, <1>6, <1>7

\* _add_batch adds its units to one warehouse.
LEMMA AddBatchIs ==
    ASSUME day \in Nat, NEW L, LotsOK(L), NEW w \in Warehouse, NEW e \in Nat, NEW n \in Nat
    PROVE  /\ LotsOK(AddBatch(L, w, e, n))
           /\ \A v \in Warehouse : Left({l \in AddBatch(L, w, e, n) : l.at = v}) =
                                   Left({l \in L : l.at = v}) + (IF v = w THEN n ELSE 0)
<1>1. CASE n = 0
  <2>1. AddBatch(L, w, e, n) = L
    BY <1>1 DEF AddBatch
  <2>2. \A v \in Warehouse : Left({l \in L : l.at = v}) \in Nat
    BY BatchesOf, LeftIsSum DEF Batches
  <2> QED
    BY <1>1, <2>1, <2>2
<1>2. CASE n # 0
  <2> DEFINE same == {l \in L : l.at = w /\ l.born = day /\ l.expiry = e}
             new == [at |-> w, born |-> day, expiry |-> e, left |-> n + Left(same),
                     check |-> IF e = NoDay THEN NoDay
                               ELSE IF e < day THEN day + 1 ELSE e + 1]
             added == (L \ same) \cup {new}
  <2>1. AddBatch(L, w, e, n) = added
    BY <1>2 DEF AddBatch
  <2>2. \A v \in Warehouse : Batches({l \in L : l.at = v}, v)
    BY BatchesOf
  <2>3. Batches(same, w) /\ Left(same) = Sigma(LeftOf, same) /\ Left(same) \in Nat
    <3>1. same \in SUBSET {l \in L : l.at = w}
      OBVIOUS
    <3>2. Batches(same, w)
      <4> HIDE DEF same
      <4> QED
        BY <2>2, <3>1, FewerBatches
    <3> HIDE DEF same
    <3> QED
      BY <3>2, LeftIsSum DEF Batches
  <2> HIDE DEF same
  <2>4. /\ new.at = w /\ new.born = day /\ new.expiry = e /\ new.left = n + Left(same)
        /\ new \in Lot
    BY <2>3 DEF Lot, NoDay
  <2> HIDE DEF new
  <2>5. \A v \in Warehouse : v # w => {l \in added : l.at = v} = {l \in L : l.at = v}
    BY <2>4 DEF same
  <2> DEFINE here == {l \in L : l.at = w}
  <2>6. {l \in added : l.at = w} = (here \ same) \cup {new} /\ same \subseteq here
    BY <2>4 DEF same
  <2>7. new \notin here \ same
    BY <2>4 DEF same
  <2>8. Batches(here, w) /\ IsFiniteSet(here \ same) /\ here \ same \subseteq Lot
    BY <2>2, FS_Subset DEF Batches
  <2>9. IsFiniteSet((here \ same) \cup {new}) /\ (here \ same) \cup {new} \subseteq Lot
    BY <2>8, <2>4, FS_AddElement
  <2>10. LotsOK(added)
    <3>1. added \subseteq Lot
      BY <2>4 DEF LotsOK
    <3>2. Apart(added)
      BY <2>4 DEF LotsOK, Apart, same
    <3>3. \A v \in Warehouse : IsFiniteSet({l \in added : l.at = v})
      <4>1. ASSUME NEW v \in Warehouse PROVE IsFiniteSet({l \in added : l.at = v})
        <5>1. CASE v = w
          BY <2>6, <2>9, <5>1, Zenon
        <5>2. CASE v # w
          <6>1. IsFiniteSet({l \in L : l.at = v})
            BY <2>2 DEF Batches
          <6> QED
            BY <2>5, <5>2, <6>1, Zenon
        <5> QED
          BY <5>1, <5>2
      <4> QED
        BY <4>1
    <3> QED
      BY <3>1, <3>2, <3>3 DEF LotsOK
  <2>11. Left((here \ same) \cup {new}) = Left(here) + n
    <3> HIDE DEF here
    <3>1. \A l \in here \cup {new} : LeftOf[l] = l.left /\ l.left \in Nat
      BY <2>4, <2>8 DEF LeftOf, Lot, Batches
    <3>a. \A l \in here \ same : LeftOf[l] \in Int
      BY <3>1
    <3>b. LeftOf[new] \in Int /\ LeftOf[new] = n + Left(same)
      BY <3>1, <2>4
    <3>2. Sigma(LeftOf, (here \ same) \cup {new}) = LeftOf[new] + Sigma(LeftOf, here \ same)
      BY <2>7, <2>8, <3>a, <3>b, SigmaAdd
    <3>3. Sigma(LeftOf, (here \ same) \cup same) = Sigma(LeftOf, here \ same) + Sigma(LeftOf, same)
      <4>1. IsFiniteSet(here) /\ \A l \in here : LeftOf[l] \in Int
        BY <2>8, <3>1 DEF Batches
      <4>2. here \ same \in SUBSET here /\ same \in SUBSET here /\ (here \ same) \cap same = {}
        BY <2>6
      <4> QED
        BY <4>1, <4>2, SigmaUnion
    <3>4. (here \ same) \cup same = here
      BY <2>6
    <3>5. Sigma(LeftOf, here) = Sigma(LeftOf, here \ same) + Sigma(LeftOf, same)
      BY <3>3, <3>4, Zenon
    <3>6. /\ Left((here \ same) \cup {new}) = Sigma(LeftOf, (here \ same) \cup {new})
          /\ Left(here) = Sigma(LeftOf, here)
      BY <2>8, <2>9, LeftIsSum DEF Batches
    <3>7. Sigma(LeftOf, here \ same) \in Int
      BY <2>8, <3>a, SigmaType
    <3> QED
      BY <2>3, <3>b, <3>2, <3>5, <3>6, <3>7
  <2>12. ASSUME NEW v \in Warehouse
         PROVE  Left({l \in added : l.at = v}) = Left({l \in L : l.at = v}) + (IF v = w THEN n ELSE 0)
    <3>1. CASE v = w
      <4>1. Left({l \in added : l.at = w}) = Left(here) + n
        BY <2>6, <2>11, Zenon
      <4> QED
        BY <3>1, <4>1
    <3>2. CASE v # w
      <4>1. Left({l \in added : l.at = v}) = Left({l \in L : l.at = v})
        BY <2>5, <3>2, Zenon
      <4>2. Left({l \in L : l.at = v}) \in Nat
        BY <2>2, LeftIsSum DEF Batches
      <4> QED
        BY <3>2, <4>1, <4>2
    <3> QED
      BY <3>1, <3>2
  <2> QED
    BY <2>1, <2>10, <2>12
<1> QED
  BY <1>1, <1>2

-----------------------------------------------------------------------------
\* The lots of a transfer on their way.
Piece == [born : Nat, expiry : Nat, quantity : Nat]

QuantityOf == [p \in Piece |-> p.quantity]

Shipped(t) ==
    IsFiniteSet(t.pieces) /\ t.pieces \subseteq Piece /\ Sigma(QuantityOf, t.pieces) = t.quantity

\* What is drawn from the batches of a warehouse is what the pieces carry.
LEMMA PiecesCarry ==
    ASSUME NEW w, NEW L, Batches(L, w), NEW n \in Nat, n <= Left(L)
    PROVE  LET pieces == {p \in {[born |-> l.born, expiry |-> l.expiry,
                                  quantity |-> Drawn(L, n, l)] : l \in L} : p.quantity > 0}
           IN IsFiniteSet(pieces) /\ pieces \subseteq Piece /\ Sigma(QuantityOf, pieces) = n
<1> DEFINE cut == [l \in L |-> [born |-> l.born, expiry |-> l.expiry,
                                quantity |-> Drawn(L, n, l)]]
           draw == [l \in L |-> Drawn(L, n, l)]
           all == {cut[l] : l \in L}
           pieces == {p \in all : p.quantity > 0}
<1>a. IsFiniteSet(L) /\ L \subseteq Lot /\ Apart(L) /\ \A l \in L : l.at = w
  BY DEF Batches
<1>1. ASSUME NEW l \in L
      PROVE  /\ draw[l] \in Nat /\ cut[l] \in Piece /\ QuantityOf[cut[l]] = draw[l]
             /\ cut[l].born = l.born /\ cut[l].expiry = l.expiry
  <2>1. l.born \in Nat /\ l.expiry \in Nat /\ Drawn(L, n, l) \in Nat
    BY <1>a, DrawnSums DEF Lot
  <2>2. /\ cut[l] = [born |-> l.born, expiry |-> l.expiry, quantity |-> Drawn(L, n, l)]
        /\ draw[l] = Drawn(L, n, l)
    OBVIOUS
  <2> HIDE DEF cut, draw
  <2>3. cut[l] \in Piece /\ cut[l].quantity = draw[l]
    BY <2>1, <2>2 DEF Piece
  <2> QED
    BY <2>1, <2>2, <2>3 DEF QuantityOf
<1>2. Sigma(draw, L) = n
  <2>1. Sigma(draw, L) = Lesser(Left(L), n) /\ Left(L) \in Nat
    BY <1>a, DrawnSums, LeftIsSum
  <2> QED
    BY <2>1 DEF Lesser
<1>3. {[born |-> l.born, expiry |-> l.expiry, quantity |-> Drawn(L, n, l)] : l \in L} = all
  OBVIOUS
<1> HIDE DEF cut, draw
<1>4. IsFiniteSet(all) /\ Sigma(QuantityOf, all) = Sigma(draw, L)
  <2>1. \A l, m \in L : cut[l] = cut[m] => l = m
    BY <1>1, <1>a DEF Apart
  <2>2. \A l \in L : QuantityOf[cut[l]] \in Int
    BY <1>1
  <2>3. \A l \in L : draw[l] = QuantityOf[cut[l]]
    BY <1>1
  <2>4. IsFiniteSet(L)
    BY <1>a
  <2> QED
    BY <2>1, <2>2, <2>3, <2>4, SigmaImage
<1>5. all \subseteq Piece
  BY <1>1
<1>6. Sigma(QuantityOf, all) = Sigma(QuantityOf, pieces)
  <2>1. /\ IsFiniteSet(pieces) /\ IsFiniteSet(all \ pieces)
        /\ pieces \in SUBSET all /\ all \ pieces \in SUBSET all
        /\ pieces \cap (all \ pieces) = {} /\ pieces \cup (all \ pieces) = all
    BY <1>4, FS_Subset
  <2>2. \A p \in all : QuantityOf[p] \in Int /\ p.quantity \in Nat /\ QuantityOf[p] = p.quantity
    BY <1>5 DEF QuantityOf, Piece
  <2>3. \A p \in all \ pieces : QuantityOf[p] = 0
    BY <2>2
  <2> HIDE DEF all, pieces
  <2>4. Sigma(QuantityOf, pieces \cup (all \ pieces)) =
        Sigma(QuantityOf, pieces) + Sigma(QuantityOf, all \ pieces)
    BY <1>4, <2>1, <2>2, SigmaUnion
  <2>5. Sigma(QuantityOf, all \ pieces) = 0
    BY <2>1, <2>3, SigmaZero
  <2>6. Sigma(QuantityOf, pieces) \in Int
    BY <2>1, <2>2, SigmaType
  <2>7. Sigma(QuantityOf, all) = Sigma(QuantityOf, pieces) + Sigma(QuantityOf, all \ pieces)
    BY <2>1, <2>4, Zenon
  <2> QED
    BY <2>5, <2>6, <2>7
<1>7. IsFiniteSet(pieces) /\ pieces \subseteq Piece
  BY <1>4, <1>5, FS_Subset
<1>8. Sigma(QuantityOf, pieces) = n
  BY <1>2, <1>4, <1>6, Zenon
<1> QED
  BY <1>3, <1>7, <1>8, Zenon

-----------------------------------------------------------------------------
\* A transfer arrives piece by piece.
Unpacked(g, ps) ==
    IF ps = {} THEN lots
    ELSE AddBatch(g[ps \ {Picked(ps)}], Destination, Picked(ps).expiry, Picked(ps).quantity)

UnpackedUpTo(P, n) == \E g : g = [ps \in Small(P, n) |-> Unpacked(g, ps)]

LEMMA UnpackingGrows ==
    ASSUME NEW P, IsFiniteSet(P), NEW n \in Nat, UnpackedUpTo(P, n)
    PROVE  UnpackedUpTo(P, n + 1)
<1>1. PICK g : g = [ps \in Small(P, n) |-> Unpacked(g, ps)]
  BY DEF UnpackedUpTo
<1> DEFINE h == [ps \in Small(P, n + 1) |-> IF ps \in Small(P, n) THEN g[ps] ELSE Unpacked(g, ps)]
<1>2. Small(P, n) \subseteq Small(P, n + 1)
  <2>1. \A s \in SUBSET P : Cardinality(s) \in Nat
    BY FS_Subset, FS_CardinalityType
  <2> QED
    BY <2>1 DEF Small
<1>3. \A s \in Small(P, n) : g[s] = Unpacked(g, s)
  <2> DEFINE v(s) == Unpacked(g, s)
  <2>1. g = [ps \in Small(P, n) |-> v(ps)]
    BY <1>1
  <2> HIDE DEF v
  <2>2. \A s \in Small(P, n) : g[s] = v(s)
    BY <2>1
  <2> QED
    BY <2>2 DEF v
<1>4. \A s \in Small(P, n) : h[s] = g[s]
  BY <1>2
<1>5. ASSUME NEW s \in Small(P, n + 1) PROVE h[s] = Unpacked(h, s)
  <2>1. h[s] = Unpacked(g, s)
    BY <1>3
  <2>2. ASSUME s # {} PROVE s \ {Picked(s)} \in Small(P, n)
    BY <2>2, SmallerByOne DEF Small
  <2> HIDE DEF h
  <2>3. Unpacked(g, s) = Unpacked(h, s)
    BY <1>4, <2>2 DEF Unpacked
  <2> QED
    BY <2>1, <2>3
<1>6. h = [ps \in Small(P, n + 1) |-> h[ps]]
  OBVIOUS
<1> HIDE DEF h
<1>7. h = [ps \in Small(P, n + 1) |-> Unpacked(h, ps)]
  <2> DEFINE v(s) == Unpacked(h, s)
  <2>1. \A s \in Small(P, n + 1) : h[s] = v(s)
    BY <1>5
  <2> HIDE DEF v
  <2>2. h = [ps \in Small(P, n + 1) |-> v(ps)]
    BY <1>6, <2>1
  <2> QED
    BY <2>2 DEF v
<1> QED
  BY <1>7 DEF UnpackedUpTo

Unpacking(P) ==
    FoldSet(LAMBDA p, L : AddBatch(L, Destination, p.expiry, p.quantity), lots, P)

LEMMA UnpackingIsThere ==
    ASSUME NEW P, IsFiniteSet(P)
    PROVE  \E g : g = [ps \in SUBSET P |-> Unpacked(g, ps)] /\ Unpacking(P) = g[P]
<1> DEFINE T == {n \in Nat : UnpackedUpTo(P, n)}
<1>1. UnpackedUpTo(P, 0)
  <2> DEFINE g == [ps \in Small(P, 0) |-> lots]
  <2>1. \A s \in Small(P, 0) : s = {}
    <3>1. ASSUME NEW s \in Small(P, 0) PROVE s = {}
      <4>1. IsFiniteSet(s) /\ Cardinality(s) \in Nat /\ Cardinality(s) <= 0
        BY FS_Subset, FS_CardinalityType DEF Small
      <4> QED
        BY <4>1, FS_EmptySet
    <3> QED
      BY <3>1
  <2>2. \A s \in Small(P, 0) : Unpacked(g, s) = lots
    BY <2>1 DEF Unpacked
  <2>3. g = [ps \in Small(P, 0) |-> Unpacked(g, ps)]
    <3> DEFINE v(s) == Unpacked(g, s)
    <3>1. \A s \in Small(P, 0) : v(s) = lots
      BY <2>2
    <3> HIDE DEF v
    <3>2. g = [ps \in Small(P, 0) |-> v(ps)]
      BY <3>1
    <3> QED
      BY <3>2 DEF v
  <2> HIDE DEF g
  <2> QED
    BY <2>3 DEF UnpackedUpTo
<1>2. \A n \in Nat : (\A m \in Nat : m < n => m \in T) => n \in T
  <2>1. ASSUME NEW n \in Nat, \A m \in Nat : m < n => m \in T PROVE n \in T
    <3>1. CASE n = 0
      BY <1>1, <3>1
    <3>2. CASE n # 0
      <4>1. n - 1 \in Nat /\ n - 1 < n /\ (n - 1) + 1 = n
        BY <3>2
      <4>2. UnpackedUpTo(P, (n - 1) + 1)
        BY <2>1, <4>1, UnpackingGrows
      <4> QED
        BY <4>1, <4>2
    <3> QED
      BY <3>1, <3>2
  <2> QED
    BY <2>1
<1>3. Nat \subseteq T
  <2> HIDE DEF T
  <2> QED
    BY <1>2, NaturalsReached
<1>4. Cardinality(P) \in Nat
  BY FS_CardinalityType
<1>5. Small(P, Cardinality(P)) = SUBSET P
  BY FS_Subset DEF Small
<1>6. \E g : g = [ps \in SUBSET P |-> Unpacked(g, ps)]
  BY <1>3, <1>4, <1>5 DEF UnpackedUpTo
<1> DEFINE chosen == CHOOSE g : g = [ps \in SUBSET P |-> Unpacked(g, ps)]
<1>7. Unpacking(P) = chosen[P]
  BY DEF Unpacking, FoldSet, MapThenFoldSet, Unpacked, Picked
<1> QED
  BY <1>6, <1>7

\* It adds its units at the destination.
LEMMA UnpackingAdds ==
    ASSUME day \in Nat, LotsOK(lots), NEW P, IsFiniteSet(P), P \subseteq Piece
    PROVE  /\ LotsOK(Unpacking(P))
           /\ \A v \in Warehouse : Left({l \in Unpacking(P) : l.at = v}) =
                Left(LotsAt(v)) + (IF v = Destination THEN Sigma(QuantityOf, P) ELSE 0)
<1>1. PICK g : g = [ps \in SUBSET P |-> Unpacked(g, ps)] /\ Unpacking(P) = g[P]
  BY UnpackingIsThere
<1>2. \A ps \in SUBSET P : g[ps] = Unpacked(g, ps)
  <2> DEFINE v(ps) == Unpacked(g, ps)
  <2>1. g = [ps \in SUBSET P |-> v(ps)]
    BY <1>1
  <2> HIDE DEF v
  <2>2. \A ps \in SUBSET P : g[ps] = v(ps)
    BY <2>1
  <2> QED
    BY <2>2 DEF v
<1> DEFINE Adds(L, ps) ==
             /\ LotsOK(L)
             /\ \A v \in Warehouse : Left({l \in L : l.at = v}) =
                  Left(LotsAt(v)) + (IF v = Destination THEN Sigma(QuantityOf, ps) ELSE 0)
           N == {n \in Nat : \A ps \in SUBSET P : Cardinality(ps) = n => Adds(g[ps], ps)}
<1>a. Destination \in Warehouse
  BY SupplyAssumption
<1>b. \A v \in Warehouse : Left(LotsAt(v)) \in Nat
  BY BatchesOf, LeftIsSum DEF Batches, LotsAt
<1>c. \A p \in Piece : QuantityOf[p] = p.quantity /\ p.quantity \in Nat /\ p.expiry \in Nat
  BY DEF QuantityOf, Piece
<1>3. \A n \in Nat : (\A m \in Nat : m < n => m \in N) => n \in N
  <2>1. ASSUME NEW n \in Nat, \A m \in Nat : m < n => m \in N,
               NEW ps \in SUBSET P, Cardinality(ps) = n
        PROVE  Adds(g[ps], ps)
    <3>1. CASE ps = {}
      <4>1. g[ps] = lots
        BY <1>2, <3>1 DEF Unpacked
      <4>2. Sigma(QuantityOf, ps) = 0
        BY <3>1, SigmaEmpty
      <4> QED
        BY <1>b, <4>1, <4>2 DEF LotsAt
    <3>2. CASE ps # {}
      <4> DEFINE p == Picked(ps)
                 r == ps \ {p}
      <4>1. p \in ps /\ r \in SUBSET P /\ Cardinality(r) = n - 1 /\ n >= 1
        BY <2>1, <3>2, SmallerByOne
      <4>2. Adds(g[r], r)
        <5>1. n - 1 \in Nat /\ n - 1 < n
          BY <4>1
        <5>2. n - 1 \in N
          BY <2>1, <5>1
        <5> HIDE DEF Adds, r
        <5> QED
          BY <4>1, <5>2
      <4>3. g[ps] = AddBatch(g[r], Destination, p.expiry, p.quantity)
        BY <1>2, <3>2 DEF Unpacked
      <4>4. p \in Piece /\ p.quantity \in Nat /\ p.expiry \in Nat /\ QuantityOf[p] = p.quantity
        BY <4>1, <1>c
      <4>5. Sigma(QuantityOf, ps) = p.quantity + Sigma(QuantityOf, r) /\ Sigma(QuantityOf, r) \in Nat
        <5>1. IsFiniteSet(ps) /\ \A q \in ps : QuantityOf[q] \in Int
          BY <1>c, FS_Subset
        <5>2. Sigma(QuantityOf, ps) = QuantityOf[p] + Sigma(QuantityOf, ps \ {p})
          BY <4>1, <5>1, SigmaRemove
        <5>3. IsFiniteSet(r) /\ \A q \in r : QuantityOf[q] \in Nat
          BY <1>c, <4>1, FS_Subset
        <5> HIDE DEF r
        <5>4. Sigma(QuantityOf, r) \in Nat
          BY <5>3, SigmaNat
        <5> QED
          BY <4>4, <5>2, <5>4 DEF r
      <4> HIDE DEF p, r
      <4>6. /\ LotsOK(AddBatch(g[r], Destination, p.expiry, p.quantity))
            /\ \A v \in Warehouse :
                 Left({l \in AddBatch(g[r], Destination, p.expiry, p.quantity) : l.at = v}) =
                 Left({l \in g[r] : l.at = v}) + (IF v = Destination THEN p.quantity ELSE 0)
        BY <1>a, <4>2, <4>4, AddBatchIs
      <4>7. LotsOK(g[ps])
        BY <4>3, <4>6, Zenon
      <4>8. ASSUME NEW v \in Warehouse
            PROVE  Left({l \in g[ps] : l.at = v}) =
                   Left(LotsAt(v)) + (IF v = Destination THEN Sigma(QuantityOf, ps) ELSE 0)
        <5>1. Left({l \in g[ps] : l.at = v}) =
              Left({l \in g[r] : l.at = v}) + (IF v = Destination THEN p.quantity ELSE 0)
          BY <4>3, <4>6, Zenon
        <5>2. Left({l \in g[r] : l.at = v}) =
              Left(LotsAt(v)) + (IF v = Destination THEN Sigma(QuantityOf, r) ELSE 0)
          BY <4>2
        <5>3. Left(LotsAt(v)) \in Nat
          BY <1>b
        <5> QED
          BY <4>4, <4>5, <5>1, <5>2, <5>3
      <4> QED
        BY <4>7, <4>8
    <3> QED
      BY <3>1, <3>2
  <2> QED
    BY <2>1
<1>4. Nat \subseteq N
  <2> HIDE DEF N
  <2> QED
    BY <1>3, NaturalsReached
<1>5. Cardinality(P) \in Nat
  BY FS_CardinalityType
<1>6. Adds(g[P], P)
  BY <1>4, <1>5
<1> QED
  BY <1>1, <1>6, Zenon

-----------------------------------------------------------------------------
\* The batches of every warehouse add up to its stock, also while a transfer is
\* on its way: its pieces add up to what it carries.
BatchInv ==
    /\ LotsOK(lots) /\ ~failed
    /\ \A w \in Warehouse : Left(LotsAt(w)) = onHand[w]
    /\ \A t \in transfers : Shipped(t)

\* The opening stock of a warehouse is one batch.
LEMMA BatchInit == SupplyInit => BatchInv
<1> SUFFICES ASSUME SupplyInit PROVE BatchInv
  OBVIOUS
<1>1. PICK opening \in [Warehouse -> 0 .. MaxOpening] :
        /\ onHand = opening
        /\ lots = {[at |-> w, born |-> 1, left |-> opening[w],
                    expiry |-> IF ShelfLife = NoDay THEN NoDay ELSE 1 + ShelfLife,
                    check |-> IF ShelfLife = NoDay THEN NoDay ELSE 2 + ShelfLife] :
                      w \in {v \in Warehouse : opening[v] > 0}}
  BY DEF SupplyInit
<1> DEFINE first == [w \in Warehouse |->
                       [at |-> w, born |-> 1, left |-> opening[w],
                        expiry |-> IF ShelfLife = NoDay THEN NoDay ELSE 1 + ShelfLife,
                        check |-> IF ShelfLife = NoDay THEN NoDay ELSE 2 + ShelfLife]]
<1>2. lots = {first[w] : w \in {v \in Warehouse : opening[v] > 0}}
  BY <1>1
<1>3. \A w \in Warehouse : opening[w] \in Nat
  BY SupplyAssumption
<1>4. \A w \in Warehouse : first[w] \in Lot /\ first[w].at = w /\ first[w].left = opening[w]
  <2>1. /\ (IF ShelfLife = NoDay THEN NoDay ELSE 1 + ShelfLife) \in Nat
        /\ (IF ShelfLife = NoDay THEN NoDay ELSE 2 + ShelfLife) \in Nat
    BY StoreAssumption DEF NoDay
  <2> QED
    BY <1>3, <2>1 DEF Lot
<1> HIDE DEF first
<1>5. lots \subseteq Lot /\ Apart(lots)
  BY <1>2, <1>4 DEF Apart
<1>6. ASSUME NEW w \in Warehouse
      PROVE  IsFiniteSet({l \in lots : l.at = w}) /\ Left({l \in lots : l.at = w}) = opening[w]
  <2>1. CASE opening[w] > 0
    <3>1. {l \in lots : l.at = w} = {first[w]}
      BY <1>2, <1>4, <2>1
    <3>2. IsFiniteSet({first[w]}) /\ {first[w]} \subseteq Lot
      BY <1>4, FS_Singleton
    <3>3. Left({first[w]}) = Sigma(LeftOf, {first[w]})
      BY <3>2, LeftIsSum
    <3>4. LeftOf[first[w]] = opening[w] /\ LeftOf[first[w]] \in Int
      BY <1>3, <1>4 DEF LeftOf
    <3>5. Sigma(LeftOf, {first[w]}) = opening[w]
      <4>1. \A x \in {first[w]} : LeftOf[x] \in Int
        BY <3>4
      <4>2. Sigma(LeftOf, {first[w]}) = LeftOf[first[w]] + Sigma(LeftOf, {first[w]} \ {first[w]})
        BY <3>2, <4>1, SigmaRemove
      <4>3. {first[w]} \ {first[w]} = {} /\ Sigma(LeftOf, {}) = 0
        BY SigmaEmpty
      <4> QED
        BY <3>4, <4>2, <4>3
    <3> QED
      BY <3>1, <3>2, <3>3, <3>5, Zenon
  <2>2. CASE ~(opening[w] > 0)
    <3>1. {l \in lots : l.at = w} = {}
      BY <1>2, <1>4, <2>2
    <3>2. IsFiniteSet({}) /\ Left({}) = 0
      BY FS_EmptySet, LeftIsSum, SigmaEmpty
    <3>3. opening[w] = 0
      BY <1>3, <2>2
    <3> QED
      BY <3>1, <3>2, <3>3, Zenon
  <2> QED
    BY <2>1, <2>2, Zenon
<1>7. LotsOK(lots)
  BY <1>5, <1>6 DEF LotsOK
<1>8. \A w \in Warehouse : Left(LotsAt(w)) = onHand[w]
  BY <1>1, <1>6 DEF LotsAt
<1>9. failed = FALSE /\ transfers = {}
  BY DEF SupplyInit
<1> QED
  BY <1>7, <1>8, <1>9 DEF BatchInv

\* A step that takes from the batches what it takes from the stock.
LEMMA DepletionReconciles ==
    ASSUME BatchInv, NEW taken,
           \A w \in Warehouse : taken[w] \in Nat /\ taken[w] <= onHand[w],
           Deplete(taken), \A w \in Warehouse : onHand'[w] = onHand[w] - taken[w],
           \A t \in transfers' : Shipped(t)
    PROVE  BatchInv'
<1>1. /\ LotsOK(lots') /\ ~failed'
      /\ \A w \in Warehouse : Left({l \in lots' : l.at = w}) = onHand[w] - taken[w]
  BY DepleteTakes DEF BatchInv
<1>2. \A w \in Warehouse : Left({l \in lots' : l.at = w}) = onHand'[w]
  BY <1>1
<1> QED
  BY <1>1, <1>2 DEF BatchInv, LotsAt

\* What is left of an expired batch is the batch with fewer units.
LEMMA ExpiryReconciles ==
    ASSUME ClaimInv, BatchInv, NEW l \in lots, ExpireBatch(l)
    PROVE  BatchInv'
<1>1. PICK n \in 0 .. Free(l.at) :
        /\ n = Lesser(Free(l.at), l.left)
        /\ lots' = (lots \ {l}) \cup
                   (IF n = l.left THEN {}
                    ELSE {[l EXCEPT !.left = @ - n, !.check = day + 1]})
        /\ onHand' = [onHand EXCEPT ![l.at] = @ - n]
        /\ UNCHANGED <<transfers, failed>>
  BY DEF ExpireBatch, agenda
<1>a. /\ lots \subseteq Lot /\ Apart(lots) /\ l \in Lot
      /\ l.at \in Warehouse /\ l.left \in Nat /\ day \in Nat
  BY StoreAssumption DEF BatchInv, LotsOK, Lot, ClaimInv, Quantities, AgendaIsCounted, Day
<1>b. Free(l.at) \in Nat /\ Free(l.at) <= onHand[l.at]
  BY <1>a, FreeFits DEF ClaimInv, Quantities, StockIsCounted, Counts
<1>2. n \in Nat /\ n <= l.left
  BY <1>1, <1>a, <1>b DEF Lesser
<1> DEFINE rest == [l EXCEPT !.left = @ - n, !.check = day + 1]
           kept == IF n = l.left THEN {} ELSE {rest}
           here == {m \in lots : m.at = l.at}
<1>3. /\ rest \in Lot /\ rest.left = l.left - n
      /\ rest.at = l.at /\ rest.born = l.born /\ rest.expiry = l.expiry
  <2>1. l.left - n \in Nat /\ day + 1 \in Nat
    BY <1>2, <1>a
  <2>2. rest = [l EXCEPT !.left = l.left - n, !.check = day + 1]
    OBVIOUS
  <2> DEFINE k == l.left - n
             d == day + 1
  <2> HIDE DEF k, d, rest
  <2> QED
    BY <1>a, <2>1, <2>2 DEF Lot, k, d
<1>4. lots' = (lots \ {l}) \cup kept
  BY <1>1
<1> HIDE DEF rest
<1>5. kept \subseteq {rest} /\ kept \subseteq Lot
  BY <1>3
<1>6. lots' \subseteq Lot /\ Apart(lots')
  BY <1>3, <1>4, <1>5, <1>a DEF Apart
<1>7. \A v \in Warehouse : v # l.at => {m \in lots' : m.at = v} = {m \in lots : m.at = v}
  BY <1>3, <1>4, <1>5
<1>8. {m \in lots' : m.at = l.at} = (here \ {l}) \cup kept
  BY <1>3, <1>4, <1>5
<1>9. /\ IsFiniteSet(here) /\ here \subseteq Lot /\ l \in here
      /\ Left(here) = onHand[l.at] /\ Left(here) \in Nat
  <2>1. IsFiniteSet(here) /\ here \subseteq Lot /\ l \in here /\ Left(here) = onHand[l.at]
    BY <1>a DEF BatchInv, LotsOK, LotsAt
  <2> HIDE DEF here
  <2> QED
    BY <2>1, LeftIsSum
<1>10. /\ IsFiniteSet((here \ {l}) \cup kept)
       /\ Left((here \ {l}) \cup kept) = Left(here) - n
  <2>0. rest \notin here \ {l}
    BY <1>3, <1>a DEF Apart
  <2> DEFINE others == here \ {l}
  <2>1. IsFiniteSet(others) /\ others \subseteq Lot /\ \A m \in here : LeftOf[m] \in Int
    BY <1>9, FS_Subset DEF LeftOf, Lot
  <2>2. LeftOf[l] = l.left /\ LeftOf[rest] = l.left - n /\ LeftOf[rest] \in Int
    BY <1>3, <1>a, <1>2 DEF LeftOf
  <2> HIDE DEF here
  <2>3. Sigma(LeftOf, here) = LeftOf[l] + Sigma(LeftOf, others)
    BY <1>9, <2>1, SigmaRemove
  <2>4. \A m \in others : LeftOf[m] \in Int
    BY <2>1
  <2> HIDE DEF others
  <2>5. Left(others) = Sigma(LeftOf, others) /\ Left(others) \in Nat
        /\ Left(here) = Sigma(LeftOf, here)
    BY <1>9, <2>1, LeftIsSum
  <2>6. CASE n = l.left
    <3>1. others \cup kept = others
      BY <2>6
    <3>2. Left(others) = Left(here) - n
      BY <2>2, <2>3, <2>5, <2>6, <1>a
    <3> QED
      BY <2>1, <3>1, <3>2, Zenon DEF others
  <2>7. CASE n # l.left
    <3>1. others \cup kept = others \cup {rest}
      BY <2>7
    <3>2. IsFiniteSet(others \cup {rest}) /\ others \cup {rest} \subseteq Lot
      BY <2>1, <1>3, FS_AddElement
    <3>3. Sigma(LeftOf, others \cup {rest}) = LeftOf[rest] + Sigma(LeftOf, others)
      BY <2>0, <2>1, <2>2, <2>4, SigmaAdd DEF others
    <3>4. Left(others \cup {rest}) = Sigma(LeftOf, others \cup {rest})
      BY <3>2, LeftIsSum
    <3>5. Left(others \cup {rest}) = Left(here) - n
      BY <1>a, <1>2, <2>2, <2>3, <2>5, <3>3, <3>4
    <3> QED
      BY <3>1, <3>2, <3>5, Zenon DEF others
  <2> QED
    BY <2>6, <2>7
<1>11. ASSUME NEW v \in Warehouse
       PROVE  /\ IsFiniteSet({m \in lots' : m.at = v})
              /\ Left({m \in lots' : m.at = v}) = onHand'[v]
  <2>1. CASE v = l.at
    <3>1. onHand'[v] = onHand[v] - n
      BY <1>1, <2>1 DEF ClaimInv, Quantities, StockIsCounted, Counts
    <3>2. {m \in lots' : m.at = v} = (here \ {l}) \cup kept
      BY <1>8, <2>1, Zenon
    <3>3. Left(here) = onHand[v]
      BY <1>9, <2>1, Zenon
    <3> HIDE DEF here, kept
    <3> QED
      BY <1>10, <3>1, <3>2, <3>3, Zenon
  <2>2. CASE v # l.at
    <3>1. onHand'[v] = onHand[v]
      BY <1>1, <2>2 DEF ClaimInv, Quantities, StockIsCounted, Counts
    <3>2. IsFiniteSet({m \in lots : m.at = v}) /\ Left({m \in lots : m.at = v}) = onHand[v]
      BY DEF BatchInv, LotsOK, LotsAt
    <3> QED
      BY <1>7, <2>2, <3>1, <3>2, Zenon
  <2> QED
    BY <2>1, <2>2
<1>12. LotsOK(lots')
  BY <1>6, <1>11 DEF LotsOK
<1>13. \A t \in transfers' : Shipped(t)
  BY <1>1 DEF BatchInv
<1> QED
  BY <1>1, <1>11, <1>12, <1>13 DEF BatchInv, LotsAt

\* A purchase adds its units to a batch of its expiry day.
LEMMA PurchaseReconciles ==
    ASSUME ClaimInv, BatchInv, NEW r \in receipts, ReceivePurchase(r)
    PROVE  BatchInv'
<1>1. /\ onHand' = [onHand EXCEPT ![r.at] = @ + r.quantity]
      /\ lots' = AddBatch(lots, r.at, ExpiryOfReceipt, r.quantity)
      /\ UNCHANGED <<transfers, failed>>
  BY DEF ReceivePurchase
<1>a. /\ r.at \in Warehouse /\ r.quantity \in Nat /\ day \in Nat /\ onHand \in [Warehouse -> Nat]
  BY StoreAssumption DEF ClaimInv, Quantities, AgendaIsCounted, StockIsCounted, Counts, Day
<1>2. ExpiryOfReceipt \in Nat
  BY <1>a, StoreAssumption DEF ExpiryOfReceipt, NoDay
<1>b. LotsOK(lots)
  BY DEF BatchInv
<1>3. /\ LotsOK(AddBatch(lots, r.at, ExpiryOfReceipt, r.quantity))
      /\ \A v \in Warehouse :
           Left({l \in AddBatch(lots, r.at, ExpiryOfReceipt, r.quantity) : l.at = v}) =
           Left({l \in lots : l.at = v}) + (IF v = r.at THEN r.quantity ELSE 0)
  <2> DEFINE w == r.at
             e == ExpiryOfReceipt
             n == r.quantity
  <2>1. w \in Warehouse /\ e \in Nat /\ n \in Nat /\ day \in Nat
    BY <1>a, <1>2
  <2> HIDE DEF w, e, n
  <2>2. /\ LotsOK(AddBatch(lots, w, e, n))
        /\ \A v \in Warehouse : Left({l \in AddBatch(lots, w, e, n) : l.at = v}) =
                               Left({l \in lots : l.at = v}) + (IF v = w THEN n ELSE 0)
    BY <1>b, <2>1, AddBatchIs
  <2> QED
    BY <2>2 DEF w, e, n
<1>4. LotsOK(lots')
  BY <1>1, <1>3, Zenon
<1>5. ASSUME NEW v \in Warehouse PROVE Left({l \in lots' : l.at = v}) = onHand'[v]
  <2>1. Left({l \in lots' : l.at = v}) = Left({l \in lots : l.at = v}) + (IF v = r.at THEN r.quantity ELSE 0)
    BY <1>1, <1>3, Zenon
  <2>2. Left({l \in lots : l.at = v}) = onHand[v] /\ onHand[v] \in Nat
    BY <1>a DEF BatchInv, LotsAt
  <2>3. onHand'[v] = onHand[v] + (IF v = r.at THEN r.quantity ELSE 0)
    BY <1>1, <1>a
  <2> QED
    BY <2>1, <2>2, <2>3
<1> QED
  BY <1>1, <1>4, <1>5 DEF BatchInv, LotsAt

\* A transfer adds the pieces it carries.
LEMMA ArrivalReconciles ==
    ASSUME ClaimInv, BatchInv, NEW t \in transfers, ReceiveTransfer(t)
    PROVE  BatchInv'
<1>1. /\ onHand' = [onHand EXCEPT ![Destination] = @ + t.quantity]
      /\ lots' = Unpacking(t.pieces)
      /\ transfers' = transfers \ {t} /\ UNCHANGED failed
  BY Zenon DEF ReceiveTransfer, Unpacking
<1>a. /\ t.quantity \in Nat /\ day \in Nat /\ onHand \in [Warehouse -> Nat]
  BY StoreAssumption DEF ClaimInv, Quantities, AgendaIsCounted, StockIsCounted, Counts, Day
<1>2. LotsOK(lots) /\ IsFiniteSet(t.pieces) /\ t.pieces \subseteq Piece
      /\ Sigma(QuantityOf, t.pieces) = t.quantity
  BY DEF BatchInv, Shipped
<1>3. /\ LotsOK(Unpacking(t.pieces))
      /\ \A v \in Warehouse : Left({l \in Unpacking(t.pieces) : l.at = v}) =
           Left(LotsAt(v)) + (IF v = Destination THEN Sigma(QuantityOf, t.pieces) ELSE 0)
  BY <1>a, <1>2, UnpackingAdds
<1>4. LotsOK(lots')
  BY <1>1, <1>3, Zenon
<1>5. ASSUME NEW v \in Warehouse PROVE Left({l \in lots' : l.at = v}) = onHand'[v]
  <2>1. Left({l \in lots' : l.at = v}) =
        Left(LotsAt(v)) + (IF v = Destination THEN Sigma(QuantityOf, t.pieces) ELSE 0)
    BY <1>1, <1>3, Zenon
  <2>2. Left(LotsAt(v)) = onHand[v] /\ onHand[v] \in Nat
    BY <1>a DEF BatchInv
  <2>3. onHand'[v] = onHand[v] + (IF v = Destination THEN t.quantity ELSE 0)
    BY <1>1, <1>a
  <2> QED
    BY <1>2, <2>1, <2>2, <2>3
<1>6. \A s \in transfers' : Shipped(s)
  BY <1>1 DEF BatchInv
<1> QED
  BY <1>1, <1>4, <1>5, <1>6 DEF BatchInv, LotsAt

\* A transfer leaves with what is drawn from the batches of its warehouse.
LEMMA DispatchReconciles ==
    ASSUME ClaimInv, BatchInv, ShipTransfer
    PROVE  BatchInv'
<1>1. PICK n \in 1 .. Usable(Source), transit \in 1 .. MaxLag :
        LET L == LotsAt(Source) IN
        /\ onHand' = [onHand EXCEPT ![Source] = @ - n]
        /\ Deplete([None EXCEPT ![Source] = n])
        /\ transfers' = transfers \cup
             (IF day + transit <= LastDay
              THEN {[sent |-> day, due |-> day + transit, quantity |-> n,
                     pieces |-> {p \in {[born |-> l.born, expiry |-> l.expiry,
                                         quantity |-> Drawn(L, n, l)] : l \in L} :
                                   p.quantity > 0}]}
              ELSE {})
  BY Zenon DEF ShipTransfer
<1> DEFINE L == LotsAt(Source)
           pieces == {p \in {[born |-> l.born, expiry |-> l.expiry,
                              quantity |-> Drawn(L, n, l)] : l \in L} : p.quantity > 0}
           taken == [None EXCEPT ![Source] = n]
<1>2. /\ onHand' = [onHand EXCEPT ![Source] = @ - n]
      /\ Deplete(taken)
      /\ transfers' \subseteq transfers \cup
           {[sent |-> day, due |-> day + transit, quantity |-> n, pieces |-> pieces]}
  BY <1>1
<1>a. Source \in Warehouse /\ onHand \in [Warehouse -> Nat]
  BY SupplyAssumption DEF ClaimInv, Quantities, StockIsCounted, Counts
<1>b. /\ Usable(Source) \in Nat
      /\ committed[Source] + damaged[Source] + quality[Source] + Usable(Source) <= onHand[Source]
  BY <1>a, FreeFits
<1>c. committed[Source] \in Nat /\ damaged[Source] \in Nat /\ quality[Source] \in Nat
  BY <1>a DEF ClaimInv, Quantities, StockIsCounted, Counts
<1>3. n \in Nat /\ n <= onHand[Source]
  BY <1>a, <1>b, <1>c
<1>4. Batches(L, Source) /\ n <= Left(L)
  <2>1. LotsOK(lots) /\ Left(L) = onHand[Source]
    BY <1>a DEF BatchInv
  <2> QED
    BY <1>3, <1>a, <2>1, BatchesOf DEF LotsAt
<1> HIDE DEF L
<1>5. IsFiniteSet(pieces) /\ pieces \subseteq Piece /\ Sigma(QuantityOf, pieces) = n
  BY <1>3, <1>4, PiecesCarry
<1> HIDE DEF pieces
<1>6. \A t \in transfers' : Shipped(t)
  BY <1>2, <1>5 DEF Shipped, BatchInv
<1>7. \A w \in Warehouse : taken[w] = IF w = Source THEN n ELSE 0
  BY DEF None
<1> HIDE DEF taken
<1>8. \A w \in Warehouse : taken[w] \in Nat /\ taken[w] <= onHand[w] /\ onHand'[w] = onHand[w] - taken[w]
  BY <1>2, <1>3, <1>7, <1>a
<1>9. \A w \in Warehouse : taken[w] \in Nat /\ taken[w] <= onHand[w]
  BY <1>8
<1>10. \A w \in Warehouse : onHand'[w] = onHand[w] - taken[w]
  BY <1>8
<1> QED
  BY <1>2, <1>6, <1>9, <1>10, DepletionReconciles

\* Every step keeps the batches and the stock together.
LEMMA BatchStep == ASSUME ClaimInv, BatchInv, [SupplyNext]_simulationVars PROVE BatchInv'
<1>a. day \in Calendar
  BY TodayIsOnCalendar DEF ClaimInv, Quantities, AgendaIsCounted
<1>b. \A w \in Warehouse :
        /\ onHand[w] \in Nat /\ committed[w] \in Nat /\ damaged[w] \in Nat /\ quality[w] \in Nat
        /\ releases[day][w] \in Nat /\ disposals[day][w] \in Nat /\ today[w] \in Nat
  BY <1>a DEF ClaimInv, Quantities, StockIsCounted, AgendaIsCounted, Counts
<1>c. \A t \in transfers : Shipped(t)
  BY DEF BatchInv
<1>1. CASE UNCHANGED <<onHand, lots, failed, transfers>>
  BY <1>1 DEF BatchInv, LotsAt
<1>2. CASE ReleaseFulfilments
  <2> DEFINE taken == [w \in Warehouse |-> Lesser(releases[day][w], Lesser(committed[w], onHand[w]))]
  <2>1. \A w \in Warehouse : taken[w] \in Nat /\ taken[w] <= onHand[w]
    BY <1>b DEF Lesser
  <2>2. Deplete(taken) /\ UNCHANGED transfers
    BY <1>2 DEF ReleaseFulfilments
  <2>3. \A w \in Warehouse : onHand'[w] = onHand[w] - taken[w]
    BY <1>2 DEF ReleaseFulfilments
  <2> HIDE DEF taken
  <2> QED
    BY <1>c, <2>1, <2>2, <2>3, DepletionReconciles
<1>3. CASE DisposeDamaged
  <2> DEFINE taken == [w \in Warehouse |-> Lesser(disposals[day][w], Lesser(damaged[w], onHand[w]))]
  <2>1. \A w \in Warehouse : taken[w] \in Nat /\ taken[w] <= onHand[w]
    BY <1>b DEF Lesser
  <2>2. Deplete(taken) /\ UNCHANGED transfers
    BY <1>3 DEF DisposeDamaged
  <2>3. \A w \in Warehouse : onHand'[w] = onHand[w] - taken[w]
    BY <1>3 DEF DisposeDamaged
  <2> HIDE DEF taken
  <2> QED
    BY <1>c, <2>1, <2>2, <2>3, DepletionReconciles
<1>4. CASE LoseStock
  <2>1. PICK lost \in [Warehouse -> 0 .. MaxOpening] :
          /\ \A w \in Warehouse : lost[w] <= Free(w)
          /\ onHand' = [w \in Warehouse |-> onHand[w] - lost[w]]
          /\ Deplete(lost)
    BY <1>4 DEF LoseStock
  <2>2. UNCHANGED transfers
    BY <1>4 DEF LoseStock, agenda
  <2>3. ASSUME NEW w \in Warehouse PROVE lost[w] \in Nat /\ lost[w] <= onHand[w]
    <3>1. lost[w] \in Nat /\ lost[w] <= Free(w)
      BY <2>1, SupplyAssumption
    <3>2. Free(w) \in Nat /\ committed[w] + damaged[w] + quality[w] + Free(w) <= onHand[w]
      BY FreeFits
    <3> QED
      BY <1>b, <3>1, <3>2
  <2>4. \A w \in Warehouse : onHand'[w] = onHand[w] - lost[w]
    BY <2>1
  <2> QED
    BY <1>c, <2>1, <2>2, <2>3, <2>4, DepletionReconciles
<1>5. CASE ShipOrders
  <2>1. PICK atOnce \in [Warehouse -> 0 .. MaxDemand * Cardinality(Store)] :
          LET taken == [w \in Warehouse |-> Lesser(atOnce[w], Lesser(committed[w], onHand[w]))]
          IN /\ \A w \in Warehouse : atOnce[w] <= today[w]
             /\ onHand' = [w \in Warehouse |-> onHand[w] - taken[w]]
             /\ Deplete(taken)
    BY <1>5, Zenon DEF ShipOrders
  <2> DEFINE taken == [w \in Warehouse |-> Lesser(atOnce[w], Lesser(committed[w], onHand[w]))]
  <2>2. UNCHANGED transfers
    BY <1>5 DEF ShipOrders
  <2>3. \A w \in Warehouse : taken[w] \in Nat /\ taken[w] <= onHand[w]
    <3>1. \A w \in Warehouse : atOnce[w] \in Int /\ atOnce[w] >= 0
      OBVIOUS
    <3> QED
      BY <1>b, <3>1 DEF Lesser
  <2>4. Deplete(taken) /\ onHand' = [w \in Warehouse |-> onHand[w] - taken[w]]
    BY <2>1
  <2> HIDE DEF taken
  <2>5. \A w \in Warehouse : onHand'[w] = onHand[w] - taken[w]
    BY <2>4
  <2> QED
    BY <1>c, <2>2, <2>3, <2>4, <2>5, DepletionReconciles
<1>6. CASE EndOfDay
  <2>1. UNCHANGED <<onHand, lots, transfers>>
    BY <1>6 DEF EndOfDay, stock, agenda
  <2>2. failed' = (day = LastDay /\ \E w \in Warehouse : Left(LotsAt(w)) # onHand[w])
    BY <1>6 DEF EndOfDay
  <2>3. ~failed'
    BY <2>2 DEF BatchInv
  <2> QED
    BY <2>1, <2>3 DEF BatchInv, LotsAt
<1>7. ASSUME \/ ReleaseInspected \/ ExpiryDone \/ StoresReceive \/ StoresExpire \/ PurchasesReceived
             \/ TransfersReceived \/ Replenish \/ NoTransfer \/ DemandServed
             \/ UNCHANGED simulationVars
      PROVE  UNCHANGED <<onHand, lots, failed, transfers>>
  BY <1>7 DEF ReleaseInspected, ExpiryDone, StoresReceive, StoresExpire, PurchasesReceived,
       TransfersReceived, Replenish, NoTransfer, DemandServed, simulationVars, supplyVars, stock, agenda
<1>8. ASSUME NEW s \in Store, Sell(s) PROVE UNCHANGED <<onHand, lots, failed, transfers>>
  BY <1>8 DEF Sell, agenda
<1>9. ASSUME NEW l \in lots, ExpireBatch(l) PROVE BatchInv'
  BY <1>9, ExpiryReconciles
<1>10. ASSUME NEW r \in receipts, ReceivePurchase(r) PROVE BatchInv'
  BY <1>10, PurchaseReconciles
<1>11. ASSUME NEW t \in transfers, ReceiveTransfer(t) PROVE BatchInv'
  BY <1>11, ArrivalReconciles
<1>12. CASE ShipTransfer
  BY <1>12, DispatchReconciles
<1> QED
  BY <1>1, <1>2, <1>3, <1>4, <1>5, <1>6, <1>7, <1>8, <1>9, <1>10, <1>11, <1>12 DEF SupplyNext

\* Neither of the RuntimeErrors of the simulation is ever raised, and the
\* batches of a warehouse always add up to its stock, for every number of
\* warehouses, days and units: what is drawn is there, and what is in transit
\* arrives as the lots it left as.
THEOREM BatchesReconcileHolds == SupplySpec => []BatchesReconcile
<1> DEFINE I == ClaimInv /\ BatchInv
<1>1. SupplyInit => I
  BY ClaimsInit, BatchInit
<1>2. I /\ [SupplyNext]_simulationVars => I'
  BY ClaimsStep, BatchStep
<1>3. I => BatchesReconcile
  BY DEF BatchInv, BatchesReconcile
<1> QED
  BY <1>1, <1>2, <1>3, PTL DEF SupplySpec

-----------------------------------------------------------------------------
\* The agenda: what is due has been dealt with, what is planned is to come.
Order == [at : Warehouse, sent : Nat, due : Nat, quantity : Nat]
Transit == [sent : Nat, due : Nat, quantity : Nat, pieces : SUBSET Piece]

UntilReceive == {"release", "inspect", "dispose", "expire", "lose", "stores", "receive"}
UntilArrive == UntilReceive \cup {"arrive"}
UntilReplenish == UntilArrive \cup {"replenish"}
UntilTransfer == UntilReplenish \cup {"transfer"}

ReleasesDone ==
    \A d \in Calendar : d < day \/ (d = day /\ phase # "release") =>
                          \A w \in Warehouse : releases[d][w] = 0

ReceiptsPlanned ==
    /\ receipts \subseteq Order
    /\ \A w \in Warehouse : IsFiniteSet({r \in receipts : r.at = w})
    /\ \A r \in receipts :
         /\ r.due > day \/ (r.due = day /\ phase \in UntilReceive)
         /\ r.sent < day \/ (r.sent = day /\ phase \notin UntilReplenish)

TransfersPlanned ==
    /\ transfers \subseteq Transit /\ IsFiniteSet(transfers)
    /\ \A t \in transfers :
         /\ t.due > day \/ (t.due = day /\ phase \in UntilArrive)
         /\ t.sent < day \/ (t.sent = day /\ phase \notin UntilTransfer)
         /\ t.due <= LastDay

LastIsLast == phase \in Phases /\ (phase = "done" => day = LastDay)

AgendaInv == ReleasesDone /\ ReceiptsPlanned /\ TransfersPlanned /\ LastIsLast

\* A phase that plans nothing, and whose part of the agenda is dealt with.
LEMMA QuietPhase ==
    ASSUME AgendaInv, UNCHANGED <<day, releases, receipts, transfers>>,
           <<phase, phase'>> \in {<<"inspect", "dispose">>, <<"dispose", "expire">>,
              <<"expire", "lose">>, <<"lose", "stores">>, <<"stores", "receive">>,
              <<"transfer", "sell">>, <<"sell", "ship">>, <<phase, phase>>}
    PROVE  AgendaInv'
<1>1. \/ phase' = phase
      \/ phase = "inspect" /\ phase' = "dispose"
      \/ phase = "dispose" /\ phase' = "expire"
      \/ phase = "expire" /\ phase' = "lose"
      \/ phase = "lose" /\ phase' = "stores"
      \/ phase = "stores" /\ phase' = "receive"
      \/ phase = "transfer" /\ phase' = "sell"
      \/ phase = "sell" /\ phase' = "ship"
  OBVIOUS
<1> USE DEF UntilReceive, UntilArrive, UntilReplenish, UntilTransfer
<1>2. ReleasesDone'
  BY <1>1 DEF AgendaInv, ReleasesDone, Calendar
<1>3. ReceiptsPlanned'
  BY <1>1 DEF AgendaInv, ReceiptsPlanned
<1>4. TransfersPlanned'
  BY <1>1 DEF AgendaInv, TransfersPlanned
<1>5. LastIsLast'
  BY <1>1 DEF AgendaInv, LastIsLast, Phases
<1> QED
  BY <1>2, <1>3, <1>4, <1>5 DEF AgendaInv

LEMMA AgendaInit == SupplyInit => AgendaInv
<1> SUFFICES ASSUME SupplyInit PROVE AgendaInv
  OBVIOUS
<1>1. /\ receipts = {} /\ transfers = {} /\ phase = "release" /\ day = 1
      /\ releases = [d \in Calendar |-> None]
  BY DEF SupplyInit
<1>2. ReceiptsPlanned
  BY <1>1, FS_EmptySet DEF ReceiptsPlanned
<1>3. TransfersPlanned
  BY <1>1, FS_EmptySet DEF TransfersPlanned
<1>4. ReleasesDone /\ LastIsLast
  BY <1>1 DEF ReleasesDone, LastIsLast, Phases, None
<1> QED
  BY <1>2, <1>3, <1>4 DEF AgendaInv

\* The phase that has received what is due today.
LEMMA PlannedLater ==
    ASSUME AgendaInv, PurchasesReceived \/ TransfersReceived, UNCHANGED <<day, releases, receipts, transfers>>
    PROVE  AgendaInv'
<1> USE DEF UntilReceive, UntilArrive, UntilReplenish, UntilTransfer
<1>1. \/ phase = "receive" /\ phase' = "arrive" /\ \A r \in receipts : r.due # day
      \/ phase = "arrive" /\ phase' = "replenish" /\ \A t \in transfers : t.due # day
  BY DEF PurchasesReceived, TransfersReceived, Running
<1>2. ReleasesDone'
  BY <1>1 DEF AgendaInv, ReleasesDone
<1>3. ReceiptsPlanned'
  BY <1>1 DEF AgendaInv, ReceiptsPlanned
<1>4. TransfersPlanned'
  BY <1>1 DEF AgendaInv, TransfersPlanned
<1>5. LastIsLast'
  BY <1>1 DEF AgendaInv, LastIsLast, Phases
<1> QED
  BY <1>2, <1>3, <1>4, <1>5 DEF AgendaInv

-----------------------------------------------------------------------------
\* What the ledger has posted and the stock has not seen: purchases and
\* transfers to come, fulfilments to go.
Amount == [r \in Order |-> r.quantity]
Carried == [t \in Transit |-> t.quantity]

OrderedFor(w) == {r \in receipts : r.at = w /\ Posted(r.due)}
Owed(w) == Sigma(Amount, OrderedFor(w))
OnTheWay(w) == IF w = Destination THEN Sigma(Carried, transfers) ELSE 0
Agenda(w) == [d \in Calendar |-> releases[d][w]]

LedgerInv ==
    /\ ledger \in [Warehouse -> Int]
    /\ \A w \in Warehouse :
         /\ committed[w] = today[w] + Sigma(Agenda(w), Calendar)
         /\ ledger[w] = onHand[w] + Owed(w) + OnTheWay(w) - Sigma(Agenda(w), Day)

BookInv == ClaimInv /\ AgendaInv /\ LedgerInv

LEMMA DaysAreFinite == IsFiniteSet(Day) /\ IsFiniteSet(Calendar) /\ Day \subseteq Calendar
<1>1. LastDay \in Nat /\ MaxLag \in Nat
  BY StoreAssumption, SupplyAssumption
<1> QED
  BY <1>1, FS_Interval DEF Day, Calendar

LEMMA BookTypes ==
    ASSUME BookInv
    PROVE  /\ day \in Nat /\ day \in Day /\ day \in Calendar /\ LastDay \in Nat /\ MaxLag \in Nat
           /\ \A w \in Warehouse :
                /\ onHand[w] \in Nat /\ committed[w] \in Nat /\ today[w] \in Nat /\ ledger[w] \in Int
                /\ committed[w] <= onHand[w]
                /\ \A d \in Calendar : releases[d][w] \in Nat /\ Agenda(w)[d] = releases[d][w]
                /\ Sigma(Agenda(w), Day) \in Nat /\ Sigma(Agenda(w), Calendar) \in Nat
                /\ \A d \in Calendar : releases[d][w] <= Sigma(Agenda(w), Calendar)
                /\ IsFiniteSet(OrderedFor(w)) /\ OrderedFor(w) \subseteq Order
                /\ Owed(w) \in Int /\ OnTheWay(w) \in Int
           /\ \A r \in Order : Amount[r] = r.quantity /\ r.quantity \in Nat
           /\ \A t \in Transit : Carried[t] = t.quantity /\ t.quantity \in Nat
<1>1. /\ day \in Day /\ day \in Nat /\ LastDay \in Nat /\ MaxLag \in Nat
  BY StoreAssumption, SupplyAssumption DEF BookInv, ClaimInv, Quantities, AgendaIsCounted, Day
<1>2. day \in Calendar
  BY <1>1, TodayIsOnCalendar
<1>3. \A r \in Order : Amount[r] = r.quantity /\ r.quantity \in Nat
  BY DEF Amount, Order
<1>4. \A t \in Transit : Carried[t] = t.quantity /\ t.quantity \in Nat
  BY DEF Carried, Transit
<1>5. ASSUME NEW w \in Warehouse
      PROVE  /\ onHand[w] \in Nat /\ committed[w] \in Nat /\ today[w] \in Nat /\ ledger[w] \in Int
             /\ committed[w] <= onHand[w]
             /\ \A d \in Calendar : releases[d][w] \in Nat /\ Agenda(w)[d] = releases[d][w]
             /\ Sigma(Agenda(w), Day) \in Nat /\ Sigma(Agenda(w), Calendar) \in Nat
             /\ \A d \in Calendar : releases[d][w] <= Sigma(Agenda(w), Calendar)
             /\ IsFiniteSet(OrderedFor(w)) /\ OrderedFor(w) \subseteq Order
             /\ Owed(w) \in Int /\ OnTheWay(w) \in Int
  <2>1. /\ onHand[w] \in Nat /\ committed[w] \in Nat /\ today[w] \in Nat /\ ledger[w] \in Int
        /\ damaged[w] \in Nat /\ quality[w] \in Nat
        /\ committed[w] + damaged[w] + quality[w] <= onHand[w]
    BY DEF BookInv, ClaimInv, Quantities, StockIsCounted, AgendaIsCounted, Counts, ClaimsCovered, LedgerInv
  <2>2. \A d \in Calendar : releases[d][w] \in Nat
    BY DEF BookInv, ClaimInv, Quantities, AgendaIsCounted, Counts
  <2>3. \A d \in Calendar : Agenda(w)[d] = releases[d][w]
    BY DEF Agenda
  <2>4. Sigma(Agenda(w), Day) \in Nat /\ Sigma(Agenda(w), Calendar) \in Nat
        /\ \A d \in Calendar : Agenda(w)[d] <= Sigma(Agenda(w), Calendar)
    <3>1. \A d \in Calendar : Agenda(w)[d] \in Nat
      BY <2>2, <2>3
    <3>2. \A d \in Day : Agenda(w)[d] \in Nat
      BY <3>1, DaysAreFinite
    <3> QED
      BY <3>1, <3>2, DaysAreFinite, SigmaNat
  <2>5. IsFiniteSet(OrderedFor(w)) /\ OrderedFor(w) \subseteq Order
    <3>1. OrderedFor(w) \in SUBSET {r \in receipts : r.at = w}
      BY DEF OrderedFor
    <3>2. IsFiniteSet({r \in receipts : r.at = w}) /\ receipts \subseteq Order
      BY DEF BookInv, AgendaInv, ReceiptsPlanned
    <3>3. IsFiniteSet(OrderedFor(w))
      BY <3>1, <3>2, FS_Subset
    <3> QED
      BY <3>1, <3>2, <3>3
  <2>6. Owed(w) \in Int
    <3>1. \A r \in OrderedFor(w) : Amount[r] \in Int
      BY <1>3, <2>5
    <3> QED
      BY <2>5, <3>1, SigmaType DEF Owed
  <2>7. OnTheWay(w) \in Int
    <3>1. IsFiniteSet(transfers) /\ \A t \in transfers : Carried[t] \in Int
      BY <1>4 DEF BookInv, AgendaInv, TransfersPlanned
    <3>2. Sigma(Carried, transfers) \in Int
      BY <3>1, SigmaType
    <3> QED
      BY <3>2 DEF OnTheWay
  <2> QED
    BY <2>1, <2>2, <2>3, <2>4, <2>5, <2>6, <2>7
<1> QED
  BY <1>1, <1>2, <1>3, <1>4, <1>5

\* A step that leaves the agenda alone, takes from the stock what it posts, and
\* commits what it allocates.
LEMMA LedgerKeeps ==
    ASSUME BookInv, UNCHANGED <<releases, receipts, transfers>>,
           NEW f, \A w \in Warehouse : f[w] \in Int,
           NEW g, \A w \in Warehouse : g[w] \in Int,
           ledger' = [w \in Warehouse |-> ledger[w] - f[w]],
           \A w \in Warehouse : onHand'[w] = onHand[w] - f[w],
           \A w \in Warehouse : committed'[w] = committed[w] + g[w],
           \A w \in Warehouse : today'[w] = today[w] + g[w]
    PROVE  LedgerInv'
<1>1. ledger' \in [Warehouse -> Int]
  BY BookTypes
<1>2. ASSUME NEW w \in Warehouse
      PROVE  /\ committed'[w] = today'[w] + Sigma(Agenda(w), Calendar)'
             /\ ledger'[w] = onHand'[w] + Owed(w)' + OnTheWay(w)' - Sigma(Agenda(w), Day)'
  <2>1. UNCHANGED <<Owed(w), OnTheWay(w), Sigma(Agenda(w), Calendar), Sigma(Agenda(w), Day)>>
    BY Zenon DEF Owed, OrderedFor, OnTheWay, Agenda
  <2>2. /\ committed[w] = today[w] + Sigma(Agenda(w), Calendar)
        /\ ledger[w] = onHand[w] + Owed(w) + OnTheWay(w) - Sigma(Agenda(w), Day)
    BY DEF BookInv, LedgerInv
  <2>3. /\ onHand[w] \in Int /\ committed[w] \in Int /\ today[w] \in Int /\ ledger[w] \in Int
        /\ Owed(w) \in Int /\ OnTheWay(w) \in Int /\ f[w] \in Int /\ g[w] \in Int
        /\ Sigma(Agenda(w), Calendar) \in Int /\ Sigma(Agenda(w), Day) \in Int
    BY BookTypes
  <2>4. ledger'[w] = ledger[w] - f[w]
    OBVIOUS
  <2>5. onHand'[w] = onHand[w] - f[w] /\ committed'[w] = committed[w] + g[w] /\ today'[w] = today[w] + g[w]
    OBVIOUS
  <2> QED
    BY <2>1, <2>2, <2>3, <2>4, <2>5
<1> QED
  BY <1>1, <1>2 DEF LedgerInv

\* The agenda of a warehouse after the entry of one day has changed.
LEMMA AgendaChanges ==
    ASSUME BookInv, NEW w \in Warehouse, NEW d \in Calendar, NEW n \in Int,
           \A e \in Calendar : releases'[e][w] = releases[e][w] + (IF e = d THEN n ELSE 0)
    PROVE  /\ Sigma(Agenda(w), Calendar)' = Sigma(Agenda(w), Calendar) + n
           /\ Sigma(Agenda(w), Day)' = Sigma(Agenda(w), Day) + (IF d \in Day THEN n ELSE 0)
<1> DEFINE old == Agenda(w)
           new == [e \in Calendar |-> releases'[e][w]]
<1>1. \A e \in Calendar : old[e] \in Int /\ new[e] = old[e] + (IF e = d THEN n ELSE 0)
  <2>1. \A e \in Calendar : old[e] = releases[e][w] /\ old[e] \in Int
    BY BookTypes
  <2>2. \A e \in Calendar : new[e] = releases'[e][w]
    OBVIOUS
  <2> HIDE DEF old, new
  <2> QED
    BY <2>1, <2>2
<1>2. \A e \in Day : old[e] \in Int /\ new[e] = old[e] + (IF e = d THEN n ELSE 0)
  BY <1>1, DaysAreFinite
<1>3. Sigma(Agenda(w), Calendar)' = Sigma(new, Calendar) /\ Sigma(Agenda(w), Day)' = Sigma(new, Day)
  BY DEF Agenda
<1> HIDE DEF old, new
<1>4. Sigma(new, Calendar) = Sigma(old, Calendar) + (IF d \in Calendar THEN n ELSE 0)
  <2>1. \A e \in Calendar : old[e] \in Int
    BY <1>1
  <2>2. \A e \in Calendar : new[e] = old[e] + (IF e = d THEN n ELSE 0)
    BY <1>1
  <2>3. IsFiniteSet(Calendar) /\ n \in Int
    BY DaysAreFinite
  <2> QED
    BY <2>1, <2>2, <2>3, SigmaAt
<1>5. Sigma(new, Day) = Sigma(old, Day) + (IF d \in Day THEN n ELSE 0)
  <2>1. \A e \in Day : old[e] \in Int
    BY <1>2
  <2>2. \A e \in Day : new[e] = old[e] + (IF e = d THEN n ELSE 0)
    BY <1>2
  <2>3. IsFiniteSet(Day) /\ n \in Int
    BY DaysAreFinite
  <2> QED
    BY <2>1, <2>2, <2>3, SigmaAt
<1> QED
  BY <1>3, <1>4, <1>5 DEF old

\* Fulfilments of today were posted when they were planned.
LEMMA FulfilmentBooks ==
    ASSUME BookInv, ReleaseFulfilments
    PROVE  AgendaInv' /\ LedgerInv'
<1> DEFINE taken == [w \in Warehouse |-> Lesser(releases[day][w], Lesser(committed[w], onHand[w]))]
<1>a. /\ day \in Calendar /\ day \in Day /\ day \in Nat
      /\ releases \in [Calendar -> [Warehouse -> Nat]]
  BY BookTypes DEF BookInv, ClaimInv, Quantities, AgendaIsCounted, Counts
<1>1. /\ onHand' = [w \in Warehouse |-> onHand[w] - taken[w]]
      /\ committed' = [w \in Warehouse |-> committed[w] - taken[w]]
      /\ releases' = [releases EXCEPT ![day] = None]
      /\ phase = "release" /\ phase' = "inspect"
      /\ UNCHANGED <<day, receipts, transfers, today, ledger>>
  BY DEF ReleaseFulfilments, Running
<1>2. \A w \in Warehouse : taken[w] = releases[day][w]
  <2>1. ASSUME NEW w \in Warehouse PROVE Lesser(releases[day][w], Lesser(committed[w], onHand[w])) = releases[day][w]
    <3>1. /\ releases[day][w] \in Nat /\ committed[w] \in Nat /\ onHand[w] \in Nat /\ today[w] \in Nat
          /\ committed[w] <= onHand[w] /\ releases[day][w] <= Sigma(Agenda(w), Calendar)
          /\ Sigma(Agenda(w), Calendar) \in Nat
      BY <1>a, BookTypes
    <3>2. committed[w] = today[w] + Sigma(Agenda(w), Calendar)
      BY DEF BookInv, LedgerInv
    <3> QED
      BY <3>1, <3>2 DEF Lesser
  <2> QED
    BY <2>1
<1> HIDE DEF taken
<1>3. \A w \in Warehouse, d \in Calendar : releases'[d][w] = IF d = day THEN 0 ELSE releases[d][w]
  BY <1>1, <1>a DEF None
<1>4. AgendaInv'
  <2> USE DEF UntilReceive, UntilArrive, UntilReplenish, UntilTransfer
  <2>1. ReleasesDone'
    <3>1. \A d \in Calendar : d < day => \A w \in Warehouse : releases[d][w] = 0
      BY DEF BookInv, AgendaInv, ReleasesDone
    <3> QED
      BY <1>1, <1>3, <3>1 DEF ReleasesDone
  <2>2. ReceiptsPlanned'
    BY <1>1 DEF BookInv, AgendaInv, ReceiptsPlanned
  <2>3. TransfersPlanned'
    BY <1>1 DEF BookInv, AgendaInv, TransfersPlanned
  <2>4. LastIsLast'
    BY <1>1 DEF LastIsLast, Phases
  <2> QED
    BY <2>1, <2>2, <2>3, <2>4 DEF AgendaInv
<1>5. ASSUME NEW w \in Warehouse
      PROVE  /\ committed'[w] = today'[w] + Sigma(Agenda(w), Calendar)'
             /\ ledger'[w] = onHand'[w] + Owed(w)' + OnTheWay(w)' - Sigma(Agenda(w), Day)'
  <2> DEFINE n == - releases[day][w]
  <2>1. n \in Int /\ n = - releases[day][w] /\ releases[day][w] \in Nat
    BY <1>a
  <2>2. \A e \in Calendar : releases'[e][w] = releases[e][w] + (IF e = day THEN n ELSE 0)
    BY <1>3, <1>a, <2>1
  <2> HIDE DEF n
  <2>3. /\ Sigma(Agenda(w), Calendar)' = Sigma(Agenda(w), Calendar) + n
        /\ Sigma(Agenda(w), Day)' = Sigma(Agenda(w), Day) + (IF day \in Day THEN n ELSE 0)
    BY <1>a, <2>1, <2>2, AgendaChanges
  <2>4. UNCHANGED <<Owed(w), OnTheWay(w)>>
    BY <1>1 DEF Owed, OrderedFor, OnTheWay
  <2>5. onHand'[w] = onHand[w] + n /\ committed'[w] = committed[w] + n
    <3>1. onHand'[w] = onHand[w] - taken[w] /\ committed'[w] = committed[w] - taken[w]
      BY <1>1
    <3> QED
      BY <1>2, <2>1, <3>1, BookTypes
  <2>6. /\ committed[w] = today[w] + Sigma(Agenda(w), Calendar)
        /\ ledger[w] = onHand[w] + Owed(w) + OnTheWay(w) - Sigma(Agenda(w), Day)
    BY DEF BookInv, LedgerInv
  <2>7. /\ onHand[w] \in Int /\ committed[w] \in Int /\ today[w] \in Int /\ ledger[w] \in Int
        /\ Owed(w) \in Int /\ OnTheWay(w) \in Int
        /\ Sigma(Agenda(w), Calendar) \in Int /\ Sigma(Agenda(w), Day) \in Int
    BY BookTypes
  <2>8. today'[w] = today[w] /\ ledger'[w] = ledger[w]
    BY <1>1
  <2> QED
    BY <1>a, <2>1, <2>3, <2>4, <2>5, <2>6, <2>7, <2>8
<1>6. ledger' \in [Warehouse -> Int]
  BY <1>1 DEF BookInv, LedgerInv
<1> QED
  BY <1>4, <1>5, <1>6 DEF LedgerInv

\* A purchase was posted when it was ordered.
LEMMA PurchaseBooks ==
    ASSUME BookInv, NEW r \in receipts, ReceivePurchase(r)
    PROVE  AgendaInv' /\ LedgerInv'
<1>1. /\ onHand' = [onHand EXCEPT ![r.at] = @ + r.quantity]
      /\ receipts' = receipts \ {r} /\ r.due = day
      /\ UNCHANGED <<day, phase, committed, releases, transfers, today, ledger>>
  BY DEF ReceivePurchase
<1>a. /\ receipts \subseteq Order /\ r \in Order /\ r.at \in Warehouse /\ r.quantity \in Nat
      /\ onHand \in [Warehouse -> Nat] /\ Posted(r.due)
  BY <1>1, BookTypes DEF BookInv, AgendaInv, ReceiptsPlanned, Order, ClaimInv, Quantities,
     StockIsCounted, Counts, Posted, Day
<1>2. AgendaInv'
  <2>1. ReleasesDone' /\ LastIsLast'
    BY <1>1 DEF BookInv, AgendaInv, ReleasesDone, LastIsLast
  <2>2. ReceiptsPlanned'
    <3>1. receipts' \subseteq receipts
      BY <1>1
    <3>2. \A w \in Warehouse : IsFiniteSet({x \in receipts' : x.at = w})
      <4>1. ASSUME NEW w \in Warehouse PROVE IsFiniteSet({x \in receipts' : x.at = w})
        <5>1. {x \in receipts' : x.at = w} \in SUBSET {x \in receipts : x.at = w}
          BY <3>1
        <5>2. IsFiniteSet({x \in receipts : x.at = w})
          BY DEF BookInv, AgendaInv, ReceiptsPlanned
        <5> QED
          BY <5>1, <5>2, FS_Subset
      <4> QED
        BY <4>1
    <3> QED
      BY <1>1, <3>1, <3>2 DEF BookInv, AgendaInv, ReceiptsPlanned
  <2>3. TransfersPlanned'
    BY <1>1 DEF BookInv, AgendaInv, TransfersPlanned
  <2> QED
    BY <2>1, <2>2, <2>3 DEF AgendaInv
<1>3. ASSUME NEW w \in Warehouse
      PROVE  Owed(w)' = Owed(w) - (IF w = r.at THEN r.quantity ELSE 0)
  <2>1. OrderedFor(w)' = OrderedFor(w) \ {r}
    BY <1>1 DEF OrderedFor
  <2>2. IsFiniteSet(OrderedFor(w)) /\ \A x \in OrderedFor(w) : Amount[x] \in Int
    BY BookTypes
  <2>3. Owed(w)' = Sigma(Amount, OrderedFor(w) \ {r})
    BY <2>1, Zenon DEF Owed, Amount, Order
  <2>4. CASE w = r.at
    <3>1. r \in OrderedFor(w)
      BY <1>a, <2>4 DEF OrderedFor
    <3>2. Owed(w) = Amount[r] + Sigma(Amount, OrderedFor(w) \ {r})
      BY <2>2, <3>1, SigmaRemove DEF Owed
    <3>3. Amount[r] = r.quantity /\ Owed(w) \in Int /\ Owed(w)' \in Int
      <4>1. Amount[r] = r.quantity /\ Owed(w) \in Int
        BY <1>a, BookTypes
      <4>2. Sigma(Amount, OrderedFor(w) \ {r}) \in Int
        <5>1. IsFiniteSet(OrderedFor(w) \ {r}) /\ \A x \in OrderedFor(w) \ {r} : Amount[x] \in Int
          BY <2>2, FS_Subset
        <5> QED
          BY <5>1, SigmaType
      <4> QED
        BY <2>3, <4>1, <4>2
    <3> QED
      BY <1>a, <2>3, <2>4, <3>2, <3>3
  <2>5. CASE w # r.at
    <3>1. OrderedFor(w) \ {r} = OrderedFor(w)
      BY <2>5 DEF OrderedFor
    <3>2. Owed(w)' = Owed(w)
      BY <2>3, <3>1, Zenon DEF Owed
    <3>3. Owed(w) \in Int
      BY BookTypes
    <3> QED
      BY <2>5, <3>2, <3>3
  <2> QED
    BY <2>4, <2>5
<1>4. ASSUME NEW w \in Warehouse
      PROVE  /\ committed'[w] = today'[w] + Sigma(Agenda(w), Calendar)'
             /\ ledger'[w] = onHand'[w] + Owed(w)' + OnTheWay(w)' - Sigma(Agenda(w), Day)'
  <2>1. UNCHANGED <<OnTheWay(w), Sigma(Agenda(w), Calendar), Sigma(Agenda(w), Day)>>
    BY <1>1 DEF OnTheWay, Agenda
  <2>2. /\ committed[w] = today[w] + Sigma(Agenda(w), Calendar)
        /\ ledger[w] = onHand[w] + Owed(w) + OnTheWay(w) - Sigma(Agenda(w), Day)
    BY DEF BookInv, LedgerInv
  <2>3. /\ onHand[w] \in Int /\ Owed(w) \in Int /\ OnTheWay(w) \in Int
        /\ Sigma(Agenda(w), Day) \in Int
    BY BookTypes
  <2>4. onHand'[w] = onHand[w] + (IF w = r.at THEN r.quantity ELSE 0)
    BY <1>1, <1>a
  <2>5. committed'[w] = committed[w] /\ today'[w] = today[w] /\ ledger'[w] = ledger[w]
    BY <1>1
  <2> QED
    BY <1>a, <1>3, <2>1, <2>2, <2>3, <2>4, <2>5
<1>5. ledger' \in [Warehouse -> Int]
  BY <1>1 DEF BookInv, LedgerInv
<1> QED
  BY <1>2, <1>4, <1>5 DEF LedgerInv

\* So was a transfer, when it left.
LEMMA ArrivalBooks ==
    ASSUME BookInv, NEW t \in transfers, ReceiveTransfer(t)
    PROVE  AgendaInv' /\ LedgerInv'
<1>1. /\ onHand' = [onHand EXCEPT ![Destination] = @ + t.quantity]
      /\ transfers' = transfers \ {t}
      /\ UNCHANGED <<day, phase, committed, releases, receipts, today, ledger>>
  BY DEF ReceiveTransfer
<1>a. /\ transfers \subseteq Transit /\ IsFiniteSet(transfers) /\ t \in Transit
      /\ t.quantity \in Nat /\ Carried[t] = t.quantity /\ onHand \in [Warehouse -> Nat]
      /\ \A x \in transfers : Carried[x] \in Int
  BY BookTypes DEF BookInv, AgendaInv, TransfersPlanned, ClaimInv, Quantities,
     StockIsCounted, Counts
<1>2. AgendaInv'
  <2>1. ReleasesDone' /\ LastIsLast'
    BY <1>1 DEF BookInv, AgendaInv, ReleasesDone, LastIsLast
  <2>2. ReceiptsPlanned'
    BY <1>1 DEF BookInv, AgendaInv, ReceiptsPlanned
  <2>3. IsFiniteSet(transfers')
    BY <1>1, <1>a, FS_Subset
  <2>4. TransfersPlanned'
    BY <1>1, <2>3 DEF BookInv, AgendaInv, TransfersPlanned
  <2> QED
    BY <2>1, <2>2, <2>4 DEF AgendaInv
<1>3. /\ Sigma(Carried, transfers) = t.quantity + Sigma(Carried, transfers')
      /\ Sigma(Carried, transfers') \in Int
  <2>1. Sigma(Carried, transfers) = Carried[t] + Sigma(Carried, transfers \ {t})
    BY <1>a, SigmaRemove
  <2>2. Sigma(Carried, transfers \ {t}) \in Int
    <3>1. IsFiniteSet(transfers \ {t}) /\ \A x \in transfers \ {t} : Carried[x] \in Int
      BY <1>a, FS_Subset
    <3> QED
      BY <3>1, SigmaType
  <2>3. Sigma(Carried, transfers') = Sigma(Carried, transfers \ {t})
    BY <1>1, Zenon
  <2>4. Carried[t] = t.quantity
    BY <1>a
  <2> QED
    BY <2>1, <2>2, <2>3, <2>4
<1>4. ASSUME NEW w \in Warehouse
      PROVE  /\ committed'[w] = today'[w] + Sigma(Agenda(w), Calendar)'
             /\ ledger'[w] = onHand'[w] + Owed(w)' + OnTheWay(w)' - Sigma(Agenda(w), Day)'
  <2>1. UNCHANGED <<Owed(w), Sigma(Agenda(w), Calendar), Sigma(Agenda(w), Day)>>
    BY <1>1 DEF Owed, OrderedFor, Agenda
  <2>2. /\ committed[w] = today[w] + Sigma(Agenda(w), Calendar)
        /\ ledger[w] = onHand[w] + Owed(w) + OnTheWay(w) - Sigma(Agenda(w), Day)
    BY DEF BookInv, LedgerInv
  <2>3. /\ onHand[w] \in Int /\ Owed(w) \in Int /\ Sigma(Agenda(w), Day) \in Int
    BY BookTypes
  <2>4. onHand'[w] = onHand[w] + (IF w = Destination THEN t.quantity ELSE 0)
    BY <1>1, <1>a
  <2>5. committed'[w] = committed[w] /\ today'[w] = today[w] /\ ledger'[w] = ledger[w]
    BY <1>1
  <2>6. /\ OnTheWay(w) = (IF w = Destination THEN Sigma(Carried, transfers) ELSE 0)
        /\ OnTheWay(w)' = (IF w = Destination THEN Sigma(Carried, transfers') ELSE 0)
    BY DEF OnTheWay, Carried, Transit, Piece
  <2> QED
    BY <1>a, <1>3, <2>1, <2>2, <2>3, <2>4, <2>5, <2>6
<1>5. ledger' \in [Warehouse -> Int]
  BY <1>1 DEF BookInv, LedgerInv
<1> QED
  BY <1>2, <1>4, <1>5 DEF LedgerInv

LEMMA UnitsOfOrders ==
    ASSUME NEW S, IsFiniteSet(S), S \subseteq Order
    PROVE  Units(S) = Sigma(Amount, S)
<1> DEFINE v == [a \in S |-> a.quantity]
<1>1. Units(S) = SumFunction(v) /\ DOMAIN v = S
  BY DEF Units
<1>2. \A r \in S : Amount[r] \in Int /\ v[r] = Amount[r]
  BY DEF Amount, Order
<1> HIDE DEF v
<1>3. SumFunction(v) = Sigma(v, DOMAIN v)
  BY SumFunctionIs
<1>4. Sigma(v, S) = Sigma(Amount, S)
  BY <1>2, SigmaSame
<1> QED
  BY <1>1, <1>3, <1>4, Zenon

\* A purchase order is posted, if it is due in time, when it is placed.
LEMMA OrderBooks ==
    ASSUME BookInv, Replenish
    PROVE  AgendaInv' /\ LedgerInv'
<1>1. PICK order \in [Warehouse -> 0 .. MaxOrder], late \in [Warehouse -> 0 .. MaxLate],
           short \in [Warehouse -> 0 .. MaxShort] :
        LET placed == {[at |-> w, sent |-> day, due |-> day + Lead + late[w],
                        quantity |-> Positive(order[w] - short[w])] :
                          w \in {v \in Warehouse : order[v] > 0}}
        IN /\ receipts' = receipts \cup placed
           /\ ledger' = [w \in Warehouse |-> ledger[w]
                            + Units({r \in placed : r.at = w /\ Posted(r.due)})]
  BY Zenon DEF Replenish
<1> DEFINE new == [w \in Warehouse |-> [at |-> w, sent |-> day, due |-> day + Lead + late[w],
                                        quantity |-> Positive(order[w] - short[w])]]
           placed == {new[w] : w \in {v \in Warehouse : order[v] > 0}}
<1>2. /\ receipts' = receipts \cup placed
      /\ ledger' = [w \in Warehouse |-> ledger[w]
                       + Units({r \in placed : r.at = w /\ Posted(r.due)})]
  <2>1. placed = {[at |-> w, sent |-> day, due |-> day + Lead + late[w],
                   quantity |-> Positive(order[w] - short[w])] :
                     w \in {v \in Warehouse : order[v] > 0}}
    OBVIOUS
  <2> HIDE DEF new, placed
  <2> QED
    BY <1>1, <2>1, Zenon
<1>3. /\ phase = "replenish" /\ phase' = "transfer"
      /\ UNCHANGED <<day, onHand, committed, releases, transfers, today>>
  BY DEF Replenish, Running, stock
<1>a. day \in Nat /\ Lead \in Nat \ {0}
  BY BookTypes, SupplyAssumption
<1>4. ASSUME NEW w \in Warehouse
      PROVE  new[w] \in Order /\ new[w].at = w /\ new[w].sent = day /\ new[w].due > day
  <2>1. late[w] \in Nat /\ order[w] \in Int /\ short[w] \in Int
    BY SupplyAssumption
  <2>2. Positive(order[w] - short[w]) \in Nat
    BY <2>1 DEF Positive
  <2>3. day + Lead + late[w] \in Nat /\ day + Lead + late[w] > day
    BY <1>a, <2>1
  <2> DEFINE q == Positive(order[w] - short[w])
             due == day + Lead + late[w]
  <2>4. new[w] = [at |-> w, sent |-> day, due |-> due, quantity |-> q]
    OBVIOUS
  <2>5. q \in Nat /\ due \in Nat /\ due > day
    BY <2>2, <2>3
  <2> HIDE DEF q, due, new
  <2> QED
    BY <1>a, <2>4, <2>5 DEF Order
<1> HIDE DEF new
<1>5. \A r \in placed : r \in Order /\ r.sent = day /\ r.due > day /\ r.at \in Warehouse /\ r = new[r.at]
  BY <1>4
<1> HIDE DEF placed
<1>b. /\ receipts \subseteq Order
      /\ \A r \in receipts : r.sent < day
  BY <1>3 DEF BookInv, AgendaInv, ReceiptsPlanned, UntilReplenish
<1>6. AgendaInv'
  <2> USE DEF UntilReceive, UntilArrive, UntilReplenish, UntilTransfer
  <2>1. ReleasesDone' /\ LastIsLast'
    BY <1>3 DEF BookInv, AgendaInv, ReleasesDone, LastIsLast, Phases
  <2>2. \A r \in receipts : r.due > day
    BY <1>3 DEF BookInv, AgendaInv, ReceiptsPlanned
  <2>3. \A w \in Warehouse : IsFiniteSet({r \in receipts' : r.at = w})
    <3>1. ASSUME NEW w \in Warehouse PROVE IsFiniteSet({r \in receipts' : r.at = w})
      <4>1. {r \in receipts' : r.at = w} \in SUBSET ({r \in receipts : r.at = w} \cup {new[w]})
        BY <1>2, <1>5
      <4>2. IsFiniteSet({r \in receipts : r.at = w})
        BY DEF BookInv, AgendaInv, ReceiptsPlanned
      <4>3. IsFiniteSet({r \in receipts : r.at = w} \cup {new[w]})
        BY <4>2, FS_AddElement
      <4> QED
        BY <4>1, <4>3, FS_Subset
    <3> QED
      BY <3>1
  <2>4. ReceiptsPlanned'
    <3>1. \A r \in receipts' : r \in Order /\ r.due > day /\ (r.sent < day \/ r.sent = day)
      BY <1>2, <1>5, <1>b, <2>2
    <3> QED
      BY <1>3, <2>3, <3>1 DEF ReceiptsPlanned
  <2>5. TransfersPlanned'
    BY <1>3 DEF BookInv, AgendaInv, TransfersPlanned
  <2> QED
    BY <2>1, <2>4, <2>5 DEF AgendaInv
<1>7. ASSUME NEW w \in Warehouse
      PROVE  /\ Units({r \in placed : r.at = w /\ Posted(r.due)}) \in Int
             /\ Owed(w)' = Owed(w) + Units({r \in placed : r.at = w /\ Posted(r.due)})
  <2> DEFINE fresh == {r \in placed : r.at = w /\ Posted(r.due)}
             all == OrderedFor(w) \cup fresh
  <2>1. IsFiniteSet(fresh) /\ fresh \subseteq Order
    <3>1. fresh \in SUBSET {new[w]} /\ fresh \subseteq Order
      BY <1>5
    <3>2. IsFiniteSet({new[w]})
      BY FS_Singleton
    <3> QED
      BY <3>1, <3>2, FS_Subset
  <2>2. OrderedFor(w)' = all
    BY <1>2 DEF OrderedFor
  <2>3. OrderedFor(w) \cap fresh = {}
    <3>1. \A r \in OrderedFor(w) : r.sent < day /\ r.sent \in Nat
      BY <1>b DEF OrderedFor, Order
    <3>2. \A r \in fresh : r.sent = day
      BY <1>5
    <3> QED
      BY <1>a, <3>1, <3>2
  <2>4. IsFiniteSet(OrderedFor(w)) /\ OrderedFor(w) \subseteq Order
    BY BookTypes
  <2> HIDE DEF fresh
  <2>5. Units(fresh) = Sigma(Amount, fresh)
    BY <2>1, UnitsOfOrders
  <2>6. IsFiniteSet(all) /\ \A r \in all : Amount[r] \in Int
    <3>1. IsFiniteSet(all)
      BY <2>1, <2>4, FS_Union
    <3> QED
      BY <2>1, <2>4, <3>1, BookTypes
  <2>7. Sigma(Amount, OrderedFor(w) \cup fresh) = Sigma(Amount, OrderedFor(w)) + Sigma(Amount, fresh)
    <3>1. OrderedFor(w) \in SUBSET all /\ fresh \in SUBSET all
      OBVIOUS
    <3> HIDE DEF all
    <3> QED
      BY <2>3, <2>6, <3>1, SigmaUnion
  <2>8. Sigma(Amount, fresh) \in Int
    <3>1. \A r \in fresh : Amount[r] \in Int
      BY <2>6
    <3> QED
      BY <2>1, <3>1, SigmaType
  <2>9. Owed(w)' = Sigma(Amount, OrderedFor(w) \cup fresh) /\ Owed(w) = Sigma(Amount, OrderedFor(w))
    BY <2>2, Zenon DEF Owed, Amount, Order
  <2>10. Units(fresh) \in Int /\ Owed(w)' = Owed(w) + Units(fresh)
    BY <2>5, <2>7, <2>8, <2>9, Zenon
  <2> QED
    BY <2>10 DEF fresh
<1>8. ASSUME NEW w \in Warehouse
      PROVE  /\ committed'[w] = today'[w] + Sigma(Agenda(w), Calendar)'
             /\ ledger'[w] = onHand'[w] + Owed(w)' + OnTheWay(w)' - Sigma(Agenda(w), Day)'
             /\ ledger'[w] \in Int
  <2> DEFINE u == Units({r \in placed : r.at = w /\ Posted(r.due)})
  <2>1. UNCHANGED <<OnTheWay(w), Sigma(Agenda(w), Calendar), Sigma(Agenda(w), Day)>>
    BY <1>3 DEF OnTheWay, Agenda
  <2>2. /\ committed[w] = today[w] + Sigma(Agenda(w), Calendar)
        /\ ledger[w] = onHand[w] + Owed(w) + OnTheWay(w) - Sigma(Agenda(w), Day)
    BY DEF BookInv, LedgerInv
  <2>3. /\ onHand[w] \in Int /\ Owed(w) \in Int /\ OnTheWay(w) \in Int /\ ledger[w] \in Int
        /\ Sigma(Agenda(w), Day) \in Int
    BY BookTypes
  <2>4. ledger'[w] = ledger[w] + u
    BY <1>2
  <2>5. u \in Int /\ Owed(w)' = Owed(w) + u
    BY <1>7
  <2>6. onHand'[w] = onHand[w] /\ committed'[w] = committed[w] /\ today'[w] = today[w]
    BY <1>3
  <2> HIDE DEF u
  <2> QED
    BY <2>1, <2>2, <2>3, <2>4, <2>5, <2>6
<1>9. ledger' \in [Warehouse -> Int]
  <2>1. ledger' = [w \in Warehouse |-> ledger'[w]]
    BY <1>2
  <2> QED
    BY <1>8, <2>1
<1> QED
  BY <1>6, <1>8, <1>9 DEF LedgerInv

\* What a transfer carries is posted at both ends when it leaves, or at one if
\* it will arrive too late.
LEMMA DispatchBooks ==
    ASSUME BookInv, BatchInv, ShipTransfer
    PROVE  AgendaInv' /\ LedgerInv'
<1>1. PICK n \in 1 .. Usable(Source), transit \in 1 .. MaxLag :
        LET L == LotsAt(Source)
            arrives == day + transit <= LastDay IN
        /\ onHand' = [onHand EXCEPT ![Source] = @ - n]
        /\ transfers' = transfers \cup
             (IF arrives
              THEN {[sent |-> day, due |-> day + transit, quantity |-> n,
                     pieces |-> {p \in {[born |-> l.born, expiry |-> l.expiry,
                                         quantity |-> Drawn(L, n, l)] : l \in L} :
                                   p.quantity > 0}]}
              ELSE {})
        /\ ledger' = [ledger EXCEPT ![Source] = @ - n,
                                    ![Destination] = @ + (IF arrives THEN n ELSE 0)]
  BY Zenon DEF ShipTransfer
<1> DEFINE due == day + transit
           pieces == {p \in {[born |-> l.born, expiry |-> l.expiry,
                              quantity |-> Drawn(LotsAt(Source), n, l)] : l \in LotsAt(Source)} :
                        p.quantity > 0}
           new == [sent |-> day, due |-> due, quantity |-> n, pieces |-> pieces]
           sent == IF due <= LastDay THEN n ELSE 0
<1>2. /\ onHand' = [onHand EXCEPT ![Source] = @ - n]
      /\ transfers' = transfers \cup (IF due <= LastDay THEN {new} ELSE {})
      /\ ledger' = [ledger EXCEPT ![Source] = @ - n, ![Destination] = @ + sent]
  BY <1>1
<1>3. /\ phase = "transfer" /\ phase' = "sell"
      /\ UNCHANGED <<day, committed, releases, receipts, today>>
  BY DEF ShipTransfer, Running
<1>a. /\ day \in Nat /\ LastDay \in Nat /\ transit \in Nat /\ transit >= 1
      /\ Source \in Warehouse /\ Destination \in Warehouse /\ Source # Destination
      /\ onHand \in [Warehouse -> Nat] /\ ledger \in [Warehouse -> Int]
  <2>1. day \in Nat /\ LastDay \in Nat /\ MaxLag \in Nat
    BY BookTypes
  <2>2. transit \in Nat /\ transit >= 1
    BY <2>1
  <2>3. Source \in Warehouse /\ Destination \in Warehouse /\ Source # Destination
    BY SupplyAssumption
  <2>4. onHand \in [Warehouse -> Nat] /\ ledger \in [Warehouse -> Int]
    BY DEF BookInv, LedgerInv, ClaimInv, Quantities, StockIsCounted, Counts
  <2> QED
    BY <2>1, <2>2, <2>3, <2>4
<1>b. n \in Nat
  <2>1. Usable(Source) \in Nat
    BY <1>a, FreeFits DEF BookInv
  <2> QED
    BY <2>1
<1>4. due \in Nat /\ due > day /\ sent \in Nat
  BY <1>a, <1>b
<1>5. due <= LastDay => pieces \subseteq Piece
  <2>1. BatchInv'
    BY DispatchReconciles DEF BookInv
  <2>2. due <= LastDay => new \in transfers' /\ new.pieces = pieces
    BY <1>2
  <2> QED
    BY <2>1, <2>2 DEF BatchInv, Shipped
<1>6. new.sent = day /\ new.due = due /\ new.quantity = n /\ (due <= LastDay => new \in Transit)
  <2> HIDE DEF pieces, due
  <2> QED
    BY <1>a, <1>b, <1>4, <1>5 DEF Transit
<1>c. /\ transfers \subseteq Transit /\ IsFiniteSet(transfers)
      /\ \A t \in transfers : t.sent < day /\ t.sent \in Nat
  BY <1>3 DEF BookInv, AgendaInv, TransfersPlanned, UntilTransfer, Transit
<1> HIDE DEF new, due, pieces, sent
<1>7. AgendaInv'
  <2> USE DEF UntilReceive, UntilArrive, UntilReplenish, UntilTransfer
  <2>1. ReleasesDone' /\ LastIsLast'
    BY <1>3 DEF BookInv, AgendaInv, ReleasesDone, LastIsLast, Phases
  <2>2. ReceiptsPlanned'
    BY <1>3 DEF BookInv, AgendaInv, ReceiptsPlanned
  <2>3. IsFiniteSet(transfers') /\ transfers' \subseteq Transit
    BY <1>2, <1>6, <1>c, FS_AddElement
  <2>4. \A t \in transfers : t.due > day /\ t.due <= LastDay
    BY <1>3 DEF BookInv, AgendaInv, TransfersPlanned
  <2>5. \A t \in transfers' : t.due > day /\ (t.sent < day \/ t.sent = day) /\ t.due <= LastDay
    BY <1>2, <1>4, <1>6, <1>c, <2>4
  <2>6. TransfersPlanned'
    BY <1>3, <2>3, <2>5 DEF TransfersPlanned
  <2> QED
    BY <2>1, <2>2, <2>6 DEF AgendaInv
<1>8. Sigma(Carried, transfers') = Sigma(Carried, transfers) + sent /\ Sigma(Carried, transfers) \in Int
  <2>1. \A t \in transfers : Carried[t] \in Int
    BY <1>c, BookTypes
  <2>2. Sigma(Carried, transfers) \in Int
    BY <1>c, <2>1, SigmaType
  <2>3. CASE due <= LastDay
    <3>1. new \notin transfers
      BY <1>a, <1>c, <1>6
    <3>2. Carried[new] = n /\ Carried[new] \in Int
      BY <1>6, <1>b, <2>3, BookTypes
    <3>3. Sigma(Carried, transfers \cup {new}) = Carried[new] + Sigma(Carried, transfers)
      BY <1>c, <2>1, <3>1, <3>2, SigmaAdd
    <3>4. transfers' = transfers \cup {new} /\ sent = n
      BY <1>2, <2>3 DEF sent
    <3>5. Sigma(Carried, transfers') = Carried[new] + Sigma(Carried, transfers)
      BY <3>3, <3>4, Zenon
    <3> QED
      BY <1>b, <2>2, <3>2, <3>4, <3>5
  <2>4. CASE ~(due <= LastDay)
    <3>1. transfers' = transfers /\ sent = 0
      BY <1>2, <2>4 DEF sent
    <3>2. Sigma(Carried, transfers') = Sigma(Carried, transfers)
      BY <3>1, Zenon
    <3> QED
      BY <2>2, <3>1, <3>2
  <2> QED
    BY <2>3, <2>4
<1>9. ASSUME NEW w \in Warehouse
      PROVE  /\ committed'[w] = today'[w] + Sigma(Agenda(w), Calendar)'
             /\ ledger'[w] = onHand'[w] + Owed(w)' + OnTheWay(w)' - Sigma(Agenda(w), Day)'
  <2>1. UNCHANGED <<Owed(w), Sigma(Agenda(w), Calendar), Sigma(Agenda(w), Day)>>
    BY <1>3 DEF Owed, OrderedFor, Agenda
  <2>2. /\ committed[w] = today[w] + Sigma(Agenda(w), Calendar)
        /\ ledger[w] = onHand[w] + Owed(w) + OnTheWay(w) - Sigma(Agenda(w), Day)
    BY DEF BookInv, LedgerInv
  <2>3. /\ onHand[w] \in Int /\ Owed(w) \in Int /\ ledger[w] \in Int
        /\ Sigma(Agenda(w), Day) \in Int
    BY BookTypes
  <2>4. /\ onHand'[w] = onHand[w] - (IF w = Source THEN n ELSE 0)
        /\ ledger'[w] = ledger[w] - (IF w = Source THEN n ELSE 0) + (IF w = Destination THEN sent ELSE 0)
    BY <1>2, <1>a, <1>b, <1>4, <2>3
  <2>5. committed'[w] = committed[w] /\ today'[w] = today[w]
    BY <1>3
  <2>6. /\ OnTheWay(w) = (IF w = Destination THEN Sigma(Carried, transfers) ELSE 0)
        /\ OnTheWay(w)' = (IF w = Destination THEN Sigma(Carried, transfers') ELSE 0)
    BY DEF OnTheWay, Carried, Transit, Piece
  <2> QED
    BY <1>a, <1>b, <1>4, <1>8, <2>1, <2>2, <2>3, <2>4, <2>5, <2>6
<1>10. ledger' \in [Warehouse -> Int]
  BY <1>2, <1>a, <1>b, <1>4
<1> QED
  BY <1>7, <1>9, <1>10 DEF LedgerInv

\* A fulfilment is posted when its order is, for its own day.
LEMMA ShippingBooks ==
    ASSUME BookInv, ShipOrders
    PROVE  AgendaInv' /\ LedgerInv'
<1>0. PICK atOnce \in [Warehouse -> 0 .. MaxDemand * Cardinality(Store)], lag \in 1 .. MaxLag :
        LET taken == [w \in Warehouse |->
                        Lesser(atOnce[w], Lesser(committed[w], onHand[w]))]
        IN /\ \A w \in Warehouse : atOnce[w] <= today[w]
           /\ onHand' = [w \in Warehouse |-> onHand[w] - taken[w]]
           /\ committed' = [w \in Warehouse |-> committed[w] - taken[w]]
           /\ releases' = [releases EXCEPT
                  ![day + lag] = [w \in Warehouse |-> @[w] + today[w] - atOnce[w]]]
           /\ ledger' = [w \in Warehouse |-> ledger[w] -
                           (IF Posted(day + lag) THEN today[w] ELSE atOnce[w])]
  BY Zenon DEF ShipOrders
<1>1. /\ \A w \in Warehouse : atOnce[w] <= today[w]
      /\ \A w \in Warehouse :
           /\ onHand'[w] = onHand[w] - Lesser(atOnce[w], Lesser(committed[w], onHand[w]))
           /\ committed'[w] = committed[w] - Lesser(atOnce[w], Lesser(committed[w], onHand[w]))
      /\ releases' = [releases EXCEPT
            ![day + lag] = [w \in Warehouse |-> @[w] + today[w] - atOnce[w]]]
      /\ ledger' = [w \in Warehouse |-> ledger[w] -
                      (IF Posted(day + lag) THEN today[w] ELSE atOnce[w])]
  BY <1>0
<1>2. /\ phase = "ship" /\ phase' = "review" /\ today' = None
      /\ UNCHANGED <<day, receipts, transfers>>
  BY DEF ShipOrders, Running
<1> DEFINE later == day + lag
<1>a. /\ day \in Nat /\ LastDay \in Nat /\ later \in Calendar /\ later > day
      /\ (Posted(later) <=> later \in Day)
      /\ releases \in [Calendar -> [Warehouse -> Nat]]
  <2>1. /\ day \in Nat /\ day \in Day /\ LastDay \in Nat /\ MaxLag \in Nat
    BY BookTypes
  <2>2. lag \in Nat /\ lag >= 1 /\ lag <= MaxLag
    BY <2>1
  <2>3. releases \in [Calendar -> [Warehouse -> Nat]]
    BY DEF BookInv, ClaimInv, Quantities, AgendaIsCounted, Counts
  <2> QED
    BY <2>1, <2>2, <2>3 DEF Calendar, Day, Posted
<1>3. \A w \in Warehouse : atOnce[w] \in Nat /\ atOnce[w] <= today[w] /\ today[w] \in Nat
  <2>1. \A w \in Warehouse : atOnce[w] \in Int /\ atOnce[w] >= 0
    OBVIOUS
  <2> QED
    BY <1>1, <2>1, BookTypes
<1>4. \A w \in Warehouse, d \in Calendar :
        releases'[d][w] = releases[d][w] + (IF d = later THEN today[w] - atOnce[w] ELSE 0)
  <2>1. ASSUME NEW w \in Warehouse, NEW d \in Calendar
        PROVE  releases'[d][w] = releases[d][w] + (IF d = later THEN today[w] - atOnce[w] ELSE 0)
    <3>1. releases[d][w] \in Nat
      BY <1>a
    <3>2. CASE d = later
      <4>1. releases'[later] = [v \in Warehouse |-> releases[later][v] + today[v] - atOnce[v]]
        BY <1>1, <1>a
      <4> HIDE DEF later
      <4> QED
        BY <1>3, <3>1, <3>2, <4>1
    <3>3. CASE d # later
      <4>1. releases'[d] = releases[d]
        BY <1>1, <1>a, <3>3
      <4> QED
        BY <3>1, <3>3, <4>1
    <3> QED
      BY <3>2, <3>3
  <2> QED
    BY <2>1
<1> HIDE DEF later
<1>5. ASSUME NEW w \in Warehouse
      PROVE  /\ onHand'[w] = onHand[w] - atOnce[w] /\ committed'[w] = committed[w] - atOnce[w]
  <2>1. /\ onHand[w] \in Nat /\ committed[w] \in Nat /\ today[w] \in Nat
        /\ committed[w] <= onHand[w] /\ Sigma(Agenda(w), Calendar) \in Nat
    BY BookTypes
  <2>2. committed[w] = today[w] + Sigma(Agenda(w), Calendar)
    BY DEF BookInv, LedgerInv
  <2>3. Lesser(atOnce[w], Lesser(committed[w], onHand[w])) = atOnce[w]
    BY <1>3, <2>1, <2>2 DEF Lesser
  <2> QED
    BY <1>1, <2>3
<1>6. AgendaInv'
  <2> USE DEF UntilReceive, UntilArrive, UntilReplenish, UntilTransfer
  <2>1. ReleasesDone'
    <3>1. \A d \in Calendar : d < day \/ d = day => \A w \in Warehouse : releases[d][w] = 0
      BY <1>2 DEF BookInv, AgendaInv, ReleasesDone
    <3>2. \A d \in Calendar : d < day \/ d = day => d # later
      BY <1>a DEF Calendar
    <3>3. \A d \in Calendar : d < day \/ d = day => \A w \in Warehouse : releases'[d][w] = 0
      BY <1>4, <3>1, <3>2
    <3> QED
      BY <1>2, <3>3 DEF ReleasesDone
  <2>2. ReceiptsPlanned' /\ TransfersPlanned' /\ LastIsLast'
    BY <1>2 DEF BookInv, AgendaInv, ReceiptsPlanned, TransfersPlanned, LastIsLast, Phases
  <2> QED
    BY <2>1, <2>2 DEF AgendaInv
<1>7. ASSUME NEW w \in Warehouse
      PROVE  /\ committed'[w] = today'[w] + Sigma(Agenda(w), Calendar)'
             /\ ledger'[w] = onHand'[w] + Owed(w)' + OnTheWay(w)' - Sigma(Agenda(w), Day)'
             /\ ledger'[w] \in Int
  <2> DEFINE n == today[w] - atOnce[w]
  <2>1. n \in Int
    BY <1>3
  <2>2. \A e \in Calendar : releases'[e][w] = releases[e][w] + (IF e = later THEN n ELSE 0)
    BY <1>4
  <2> HIDE DEF n
  <2>3. /\ Sigma(Agenda(w), Calendar)' = Sigma(Agenda(w), Calendar) + n
        /\ Sigma(Agenda(w), Day)' = Sigma(Agenda(w), Day) + (IF later \in Day THEN n ELSE 0)
    BY <1>a, <2>1, <2>2, AgendaChanges
  <2>4. UNCHANGED <<Owed(w), OnTheWay(w)>>
    BY <1>2 DEF Owed, OrderedFor, OnTheWay
  <2>5. onHand'[w] = onHand[w] - atOnce[w] /\ committed'[w] = committed[w] - atOnce[w]
    BY <1>5
  <2>6. /\ committed[w] = today[w] + Sigma(Agenda(w), Calendar)
        /\ ledger[w] = onHand[w] + Owed(w) + OnTheWay(w) - Sigma(Agenda(w), Day)
    BY DEF BookInv, LedgerInv
  <2>7. /\ onHand[w] \in Int /\ committed[w] \in Int /\ today[w] \in Int /\ ledger[w] \in Int
        /\ Owed(w) \in Int /\ OnTheWay(w) \in Int
        /\ Sigma(Agenda(w), Calendar) \in Int /\ Sigma(Agenda(w), Day) \in Int
    BY BookTypes
  <2>8. today'[w] = 0 /\ atOnce[w] \in Int
    BY <1>2, <1>3 DEF None
  <2>9. ledger'[w] = ledger[w] - (IF Posted(later) THEN today[w] ELSE atOnce[w])
    BY <1>1 DEF later
  <2>10. committed'[w] = today'[w] + Sigma(Agenda(w), Calendar)'
    BY <2>3, <2>5, <2>6, <2>7, <2>8 DEF n
  <2>11. CASE later \in Day
    <3>1. ledger'[w] = ledger[w] - today[w]
      BY <1>a, <2>9, <2>11
    <3>2. Sigma(Agenda(w), Day)' = Sigma(Agenda(w), Day) + today[w] - atOnce[w]
      BY <2>3, <2>7, <2>8, <2>11 DEF n
    <3> QED
      BY <2>4, <2>5, <2>6, <2>7, <2>8, <2>10, <3>1, <3>2
  <2>12. CASE later \notin Day
    <3>1. ledger'[w] = ledger[w] - atOnce[w]
      BY <1>a, <2>9, <2>12
    <3>2. Sigma(Agenda(w), Day)' = Sigma(Agenda(w), Day)
      BY <2>3, <2>7, <2>12
    <3> QED
      BY <2>4, <2>5, <2>6, <2>7, <2>8, <2>10, <3>1, <3>2
  <2> QED
    BY <2>11, <2>12
<1>8. ledger' \in [Warehouse -> Int]
  <2>1. ledger' = [w \in Warehouse |-> ledger'[w]]
    BY <1>1
  <2> QED
    BY <1>7, <2>1
<1> QED
  BY <1>6, <1>7, <1>8 DEF LedgerInv

\* In the evening everything that is due has been dealt with.
LEMMA EveningBooks ==
    ASSUME BookInv, EndOfDay
    PROVE  AgendaInv' /\ LedgerInv'
<1>1. /\ phase = "review"
      /\ day' = IF day = LastDay THEN day ELSE day + 1
      /\ phase' = IF day = LastDay THEN "done" ELSE "release"
      /\ UNCHANGED <<onHand, committed, releases, receipts, transfers, today, ledger>>
  BY DEF EndOfDay, Running, stock, agenda
<1>a. day \in Nat /\ LastDay \in Nat
  BY BookTypes
<1>2. AgendaInv'
  <2> USE DEF UntilReceive, UntilArrive, UntilReplenish, UntilTransfer
  <2>1. ReleasesDone'
    <3>1. \A d \in Calendar : d < day \/ d = day => \A w \in Warehouse : releases[d][w] = 0
      BY <1>1 DEF BookInv, AgendaInv, ReleasesDone
    <3>2. \A d \in Calendar : d \in Int
      BY DEF Calendar
    <3>3. \A d \in Calendar : d < day' \/ (d = day' /\ phase' # "release") => d < day \/ d = day
      BY <1>1, <1>a, <3>2
    <3> QED
      BY <1>1, <3>1, <3>3 DEF ReleasesDone
  <2>2. ReceiptsPlanned'
    <3>1. \A r \in receipts : r.due > day /\ (r.sent < day \/ r.sent = day) /\ r.due \in Nat /\ r.sent \in Nat
      BY <1>1 DEF BookInv, AgendaInv, ReceiptsPlanned, Order
    <3>2. \A r \in receipts : /\ r.due > day' \/ (r.due = day' /\ phase' \in UntilReceive)
                              /\ r.sent < day' \/ (r.sent = day' /\ phase' \notin UntilReplenish)
      BY <1>1, <1>a, <3>1
    <3> QED
      BY <1>1, <3>2 DEF BookInv, AgendaInv, ReceiptsPlanned
  <2>3. TransfersPlanned'
    <3>1. \A t \in transfers : t.due > day /\ (t.sent < day \/ t.sent = day) /\ t.due \in Nat /\ t.sent \in Nat
      BY <1>1 DEF BookInv, AgendaInv, TransfersPlanned, Transit
    <3>2. \A t \in transfers : /\ t.due > day' \/ (t.due = day' /\ phase' \in UntilArrive)
                               /\ t.sent < day' \/ (t.sent = day' /\ phase' \notin UntilTransfer)
      BY <1>1, <1>a, <3>1
    <3> QED
      BY <1>1, <3>2 DEF BookInv, AgendaInv, TransfersPlanned
  <2>4. LastIsLast'
    BY <1>1 DEF LastIsLast, Phases
  <2> QED
    BY <2>1, <2>2, <2>3, <2>4 DEF AgendaInv
<1>3. LedgerInv'
  <2>1. \A w \in Warehouse : UNCHANGED <<Owed(w), OnTheWay(w), Sigma(Agenda(w), Calendar), Sigma(Agenda(w), Day)>>
    BY <1>1 DEF Owed, OrderedFor, OnTheWay, Agenda
  <2> QED
    BY <1>1, <2>1 DEF BookInv, LedgerInv
<1> QED
  BY <1>2, <1>3

LEMMA BookInit == SupplyInit => BookInv
<1> SUFFICES ASSUME SupplyInit PROVE BookInv
  OBVIOUS
<1>1. ClaimInv /\ AgendaInv
  BY ClaimsInit, AgendaInit
<1>2. /\ receipts = {} /\ transfers = {} /\ committed = None /\ today = None
      /\ ledger = onHand /\ releases = [d \in Calendar |-> None]
  BY DEF SupplyInit
<1>3. onHand \in [Warehouse -> Nat]
  BY <1>1 DEF ClaimInv, Quantities, StockIsCounted, Counts
<1>4. ASSUME NEW w \in Warehouse
      PROVE  /\ committed[w] = today[w] + Sigma(Agenda(w), Calendar)
             /\ ledger[w] = onHand[w] + Owed(w) + OnTheWay(w) - Sigma(Agenda(w), Day)
  <2>1. \A d \in Calendar : Agenda(w)[d] = 0
    BY <1>2 DEF Agenda, None
  <2>2. Sigma(Agenda(w), Calendar) = 0
    BY <2>1, DaysAreFinite, SigmaZero
  <2>3. \A d \in Day : Agenda(w)[d] = 0
    BY <2>1, DaysAreFinite
  <2>4. Sigma(Agenda(w), Day) = 0
    BY <2>3, DaysAreFinite, SigmaZero
  <2>5. OrderedFor(w) = {}
    BY <1>2 DEF OrderedFor
  <2>6. Owed(w) = 0 /\ OnTheWay(w) = 0
    BY <1>2, <2>5, SigmaEmpty DEF Owed, OnTheWay
  <2>7. committed[w] = 0 /\ today[w] = 0 /\ ledger[w] = onHand[w] /\ onHand[w] \in Nat
    BY <1>2, <1>3 DEF None
  <2> QED
    BY <2>2, <2>4, <2>6, <2>7
<1> QED
  BY <1>1, <1>2, <1>3, <1>4 DEF BookInv, LedgerInv

\* Every step books what it moves.
\* Every step books what it moves.
LEMMA BookStep ==
    ASSUME BookInv, BatchInv, [SupplyNext]_simulationVars
    PROVE  AgendaInv' /\ LedgerInv'
<1> DEFINE same == [w \in Warehouse |-> 0]
<1>a. \A w \in Warehouse : same[w] = 0
  OBVIOUS
<1>b. /\ ledger \in [Warehouse -> Int] /\ onHand \in [Warehouse -> Nat]
      /\ \A w \in Warehouse : /\ onHand[w] \in Nat /\ ledger[w] \in Int
                              /\ committed[w] \in Nat /\ today[w] \in Nat
  BY BookTypes DEF BookInv, LedgerInv, ClaimInv, Quantities, StockIsCounted, Counts
<1>c. \A w \in Warehouse : Free(w) \in Nat /\ damaged[w] \in Nat /\ disposals[day][w] \in Nat
  BY BookTypes, FreeFits DEF BookInv, ClaimInv, Quantities, StockIsCounted, AgendaIsCounted, Counts
<1> HIDE DEF same
<1>d. AgendaInv
  BY DEF BookInv
<1>1. ASSUME UNCHANGED <<onHand, committed, today, ledger, releases, receipts, transfers>>
      PROVE  LedgerInv'
  <2>1. ledger' = [w \in Warehouse |-> ledger[w] - same[w]]
    BY <1>1, <1>a, <1>b
  <2>2. \A w \in Warehouse : onHand'[w] = onHand[w] - same[w]
    BY <1>1, <1>a, <1>b
  <2>3. \A w \in Warehouse : committed'[w] = committed[w] + same[w]
    BY <1>1, <1>a, <1>b
  <2>4. \A w \in Warehouse : today'[w] = today[w] + same[w]
    BY <1>1, <1>a, <1>b
  <2>5. \A w \in Warehouse : same[w] \in Int
    BY <1>a
  <2> QED
    BY <1>1, <2>1, <2>2, <2>3, <2>4, <2>5, LedgerKeeps
<1>2. CASE ExpiryDone \/ StoresReceive \/ StoresExpire \/ NoTransfer \/ DemandServed \/ ReleaseInspected
           \/ UNCHANGED simulationVars
  <2>1. day' = day /\ <<phase, phase'>> \in {<<"inspect", "dispose">>, <<"dispose", "expire">>,
            <<"expire", "lose">>, <<"lose", "stores">>, <<"stores", "receive">>,
            <<"transfer", "sell">>, <<"sell", "ship">>, <<phase, phase>>}
    BY <1>2 DEF ExpiryDone, StoresReceive, StoresExpire, NoTransfer, DemandServed, ReleaseInspected,
         simulationVars, supplyVars, Running
  <2>2. UNCHANGED <<onHand, committed, today, ledger, releases, receipts, transfers>>
    BY <1>2 DEF ExpiryDone, StoresReceive, StoresExpire, NoTransfer, DemandServed, ReleaseInspected,
         simulationVars, supplyVars, stock, agenda
  <2>3. AgendaInv'
    BY <1>d, <2>1, <2>2, QuietPhase
  <2> QED
    BY <1>1, <2>2, <2>3
<1>3. CASE PurchasesReceived \/ TransfersReceived
  <2>1. UNCHANGED <<day, onHand, committed, today, ledger, releases, receipts, transfers>>
    BY <1>3 DEF PurchasesReceived, TransfersReceived, stock, agenda
  <2>2. AgendaInv'
    BY <1>d, <1>3, <2>1, PlannedLater
  <2> QED
    BY <1>1, <2>1, <2>2
<1>4. CASE DisposeDamaged
  <2> DEFINE taken == [w \in Warehouse |-> Lesser(disposals[day][w], Lesser(damaged[w], onHand[w]))]
  <2>1. \A w \in Warehouse : taken[w] \in Int
    BY <1>b, <1>c DEF Lesser
  <2>2. /\ onHand' = [w \in Warehouse |-> onHand[w] - taken[w]]
        /\ ledger' = [w \in Warehouse |-> ledger[w] - taken[w]]
        /\ <<phase, phase'>> = <<"dispose", "expire">>
        /\ UNCHANGED <<day, committed, releases, receipts, transfers, today>>
    BY <1>4 DEF DisposeDamaged, Running
  <2> HIDE DEF taken
  <2>3. \A w \in Warehouse : onHand'[w] = onHand[w] - taken[w]
    BY <2>2
  <2>4. \A w \in Warehouse : same[w] \in Int
    BY <1>a
  <2>5. \A w \in Warehouse : committed'[w] = committed[w] + same[w]
    BY <1>a, <1>b, <2>2
  <2>6. \A w \in Warehouse : today'[w] = today[w] + same[w]
    BY <1>a, <1>b, <2>2
  <2>7. LedgerInv'
    BY <2>1, <2>2, <2>3, <2>4, <2>5, <2>6, LedgerKeeps
  <2>8. AgendaInv'
    BY <1>d, <2>2, QuietPhase
  <2> QED
    BY <2>7, <2>8
<1>5. ASSUME NEW l \in lots, ExpireBatch(l) PROVE AgendaInv' /\ LedgerInv'
  <2>1. PICK n \in 0 .. Free(l.at) :
          /\ onHand' = [onHand EXCEPT ![l.at] = @ - n]
          /\ ledger' = [ledger EXCEPT ![l.at] = @ - n]
    BY <1>5 DEF ExpireBatch
  <2>2. UNCHANGED <<day, phase, committed, releases, receipts, transfers, today>>
    BY <1>5 DEF ExpireBatch, agenda
  <2>3. l.at \in Warehouse /\ n \in Int
    <3>1. l.at \in Warehouse
      BY DEF BatchInv, LotsOK, Lot
    <3> QED
      BY <1>c, <3>1
  <2> DEFINE f == [w \in Warehouse |-> IF w = l.at THEN n ELSE 0]
  <2>4. \A w \in Warehouse : f[w] \in Int
    BY <2>3
  <2>5. ledger' = [w \in Warehouse |-> ledger[w] - f[w]]
    <3>0. ledger' = [ledger EXCEPT ![l.at] = ledger[l.at] - n]
      BY <2>1
    <3>1. ledger' = [w \in Warehouse |-> ledger'[w]]
      BY <1>b, <3>0
    <3>2. \A w \in Warehouse : ledger'[w] = IF w = l.at THEN ledger[w] - n ELSE ledger[w]
      BY <1>b, <3>0
    <3>3. \A w \in Warehouse : f[w] = IF w = l.at THEN n ELSE 0
      OBVIOUS
    <3> HIDE DEF f
    <3>4. \A w \in Warehouse : ledger'[w] = ledger[w] - f[w]
      BY <1>b, <2>3, <3>2, <3>3
    <3> QED
      BY <3>1, <3>4
  <2>6. \A w \in Warehouse : onHand'[w] = onHand[w] - f[w]
    <3>0. onHand' = [onHand EXCEPT ![l.at] = onHand[l.at] - n]
      BY <2>1
    <3>1. \A w \in Warehouse : onHand'[w] = IF w = l.at THEN onHand[w] - n ELSE onHand[w]
      BY <1>b, <3>0
    <3>2. \A w \in Warehouse : f[w] = IF w = l.at THEN n ELSE 0
      OBVIOUS
    <3> HIDE DEF f
    <3> QED
      BY <1>b, <2>3, <3>1, <3>2
  <2> HIDE DEF f
  <2>7. \A w \in Warehouse : same[w] \in Int
    BY <1>a
  <2>8. \A w \in Warehouse : committed'[w] = committed[w] + same[w]
    BY <1>a, <1>b, <2>2
  <2>9. \A w \in Warehouse : today'[w] = today[w] + same[w]
    BY <1>a, <1>b, <2>2
  <2>10. LedgerInv'
    BY <2>2, <2>4, <2>5, <2>6, <2>7, <2>8, <2>9, LedgerKeeps
  <2>11. AgendaInv'
    BY <1>d, <2>2, QuietPhase
  <2> QED
    BY <2>10, <2>11
<1>6. CASE LoseStock
  <2>1. PICK lost \in [Warehouse -> 0 .. MaxOpening] :
          /\ onHand' = [w \in Warehouse |-> onHand[w] - lost[w]]
          /\ ledger' = [w \in Warehouse |-> ledger[w] - lost[w]]
    BY <1>6 DEF LoseStock
  <2>2. /\ <<phase, phase'>> = <<"lose", "stores">>
        /\ UNCHANGED <<day, committed, releases, receipts, transfers, today>>
    BY <1>6 DEF LoseStock, Running, agenda
  <2>3. \A w \in Warehouse : lost[w] \in Int
    OBVIOUS
  <2>4. \A w \in Warehouse : onHand'[w] = onHand[w] - lost[w]
    BY <2>1
  <2>5. \A w \in Warehouse : same[w] \in Int
    BY <1>a
  <2>6. \A w \in Warehouse : committed'[w] = committed[w] + same[w]
    BY <1>a, <1>b, <2>2
  <2>7. \A w \in Warehouse : today'[w] = today[w] + same[w]
    BY <1>a, <1>b, <2>2
  <2>8. LedgerInv'
    BY <2>1, <2>2, <2>3, <2>4, <2>5, <2>6, <2>7, LedgerKeeps
  <2>9. AgendaInv'
    BY <1>d, <2>2, QuietPhase
  <2> QED
    BY <2>8, <2>9
<1>7. ASSUME NEW s \in Store, Sell(s) PROVE AgendaInv' /\ LedgerInv'
  <2>1. PICK took \in [Warehouse -> 0 .. MaxDemand] :
          /\ committed' = [w \in Warehouse |-> committed[w] + took[w]]
          /\ today' = [w \in Warehouse |-> today[w] + took[w]]
    BY <1>7 DEF Sell
  <2>2. UNCHANGED <<day, phase, onHand, ledger, releases, receipts, transfers>>
    BY <1>7 DEF Sell, agenda
  <2>3. \A w \in Warehouse : took[w] \in Int
    OBVIOUS
  <2>4. \A w \in Warehouse : committed'[w] = committed[w] + took[w]
    BY <2>1
  <2>5. \A w \in Warehouse : today'[w] = today[w] + took[w]
    BY <2>1
  <2>6. \A w \in Warehouse : same[w] \in Int
    BY <1>a
  <2>7. \A w \in Warehouse : onHand'[w] = onHand[w] - same[w]
    BY <1>a, <1>b, <2>2
  <2>8. ledger' = [w \in Warehouse |-> ledger[w] - same[w]]
    BY <1>a, <1>b, <2>2
  <2>9. LedgerInv'
    BY <2>2, <2>3, <2>4, <2>5, <2>6, <2>7, <2>8, LedgerKeeps
  <2>10. AgendaInv'
    BY <1>d, <2>2, QuietPhase
  <2> QED
    BY <2>9, <2>10
<1>8. CASE ReleaseFulfilments
  BY <1>8, FulfilmentBooks
<1>9. ASSUME NEW r \in receipts, ReceivePurchase(r) PROVE AgendaInv' /\ LedgerInv'
  BY <1>9, PurchaseBooks
<1>10. ASSUME NEW t \in transfers, ReceiveTransfer(t) PROVE AgendaInv' /\ LedgerInv'
  BY <1>10, ArrivalBooks
<1>11. CASE Replenish
  BY <1>11, OrderBooks
<1>12. CASE ShipTransfer
  BY <1>12, DispatchBooks
<1>13. CASE ShipOrders
  BY <1>13, ShippingBooks
<1>14. CASE EndOfDay
  BY <1>14, EveningBooks
<1> QED
  BY <1>2, <1>3, <1>4, <1>5, <1>6, <1>7, <1>8, <1>9, <1>10, <1>11, <1>12, <1>13, <1>14 DEF SupplyNext

\* On the last evening nothing that was posted is still to come or to go.
LEMMA BooksClose ==
    ASSUME BookInv
    PROVE  LedgerMatchesStock
<1> SUFFICES ASSUME phase = "done", NEW w \in Warehouse
             PROVE  ledger[w] = onHand[w]
  BY DEF LedgerMatchesStock
<1>1. day = LastDay /\ LastDay \in Nat /\ onHand[w] \in Nat
  BY BookTypes DEF BookInv, AgendaInv, LastIsLast
<1>2. \A d \in Day : Agenda(w)[d] = 0
  <2>1. \A d \in Day : d \in Calendar /\ (d < day \/ d = day)
    BY <1>1, DaysAreFinite DEF Day
  <2> QED
    BY <2>1, BookTypes DEF BookInv, AgendaInv, ReleasesDone
<1>3. Sigma(Agenda(w), Day) = 0
  BY <1>2, DaysAreFinite, SigmaZero
<1>4. OrderedFor(w) = {}
  BY <1>1 DEF BookInv, AgendaInv, ReceiptsPlanned, OrderedFor, Order, Posted, UntilReceive
<1>5. transfers = {}
  BY <1>1 DEF BookInv, AgendaInv, TransfersPlanned, Transit, UntilArrive, UntilReceive
<1>6. Owed(w) = 0 /\ OnTheWay(w) = 0
  BY <1>4, <1>5, SigmaEmpty DEF Owed, OnTheWay
<1> QED
  BY <1>1, <1>3, <1>6 DEF BookInv, LedgerInv

\* The item ledger adds up to the stock at the end of every simulation: what is
\* posted ahead of time (purchases when ordered, transfers when sent,
\* fulfilments when scheduled) is exactly what happens inside the window.
THEOREM LedgerMatchesStockHolds == SupplySpec => []LedgerMatchesStock
<1> DEFINE I == BookInv /\ BatchInv
<1>1. SupplyInit => I
  BY BookInit, BatchInit
<1>2. I /\ [SupplyNext]_simulationVars => I'
  BY ClaimsStep, BatchStep, BookStep DEF BookInv
<1>3. I => LedgerMatchesStock
  BY BooksClose
<1> QED
  BY <1>1, <1>2, <1>3, PTL DEF SupplySpec

-----------------------------------------------------------------------------
\* Canonical evidence.  An extraction is a view of the source; later states of
\* the source carry it on: its lines stay, its rows stay but for deliveries
\* that are made after it, and a row known by then is one it has seen.
Line == [cell : Cell, on : Date, units : OrderSizes, valid : BOOLEAN, keyed : BOOLEAN]
Part == [line : Nat, part : Nat, units : ShipSizes, created : Nat, delivered : Nat,
         valid : BOOLEAN, keyed : BOOLEAN]
View == [at : Date, lines : Seq(Line), rows : SUBSET Part, faults : Nat]

RowsKnown(lns, rws, at) ==
    /\ IsFiniteSet(rws)
    /\ \A r \in rws : r.line \in DOMAIN lns /\ KnownAsOf(r) <= 2 * at

Carries(lns, rws, x) ==
    /\ \A l \in DOMAIN x.lines : l \in DOMAIN lns /\ lns[l] = x.lines[l]
    /\ \A q \in x.rows :
         \E r \in rws : /\ r.line = q.line /\ r.valid = q.valid
                        /\ r = q \/ (r.delivered > 2 * x.at)
    /\ \A r \in rws : KnownAsOf(r) <= 2 * x.at => r \in x.rows

\* An entry of extracts tells what was ingested of some view.
Tells(e, x) == /\ e = Ingested(x) /\ x \in View /\ RowsKnown(x.lines, x.rows, x.at)

EvidenceInv ==
    /\ date \in 1 .. LastDate + 1 /\ lines \in Seq(Line) /\ rows \in SUBSET Part
    /\ faults \in Nat
    /\ RowsKnown(lines, rows, date)
    /\ extracts \in Seq(Range(extracts))
    /\ \A e \in Range(extracts) : \E x \in View :
         Tells(e, x) /\ x.at < date /\ Carries(lines, rows, x)
    /\ \A e, f \in Range(extracts) : e.at < f.at => Carries(f.lines, f.rows, e)

LEMMA AppendTaken ==
    ASSUME NEW s, s \in Seq(Range(s)), NEW e
    PROVE  Append(s, e) \in Seq(Range(Append(s, e))) /\ Range(Append(s, e)) = Range(s) \cup {e}
<1>1. Len(s) \in Nat /\ DOMAIN s = 1 .. Len(s)
  OBVIOUS
<1>2. /\ DOMAIN Append(s, e) = 1 .. Len(s) + 1
      /\ \A i \in 1 .. Len(s) : Append(s, e)[i] = s[i]
      /\ Append(s, e)[Len(s) + 1] = e
  OBVIOUS
<1>3. Range(Append(s, e)) = Range(s) \cup {e}
  BY <1>1, <1>2 DEF Range
<1>4. s \in Seq(Range(s) \cup {e}) /\ e \in Range(s) \cup {e}
  OBVIOUS
<1>5. Append(s, e) \in Seq(Range(s) \cup {e})
  BY <1>4
<1> QED
  BY <1>3, <1>5

\* A row is known when it is created, or later: when it is delivered.
LEMMA KnownLate ==
    ASSUME NEW r \in Part
    PROVE  /\ KnownAsOf(r) \in Nat /\ KnownAsOf(r) >= r.created /\ KnownAsOf(r) >= r.delivered
           /\ \A n \in Nat : r.created <= n /\ r.delivered <= n => KnownAsOf(r) <= n
           /\ r.delivered > 0 /\ r.created <= r.delivered => KnownAsOf(r) = r.delivered
  BY DEF KnownAsOf, FulfilledAt, Part

LEMMA SizesAreNumbers ==
    /\ \A u \in OrderSizes : u \in Nat /\ u \in Int /\ u > 0
    /\ \A u \in ShipSizes : u \in Nat /\ u \in Int /\ u > 0
  BY EvidenceAssumption

LEMMA DatesRun ==
    /\ EvidenceInv => date \in Nat /\ date > 0
    /\ \A x \in View : x.at \in Nat
  BY EvidenceAssumption DEF EvidenceInv, View, Date

\* The source as it is when day is done carries what was extracted before.
LEMMA EvidenceStarts == EvidenceInit => EvidenceInv
<1> SUFFICES ASSUME EvidenceInit PROVE EvidenceInv
  OBVIOUS
<1>1. IsFiniteSet({}) /\ Range(extracts) = {}
  BY FS_EmptySet DEF EvidenceInit, Range
<1> QED
  BY <1>1, EvidenceAssumption DEF EvidenceInit, EvidenceInv, RowsKnown

LEMMA PlaceKeeps ==
    ASSUME EvidenceInv, NEW ln \in Line, Place(ln)
    PROVE  EvidenceInv'
<1> USE DEF EvidenceInv
<1>1. /\ lines' = Append(lines, ln) /\ UNCHANGED <<date, rows, extracts>>
      /\ faults' \in Nat
  BY DEF Place
<1>2. /\ lines' \in Seq(Line)
      /\ \A l \in DOMAIN lines : l \in DOMAIN lines' /\ lines'[l] = lines[l]
  BY <1>1
<1>3. RowsKnown(lines', rows', date')
  BY <1>1, <1>2 DEF RowsKnown
<1>4. ASSUME NEW x \in View, Carries(lines, rows, x) PROVE Carries(lines', rows', x)
  BY <1>1, <1>2, <1>4 DEF Carries
<1>5. \A e \in Range(extracts) : \E x \in View :
        Tells(e, x) /\ x.at < date /\ Carries(lines', rows', x)
  BY <1>4
<1> QED
  BY <1>1, <1>2, <1>3, <1>5

LEMMA ShipKeeps ==
    ASSUME EvidenceInv, NEW r \in Part, r.line \in DOMAIN lines, r.delivered = 0,
           r.created \in {2 * date - 1, 2 * date}, Ship(r)
    PROVE  EvidenceInv'
<1> USE DEF EvidenceInv
<1>1. /\ rows' = rows \cup {r} /\ UNCHANGED <<date, lines, extracts>>
      /\ faults' \in Nat
  BY DEF Ship
<1>2. KnownAsOf(r) <= 2 * date /\ KnownAsOf(r) >= 2 * date - 1
  <2>1. /\ KnownAsOf(r) \in Nat /\ KnownAsOf(r) >= r.created /\ r.created \in Nat
        /\ \A n \in Nat : r.created <= n /\ r.delivered <= n => KnownAsOf(r) <= n
    BY KnownLate DEF Part
  <2>2. date \in Nat /\ 2 * date \in Nat /\ r.created <= 2 * date /\ r.created >= 2 * date - 1
        /\ r.delivered <= 2 * date
    BY DatesRun
  <2>3. KnownAsOf(r) <= 2 * date
    BY <2>1, <2>2
  <2> QED
    BY <2>1, <2>2, <2>3
<1>3. IsFiniteSet(rows')
  BY <1>1, FS_AddElement DEF RowsKnown
<1>4. RowsKnown(lines', rows', date')
  BY <1>1, <1>2, <1>3 DEF RowsKnown
<1>5. ASSUME NEW x \in View, x.at < date, Carries(lines, rows, x) PROVE Carries(lines', rows', x)
  <2>1. x.at \in Nat /\ date \in Nat /\ KnownAsOf(r) \in Nat
    BY KnownLate, EvidenceAssumption DEF View, Date
  <2>2. KnownAsOf(r) > 2 * x.at
    BY <1>2, <1>5, <2>1
  <2>3. ~(KnownAsOf(r) <= 2 * x.at)
    BY <2>1, <2>2
  <2> QED
    BY <1>1, <1>5, <2>3 DEF Carries
<1>6. \A e \in Range(extracts) : \E x \in View :
        Tells(e, x) /\ x.at < date /\ Carries(lines', rows', x)
  BY <1>5
<1> QED
  BY <1>1, <1>4, <1>6

LEMMA DeliverKeeps ==
    ASSUME EvidenceInv, NEW r \in rows, Deliver(r)
    PROVE  EvidenceInv'
<1> USE DEF EvidenceInv
<1> DEFINE n == [r EXCEPT !.delivered = 2 * date]
<1>1. /\ rows' = (rows \ {r}) \cup {n} /\ UNCHANGED <<date, lines, faults, extracts>>
      /\ r.delivered = 0
  BY DEF Deliver
<1>2. /\ r \in Part /\ n \in Part /\ n.line = r.line /\ n.valid = r.valid
      /\ n.delivered = 2 * date /\ n.created = r.created
  <2>1. r \in Part /\ 2 * date \in Nat
    BY DatesRun
  <2> QED
    BY <2>1 DEF Part
<1>3. date \in Nat /\ date > 0 /\ r.created <= 2 * date
  <2>1. KnownAsOf(r) \in Nat /\ KnownAsOf(r) >= r.created /\ KnownAsOf(r) <= 2 * date
    BY <1>2, KnownLate DEF RowsKnown
  <2>2. date \in Nat /\ date > 0 /\ r.created \in Nat
    BY <1>2, DatesRun DEF Part
  <2> QED
    BY <2>1, <2>2
<1> HIDE DEF n
<1>4. KnownAsOf(n) = 2 * date
  <2>1. n.delivered > 0 /\ n.created <= n.delivered
    BY <1>2, <1>3
  <2> QED
    BY <1>2, <2>1, KnownLate
<1>5. IsFiniteSet(rows')
  <2>1. IsFiniteSet(rows \ {r})
    BY FS_Subset DEF RowsKnown
  <2> QED
    BY <1>1, <2>1, FS_AddElement
<1>6. RowsKnown(lines', rows', date')
  BY <1>1, <1>2, <1>3, <1>4, <1>5 DEF RowsKnown
<1>7. ASSUME NEW x \in View, x.at < date, Carries(lines, rows, x) PROVE Carries(lines', rows', x)
  <2>1. x.at \in Nat
    BY EvidenceAssumption DEF View, Date
  <2>2. 2 * date > 2 * x.at /\ ~(0 > 2 * x.at)
    BY <1>3, <1>7, <2>1
  <2>3. ASSUME NEW q \in x.rows
        PROVE  \E p \in rows' : /\ p.line = q.line /\ p.valid = q.valid
                                /\ p = q \/ (p.delivered > 2 * x.at)
    <3>1. PICK p \in rows : /\ p.line = q.line /\ p.valid = q.valid
                            /\ p = q \/ (p.delivered > 2 * x.at)
      BY <1>7 DEF Carries
    <3>2. CASE p = r
      BY <1>1, <1>2, <2>2, <3>1, <3>2
    <3>3. CASE p # r
      BY <1>1, <3>1, <3>3
    <3> QED
      BY <3>2, <3>3
  <2>4. ~(KnownAsOf(n) <= 2 * x.at)
    BY <1>3, <1>4, <2>1, <2>2
  <2> QED
    BY <1>1, <1>7, <2>3, <2>4 DEF Carries
<1>8. \A e \in Range(extracts) : \E x \in View :
        Tells(e, x) /\ x.at < date /\ Carries(lines', rows', x)
  BY <1>7
<1> QED
  BY <1>1, <1>2, <1>6, <1>8

LEMMA NightKeeps ==
    ASSUME EvidenceInv, NightFalls
    PROVE  EvidenceInv'
<1> USE DEF EvidenceInv
<1>1. /\ date' = date + 1 /\ UNCHANGED <<lines, rows, faults>> /\ date <= LastDate
      /\ extracts' = IF date \in Extracts THEN Append(extracts, Ingested(Extracted)) ELSE extracts
  BY DEF NightFalls
<1>2. date \in Nat /\ date' \in 1 .. LastDate + 1 /\ date < date' /\ 2 * date <= 2 * date'
  BY <1>1, EvidenceAssumption
<1>3. RowsKnown(lines', rows', date')
  <2>1. ASSUME NEW r \in rows PROVE KnownAsOf(r) <= 2 * date'
    BY <1>2, KnownLate DEF RowsKnown
  <2> QED
    BY <1>1, <2>1 DEF RowsKnown
<1>4. \A e \in Range(extracts) : \E x \in View :
        Tells(e, x) /\ x.at < date' /\ Carries(lines, rows, x)
  <2> SUFFICES ASSUME NEW e \in Range(extracts)
               PROVE  \E x \in View : Tells(e, x) /\ x.at < date' /\ Carries(lines, rows, x)
    OBVIOUS
  <2>1. PICK x \in View : Tells(e, x) /\ x.at < date /\ Carries(lines, rows, x)
    OBVIOUS
  <2>2. x.at < date'
    BY <1>2, <2>1, EvidenceAssumption DEF View, Date
  <2> QED
    BY <2>1, <2>2
<1>5. CASE date \notin Extracts
  BY <1>1, <1>2, <1>3, <1>4, <1>5
<1>6. CASE date \in Extracts
  <2> DEFINE now == Ingested(Extracted)
  <2>1. /\ extracts' \in Seq(Range(extracts')) /\ Range(extracts') = Range(extracts) \cup {now}
    BY <1>1, <1>6, AppendTaken
  <2>2. Extracted \in View
    BY <1>1, <1>2, EvidenceAssumption DEF Extracted, View, Date
  <2>3. Extracted.at = date /\ Extracted.lines = lines /\ Extracted.rows = rows
    BY DEF Extracted
  <2>4. Tells(now, Extracted)
    BY <2>2, <2>3 DEF Tells
  <2>5. Carries(lines, rows, Extracted)
    BY <2>3 DEF Carries
  <2>6. now.at = date /\ now.lines = lines /\ now.rows = rows
    BY <2>3 DEF Ingested
  <2>7. ASSUME NEW e \in Range(extracts)
        PROVE  /\ e.at < date /\ Carries(lines, rows, e)
    <3>1. PICK x \in View : Tells(e, x) /\ x.at < date /\ Carries(lines, rows, x)
      OBVIOUS
    <3>2. e.at = x.at /\ e.lines = x.lines /\ e.rows = x.rows
      BY <3>1 DEF Tells, Ingested
    <3> QED
      BY <3>1, <3>2 DEF Carries
  <2>8. \A e \in Range(extracts) : ~(date < e.at)
    <3>1. ASSUME NEW e \in Range(extracts) PROVE e.at \in Nat
      BY EvidenceAssumption DEF Tells, Ingested, View, Date
    <3> QED
      BY <3>1, <2>7, <1>2
  <2> HIDE DEF now
  <2>9. ASSUME NEW e \in Range(extracts'), NEW f \in Range(extracts'), e.at < f.at
        PROVE  Carries(f.lines, f.rows, e)
    <3>1. CASE e = now /\ f = now
      BY <1>2, <2>6, <2>9, <3>1
    <3>2. CASE e = now /\ f \in Range(extracts)
      BY <2>6, <2>8, <2>9, <3>2
    <3>3. CASE e \in Range(extracts) /\ f = now
      BY <2>6, <2>7, <3>3
    <3>4. CASE e \in Range(extracts) /\ f \in Range(extracts)
      BY <2>9, <3>4
    <3> QED
      BY <2>1, <3>1, <3>2, <3>3, <3>4
  <2>10. \A e \in Range(extracts') : \E x \in View :
           Tells(e, x) /\ x.at < date' /\ Carries(lines, rows, x)
    BY <1>2, <1>4, <2>1, <2>2, <2>3, <2>4, <2>5
  <2> QED
    BY <1>1, <1>2, <1>3, <2>1, <2>9, <2>10
<1> QED
  BY <1>5, <1>6

LEMMA ShippedIsTyped ==
    ASSUME EvidenceInv, NEW l \in DOMAIN lines, NEW u \in ShipSizes, NEW h \in Hours,
           NEW valid \in BOOLEAN, NEW keyed \in BOOLEAN
    PROVE  [line |-> l, part |-> Cardinality(PartsOf(rows, l)) + 1, units |-> u,
            created |-> 2 * date + h - 1, delivered |-> 0, valid |-> valid, keyed |-> keyed] \in Part
<1>1. Cardinality(PartsOf(rows, l)) \in Nat
  <2>1. IsFiniteSet(PartsOf(rows, l))
    BY FS_Subset DEF EvidenceInv, RowsKnown, PartsOf
  <2> QED
    BY <2>1, FS_CardinalityType
<1>2. l \in Nat
  BY DEF EvidenceInv
<1>3. 2 * date + h - 1 \in Nat
  BY DatesRun, EvidenceAssumption
<1> QED
  BY <1>1, <1>2, <1>3 DEF Part

LEMMA EvidenceKeeps == ASSUME EvidenceInv, [EvidenceNext]_evidenceVars PROVE EvidenceInv'
<1>1. ASSUME NEW c \in Cell, NEW u \in OrderSizes, NEW valid \in BOOLEAN, NEW keyed \in BOOLEAN,
             Place([cell |-> c, on |-> date, units |-> u, valid |-> valid, keyed |-> keyed])
      PROVE  EvidenceInv'
  <2> DEFINE ln == [cell |-> c, on |-> date, units |-> u, valid |-> valid, keyed |-> keyed]
  <2>1. date \in Date
    BY <1>1, DatesRun, EvidenceAssumption DEF Place, Date
  <2>2. ln \in Line
    BY <2>1 DEF Line
  <2> HIDE DEF ln
  <2>3. Place(ln)
    BY <1>1 DEF ln
  <2> QED
    BY <2>2, <2>3, PlaceKeeps
<1>2. ASSUME NEW l \in DOMAIN lines, NEW u \in ShipSizes, NEW h \in Hours,
             NEW valid \in BOOLEAN, NEW keyed \in BOOLEAN,
             Ship([line |-> l, part |-> Cardinality(PartsOf(rows, l)) + 1, units |-> u,
                   created |-> 2 * date + h - 1, delivered |-> 0, valid |-> valid, keyed |-> keyed])
      PROVE  EvidenceInv'
  <2> DEFINE r == [line |-> l, part |-> Cardinality(PartsOf(rows, l)) + 1, units |-> u,
                   created |-> 2 * date + h - 1, delivered |-> 0, valid |-> valid, keyed |-> keyed]
  <2>3. 2 * date + h - 1 \in {2 * date - 1, 2 * date}
    BY DatesRun, EvidenceAssumption
  <2>4. r \in Part
    BY ShippedIsTyped
  <2>5. r.line \in DOMAIN lines /\ r.delivered = 0 /\ r.created \in {2 * date - 1, 2 * date}
    BY <2>3
  <2> HIDE DEF r
  <2>6. Ship(r)
    BY <1>2 DEF r
  <2> QED
    BY <2>4, <2>5, <2>6, ShipKeeps
<1>3. CASE UNCHANGED evidenceVars
  BY <1>3 DEF evidenceVars, EvidenceInv, RowsKnown, Carries
<1> QED
  BY <1>1, <1>2, <1>3, DeliverKeeps, NightKeeps DEF EvidenceNext

\* Sums of units are sums of a function.
LEMMA UnitsAre == ASSUME NEW S PROVE UnitsOf(S) = Sigma([r \in S |-> r.units], S)
<1>1. DOMAIN [r \in S |-> r.units] = S
  OBVIOUS
<1> QED
  BY <1>1 DEF UnitsOf, SumFunction, SumFunctionOnSet, FoldFunctionOnSet, Sigma, MapThenSumSet

LEMMA FulfilledAre ==
    ASSUME NEW x, NEW S
    PROVE  FulfilledIn(x, S) = Sigma([l \in S |-> FulfilledUnits(x, l)], S)
<1>1. DOMAIN [l \in S |-> FulfilledUnits(x, l)] = S
  OBVIOUS
<1> QED
  BY <1>1 DEF FulfilledIn, SumFunction, SumFunctionOnSet, FoldFunctionOnSet, Sigma, MapThenSumSet

LEMMA UnitsCount ==
    ASSUME NEW S, IsFiniteSet(S), \A r \in S : r.units \in Nat \ {0}
    PROVE  UnitsOf(S) \in Nat /\ (UnitsOf(S) = 0 <=> S = {})
<1> DEFINE w == [r \in S |-> r.units]
<1>1. UnitsOf(S) = Sigma(w, S)
  BY UnitsAre
<1>2. \A r \in S : w[r] \in Nat /\ w[r] > 0
  OBVIOUS
<1> HIDE DEF w
<1>3. Sigma(w, S) \in Nat /\ \A r \in S : w[r] <= Sigma(w, S)
  BY <1>2, SigmaNat
<1>4. S = {} => Sigma(w, S) = 0
  BY SigmaEmpty
<1> QED
  BY <1>1, <1>2, <1>3, <1>4

LEMMA ShippedCounts ==
    ASSUME NEW x \in View, RowsKnown(x.lines, x.rows, x.at), NEW l
    PROVE  /\ ShippedOf(StagedRows(x), l) \in Nat
           /\ ShippedOf(StagedRows(x), l) = 0 <=> PartsOf(StagedRows(x), l) = {}
<1> DEFINE mine == PartsOf(StagedRows(x), l)
<1>1. mine \subseteq x.rows
  BY DEF PartsOf, StagedRows
<1>2. IsFiniteSet(mine)
  BY <1>1, FS_Subset DEF RowsKnown
<1>3. ASSUME NEW r \in mine PROVE r.units \in Nat \ {0}
  <2>1. r \in Part
    BY <1>1 DEF View
  <2>2. r.units \in ShipSizes
    BY <2>1 DEF Part
  <2> QED
    BY <2>2, SizesAreNumbers
<1> HIDE DEF mine
<1>4. UnitsOf(mine) \in Nat /\ (UnitsOf(mine) = 0 <=> mine = {})
  BY <1>2, <1>3, UnitsCount
<1> QED
  BY <1>4 DEF mine, ShippedOf

LEMMA FulfilledCounts ==
    ASSUME NEW x \in View, RowsKnown(x.lines, x.rows, x.at), NEW l \in DOMAIN x.lines
    PROVE  /\ FulfilledUnits(x, l) \in Nat
           /\ FulfilledUnits(x, l) > 0 <=> PartsOf(StagedRows(x), l) # {}
<1>1. x.lines[l].units \in Nat \ {0}
  <2>1. x.lines \in Seq(Line)
    BY DEF View
  <2>2. x.lines[l] \in Line
    BY <2>1
  <2> QED
    BY <2>2, EvidenceAssumption DEF Line
<1>2. /\ ShippedOf(StagedRows(x), l) \in Nat
      /\ ShippedOf(StagedRows(x), l) = 0 <=> PartsOf(StagedRows(x), l) = {}
  BY ShippedCounts
<1> QED
  BY <1>1, <1>2 DEF FulfilledUnits

-----------------------------------------------------------------------------
\* What a later extraction y knew by an earlier one, x, is what x has seen.
Earlier(x, y) ==
    /\ x \in View /\ y \in View
    /\ RowsKnown(x.lines, x.rows, x.at) /\ RowsKnown(y.lines, y.rows, y.at)
    /\ Carries(y.lines, y.rows, x)

LEMMA RowIsCarried ==
    ASSUME NEW x, NEW y, Earlier(x, y), NEW l, PartsOf(StagedRows(x), l) # {}
    PROVE  PartsOf(StagedRows(y), l) # {}
<1>1. PICK q \in x.rows : q.valid /\ q.line = l
  BY DEF PartsOf, StagedRows
<1>2. PICK r \in y.rows : r.line = q.line /\ r.valid = q.valid
  BY DEF Earlier, Carries
<1> QED
  BY <1>1, <1>2 DEF PartsOf, StagedRows

LEMMA KnownRowsAreSeen ==
    ASSUME NEW x, NEW y, Earlier(x, y), NEW l,
           \A r \in PartsOf(StagedRows(y), l) : KnownAsOf(r) <= 2 * x.at
    PROVE  PartsOf(StagedRows(x), l) = PartsOf(StagedRows(y), l)
<1>1. x.at \in Nat
  BY DatesRun DEF Earlier
<1>2. ASSUME NEW r \in PartsOf(StagedRows(y), l) PROVE r \in PartsOf(StagedRows(x), l)
  BY DEF Earlier, Carries, PartsOf, StagedRows
<1>3. ASSUME NEW q \in PartsOf(StagedRows(x), l) PROVE q \in PartsOf(StagedRows(y), l)
  <2>1. q \in x.rows /\ q.line = l /\ q.valid
    BY DEF PartsOf, StagedRows
  <2>2. PICK r \in y.rows : /\ r.line = q.line /\ r.valid = q.valid
                            /\ r = q \/ (r.delivered > 2 * x.at)
    BY <2>1 DEF Earlier, Carries
  <2>3. r \in PartsOf(StagedRows(y), l)
    BY <2>1, <2>2 DEF PartsOf, StagedRows
  <2>4. r \in Part /\ r.delivered \in Nat
    BY DEF Earlier, View, Part
  <2>5. KnownAsOf(r) <= 2 * x.at /\ KnownAsOf(r) \in Nat /\ KnownAsOf(r) >= r.delivered
    BY <2>3, <2>4, KnownLate
  <2>6. ~(r.delivered > 2 * x.at)
    BY <1>1, <2>4, <2>5
  <2> QED
    BY <2>2, <2>3, <2>6
<1> QED
  BY <1>2, <1>3

LEMMA FulfilledIsCarried ==
    ASSUME NEW x, NEW y, Earlier(x, y), NEW c, NEW d
    PROVE  FulfilledLines(x, c, d) \subseteq FulfilledLines(y, c, d)
<1> SUFFICES ASSUME NEW l \in FulfilledLines(x, c, d) PROVE l \in FulfilledLines(y, c, d)
  OBVIOUS
<1>1. /\ l \in DOMAIN x.lines /\ x.lines[l].valid
      /\ x.lines[l].cell = c /\ x.lines[l].on = d /\ FulfilledUnits(x, l) > 0
  BY DEF FulfilledLines, StagedLines
<1>2. l \in DOMAIN y.lines /\ y.lines[l] = x.lines[l]
  BY <1>1 DEF Earlier, Carries
<1>3. PartsOf(StagedRows(x), l) # {}
  BY <1>1, FulfilledCounts DEF Earlier
<1>4. FulfilledUnits(y, l) > 0
  BY <1>2, <1>3, RowIsCarried, FulfilledCounts DEF Earlier
<1> QED
  BY <1>1, <1>2, <1>4 DEF FulfilledLines, StagedLines

\* A row of sales that y knew by x is the row of x, from the same lines.
LEMMA KnownSalesAreSeen ==
    ASSUME NEW x, NEW y, Earlier(x, y), NEW c, NEW d,
           FulfilledLines(y, c, d) # {}, SalesRow(y, c, d).known <= 2 * x.at
    PROVE  FulfilledLines(x, c, d) # {} /\ SalesRow(x, c, d) = SalesRow(y, c, d)
<1> DEFINE ls == FulfilledLines(y, c, d)
           known == LinesKnown(y, ls)
<1>1. x.at \in Nat /\ y.at \in Nat
  BY DatesRun DEF Earlier
<1>2. ASSUME NEW l \in ls
      PROVE  l \in DOMAIN y.lines /\ FulfilledUnits(y, l) > 0 /\ PartsOf(StagedRows(y), l) # {}
  BY FulfilledCounts DEF FulfilledLines, StagedLines, Earlier
<1>3. ASSUME NEW l \in ls, NEW r \in PartsOf(StagedRows(y), l) PROVE KnownAsOf(r) \in known
  BY DEF LinesKnown, PartsOf
<1>4. known \subseteq Int /\ \A k \in known : k <= 2 * y.at
  <2>1. ASSUME NEW r \in y.rows PROVE KnownAsOf(r) \in Nat /\ KnownAsOf(r) <= 2 * y.at
    BY KnownLate DEF Earlier, View, RowsKnown
  <2> QED
    BY <2>1 DEF LinesKnown, StagedRows
<1>5. known # {}
  BY <1>2, <1>3
<1>6. \A k \in known : k <= 2 * x.at
  <2>1. 2 * y.at \in Int
    BY <1>1
  <2>2. Max(known) \in known /\ \A k \in known : k <= Max(known)
    <3> HIDE DEF known
    <3> QED
      BY <1>4, <1>5, <2>1, MaxIsThere
  <2>3. Max(known) <= 2 * x.at
    BY DEF SalesRow
  <2> HIDE DEF known
  <2>4. ASSUME NEW k \in known PROVE k <= 2 * x.at
    <3>1. k \in Int /\ Max(known) \in Int /\ k <= Max(known)
      BY <1>4, <2>2
    <3>2. 2 * x.at \in Int
      BY <1>1
    <3> QED
      BY <2>3, <3>1, <3>2
  <2> QED
    BY <2>4
<1>7. ASSUME NEW l \in ls
      PROVE  /\ PartsOf(StagedRows(x), l) = PartsOf(StagedRows(y), l)
             /\ l \in DOMAIN x.lines /\ x.lines[l] = y.lines[l]
             /\ FulfilledUnits(x, l) = FulfilledUnits(y, l)
  <2>1. PartsOf(StagedRows(x), l) = PartsOf(StagedRows(y), l)
    BY <1>3, <1>6, KnownRowsAreSeen
  <2>2. PICK r \in x.rows : r.line = l
    BY <1>2, <2>1 DEF PartsOf, StagedRows
  <2>3. l \in DOMAIN x.lines
    BY <2>2 DEF Earlier, RowsKnown
  <2>4. x.lines[l] = y.lines[l]
    BY <2>3 DEF Earlier, Carries
  <2> QED
    BY <2>1, <2>3, <2>4 DEF FulfilledUnits, ShippedOf
<1>8. FulfilledLines(x, c, d) = ls
  <2>1. ASSUME NEW l \in ls PROVE l \in FulfilledLines(x, c, d)
    BY <1>2, <1>7 DEF FulfilledLines, StagedLines
  <2> QED
    BY <2>1, FulfilledIsCarried
<1>9. LinesKnown(x, ls) = known
  <2>1. \A l \in ls : PartsOf(StagedRows(x), l) = PartsOf(StagedRows(y), l)
    BY <1>7
  <2>2. {q \in StagedRows(x) : q.line \in ls} = {q \in StagedRows(y) : q.line \in ls}
    <3> HIDE DEF ls
    <3> QED
      BY <2>1 DEF PartsOf
  <2> QED
    BY <2>2 DEF LinesKnown
<1>10. FulfilledIn(x, ls) = FulfilledIn(y, ls)
  <2>1. [l \in ls |-> FulfilledUnits(x, l)] = [l \in ls |-> FulfilledUnits(y, l)]
    BY <1>7
  <2> QED
    BY <2>1, FulfilledAre
<1> QED
  BY <1>8, <1>9, <1>10 DEF SalesRow

LEMMA RowsOfCells ==
    ASSUME NEW x, NEW c, NEW d
    PROVE  /\ SalesRow(x, c, d).cell = c /\ SalesRow(x, c, d).on = d
           /\ ZeroRow(c, d).cell = c /\ ZeroRow(c, d).on = d
  BY DEF SalesRow, ZeroRow

LEMMA DatesStay ==
    ASSUME NEW x, NEW d, d \in DatesOf(Candidate(x).sales)
    PROVE  d \in DatesOf(ObservedSales(x))
<1> DEFINE seen == ObservedSales(x)
<1>0. Date \subseteq Nat
  BY EvidenceAssumption DEF Date
<1>1. \A r \in seen : r.on \in Date
  BY RowsOfCells DEF ObservedSales
<1>2. \A r \in Densified(x, seen) : r.on \in DatesOf(seen)
  BY RowsOfCells DEF Densified, ActiveDates
<1>3. Candidate(x).sales = seen \cup Densified(x, seen)
  BY DEF Candidate
<1>4. ASSUME NEW r \in seen PROVE r.on \in DatesOf(seen)
  <2>1. r.on \in Date /\ r.on \in Nat /\ r.on \in {q.on : q \in seen}
    BY <1>0, <1>1
  <2>2. r.on <= r.on
    BY <2>1
  <2> HIDE DEF seen
  <2> QED
    BY <2>1, <2>2 DEF DatesOf
<1>5. PICK e \in {r.on : r \in Candidate(x).sales}, f \in {r.on : r \in Candidate(x).sales} :
        d \in Date /\ e <= d /\ d <= f
  BY DEF DatesOf
<1>6. e \in DatesOf(seen) /\ f \in DatesOf(seen)
  BY <1>2, <1>3, <1>4, <1>5
<1>7. PICK a \in {r.on : r \in seen}, b \in {r.on : r \in seen} : a <= e /\ f <= b
  BY <1>6 DEF DatesOf
<1>8. a \in Nat /\ b \in Nat /\ e \in Nat /\ f \in Nat /\ d \in Nat
  BY <1>0, <1>1, <1>5, <1>6, <1>7 DEF DatesOf
<1>9. a <= d /\ d <= b
  BY <1>5, <1>7, <1>8
<1> QED
  BY <1>5, <1>7, <1>9 DEF DatesOf

LEMMA NoNewsBetween ==
    ASSUME NEW x, NEW y, Earlier(x, y),
           NEW r \in Candidate(y).sales, r.known <= 2 * x.at, r.on \in DatesOf(Candidate(x).sales)
    PROVE  r \in Candidate(x).sales
<1> DEFINE seen == ObservedSales(x)
           later == ObservedSales(y)
<1>1. /\ Candidate(x).sales = seen \cup Densified(x, seen)
      /\ Candidate(y).sales = later \cup Densified(y, later)
  BY DEF Candidate
<1>2. CASE r \in later
  <2>1. PICK c \in Cell, d \in Date : FulfilledLines(y, c, d) # {} /\ r = SalesRow(y, c, d)
    BY <1>2 DEF ObservedSales
  <2>2. FulfilledLines(x, c, d) # {} /\ SalesRow(x, c, d) = r
    BY <2>1, KnownSalesAreSeen
  <2>3. r \in seen
    <3>1. <<c, d>> \in {p \in Cell \X Date : FulfilledLines(x, p[1], p[2]) # {}}
      BY <2>2
    <3> QED
      BY <2>2, <3>1, <<c, d>>[1] = c /\ <<c, d>>[2] = d DEF ObservedSales
  <2> QED
    BY <1>1, <2>3
<1>3. CASE r \in Densified(y, later)
  <2>1. PICK c \in Cell, d \in Date :
          /\ r = ZeroRow(c, d) /\ InWindow(c, d)
          /\ ~ \E q \in later : q.cell = c /\ q.on = d
    BY <1>3 DEF Densified, ActiveDates, DatesOf
  <2>2. d \in DatesOf(seen)
    BY <2>1, RowsOfCells, DatesStay
  <2>3. ~ \E q \in seen : q.cell = c /\ q.on = d
    <3> SUFFICES ASSUME NEW q \in seen, q.cell = c, q.on = d PROVE FALSE
      OBVIOUS
    <3>1. FulfilledLines(x, c, d) # {}
      BY RowsOfCells DEF ObservedSales
    <3>2. FulfilledLines(y, c, d) # {}
      BY <3>1, FulfilledIsCarried
    <3>3. SalesRow(y, c, d) \in later
      <4>1. <<c, d>> \in {p \in Cell \X Date : FulfilledLines(y, p[1], p[2]) # {}}
        BY <3>2
      <4> QED
        BY <4>1, <<c, d>>[1] = c /\ <<c, d>>[2] = d DEF ObservedSales
    <3> QED
      BY <2>1, <3>3, RowsOfCells
  <2>4. r \in Densified(x, seen)
    <3> DEFINE gaps == {q \in ActiveDates(seen) : ~ \E s \in seen : s.cell = q[1] /\ s.on = q[2]}
    <3>1. <<c, d>> \in ActiveDates(seen)
      BY <2>1, <2>2 DEF ActiveDates
    <3>2. <<c, d>> \in gaps
      BY <2>3, <3>1
    <3> QED
      BY <2>1, <3>2, <<c, d>>[1] = c /\ <<c, d>>[2] = d DEF Densified
  <2> QED
    BY <1>1, <2>4
<1> QED
  BY <1>1, <1>2, <1>3

\* For any lines, shipments, deliveries and faults: the publication of a later
\* extraction, cut at an earlier one, has no row that the earlier publication
\* did not have, so a model that is trained as of a date on later data sees
\* nothing that was still to come.
THEOREM LaterViewHasNoNewsHolds == EvidenceSpec => []LaterViewHasNoNews
<1>1. EvidenceInv => LaterViewHasNoNews
  <2> SUFFICES ASSUME EvidenceInv, NEW e \in Range(extracts), NEW f \in Range(extracts), e.at < f.at,
                      NEW r \in f.sales, r.known <= 2 * e.at, r.on \in DatesOf(e.sales)
               PROVE  r \in e.sales
    BY DEF LaterViewHasNoNews, Publications
  <2>1. PICK x \in View : Tells(e, x)
    BY DEF EvidenceInv
  <2>2. PICK y \in View : Tells(f, y)
    BY DEF EvidenceInv
  <2>3. Carries(f.lines, f.rows, e)
    BY DEF EvidenceInv
  <2>4. /\ e.at = x.at /\ e.lines = x.lines /\ e.rows = x.rows /\ e.sales = Candidate(x).sales
        /\ f.lines = y.lines /\ f.rows = y.rows /\ f.sales = Candidate(y).sales
    BY <2>1, <2>2 DEF Tells, Ingested
  <2>5. Earlier(x, y)
    BY <2>1, <2>2, <2>3, <2>4 DEF Earlier, Tells, Carries
  <2> QED
    BY <2>4, <2>5, NoNewsBetween
<1> QED
  BY <1>1, EvidenceStarts, EvidenceKeeps, PTL DEF EvidenceSpec

-----------------------------------------------------------------------------
\* Sums of sales and of shipments, cell by cell.
Counted(S) == [r \in S |-> r.units]
Served(x) == [l \in DOMAIN x.lines |-> FulfilledUnits(x, l)]

Sound(x) == x \in View /\ RowsKnown(x.lines, x.rows, x.at)

LEMMA UnitsWithin ==
    ASSUME NEW R, IsFiniteSet(R), \A r \in R : r.units \in Int, NEW S \in SUBSET R
    PROVE  UnitsOf(S) = Sigma(Counted(R), S)
<1>1. IsFiniteSet(S) /\ UnitsOf(S) = Sigma(Counted(S), S)
  BY FS_Subset, UnitsAre DEF Counted
<1>2. \A r \in S : Counted(R)[r] \in Int /\ Counted(S)[r] = Counted(R)[r]
  BY DEF Counted
<1> QED
  BY <1>1, <1>2, SigmaSame

LEMMA ServedSums ==
    ASSUME NEW x, Sound(x), NEW S \in SUBSET DOMAIN x.lines
    PROVE  /\ IsFiniteSet(DOMAIN x.lines) /\ IsFiniteSet(S)
           /\ \A l \in DOMAIN x.lines : Served(x)[l] \in Nat /\ Served(x)[l] = FulfilledUnits(x, l)
           /\ FulfilledIn(x, S) = Sigma(Served(x), S)
<1>1. IsFiniteSet(DOMAIN x.lines)
  <2>1. Len(x.lines) \in Nat /\ DOMAIN x.lines = 1 .. Len(x.lines)
    BY DEF Sound, View
  <2> QED
    BY <2>1, FS_Interval
<1>2. IsFiniteSet(S)
  BY <1>1, FS_Subset
<1>3. \A l \in DOMAIN x.lines : Served(x)[l] \in Nat /\ Served(x)[l] = FulfilledUnits(x, l)
  BY FulfilledCounts DEF Served, Sound
<1> DEFINE w == [l \in S |-> FulfilledUnits(x, l)]
<1>4. FulfilledIn(x, S) = Sigma(w, S)
  BY FulfilledAre
<1>5. \A l \in S : Served(x)[l] \in Int /\ w[l] = Served(x)[l]
  BY <1>3
<1> HIDE DEF w
<1>6. Sigma(w, S) = Sigma(Served(x), S)
  BY <1>2, <1>5, SigmaSame
<1> QED
  BY <1>1, <1>2, <1>3, <1>4, <1>6

LEMMA UnitsOfOne == ASSUME NEW r, r.units \in Int PROVE UnitsOf({r}) = r.units
<1>1. IsFiniteSet({}) /\ IsFiniteSet({r}) /\ {} \cup {r} = {r}
  BY FS_EmptySet, FS_Singleton
<1>2. UnitsOf({r}) = Sigma(Counted({r}), {r}) /\ Counted({r})[r] = r.units
  BY UnitsAre DEF Counted
<1>3. Sigma(Counted({r}), {} \cup {r}) = Counted({r})[r] + Sigma(Counted({r}), {})
  BY <1>1, <1>2, SigmaAdd
<1> QED
  BY <1>1, <1>2, <1>3, SigmaEmpty

\* The sales of a cell and date are what is fulfilled of its lines.
LEMMA SalesOfCell ==
    ASSUME NEW x, Sound(x), NEW c \in Cell, NEW d \in Date
    PROVE  SalesUnits(Candidate(x).sales, c, d) = FulfilledIn(x, FulfilledLines(x, c, d))
<1> DEFINE ls == FulfilledLines(x, c, d)
           seen == ObservedSales(x)
           mine == {r \in Candidate(x).sales : r.cell = c /\ r.on = d}
<1>1. Candidate(x).sales = seen \cup Densified(x, seen)
  BY DEF Candidate
<1>2. ls \in SUBSET DOMAIN x.lines
  BY DEF FulfilledLines, StagedLines
<1>3. FulfilledIn(x, ls) = Sigma(Served(x), ls) /\ FulfilledIn(x, ls) \in Int
  BY <1>2, ServedSums, SigmaType
<1>4. ASSUME NEW r \in seen, r.cell = c, r.on = d PROVE ls # {} /\ r = SalesRow(x, c, d)
  <2>1. PICK p \in Cell \X Date : FulfilledLines(x, p[1], p[2]) # {} /\ r = SalesRow(x, p[1], p[2])
    BY DEF ObservedSales
  <2>2. p[1] = c /\ p[2] = d
    BY <1>4, <2>1, RowsOfCells
  <2> QED
    BY <2>1, <2>2
<1>5. ASSUME NEW r \in Densified(x, seen), r.cell = c, r.on = d
      PROVE  r = ZeroRow(c, d) /\ ~ \E q \in seen : q.cell = c /\ q.on = d
  <2>1. PICK p \in ActiveDates(seen) :
          r = ZeroRow(p[1], p[2]) /\ ~ \E q \in seen : q.cell = p[1] /\ q.on = p[2]
    BY DEF Densified
  <2>2. p[1] = c /\ p[2] = d
    BY <1>5, <2>1, RowsOfCells
  <2> QED
    BY <2>1, <2>2
<1>6. CASE ls # {}
  <2>1. SalesRow(x, c, d) \in seen
    <3>1. <<c, d>> \in {p \in Cell \X Date : FulfilledLines(x, p[1], p[2]) # {}}
      BY <1>6
    <3> QED
      BY <3>1, <<c, d>>[1] = c /\ <<c, d>>[2] = d DEF ObservedSales
  <2>2. mine = {SalesRow(x, c, d)}
    BY <1>1, <1>4, <1>5, <2>1, RowsOfCells
  <2>3. SalesRow(x, c, d).units = FulfilledIn(x, ls)
    BY DEF SalesRow
  <2>4. UnitsOf(mine) = FulfilledIn(x, ls)
    BY <1>3, <2>2, <2>3, UnitsOfOne
  <2> QED
    BY <2>4 DEF SalesUnits
<1>7. CASE ls = {}
  <2>1. mine \subseteq {ZeroRow(c, d)}
    BY <1>1, <1>4, <1>5, <1>7
  <2>2. IsFiniteSet(mine)
    BY <2>1, FS_Singleton, FS_Subset
  <2>3. \A r \in mine : Counted(mine)[r] = 0
    BY <2>1 DEF Counted, ZeroRow
  <2>4. UnitsOf(mine) = Sigma(Counted(mine), mine)
    BY UnitsAre DEF Counted
  <2> HIDE DEF mine
  <2>5. UnitsOf(mine) = 0
    BY <2>2, <2>3, <2>4, SigmaZero
  <2> QED
    BY <1>3, <1>7, <2>5, SigmaEmpty DEF mine, SalesUnits
<1> QED
  BY <1>6, <1>7

\* Where no line of a cell and date is in quarantine and none is shipped
\* beyond its order, what is fulfilled of them is what was shipped.
LEMMA ShippedOfCell ==
    ASSUME NEW x, Sound(x), NothingOverfulfilled(x), NEW c, NEW d,
           \A r \in OfCell(x, StagedRows(x), c, d) : x.lines[r.line].valid
    PROVE  FulfilledIn(x, FulfilledLines(x, c, d)) = UnitsOf(OfCell(x, StagedRows(x), c, d))
<1> DEFINE mine == OfCell(x, StagedRows(x), c, d)
           ls == FulfilledLines(x, c, d)
           part == [l \in ls |-> PartsOf(StagedRows(x), l)]
<1>1. mine \subseteq x.rows /\ IsFiniteSet(mine) /\ \A r \in mine : r.units \in Int
  <2>1. mine \subseteq x.rows
    BY DEF OfCell, StagedRows
  <2>2. IsFiniteSet(mine)
    BY <2>1, FS_Subset DEF Sound, RowsKnown
  <2>3. ASSUME NEW r \in mine PROVE r.units \in Int
    <3>1. r \in Part
      BY <2>1 DEF Sound, View
    <3>2. r.units \in ShipSizes
      BY <3>1 DEF Part
    <3> QED
      BY <3>2, SizesAreNumbers
  <2> QED
    BY <2>1, <2>2, <2>3
<1>2. /\ ls \in SUBSET DOMAIN x.lines /\ IsFiniteSet(ls)
      /\ FulfilledIn(x, ls) = Sigma(Served(x), ls)
      /\ \A l \in ls : Served(x)[l] = FulfilledUnits(x, l)
  <2>1. ls \in SUBSET DOMAIN x.lines
    BY DEF FulfilledLines, StagedLines
  <2> QED
    BY <2>1, ServedSums
<1>3. ASSUME NEW l \in ls
      PROVE  part[l] \in SUBSET mine /\ Served(x)[l] = Sigma(Counted(mine), part[l])
  <2>1. l \in StagedLines(x) /\ x.lines[l].cell = c /\ x.lines[l].on = d
    BY DEF FulfilledLines
  <2>2. part[l] \in SUBSET mine
    BY <2>1 DEF PartsOf, OfCell
  <2>3. ShippedOf(StagedRows(x), l) <= x.lines[l].units /\ ShippedOf(StagedRows(x), l) \in Nat
    BY <2>1, ShippedCounts DEF NothingOverfulfilled, Sound
  <2>4. x.lines[l].units \in Nat
    <3>1. x.lines \in Seq(Line) /\ l \in DOMAIN x.lines
      BY <1>2 DEF Sound, View
    <3>2. x.lines[l] \in Line
      BY <3>1
    <3> QED
      BY <3>2, EvidenceAssumption DEF Line
  <2>5. FulfilledUnits(x, l) = ShippedOf(StagedRows(x), l)
    BY <2>3, <2>4 DEF FulfilledUnits
  <2>6. ShippedOf(StagedRows(x), l) = UnitsOf(part[l])
    BY DEF ShippedOf
  <2> HIDE DEF part, mine
  <2>7. UnitsOf(part[l]) = Sigma(Counted(mine), part[l])
    BY <1>1, <2>2, UnitsWithin
  <2> QED
    BY <1>2, <2>2, <2>5, <2>6, <2>7
<1>4. UNION {part[l] : l \in ls} = mine
  <2>1. ASSUME NEW r \in mine PROVE \E l \in ls : r \in part[l]
    <3> DEFINE l == r.line
    <3>1. /\ r \in StagedRows(x) /\ x.lines[l].cell = c /\ x.lines[l].on = d /\ x.lines[l].valid
      BY DEF OfCell
    <3>2. l \in DOMAIN x.lines
      BY <1>1 DEF Sound, RowsKnown
    <3>3. r \in PartsOf(StagedRows(x), l)
      BY <3>1 DEF PartsOf
    <3>4. FulfilledUnits(x, l) > 0
      BY <3>2, <3>3, FulfilledCounts DEF Sound
    <3>5. l \in ls
      BY <3>1, <3>2, <3>4 DEF FulfilledLines, StagedLines
    <3> QED
      BY <3>3, <3>5
  <2>2. \A l \in ls : part[l] \subseteq mine
    BY <1>3
  <2> HIDE DEF part, mine, ls
  <2> QED
    BY <2>1, <2>2
<1>5. \A k, l \in ls : k # l => part[k] \cap part[l] = {}
  BY DEF PartsOf
<1>6. \A r \in mine : Counted(mine)[r] \in Int
  BY <1>1 DEF Counted
<1>7. UnitsOf(mine) = Sigma(Counted(mine), mine)
  BY UnitsAre DEF Counted
<1> HIDE DEF part, mine, ls
<1>8. Sigma(Served(x), ls) = Sigma(Counted(mine), UNION {part[l] : l \in ls})
  <2>1. \A l \in ls : part[l] \in SUBSET mine
    BY <1>3
  <2>2. \A l \in ls : Served(x)[l] = Sigma(Counted(mine), part[l])
    BY <1>3
  <2> QED
    BY <1>1, <1>2, <1>5, <1>6, <2>1, <2>2, SigmaParts
<1> QED
  BY <1>2, <1>4, <1>7, <1>8 DEF mine, ls

\* What Gate B approves is complete.
LEMMA ApprovedIsComplete ==
    ASSUME NEW x, Sound(x), GateB(x, Candidate(x)), NEW c \in Cell, NEW d \in Date
    PROVE  \/ SalesUnits(Candidate(x).sales, c, d) = UnitsOf(OfCell(x, StagedRows(x), c, d))
           \/ MayCancel(x, c, d)
<1> DEFINE mine == OfCell(x, StagedRows(x), c, d)
<1>1. CASE \A r \in mine : x.lines[r.line].valid
  BY <1>1, SalesOfCell, ShippedOfCell DEF GateB
<1>2. CASE \A r \in mine : r.keyed
  <2>1. OfCell(x, Candidate(x).fulfillments, c, d) = mine
    BY <1>2 DEF Candidate, Fulfillments, OfCell
  <2> QED
    BY <2>1 DEF GateB, FulfillmentsAgree
<1> QED
  BY <1>1, <1>2 DEF MayCancel

-----------------------------------------------------------------------------
\* A source without faults.
Clean(lns, rws) ==
    /\ \A l \in DOMAIN lns : ~LineIsFaulty(lns[l]) /\ ShippedOf(rws, l) <= lns[l].units
    /\ \A r \in rws : ~RowIsFaulty(lns, r)

CleanInv ==
    /\ faults = 0 => Clean(lines, rows)
    /\ \A e \in Range(extracts) : e.faults = 0 => Clean(e.lines, e.rows)

LEMMA NothingShipped ==
    ASSUME NEW rws, NEW l, \A r \in rws : r.line # l PROVE ShippedOf(rws, l) = 0
<1>1. PartsOf(rws, l) = {}
  BY DEF PartsOf
<1> QED
  BY <1>1, UnitsAre, SigmaEmpty DEF ShippedOf

LEMMA PlaceStaysClean ==
    ASSUME EvidenceInv, CleanInv, NEW ln \in Line, Place(ln) PROVE CleanInv'
<1>1. /\ lines' = Append(lines, ln) /\ UNCHANGED <<rows, extracts>> /\ faults \in Nat
      /\ faults' = IF LineIsFaulty(ln) THEN faults + 1 ELSE faults
  BY DEF Place, EvidenceInv
<1>2. lines \in Seq(Line) /\ Len(lines) \in Nat /\ DOMAIN lines = 1 .. Len(lines)
  BY DEF EvidenceInv
<1>3. /\ DOMAIN lines' = DOMAIN lines \cup {Len(lines) + 1} /\ lines'[Len(lines) + 1] = ln
      /\ \A l \in DOMAIN lines : lines'[l] = lines[l]
  BY <1>1, <1>2
<1>4. ASSUME faults' = 0 PROVE Clean(lines', rows')
  <2>1. Clean(lines, rows) /\ ~LineIsFaulty(ln)
    BY <1>1, <1>4 DEF CleanInv
  <2>2. \A r \in rows : r.line \in DOMAIN lines
    BY DEF EvidenceInv, RowsKnown
  <2>3. ShippedOf(rows, Len(lines) + 1) = 0
    <3>1. Len(lines) + 1 \notin DOMAIN lines
      BY <1>2
    <3> QED
      BY <2>2, <3>1, NothingShipped
  <2>4. ln.units \in Nat
    BY EvidenceAssumption DEF Line
  <2>5. \A r \in rows : ~RowIsFaulty(lines', r)
    BY <1>3, <2>1, <2>2 DEF Clean, RowIsFaulty
  <2> QED
    BY <1>1, <1>3, <2>1, <2>3, <2>4, <2>5 DEF Clean
<1> QED
  BY <1>1, <1>4 DEF CleanInv

LEMMA ShipStaysClean ==
    ASSUME EvidenceInv, CleanInv, NEW r \in Part, r.line \in DOMAIN lines, Ship(r)
    PROVE  CleanInv'
<1>1. /\ rows' = rows \cup {r} /\ UNCHANGED <<lines, extracts>> /\ faults \in Nat
      /\ faults' = IF RowIsFaulty(lines, r) \/ ShippedOf(rows', r.line) > lines[r.line].units
                    THEN faults + 1 ELSE faults
  BY DEF Ship, EvidenceInv
<1>2. ASSUME faults' = 0 PROVE Clean(lines', rows')
  <2>1. /\ Clean(lines, rows) /\ ~RowIsFaulty(lines, r)
        /\ ~(ShippedOf(rows', r.line) > lines[r.line].units)
    BY <1>1, <1>2 DEF CleanInv
  <2>2. ASSUME NEW l \in DOMAIN lines, l # r.line PROVE ShippedOf(rows', l) = ShippedOf(rows, l)
    <3>1. PartsOf(rows', l) = PartsOf(rows, l)
      BY <1>1, <2>2 DEF PartsOf
    <3> QED
      BY <3>1 DEF ShippedOf
  <2>3. ShippedOf(rows', r.line) \in Nat
    <3> DEFINE mine == PartsOf(rows', r.line)
    <3>1. IsFiniteSet(rows') /\ \A q \in rows' : q \in Part
      BY <1>1, FS_AddElement DEF EvidenceInv, RowsKnown
    <3>2. IsFiniteSet(mine) /\ \A q \in mine : q \in Part
      BY <3>1, FS_Subset DEF PartsOf
    <3>3. \A q \in mine : q.units \in Nat \ {0}
      BY <3>2, EvidenceAssumption DEF Part
    <3> HIDE DEF mine
    <3>4. UnitsOf(mine) \in Nat
      BY <3>2, <3>3, UnitsCount
    <3> QED
      BY <3>4 DEF mine, ShippedOf
  <2>4. lines[r.line].units \in Nat
    <3>1. lines \in Seq(Line)
      BY DEF EvidenceInv
    <3>2. lines[r.line] \in Line
      BY <3>1
    <3> QED
      BY <3>2, EvidenceAssumption DEF Line
  <2>5. ShippedOf(rows', r.line) <= lines[r.line].units
    BY <2>1, <2>3, <2>4
  <2> QED
    BY <1>1, <2>1, <2>2, <2>5 DEF Clean
<1> QED
  BY <1>1, <1>2 DEF CleanInv

LEMMA DeliverStaysClean ==
    ASSUME EvidenceInv, CleanInv, NEW r \in rows, Deliver(r) PROVE CleanInv'
<1> DEFINE n == [r EXCEPT !.delivered = 2 * date]
<1>1. rows' = (rows \ {r}) \cup {n} /\ UNCHANGED <<lines, faults, extracts>>
  BY DEF Deliver
<1>2. /\ n.line = r.line /\ n.valid = r.valid /\ n.units = r.units
      /\ n.created = r.created /\ n.keyed = r.keyed
  <2>1. r \in Part
    BY DEF EvidenceInv
  <2> QED
    BY <2>1 DEF Part
<1> HIDE DEF n
<1>3. ASSUME faults' = 0 PROVE Clean(lines', rows')
  <2>1. Clean(lines, rows)
    BY <1>1, <1>3 DEF CleanInv
  <2>2. ~RowIsFaulty(lines, n)
    BY <1>2, <2>1 DEF Clean, RowIsFaulty
  <2>3. ASSUME NEW l \in DOMAIN lines PROVE ShippedOf(rows', l) <= lines[l].units
    <3>1. ShippedOf(rows, l) <= lines[l].units
      BY <2>1 DEF Clean
    <3>2. CASE l # r.line
      <4>1. PartsOf(rows', l) = PartsOf(rows, l)
        BY <1>1, <1>2, <3>2 DEF PartsOf
      <4> QED
        BY <3>1, <4>1 DEF ShippedOf
    <3>3. CASE l = r.line
      <4> DEFINE mine == PartsOf(rows, l)
                 rest == mine \ {r}
                 whole == mine \cup {n}
      <4>1. PartsOf(rows', l) = rest \cup {n} /\ r \in mine
        BY <1>1, <1>2, <3>3 DEF PartsOf
      <4>2. IsFiniteSet(mine) /\ \A q \in mine : q \in Part
        BY FS_Subset DEF PartsOf, EvidenceInv, RowsKnown
      <4>3. \A q \in mine : q.units \in Nat
        BY <4>2, EvidenceAssumption DEF Part
      <4>4. r.units \in Nat /\ n.units = r.units
        BY <1>2, <4>1, <4>3
      <4>5. IsFiniteSet(whole) /\ \A q \in whole : q.units \in Nat
        BY <4>2, <4>3, <4>4, FS_AddElement
      <4> DEFINE w == Counted(whole)
      <4>6. \A q \in whole : w[q] \in Int /\ w[q] = q.units
        BY <4>5 DEF Counted
      <4>7. mine \in SUBSET whole /\ rest \in SUBSET whole /\ rest \cup {n} \in SUBSET whole
        OBVIOUS
      <4> HIDE DEF mine, rest, whole
      <4>8. UnitsOf(mine) = Sigma(w, mine) /\ UnitsOf(rest \cup {n}) = Sigma(w, rest \cup {n})
        BY <4>5, <4>7, UnitsWithin
      <4> HIDE DEF w
      <4>9. IsFiniteSet(rest) /\ \A q \in rest : w[q] \in Int
        BY <4>5, <4>6, <4>7, FS_Subset
      <4>10. Sigma(w, mine) = w[r] + Sigma(w, rest)
        <5>1. \A q \in mine : w[q] \in Int
          BY <4>6, <4>7
        <5> QED
          BY <4>1, <4>2, <5>1, SigmaRemove DEF rest
      <4>11. n \in whole /\ r \in whole
        BY <4>1, <4>7 DEF whole
      <4>12. w[n] = w[r] /\ w[n] \in Nat /\ Sigma(w, rest) \in Int
        BY <4>4, <4>6, <4>9, <4>11, SigmaType
      <4>13. Sigma(w, rest \cup {n}) <= Sigma(w, mine)
        <5>1. CASE n \in rest
          <6>1. rest \cup {n} = rest
            BY <5>1
          <6>2. Sigma(w, rest \cup {n}) = Sigma(w, rest)
            BY <6>1, Zenon
          <6> QED
            BY <4>10, <4>12, <6>2
        <5>2. CASE n \notin rest
          <6>1. Sigma(w, rest \cup {n}) = w[n] + Sigma(w, rest)
            BY <4>9, <4>12, <5>2, SigmaAdd
          <6> QED
            BY <4>10, <4>12, <6>1
        <5> QED
          BY <5>1, <5>2
      <4>14. Sigma(w, rest \cup {n}) \in Int /\ Sigma(w, mine) \in Int
        <5>1. Sigma(w, rest \cup {n}) = UnitsOf(rest \cup {n}) /\ IsFiniteSet(rest \cup {n})
          BY <4>8, <4>9, FS_AddElement
        <5>2. \A q \in rest \cup {n} : w[q] \in Int
          BY <4>9, <4>12
        <5> QED
          BY <4>10, <4>12, <5>1, <5>2, SigmaType
      <4>15. lines[l].units \in Int
        <5>1. lines \in Seq(Line)
          BY DEF EvidenceInv
        <5>2. lines[l] \in Line
          BY <5>1
        <5>3. lines[l].units \in OrderSizes
          BY <5>2 DEF Line
        <5> QED
          BY <5>3, SizesAreNumbers
      <4>16. ShippedOf(rows', l) = Sigma(w, rest \cup {n}) /\ ShippedOf(rows, l) = Sigma(w, mine)
        BY <4>1, <4>8 DEF ShippedOf, mine
      <4> QED
        BY <3>1, <4>13, <4>14, <4>15, <4>16
    <3> QED
      BY <3>2, <3>3
  <2> QED
    BY <1>1, <2>1, <2>2, <2>3 DEF Clean
<1> QED
  BY <1>1, <1>3 DEF CleanInv

LEMMA NightStaysClean ==
    ASSUME EvidenceInv, CleanInv, NightFalls PROVE CleanInv'
<1>1. /\ UNCHANGED <<lines, rows, faults>>
      /\ extracts' = IF date \in Extracts THEN Append(extracts, Ingested(Extracted)) ELSE extracts
  BY DEF NightFalls
<1>2. Range(extracts') \subseteq Range(extracts) \cup {Ingested(Extracted)}
  BY <1>1, AppendTaken DEF EvidenceInv
<1>3. LET now == Ingested(Extracted) IN
      now.lines = lines /\ now.rows = rows /\ now.faults = faults
  BY DEF Ingested, Extracted
<1> QED
  BY <1>1, <1>2, <1>3 DEF CleanInv

LEMMA StaysClean ==
    ASSUME EvidenceInv, CleanInv, [EvidenceNext]_evidenceVars PROVE CleanInv'
<1>1. ASSUME NEW c \in Cell, NEW u \in OrderSizes, NEW valid \in BOOLEAN, NEW keyed \in BOOLEAN,
             Place([cell |-> c, on |-> date, units |-> u, valid |-> valid, keyed |-> keyed])
      PROVE  CleanInv'
  <2> DEFINE ln == [cell |-> c, on |-> date, units |-> u, valid |-> valid, keyed |-> keyed]
  <2>1. ln \in Line
    <3>1. date \in Date
      BY <1>1, DatesRun, EvidenceAssumption DEF Place, Date
    <3> QED
      BY <3>1 DEF Line
  <2> HIDE DEF ln
  <2>2. Place(ln)
    BY <1>1 DEF ln
  <2> QED
    BY <2>1, <2>2, PlaceStaysClean
<1>2. ASSUME NEW l \in DOMAIN lines, NEW u \in ShipSizes, NEW h \in Hours,
             NEW valid \in BOOLEAN, NEW keyed \in BOOLEAN,
             Ship([line |-> l, part |-> Cardinality(PartsOf(rows, l)) + 1, units |-> u,
                   created |-> 2 * date + h - 1, delivered |-> 0, valid |-> valid, keyed |-> keyed])
      PROVE  CleanInv'
  <2> DEFINE r == [line |-> l, part |-> Cardinality(PartsOf(rows, l)) + 1, units |-> u,
                   created |-> 2 * date + h - 1, delivered |-> 0, valid |-> valid, keyed |-> keyed]
  <2>1. r.line \in DOMAIN lines
    OBVIOUS
  <2>2. r \in Part
    BY ShippedIsTyped
  <2> HIDE DEF r
  <2>3. Ship(r)
    BY <1>2 DEF r
  <2> QED
    BY <2>1, <2>2, <2>3, ShipStaysClean
<1>3. CASE UNCHANGED evidenceVars
  BY <1>3 DEF evidenceVars, CleanInv
<1> QED
  BY <1>1, <1>2, <1>3, DeliverStaysClean, NightStaysClean DEF EvidenceNext

-----------------------------------------------------------------------------
\* Gate B finds nothing in what comes of a source without faults.
LEMMA CleanSales ==
    ASSUME NEW x, Sound(x), Clean(x.lines, x.rows), NEW c \in Cell, NEW d \in Date,
           FulfilledLines(x, c, d) # {}
    PROVE  /\ InWindow(c, d)
           /\ SalesRow(x, c, d).known \in Nat /\ SalesRow(x, c, d).known >= 2 * d
<1> DEFINE known == LinesKnown(x, FulfilledLines(x, c, d))
<1>1. PICK l \in DOMAIN x.lines :
        /\ x.lines[l].cell = c /\ x.lines[l].on = d /\ FulfilledUnits(x, l) > 0
        /\ l \in FulfilledLines(x, c, d)
  BY DEF FulfilledLines, StagedLines
<1>2. InWindow(c, d)
  BY <1>1 DEF Clean, LineIsFaulty
<1>3. PartsOf(StagedRows(x), l) # {}
  BY <1>1, FulfilledCounts DEF Sound
<1>4. known # {}
  BY <1>1, <1>3 DEF LinesKnown, PartsOf
<1>5. d \in Nat /\ x.at \in Nat
  BY DatesRun, EvidenceAssumption DEF Date, Sound
<1>6. ASSUME NEW k \in known PROVE k \in Nat /\ k <= 2 * x.at /\ k >= 2 * d
  <2>1. PICK r \in x.rows : k = KnownAsOf(r) /\ r.line \in FulfilledLines(x, c, d)
    BY DEF LinesKnown, StagedRows
  <2>2. r \in Part /\ r.created \in Nat
    BY DEF Sound, View, Part
  <2>3. ~(r.created < 2 * x.lines[r.line].on)
    BY DEF Clean, RowIsFaulty
  <2>4. x.lines[r.line].on = d
    BY <2>1 DEF FulfilledLines
  <2>5. KnownAsOf(r) \in Nat /\ KnownAsOf(r) >= r.created /\ KnownAsOf(r) <= 2 * x.at
    BY <2>2, KnownLate DEF Sound, RowsKnown
  <2>6. r.created >= 2 * d
    BY <1>5, <2>2, <2>3, <2>4
  <2> QED
    BY <1>5, <2>1, <2>2, <2>5, <2>6
<1>7. Max(known) \in known
  <2>1. 2 * x.at \in Int /\ known \subseteq Int /\ \A k \in known : k <= 2 * x.at
    BY <1>5, <1>6
  <2> HIDE DEF known
  <2> QED
    BY <1>4, <2>1, MaxIsThere
<1>8. SalesRow(x, c, d).known = Max(known)
  BY DEF SalesRow
<1> HIDE DEF known
<1> QED
  BY <1>2, <1>6, <1>7, <1>8

LEMMA CleanIsDense ==
    ASSUME NEW x, Sound(x), Clean(x.lines, x.rows) PROVE DensityHolds(Candidate(x))
<1> DEFINE seen == ObservedSales(x)
<1>1. /\ Candidate(x).sales = seen \cup Densified(x, seen)
      /\ Candidate(x).calendar = DatesOf(seen)
  BY DEF Candidate
<1>2. ASSUME NEW c \in Cell, NEW d \in DatesOf(seen), InWindow(c, d)
      PROVE  \E r \in Candidate(x).sales : r.cell = c /\ r.on = d
  <2>1. CASE \E r \in seen : r.cell = c /\ r.on = d
    BY <1>1, <2>1
  <2>2. CASE ~ \E r \in seen : r.cell = c /\ r.on = d
    <3> DEFINE gaps == {q \in ActiveDates(seen) : ~ \E s \in seen : s.cell = q[1] /\ s.on = q[2]}
    <3>1. <<c, d>> \in ActiveDates(seen)
      BY <1>2 DEF ActiveDates
    <3>2. <<c, d>> \in gaps
      BY <2>2, <3>1
    <3>3. ZeroRow(c, d) \in Densified(x, seen)
      BY <3>2, <<c, d>>[1] = c /\ <<c, d>>[2] = d DEF Densified
    <3> QED
      BY <1>1, <3>3, RowsOfCells
  <2> QED
    BY <2>1, <2>2
<1>3. ASSUME NEW r \in Candidate(x).sales, r.units > 0 PROVE InWindow(r.cell, r.on)
  <2>1. CASE r \in seen
    <3>1. PICK p \in Cell \X Date : FulfilledLines(x, p[1], p[2]) # {} /\ r = SalesRow(x, p[1], p[2])
      BY <2>1 DEF ObservedSales
    <3>2. InWindow(p[1], p[2])
      <4>1. p[1] \in Cell /\ p[2] \in Date
        BY <3>1
      <4> QED
        BY <3>1, <4>1, CleanSales
    <3> QED
      BY <3>1, <3>2, RowsOfCells
  <2>2. CASE r \in Densified(x, seen)
    <3>1. r.units = 0
      BY <2>2 DEF Densified, ZeroRow
    <3> QED
      BY <1>3, <3>1
  <2> QED
    BY <1>1, <2>1, <2>2
<1> QED
  BY <1>1, <1>2, <1>3 DEF DensityHolds, InWindow

LEMMA CleanIsPlaced ==
    ASSUME NEW x, Sound(x), Clean(x.lines, x.rows) PROVE PlacementHolds(Candidate(x))
<1> DEFINE seen == ObservedSales(x)
<1>1. Candidate(x).sales = seen \cup Densified(x, seen)
  BY DEF Candidate
<1>2. Date \subseteq Nat
  BY EvidenceAssumption DEF Date
<1>3. \A k, d \in Nat : k >= 2 * d => k \div 2 >= d
  OBVIOUS
<1>4. ASSUME NEW r \in seen PROVE r.known \div 2 >= r.on
  <2>1. PICK p \in Cell \X Date : FulfilledLines(x, p[1], p[2]) # {} /\ r = SalesRow(x, p[1], p[2])
    BY DEF ObservedSales
  <2>2. r.known \in Nat /\ r.known >= 2 * p[2] /\ p[2] \in Nat /\ r.on = p[2]
    <3>1. p[1] \in Cell /\ p[2] \in Date
      BY <2>1
    <3>2. SalesRow(x, p[1], p[2]).known \in Nat /\ SalesRow(x, p[1], p[2]).known >= 2 * p[2]
      BY <2>1, <3>1, CleanSales
    <3>3. r.on = p[2]
      BY <2>1, RowsOfCells
    <3> QED
      BY <1>2, <2>1, <3>1, <3>2, <3>3
  <2> QED
    BY <1>3, <2>2
<1>5. ASSUME NEW r \in Densified(x, seen) PROVE r.known \div 2 >= r.on
  <2>1. PICK p \in Cell \X Date : r = ZeroRow(p[1], p[2])
    BY DEF Densified, ActiveDates, DatesOf
  <2>2. p[2] \in Nat /\ Window[p[1]].known \in Nat
    BY <1>2, EvidenceAssumption
  <2>3. r.on = p[2] /\ r.known = Later(Window[p[1]].known, 2 * p[2] + 1)
    BY <2>1 DEF ZeroRow
  <2>4. r.known \in Nat /\ r.known >= 2 * p[2]
    BY <2>2, <2>3 DEF Later
  <2> QED
    BY <1>3, <2>2, <2>3, <2>4
<1>6. ASSUME NEW r \in Candidate(x).fulfillments PROVE KnownAsOf(r) >= FulfilledAt(r)
  <2>1. r \in Part
    BY DEF Candidate, Fulfillments, StagedRows, Sound, View
  <2> QED
    BY <2>1 DEF KnownAsOf, FulfilledAt, Part
<1> QED
  BY <1>1, <1>4, <1>5, <1>6 DEF PlacementHolds

\* The sales of a candidate are finitely many.
LEMMA SalesAreFinite ==
    ASSUME NEW x
    PROVE  IsFiniteSet(ObservedSales(x)) /\ IsFiniteSet(Densified(x, ObservedSales(x)))
<1> DEFINE seen == ObservedSales(x)
           all == Cell \X Date
           sold == {p \in all : FulfilledLines(x, p[1], p[2]) # {}}
           gaps == {q \in ActiveDates(seen) : ~ \E s \in seen : s.cell = q[1] /\ s.on = q[2]}
<1>1. IsFiniteSet(all)
  <2>1. IsFiniteSet(Date)
    BY EvidenceAssumption, FS_Interval DEF Date
  <2> QED
    BY <2>1, EvidenceAssumption, FS_Product
<1>2. sold \subseteq all /\ gaps \subseteq all
  BY DEF ActiveDates, DatesOf
<1>3. IsFiniteSet(sold) /\ IsFiniteSet(gaps)
  BY <1>1, <1>2, FS_Subset
<1>4. seen = {SalesRow(x, p[1], p[2]) : p \in sold}
  BY DEF ObservedSales
<1>5. Densified(x, seen) = {ZeroRow(p[1], p[2]) : p \in gaps}
  BY DEF Densified
<1> DEFINE sale == [p \in sold |-> SalesRow(x, p[1], p[2])]
           zero == [p \in gaps |-> ZeroRow(p[1], p[2])]
<1>6. sale \in Surjection(sold, seen)
  BY <1>4 DEF Surjection
<1>7. zero \in Surjection(gaps, Densified(x, seen))
  BY <1>5 DEF Surjection
<1> HIDE DEF sale, zero, sold, gaps
<1> QED
  BY <1>3, <1>6, <1>7, FS_Surjection

\* The observed sales are what is fulfilled of all staged lines.
LEMMA SeenIsFulfilled ==
    ASSUME NEW x, Sound(x), Clean(x.lines, x.rows), NEW w,
           \A r \in ObservedSales(x) : w[r] = r.units
    PROVE  Sigma(w, ObservedSales(x)) = FulfilledIn(x, StagedLines(x))
<1> DEFINE seen == ObservedSales(x)
           part == [r \in seen |-> FulfilledLines(x, r.cell, r.on)]
           sold == {l \in StagedLines(x) : FulfilledUnits(x, l) > 0}
           rest == StagedLines(x) \ sold
           all == DOMAIN x.lines
<1>1. ASSUME NEW r \in seen
      PROVE  /\ r.cell \in Cell /\ r.on \in Date /\ r = SalesRow(x, r.cell, r.on)
             /\ part[r] = FulfilledLines(x, r.cell, r.on)
  <2>1. PICK p \in Cell \X Date : r = SalesRow(x, p[1], p[2])
    BY DEF ObservedSales
  <2>2. r.cell = p[1] /\ r.on = p[2] /\ p[1] \in Cell /\ p[2] \in Date
    BY <2>1, RowsOfCells
  <2> QED
    BY <2>1, <2>2
<1>2. StagedLines(x) \in SUBSET all /\ sold \in SUBSET all /\ rest \in SUBSET all
  BY DEF StagedLines
<1>3. /\ IsFiniteSet(all) /\ \A l \in all : Served(x)[l] \in Int
      /\ \A l \in all : Served(x)[l] \in Nat /\ Served(x)[l] = FulfilledUnits(x, l)
  <2>1. \A l \in all : Served(x)[l] \in Nat /\ Served(x)[l] = FulfilledUnits(x, l)
    BY <1>2, ServedSums
  <2>2. IsFiniteSet(all)
    BY <1>2, ServedSums
  <2> QED
    BY <2>1, <2>2
<1>4. ASSUME NEW r \in seen
      PROVE  part[r] \in SUBSET all /\ w[r] = Sigma(Served(x), part[r])
  <2>1. part[r] \in SUBSET all
    BY <1>1 DEF FulfilledLines, StagedLines
  <2>2. r.units = FulfilledIn(x, part[r])
    BY <1>1 DEF SalesRow
  <2> HIDE DEF part
  <2> QED
    BY <2>1, <2>2, ServedSums
<1>5. ASSUME NEW q \in seen, NEW r \in seen, q # r PROVE part[q] \cap part[r] = {}
  <2>1. q.cell # r.cell \/ q.on # r.on
    BY <1>1, <1>5
  <2> QED
    BY <1>1, <2>1 DEF FulfilledLines
<1>6. UNION {part[r] : r \in seen} = sold
  <2>1. ASSUME NEW l \in sold PROVE \E r \in seen : l \in part[r]
    <3> DEFINE c == x.lines[l].cell
               d == x.lines[l].on
    <3>1. c \in Cell /\ d \in Date
      <4>1. x.lines \in Seq(Line) /\ l \in all
        BY <1>2 DEF Sound, View
      <4>2. x.lines[l] \in Line
        BY <4>1
      <4> QED
        BY <4>2 DEF Line
    <3>2. l \in FulfilledLines(x, c, d)
      BY DEF FulfilledLines
    <3> HIDE DEF c, d
    <3>3. <<c, d>> \in {p \in Cell \X Date : FulfilledLines(x, p[1], p[2]) # {}}
      BY <3>1, <3>2, <<c, d>>[1] = c /\ <<c, d>>[2] = d
    <3>4. SalesRow(x, c, d) \in seen
      BY <3>3, <<c, d>>[1] = c /\ <<c, d>>[2] = d DEF ObservedSales
    <3> QED
      BY <1>1, <3>2, <3>4, RowsOfCells
  <2>2. \A r \in seen : part[r] \subseteq sold
    BY <1>1 DEF FulfilledLines
  <2> HIDE DEF part, sold, seen
  <2> QED
    BY <2>1, <2>2
<1>7. sold \cap rest = {} /\ sold \cup rest = StagedLines(x)
  OBVIOUS
<1>8. \A l \in rest : Served(x)[l] = 0
  BY <1>2, <1>3
<1>9. FulfilledIn(x, StagedLines(x)) = Sigma(Served(x), StagedLines(x))
  BY <1>2, ServedSums
<1> HIDE DEF part, sold, rest, all, seen
<1>10. Sigma(Served(x), sold \cup rest) = Sigma(Served(x), sold) + Sigma(Served(x), rest)
  BY <1>2, <1>3, <1>7, SigmaUnion
<1>11. Sigma(Served(x), rest) = 0 /\ Sigma(Served(x), sold) \in Int
  <2>1. IsFiniteSet(rest) /\ IsFiniteSet(sold)
    BY <1>2, <1>3, FS_Subset
  <2>2. \A l \in sold : Served(x)[l] \in Int
    BY <1>2, <1>3
  <2> QED
    BY <1>8, <2>1, <2>2, SigmaZero, SigmaType
<1>12. Sigma(w, seen) = Sigma(Served(x), UNION {part[r] : r \in seen})
  <2>1. IsFiniteSet(seen)
    BY SalesAreFinite DEF seen
  <2>2. \A r \in seen : part[r] \in SUBSET all
    BY <1>4
  <2>3. \A r \in seen : w[r] = Sigma(Served(x), part[r])
    BY <1>4
  <2>4. \A q, r \in seen : q # r => part[q] \cap part[r] = {}
    BY <1>5
  <2> QED
    BY <1>3, <2>1, <2>2, <2>3, <2>4, SigmaParts
<1>13. Sigma(Served(x), UNION {part[r] : r \in seen}) = Sigma(Served(x), sold)
  BY <1>6, Zenon
<1>14. Sigma(Served(x), sold \cup rest) = Sigma(Served(x), StagedLines(x))
  BY <1>7, Zenon
<1> QED
  BY <1>9, <1>10, <1>11, <1>12, <1>13, <1>14 DEF seen

LEMMA CleanTotals ==
    ASSUME NEW x, Sound(x), Clean(x.lines, x.rows) PROVE TotalsReconcile(x, Candidate(x))
<1> DEFINE seen == ObservedSales(x)
           gaps == Densified(x, seen)
           all == seen \cup gaps
           w == Counted(all)
<1>1. Candidate(x).sales = all
  BY DEF Candidate
<1>2. IsFiniteSet(seen) /\ IsFiniteSet(gaps) /\ IsFiniteSet(all)
  BY SalesAreFinite, FS_Union
<1>3. ASSUME NEW r \in seen PROVE r.units \in Int
  <2>1. PICK p \in Cell \X Date : r = SalesRow(x, p[1], p[2])
    BY DEF ObservedSales
  <2> DEFINE ls == FulfilledLines(x, p[1], p[2])
  <2>2. r.units = FulfilledIn(x, ls) /\ ls \in SUBSET DOMAIN x.lines
    BY <2>1 DEF SalesRow, FulfilledLines, StagedLines
  <2> HIDE DEF ls
  <2>3. r.units = Sigma(Served(x), ls) /\ IsFiniteSet(ls) /\ \A l \in ls : Served(x)[l] \in Int
    BY <2>2, ServedSums
  <2> QED
    BY <2>3, SigmaType
<1>4. \A r \in gaps : r.units = 0
  BY DEF Densified, ZeroRow
<1>5. \A r \in all : w[r] = r.units /\ w[r] \in Int
  BY <1>3, <1>4 DEF Counted
<1>6. seen \cap gaps = {}
  <2> SUFFICES ASSUME NEW r \in seen, r \in gaps PROVE FALSE
    OBVIOUS
  <2>1. PICK p \in ActiveDates(seen) :
          r = ZeroRow(p[1], p[2]) /\ ~ \E s \in seen : s.cell = p[1] /\ s.on = p[2]
    BY DEF Densified
  <2>2. r.cell = p[1] /\ r.on = p[2]
    BY <2>1, RowsOfCells
  <2> QED
    BY <2>1, <2>2
<1>7. UnitsOf(all) = Sigma(w, all)
  BY UnitsAre DEF Counted
<1>8. seen \in SUBSET all /\ gaps \in SUBSET all
  OBVIOUS
<1>9. \A r \in seen : w[r] = r.units
  BY <1>5
<1>10. Sigma(w, seen) = FulfilledIn(x, StagedLines(x))
  <2> HIDE DEF w
  <2> QED
    BY <1>9, SeenIsFulfilled
<1>11. \A r \in gaps : w[r] = 0
  BY <1>4, <1>5
<1> HIDE DEF w, gaps, seen
<1>12. Sigma(w, all) = Sigma(w, seen) + Sigma(w, gaps)
  <2> HIDE DEF all
  <2>1. \A r \in all : w[r] \in Int
    BY <1>5
  <2>2. Sigma(w, seen \cup gaps) = Sigma(w, seen) + Sigma(w, gaps)
    BY <1>2, <1>6, <1>8, <2>1, SigmaUnion
  <2> QED
    BY <2>2 DEF all
<1>13. Sigma(w, gaps) = 0
  BY <1>2, <1>11, SigmaZero
<1>14. Sigma(w, seen) \in Int
  <2>1. \A r \in seen : w[r] \in Int
    BY <1>5
  <2> QED
    BY <1>2, <2>1, SigmaType
<1> QED
  BY <1>1, <1>7, <1>10, <1>12, <1>13, <1>14 DEF TotalsReconcile

LEMMA CleanAgrees ==
    ASSUME NEW x, Sound(x), Clean(x.lines, x.rows)
    PROVE  NothingOverfulfilled(x) /\ FulfillmentsAgree(x, Candidate(x))
<1>1. StagedRows(x) = x.rows /\ Fulfillments(x) = x.rows
  BY DEF StagedRows, Fulfillments, Clean, RowIsFaulty
<1>2. NothingOverfulfilled(x)
  BY <1>1 DEF NothingOverfulfilled, Clean, StagedLines
<1>3. ASSUME NEW c \in Cell, NEW d \in Date
      PROVE  SalesUnits(Candidate(x).sales, c, d) = UnitsOf(OfCell(x, Candidate(x).fulfillments, c, d))
  <2>1. \A r \in OfCell(x, StagedRows(x), c, d) : x.lines[r.line].valid
    BY <1>1 DEF OfCell, Sound, RowsKnown, Clean, LineIsFaulty
  <2>2. Candidate(x).fulfillments = StagedRows(x)
    BY <1>1 DEF Candidate
  <2> QED
    BY <1>2, <2>1, <2>2, SalesOfCell, ShippedOfCell
<1> QED
  BY <1>2, <1>3 DEF FulfillmentsAgree

\* The candidate of a source without faults is published.
LEMMA CleanIsApproved ==
    ASSUME NEW x, Sound(x), Clean(x.lines, x.rows)
    PROVE  CrosswalkComplete(x) /\ GateB(x, Candidate(x))
<1>1. CrosswalkComplete(x)
  BY DEF CrosswalkComplete, StagedLines, Clean, LineIsFaulty
<1> QED
  BY <1>1, CleanIsDense, CleanIsPlaced, CleanTotals, CleanAgrees DEF GateB

\* For any lines, shipments, deliveries and faults: what is published leaves
\* nothing out that was shipped, and a source without faults is published,
\* whatever is under way at its extraction.
THEOREM GateDecidesRightHolds == EvidenceSpec => []GateDecidesRight
<1>1. ASSUME EvidenceInv, CleanInv PROVE GateDecidesRight
  <2> SUFFICES ASSUME NEW e \in Range(extracts)
               PROVE  (e.published => IsComplete(e)) /\ (e.faults = 0 => e.published)
    BY DEF GateDecidesRight
  <2>1. PICK x \in View : Tells(e, x)
    BY <1>1 DEF EvidenceInv
  <2>2. /\ e.lines = x.lines /\ e.rows = x.rows /\ e.sales = Candidate(x).sales
        /\ e.published = (CrosswalkComplete(x) /\ GateB(x, Candidate(x)))
        /\ Sound(x)
    BY <2>1 DEF Tells, Ingested, Sound
  <2>3. ASSUME e.published PROVE IsComplete(e)
    <3>1. GateB(x, Candidate(x))
      BY <2>2, <2>3
    <3>2. StagedRows(e) = StagedRows(x)
      BY <2>2 DEF StagedRows
    <3>3. ASSUME NEW c \in Cell, NEW d \in Date
          PROVE  \/ SalesUnits(e.sales, c, d) = UnitsOf(OfCell(e, StagedRows(e), c, d))
                 \/ MayCancel(e, c, d)
      <4>1. OfCell(e, StagedRows(e), c, d) = OfCell(x, StagedRows(x), c, d)
        BY <2>2, <3>2 DEF OfCell
      <4>2. MayCancel(e, c, d) <=> MayCancel(x, c, d)
        BY <2>2, <4>1 DEF MayCancel
      <4> QED
        BY <2>2, <3>1, <4>1, <4>2, ApprovedIsComplete
    <3> QED
      BY <3>3 DEF IsComplete
  <2>4. ASSUME e.faults = 0 PROVE e.published
    <3>1. Clean(x.lines, x.rows)
      BY <1>1, <2>2, <2>4 DEF CleanInv
    <3> QED
      BY <2>2, <3>1, CleanIsApproved
  <2> QED
    BY <2>3, <2>4
<1>2. EvidenceInit => CleanInv
  BY DEF EvidenceInit, CleanInv, Clean, Range
<1> QED
  BY <1>1, <1>2, EvidenceStarts, EvidenceKeeps, StaysClean, PTL DEF EvidenceSpec

-----------------------------------------------------------------------------
\* The three are explored apart, so a behaviour of the whole is one of each.
LEMMA SourcesApart == SourceSpec => Spec /\ SupplySpec /\ EvidenceSpec
<1>1. SourceInit => Init /\ SupplyInit /\ EvidenceInit
  BY DEF SourceInit
<1>2. [Simulate \/ Land \/ Publish]_<<vars, evidenceVars, simulationVars>>
        => [Next]_vars /\ [SupplyNext]_simulationVars /\ [EvidenceNext]_evidenceVars
  BY DEF Simulate, Land, Publish
<1> QED
  BY <1>1, <1>2, PTL DEF SourceSpec, Spec, SupplySpec, EvidenceSpec

\* The data side as the run explores it, snapshots landed, movements simulated
\* and sales published in one system: what holds of each part holds of the
\* whole.
THEOREM SourcesHold ==
    SourceSpec => /\ [](SnapshotsAreTheirDrop /\ ReturnedDropIsLanded)
                  /\ SnapshotsImmutable
                  /\ [](SnapshotsHideNothing /\ BatchesReconcile /\ LedgerMatchesStock)
                  /\ [](LaterViewHasNoNews /\ GateDecidesRight)
<1> QED
  BY SourcesApart, SnapshotsAreTheirDropHolds, ReturnedDropIsLandedHolds,
     SnapshotsImmutableHolds, SnapshotsHideNothingHolds,
     BatchesReconcileHolds, LedgerMatchesStockHolds, LaterViewHasNoNewsHolds, GateDecidesRightHolds, PTL
=============================================================================
