------------------------ MODULE ForecastBundles_proofs ------------------------
(***************************************************************************)
(* For any calendar and any publications: a label that publishes is of one *)
(* publication, and no row of it reads past its origin.  For any number of *)
(* files, operators and commands: what is loaded is one build, and what a  *)
(* build published is verified.                                            *)
(*                                                                         *)
(* The inductive invariant of the bundles says what a directory in which   *)
(* no build wrote among the steps of another command looks like while one  *)
(* command works on it: the files before the builder's own are its data,   *)
(* and the files a verifier has checked are still those its manifest       *)
(* describes.  That of the label says what every output was computed from. *)
(***************************************************************************)
EXTENDS ForecastBundles, SetLemmas


----------------------------------------------------------------------------
(* The label of the forecast commands.                                     *)

\* What a stage holds, or will hold, names publications.
Named(x) == x # Absent => x.input \in Inputs

LabelTypes ==
    /\ input \in Inputs
    /\ made = [g \in Stages |-> made[g]]
    /\ at \in [Crew -> Stages \cup {"idle"}]
    /\ held = [m \in Crew |-> held[m]]
    /\ \A g \in Stages : Named(made[g])
    /\ \A m \in Crew : at[m] # "idle" => held[m].input \in Inputs

\* One link of the chain: what a stage holds came of what it was computed from,
\* while the label holds M.
Link(M, g, x) ==
    /\ g = "backtest" => M["features"] # Absent /\ x.input = M["features"].input
    /\ g = "current" => M["features"] # Absent /\ x.input = M["features"].input
    /\ g = "classified" => M["current"] # Absent /\ x.input = M["current"].input
    /\ g = "bundle" => x.evaluation = x.input /\ x.current = x.input /\ x.classified = x.input

\* Until something is cleared, outputs stay, and so do the links between them.
Chained ==
    /\ \A g \in Stages : made[g] # Absent => Link(made, g, made[g])
    /\ \A m \in Crew : at[m] # "idle" => Link(made, at[m], held[m])

LabelInv ==
    /\ LabelTypes
    /\ clears = 0 => Chained
    /\ clears \in Nat

\* A link goes on to hold as long as outputs that are there stay.
LEMMA LinksStay ==
    ASSUME NEW M, NEW L, \A f \in Stages : M[f] # Absent => L[f] = M[f]
    PROVE  \A g, x : Link(M, g, x) => Link(L, g, x)
  BY DEF Link, Stages

LEMMA LabelInit == TrainingInit => LabelInv
  BY DEF TrainingInit, LabelInv, LabelTypes, Named, Chained

\* A command begins with a link to what it read.
LEMMA BeginStep ==
    ASSUME LabelInv, NEW m \in Crew, NEW g \in Stages, NEW x, Begin(m, g, x),
           x.input \in Inputs, clears = 0 => Link(made, g, x)
    PROVE  LabelInv'
<1>1. /\ at' = [at EXCEPT ![m] = g] /\ held' = [held EXCEPT ![m] = x]
      /\ UNCHANGED <<input, made, clears>>
  BY DEF Begin
<1>2. /\ at' \in [Crew -> Stages \cup {"idle"}] /\ held' = [n \in Crew |-> held'[n]]
      /\ at'[m] = g /\ held'[m] = x
      /\ \A n \in Crew \ {m} : at'[n] = at[n] /\ held'[n] = held[n]
  BY <1>1 DEF LabelInv, LabelTypes
<1>3. LabelTypes'
  BY <1>1, <1>2 DEF LabelInv, LabelTypes, Named
<1>4. ASSUME clears = 0 PROVE Chained'
  <2>1. Chained
    BY <1>4 DEF LabelInv
  <2>2. \A f, y : Link(made, f, y) => Link(made', f, y)
    BY <1>1, LinksStay
  <2>3. \A n \in Crew : at'[n] # "idle" => Link(made', at'[n], held'[n])
    BY <1>2, <1>4, <2>1, <2>2 DEF Chained
  <2> QED
    BY <1>1, <2>1, <2>2, <2>3 DEF Chained
<1> QED
  BY <1>1, <1>3, <1>4 DEF LabelInv

LEMMA CommandStep ==
    ASSUME LabelInv, NEW m \in Crew,
           \/ BuildFeatures(m) \/ RunBacktest(m) \/ ScoreCurrent(m) \/ Classify(m) \/ PublishRun(m)
    PROVE  LabelInv'
<1>0. input \in Inputs /\ \A g \in Stages : made[g] # Absent => made[g].input \in Inputs
  BY DEF LabelInv, LabelTypes, Named
<1>1. CASE BuildFeatures(m)
  BY <1>0, <1>1, BeginStep DEF BuildFeatures, Link, Stages
<1>2. CASE RunBacktest(m)
  <2> DEFINE x == Backtest(made["features"])
  <2>1. made["features"] # Absent /\ x.input = made["features"].input /\ Begin(m, "backtest", x)
    BY <1>2 DEF RunBacktest, Backtest
  <2>2. Link(made, "backtest", x) /\ x.input \in Inputs
    BY <1>0, <2>1 DEF Link, Stages
  <2> HIDE DEF x
  <2> QED
    BY <2>1, <2>2, BeginStep DEF Stages
<1>3. CASE ScoreCurrent(m)
  <2> DEFINE x == CurrentCycle(input, made["backtest"])
  <2>1. /\ made["features"] # Absent /\ made["features"].input = input
        /\ x.input = input /\ Begin(m, "current", x)
    BY <1>3 DEF ScoreCurrent, CurrentCycle, SameInput
  <2>2. Link(made, "current", x) /\ x.input \in Inputs
    BY <1>0, <2>1 DEF Link, Stages
  <2> HIDE DEF x
  <2> QED
    BY <2>1, <2>2, BeginStep DEF Stages
<1>4. CASE Classify(m)
  <2> DEFINE x == Classification(made["current"])
  <2>1. made["current"] # Absent /\ x.input = made["current"].input /\ Begin(m, "classified", x)
    BY <1>4 DEF Classify, Classification
  <2>2. Link(made, "classified", x) /\ x.input \in Inputs
    BY <1>0, <2>1 DEF Link, Stages
  <2> HIDE DEF x
  <2> QED
    BY <2>1, <2>2, BeginStep DEF Stages
<1>5. CASE PublishRun(m)
  <2> DEFINE f == made["features"]
             b == made["backtest"]
             c == made["current"]
             k == made["classified"]
             x == Bundle(f, b, c, k)
  <2>1. /\ f # Absent /\ b # Absent /\ c # Absent /\ k # Absent /\ Begin(m, "bundle", x)
        /\ x.input = f.input /\ x.evaluation = b.input /\ x.current = c.input
        /\ x.classified = k.input
    BY <1>5 DEF PublishRun, Bundle, Stages
  <2>2. ASSUME clears = 0 PROVE Link(made, "bundle", x)
    <3>1. b.input = f.input /\ c.input = f.input /\ k.input = c.input
      BY <2>1, <2>2 DEF LabelInv, Chained, Link, Stages
    <3> QED
      BY <2>1, <3>1 DEF Link
  <2>3. x.input \in Inputs
    BY <1>0, <2>1 DEF Stages
  <2> HIDE DEF x
  <2> QED
    BY <2>1, <2>2, <2>3, BeginStep DEF Stages
<1> QED
  BY <1>1, <1>2, <1>3, <1>4, <1>5

LEMMA RetireStep ==
    ASSUME LabelInv, NEW m \in Crew, Promote(m) \/ FailPromotion(m) \/ Lose(m)
    PROVE  LabelInv'
<1>1. /\ at' = [at EXCEPT ![m] = "idle"] /\ held' = [held EXCEPT ![m] = Absent]
      /\ UNCHANGED <<input, clears>>
      /\ \/ UNCHANGED made
         \/ /\ at[m] # "idle" /\ made[at[m]] = Absent
            /\ made' = [made EXCEPT ![at[m]] = held[m]]
  BY DEF Promote, FailPromotion, Lose, Retire
<1>2. /\ at' \in [Crew -> Stages \cup {"idle"}] /\ held' = [n \in Crew |-> held'[n]]
      /\ at'[m] = "idle"
      /\ \A n \in Crew \ {m} : at'[n] = at[n] /\ held'[n] = held[n]
  BY <1>1 DEF LabelInv, LabelTypes
<1>3. /\ made' = [g \in Stages |-> made'[g]]
      /\ \A f \in Stages : made[f] # Absent => made'[f] = made[f]
      /\ \A f \in Stages : made'[f] = made[f] \/ (f = at[m] /\ at[m] # "idle" /\ made'[f] = held[m])
  BY <1>1 DEF LabelInv, LabelTypes
<1>4. LabelTypes'
  BY <1>1, <1>2, <1>3 DEF LabelInv, LabelTypes, Named
<1>5. ASSUME clears = 0 PROVE Chained'
  <2>1. Chained
    BY <1>5 DEF LabelInv
  <2>2. \A f, y : Link(made, f, y) => Link(made', f, y)
    BY <1>3, LinksStay
  <2> QED
    BY <1>2, <1>3, <2>1, <2>2 DEF Chained
<1> QED
  BY <1>1, <1>4, <1>5 DEF LabelInv

LEMMA LabelNext == LabelInv /\ [TrainingNext]_trainingVars => LabelInv'
<1> SUFFICES ASSUME LabelInv, [TrainingNext]_trainingVars PROVE LabelInv'
  OBVIOUS
<1>1. ASSUME NEW m \in Crew,
             \/ BuildFeatures(m) \/ RunBacktest(m) \/ ScoreCurrent(m) \/ Classify(m)
             \/ PublishRun(m) \/ Promote(m) \/ FailPromotion(m) \/ Lose(m)
      PROVE  LabelInv'
  BY <1>1, CommandStep, RetireStep
<1>2. ASSUME NEW i \in Inputs, AdoptInput(i) PROVE LabelInv'
  BY <1>2 DEF AdoptInput, LabelInv, LabelTypes, Named, Chained, Link
<1>3. ASSUME NEW stages \in SUBSET Stages \ {{}}, ClearOutputs(stages) PROVE LabelInv'
  <2>1. /\ UNCHANGED <<input, at, held>> /\ clears' = clears + 1
        /\ made' = [g \in Stages |-> IF g \in stages THEN Absent ELSE made[g]]
    BY <1>3 DEF ClearOutputs
  <2>2. clears' \in Nat /\ clears' # 0
    BY <2>1 DEF LabelInv
  <2> QED
    BY <2>1, <2>2 DEF LabelInv, LabelTypes, Named
<1>4. CASE UNCHANGED trainingVars
  BY <1>4 DEF trainingVars, LabelInv, LabelTypes, Named, Chained, Link
<1> QED
  BY <1>1, <1>2, <1>3, <1>4 DEF TrainingNext

LEMMA LabelInvariant == TrainingSpec => []LabelInv
<1>1. TrainingInit => LabelInv
  BY LabelInit
<1>2. LabelInv /\ [TrainingNext]_trainingVars => LabelInv'
  BY LabelNext
<1> QED
  BY <1>1, <1>2, PTL DEF TrainingSpec

\* Whatever moves the source pin and whoever else works on the label, a run
\* that publishes is of one publication from its features to its classes.
THEOREM LabelIsOneChainHolds == TrainingSpec => []LabelIsOneChain
<1>1. LabelInv => LabelIsOneChain
  BY DEF LabelInv, Chained, Link, LabelIsOneChain, Stages
<1> QED
  BY <1>1, LabelInvariant, PTL

----------------------------------------------------------------------------
(* No row of the backtest or of the current cycle reads past its origin.   *)

\* The fit of an origin reads labels that are known by then, and features of
\* rows before the embargo.
LEMMA FitIsSafe ==
    ASSUME NEW i \in Inputs, NEW o \in Int, NEW h \in Horizons
    PROVE  FitRead(i, o, h) \subseteq Int /\ \A u \in FitRead(i, o, h) : u <= o
<1>1. ASSUME NEW r \in TrainingRows(i, o, h), NEW u \in FeaturesRead(i, r[1], r[2])
      PROVE  u \in Int /\ u <= o
  <2>1. r[2] \in Int /\ r[2] <= o - Embargo
    BY DEF TrainingRows, Origins, AllOrigins, LastOf
  <2>2. u \in r[2] - Lag .. r[2]
    BY DEF FeaturesRead
  <2> QED
    BY <2>1, <2>2, ScheduleAssumption
<1>2. ASSUME NEW r \in TrainingRows(i, o, h)
      PROVE  KnownIn(i, r[1], r[2] + h) \in Int /\ KnownIn(i, r[1], r[2] + h) <= o
  <2>1. r[2] \in Int /\ KnownBy(i, r[1], r[2] + h, o)
    BY DEF TrainingRows, Origins, AllOrigins, LastOf
  <2>2. h \in Int
    BY ScheduleAssumption DEF Horizons
  <2>3. KnownIn(i, r[1], r[2] + h) \in Int
    BY <2>1, <2>2, ScheduleAssumption DEF KnownIn
  <2> QED
    BY <2>1, <2>3 DEF KnownBy
<1> QED
  BY <1>1, <1>2 DEF FitRead

LEMMA FeaturesAreSafe ==
    ASSUME NEW i \in Inputs, NEW s \in Series, NEW o \in Int
    PROVE  /\ FeaturesRead(i, s, o) \subseteq Int /\ \A u \in FeaturesRead(i, s, o) : u <= o
           /\ HasRow(i, s, o) => o \in FeaturesRead(i, s, o)
<1>1. Lag \in Nat
  BY ScheduleAssumption
<1>2. \A u \in o - Lag .. o : u \in Int /\ u <= o
  BY <1>1
<1>3. o \in o - Lag .. o
  BY <1>1
<1> QED
  BY <1>2, <1>3 DEF FeaturesRead

LEMMA EvaluationIsSafe ==
    ASSUME NEW i \in Inputs, NEW o \in Schedule(i), NEW h \in Horizons, NEW s \in Evaluated(i, o, h)
    PROVE  EvaluationRow(i, s, o, h).seen <= o
<1>1. o \in Int /\ s \in Series /\ HasRow(i, s, o)
  BY MarketAssumption DEF Schedule, Eligible, Evaluated, Full
<1>2. FitRead(i, o, h) \subseteq Int /\ \A u \in FitRead(i, o, h) : u <= o
  BY <1>1, FitIsSafe
<1>3. /\ FeaturesRead(i, s, o) \subseteq Int /\ \A u \in FeaturesRead(i, s, o) : u <= o
      /\ o \in FeaturesRead(i, s, o)
  BY <1>1, FeaturesAreSafe
<1>4. History(i, s, o) \subseteq Int /\ \A u \in History(i, s, o) : u <= o
  BY <1>1 DEF History
<1>5. ASSUME NEW r \in Resolved(i, s, o) PROVE r[1] + r[2] \in Int /\ r[1] + r[2] <= o
  <2>1. r[1] \in Int /\ r[2] \in Int /\ r[1] + r[2] < o
    BY ScheduleAssumption, MarketAssumption DEF Resolved, Schedule, Eligible, Horizons
  <2> QED
    BY <1>1, <2>1
<1>6. /\ RowRead(i, s, o, h) \subseteq Int /\ RowRead(i, s, o, h) # {}
      /\ \A u \in RowRead(i, s, o, h) : u <= o
  BY <1>2, <1>3, <1>4, <1>5 DEF RowRead
<1>7. Max(RowRead(i, s, o, h)) \in RowRead(i, s, o, h)
  BY <1>1, <1>6, MaxIsThere
<1> QED
  BY <1>6, <1>7 DEF EvaluationRow

LEMMA CurrentIsSafe ==
    ASSUME NEW i \in Inputs, NEW s \in Current(i), NEW h \in Horizons
    PROVE  CurrentRow(i, s, h).seen <= DecisionWeek
<1> DEFINE o == DecisionWeek
           R == FitRead(i, o, h) \cup FeaturesRead(i, s, o) \cup History(i, s, o)
<1>1. o \in Int /\ s \in Series /\ HasRow(i, s, o)
  BY ScheduleAssumption DEF Current
<1>2. FitRead(i, o, h) \subseteq Int /\ \A u \in FitRead(i, o, h) : u <= o
  BY <1>1, FitIsSafe
<1>3. /\ FeaturesRead(i, s, o) \subseteq Int /\ \A u \in FeaturesRead(i, s, o) : u <= o
      /\ o \in FeaturesRead(i, s, o)
  BY <1>1, FeaturesAreSafe
<1>4. History(i, s, o) \subseteq Int /\ \A u \in History(i, s, o) : u <= o
  BY <1>1 DEF History
<1>5. R \subseteq Int /\ R # {} /\ \A u \in R : u <= o
  BY <1>2, <1>3, <1>4
<1>6. CurrentRow(i, s, h).seen = Max(R)
  BY DEF CurrentRow
<1> HIDE DEF R
<1>7. Max(R) \in R
  BY <1>1, <1>5, MaxIsThere
<1> QED
  BY <1>5, <1>6, <1>7

\* The origins of the schedule and of the decision are never overtaken, for
\* any calendar, any late label and any lag, horizon and embargo.
THEOREM RowsAreOriginSafeHolds == TrainingSpec => []RowsAreOriginSafe
<1>1. ASSUME NEW i \in Inputs, NEW r \in EvaluationRows[i] PROVE r.seen <= r.origin
  <2>1. PICK o \in Schedule(i), h \in Horizons :
               \E s \in Evaluated(i, o, h) : r = EvaluationRow(i, s, o, h)
    BY DEF EvaluationRows
  <2>2. r.origin = o
    BY <2>1 DEF EvaluationRow
  <2> QED
    BY <2>1, <2>2, EvaluationIsSafe
<1>2. ASSUME NEW i \in Inputs, NEW r \in CurrentRows[i] PROVE r.seen <= r.origin
  <2>1. PICK s \in Current(i), h \in Horizons : r = CurrentRow(i, s, h)
    BY DEF CurrentRows
  <2>2. r.origin = DecisionWeek
    BY <2>1 DEF CurrentRow
  <2> QED
    BY <2>1, <2>2, CurrentIsSafe
<1>3. LabelInv => RowsAreOriginSafe
  BY <1>1, <1>2 DEF LabelInv, LabelTypes, Named, RowsAreOriginSafe, Stages
<1> QED
  BY <1>3, LabelInvariant, PTL

----------------------------------------------------------------------------
(* The bundle directories of the release commands.                         *)


Building == {"truncate", "finish", "read_back"}
Checking == {"artifacts", "acceptance", "rows", "load"}
Steps ==
    {"idle", "promote", "project", "series", "pin", "selection", "active_selection",
     "active_forecast", "manifest"} \cup Building \cup Checking

Blob == Data \cup {Nothing, Torn}
Manifests ==
    [forecast : Forecasts \cup {Nothing}, pin : Publications \cup {Nothing},
     selection : Publications \cup {Nothing}, artifacts : [Artifacts -> Blob],
     acceptance : Evidence]
Job ==
    [root : Publications \cup {Nothing}, forecast : Forecasts \cup {Nothing},
     series : Forecasts \cup {Nothing}, pin : Publications \cup {Nothing},
     selection : Publications \cup {Nothing}, file : Files,
     artifacts : [Artifacts -> Blob], manifest : Manifests \cup {Nothing}]

\* Type correctness of the authorities, the commands and the directory.
BundleTypes ==
    /\ pin \in Publications /\ selection \in Publications /\ forecast \in Forecasts
    /\ released \in Forecasts \cup {Nothing}
    /\ disk \in [Files -> Blob \cup Evidence \cup Manifests]
    /\ \A a \in Artifacts : disk[a] \in Blob
    /\ disk[ManifestFile] \in Manifests \cup {Nothing, Torn}
    /\ pc \in [Operators -> Steps]
    /\ job \in [Operators -> Job]
    /\ disturbed \in BOOLEAN

\* What a command has read before it builds or checks.
CommandInv(o) ==
    /\ pc[o] \in {"series", "pin", "selection"} \cup Building => job[o].root \in Publications
    /\ pc[o] \in {"pin", "selection"} \cup Building => job[o].series \in Forecasts
    /\ pc[o] \in Building => Publishable(ReplayOf[DataOf(o)])
    /\ pc[o] \notin Building \cup Checking => job[o].file = 1
    /\ pc[o] \in {"read_back", "artifacts", "rows"} => job[o].file \in Artifacts
    /\ pc[o] \in Checking => job[o].manifest \in Manifests

\* A manifest that describes one build.
Whole(m) ==
    \E d \in Data : m.artifacts = [a \in Artifacts |-> d] /\ m.acceptance = ReplayOf[d]

\* The file a build of data d leaves.
FileOf(f, d) == IF f = AcceptanceFile THEN ReplayOf[d] ELSE d

\* A builder in the directory finds its own files in it, and one outside it
\* relies on none.
BuilderInv(o) ==
    pc[o] \in Building =>
      /\ pc[o] # "truncate" \/ job[o].file > 1 =>
           /\ built = Nothing
           /\ \A f \in Files : f < job[o].file => disk[f] = FileOf(f, DataOf(o))
      /\ pc[o] = "read_back" => disk[job[o].file] = DataOf(o)
      /\ \A a \in Artifacts : a < job[o].file => job[o].artifacts[a] = DataOf(o)

\* What a verifier has checked, and what a loader has read, is described by the
\* manifest it goes by.
CheckerInv(o) ==
    pc[o] \in Checking =>
      LET m == job[o].manifest
      IN  /\ Whole(m)
          /\ pc[o] = "artifacts" =>
               \A a \in Artifacts : a < job[o].file => disk[a] = m.artifacts[a]
          /\ pc[o] \in {"acceptance", "rows"} => \A a \in Artifacts : disk[a] = m.artifacts[a]
          /\ pc[o] = "rows" =>
               \A a \in Artifacts : a < job[o].file => job[o].artifacts[a] = m.artifacts[a]
          /\ pc[o] = "load" => \A a \in Artifacts : job[o].artifacts[a] = m.artifacts[a]

DirectoryInv ==
    /\ disk[ManifestFile] \notin {Nothing, Torn} => Whole(disk[ManifestFile])
    /\ built # Nothing =>
         \E d \in Data :
           /\ Publishable(ReplayOf[d])
           /\ \A a \in Artifacts : disk[a] = d
           /\ disk[AcceptanceFile] = ReplayOf[d]
           /\ disk[ManifestFile].artifacts = [a \in Artifacts |-> d]
           /\ disk[ManifestFile].acceptance = ReplayOf[d]

Undisturbed ==
    /\ DirectoryInv
    /\ \A o \in Operators : BuilderInv(o) /\ CheckerInv(o)

BundleInv ==
    /\ BundleTypes
    /\ \A o \in Operators : CommandInv(o)
    /\ ~ disturbed => Undisturbed
    /\ LoadedIsOneBuild
----------------------------------------------------------------------------
(* One operator steps.                                                     *)

\* A replay the publisher accepts is one the verifier finds disclosed.
LEMMA PublishableDiscloses ==
    ASSUME NEW e \in Evidence, Publishable(e) PROVE Discloses(e)
<1>1. CASE Passed(e)
  <2>1. \A c \in Scored(e) : c \in Cohorts
    BY DEF Scored
  <2>2. \A c \in Scored(e) : e.gates[c]
    BY <1>1, <2>1 DEF Passed, CohortPassed
  <2> QED
    BY <1>1, <2>2 DEF Discloses
<1>2. CASE ~ Passed(e)
  <2>1. PICK c \in Cohorts : ~ CohortPassed(e, c)
    BY <1>2 DEF Passed
  <2>2. e.oracle => c \in Scored(e) /\ ~ e.gates[c]
    BY <2>1 DEF CohortPassed, Scored
  <2> QED
    BY <1>2, <2>2 DEF Discloses
<1> QED
  BY <1>1, <1>2

LEMMA FileNumbers ==
    /\ NArtifacts \in Nat /\ NArtifacts >= 1
    /\ Artifacts \subseteq Files /\ AcceptanceFile \in Files /\ ManifestFile \in Files
    /\ AcceptanceFile = NArtifacts + 1 /\ ManifestFile = NArtifacts + 2
    /\ \A f \in Files : f \in Artifacts \/ f = AcceptanceFile \/ f = ManifestFile
    /\ AcceptanceFile \notin Artifacts /\ ManifestFile \notin Artifacts
    /\ 1 \in Artifacts /\ \A f \in Files : f \in Nat /\ f >= 1
    /\ \A f \in Files : f \in Artifacts <=> f <= NArtifacts
  BY ArtifactAssumption DEF Artifacts, AcceptanceFile, ManifestFile, Files

LEMMA BelowIsOther == \A f \in Files : \A n : f < n => f # n
  BY FileNumbers

LEMMA BelowNext == \A f \in Files : \A n \in Nat : f < n + 1 /\ f # n => f < n
  BY FileNumbers

LEMMA DataIsData ==
    ASSUME BundleTypes, NEW o \in Operators, CommandInv(o), pc[o] \in {"pin", "selection"} \cup Building
    PROVE  DataOf(o) \in Data /\ ReplayOf[DataOf(o)] \in Evidence
  BY ReplayAssumption DEF CommandInv, DataOf, Data, Building

\* The commands of the others go on as before.
LEMMA OtherKept ==
    ASSUME NEW q \in Operators, pc'[q] = pc[q], job'[q] = job[q], CommandInv(q)
    PROVE  /\ CommandInv(q)'
           /\ BuilderInv(q) /\ CheckerInv(q) /\ disk' = disk /\ built' = built
                => BuilderInv(q)' /\ CheckerInv(q)'
           /\ BuilderInv(q) /\ CheckerInv(q) /\ ~ Inside(q) => BuilderInv(q)' /\ CheckerInv(q)'
<1>1. CommandInv(q)'
  BY DEF CommandInv, DataOf
<1>2. BuilderInv(q) /\ CheckerInv(q) /\ disk' = disk /\ built' = built
        => BuilderInv(q)' /\ CheckerInv(q)'
  BY DEF BuilderInv, CheckerInv, DataOf
<1>3. BuilderInv(q) /\ CheckerInv(q) /\ ~ Inside(q) => BuilderInv(q)' /\ CheckerInv(q)'
  BY DEF BuilderInv, CheckerInv, DataOf, Inside, Building, Checking
<1> QED
  BY <1>1, <1>2, <1>3

\* A step that leaves the directory and what is loaded alone.
LEMMA ReadingStep ==
    ASSUME BundleInv, NEW o \in Operators, UNCHANGED <<disk, built, disturbed, tables>>,
           \A q \in Operators \ {o} : pc'[q] = pc[q] /\ job'[q] = job[q],
           BundleTypes', CommandInv(o)',
           ~ disturbed => BuilderInv(o)' /\ CheckerInv(o)'
    PROVE  BundleInv'
<1>1. \A q \in Operators : CommandInv(q)'
  BY OtherKept DEF BundleInv
<1>2. ASSUME ~ disturbed' PROVE Undisturbed'
  <2>1. Undisturbed
    BY <1>2 DEF BundleInv
  <2>2. DirectoryInv'
    BY <2>1 DEF Undisturbed, DirectoryInv
  <2>3. \A q \in Operators : BuilderInv(q)' /\ CheckerInv(q)'
    BY <1>2, <2>1, OtherKept DEF BundleInv, Undisturbed
  <2> QED
    BY <2>2, <2>3 DEF Undisturbed
<1>3. LoadedIsOneBuild'
  BY DEF BundleInv, LoadedIsOneBuild
<1> QED
  BY <1>1, <1>2, <1>3 DEF BundleInv

\* A step of a builder that writes a file.
LEMMA WritingStep ==
    ASSUME BundleInv, NEW o \in Operators, UNCHANGED tables,
           disturbed' = (disturbed \/ \E q \in Operators \ {o} : Inside(q)),
           \A q \in Operators \ {o} : pc'[q] = pc[q] /\ job'[q] = job[q],
           BundleTypes', CommandInv(o)',
           ~ disturbed => DirectoryInv' /\ BuilderInv(o)' /\ CheckerInv(o)'
    PROVE  BundleInv'
<1>1. \A q \in Operators : CommandInv(q)'
  BY OtherKept DEF BundleInv
<1>2. ASSUME ~ disturbed' PROVE Undisturbed'
  <2>1. Undisturbed /\ ~ disturbed /\ \A q \in Operators \ {o} : ~ Inside(q)
    BY <1>2 DEF BundleInv
  <2>2. \A q \in Operators : BuilderInv(q)' /\ CheckerInv(q)'
    BY <2>1, OtherKept DEF BundleInv, Undisturbed
  <2> QED
    BY <2>1, <2>2 DEF Undisturbed
<1>3. LoadedIsOneBuild'
  BY DEF BundleInv, LoadedIsOneBuild
<1> QED
  BY <1>1, <1>2, <1>3 DEF BundleInv

----------------------------------------------------------------------------
(* Authorities, forecast commands and the ends of commands.                *)

LEMMA AuthorityStep ==
    ASSUME BundleInv,
           \/ \E p \in Publications : AdoptRecords(p)
           \/ AdoptPin
           \/ \E f \in Forecasts : ActivateForecast(f)
           \/ UNCHANGED vars
    PROVE  BundleInv'
<1>1. /\ UNCHANGED <<released, disk, tables, built, disturbed, pc, job>>
      /\ pin' \in Publications /\ selection' \in Publications /\ forecast' \in Forecasts
  BY DEF AdoptRecords, AdoptPin, ActivateForecast, Move, forecastSide, inventorySide, vars, authority,
     BundleInv, BundleTypes
<1>2. BundleTypes'
  BY <1>1 DEF BundleInv, BundleTypes
<1>3. \A o \in Operators : CommandInv(o)' /\ (BuilderInv(o) => BuilderInv(o)')
                             /\ (CheckerInv(o) => CheckerInv(o)')
  BY <1>1 DEF BundleInv, CommandInv, BuilderInv, CheckerInv, DataOf
<1>4. ~ disturbed' => Undisturbed'
  BY <1>1, <1>3 DEF BundleInv, Undisturbed, DirectoryInv
<1> QED
  BY <1>1, <1>2, <1>3, <1>4 DEF BundleInv, LoadedIsOneBuild

LEMMA NoJobTypes == NoJob \in Job
  BY FileNumbers DEF NoJob, Job, Blob

\* An operator that is idle relies on nothing.
LEMMA IdleStep ==
    ASSUME BundleInv, NEW o \in Operators, pc' = [pc EXCEPT ![o] = "idle"],
           job' = [job EXCEPT ![o] = NoJob],
           UNCHANGED <<pin, selection, forecast, disk, built, disturbed, tables>>,
           released' \in Forecasts \cup {Nothing}
    PROVE  BundleInv'
<1>1. BundleTypes' /\ pc'[o] = "idle"
      /\ \A q \in Operators \ {o} : pc'[q] = pc[q] /\ job'[q] = job[q]
  BY NoJobTypes DEF BundleInv, BundleTypes, Steps
<1>2. CommandInv(o)' /\ BuilderInv(o)' /\ CheckerInv(o)'
  BY <1>1 DEF BundleTypes, NoJob, BundleInv, CommandInv, BuilderInv, CheckerInv, Building, Checking
<1> QED
  BY <1>1, <1>2, ReadingStep

LEMMA EndingStep ==
    ASSUME BundleInv, NEW o \in Operators,
           \/ PromoteForecast(o) \/ LosePromotion(o) \/ ProjectForecast(o) \/ RefuseForecast(o)
           \/ RefuseBuild(o) \/ FailReadBack(o) \/ ReportVerified(o) \/ Refuse(o) \/ Kill(o)
    PROVE  BundleInv'
<1>1. /\ pc' = [pc EXCEPT ![o] = "idle"] /\ job' = [job EXCEPT ![o] = NoJob]
      /\ UNCHANGED <<pin, selection, forecast, disk, built, disturbed, tables>>
      /\ released' = released \/ released' = job[o].forecast
  BY DEF PromoteForecast, LosePromotion, ProjectForecast, RefuseForecast, RefuseBuild, FailReadBack,
     ReportVerified, Refuse, Kill, Return, authority, forecastSide, inventorySide
<1>2. released' \in Forecasts \cup {Nothing}
  BY <1>1 DEF BundleInv, BundleTypes, Job
<1> QED
  BY <1>1, <1>2, IdleStep

\* A step that only reads outside the directory.
LEMMA LookingStep ==
    ASSUME BundleInv, NEW o \in Operators, NEW to \in Steps \ (Building \cup Checking),
           pc' = [pc EXCEPT ![o] = to], NEW j \in Job, job' = [job EXCEPT ![o] = j],
           UNCHANGED <<pin, selection, forecast, released, disk, built, disturbed, tables>>,
           to \in {"series", "pin", "selection"} => j.root \in Publications,
           to \in {"pin", "selection"} => j.series \in Forecasts,
           j.file = 1
    PROVE  BundleInv'
<1>1. /\ BundleTypes' /\ pc'[o] = to /\ job'[o] = j
      /\ \A q \in Operators \ {o} : pc'[q] = pc[q] /\ job'[q] = job[q]
  BY DEF BundleInv, BundleTypes
<1>2. CommandInv(o)' /\ BuilderInv(o)' /\ CheckerInv(o)'
  BY <1>1 DEF CommandInv, BuilderInv, CheckerInv, Building, Checking
<1> QED
  BY <1>1, <1>2, ReadingStep
LEMMA LookingSteps ==
    ASSUME BundleInv, NEW o \in Operators,
           \/ \E f \in Forecasts : PublishForecast(o, f)
           \/ VerifyForecast(o)
           \/ \E root \in Publications : BuildInventory(o, root)
           \/ ReadSeries(o) \/ ReadPin(o)
           \/ VerifyInventory(o) \/ ReadActiveSelection(o) \/ ReadActiveForecast(o)
    PROVE  BundleInv'
<1> USE DEF Building, Checking, Steps
<1>0. BundleTypes /\ CommandInv(o) /\ job[o] \in Job
  BY DEF BundleInv, BundleTypes
<1>1. ASSUME NEW to \in {"promote", "project", "series", "active_selection"},
             NEW j \in Job, job' = [job EXCEPT ![o] = j], Call(o, to),
             to = "series" => j.root \in Publications, j.file = job[o].file
      PROVE  BundleInv'
  BY <1>0, <1>1, LookingStep DEF Call, authority, forecastSide, inventorySide, CommandInv
<1>2. ASSUME NEW from, NEW to \in {"pin", "selection", "active_forecast", "manifest"},
             from \notin Building \cup Checking,
             NEW j \in Job, Goto(o, from, to), Reads(o, j),
             to \in {"pin", "selection"} => j.root \in Publications /\ j.series \in Forecasts,
             j.file = job[o].file
      PROVE  BundleInv'
  BY <1>0, <1>2, LookingStep DEF Goto, Reads, authority, forecastSide, inventorySide, CommandInv
<1>3. ASSUME NEW f \in Forecasts, PublishForecast(o, f) PROVE BundleInv'
  <2> DEFINE j == [job[o] EXCEPT !.forecast = f]
  <2>1. j \in Job /\ j.file = job[o].file /\ job' = [job EXCEPT ![o] = j] /\ Call(o, "promote")
    BY <1>0, <1>3 DEF PublishForecast, Job, BundleTypes
  <2> HIDE DEF j
  <2> QED
    BY <1>1, <2>1
<1>4. CASE VerifyForecast(o)
  <2> DEFINE j == [job[o] EXCEPT !.forecast = released, !.pin = pin]
  <2>1. j \in Job /\ j.file = job[o].file /\ job' = [job EXCEPT ![o] = j] /\ Call(o, "project")
    BY <1>0, <1>4 DEF VerifyForecast, Job, BundleTypes
  <2> HIDE DEF j
  <2> QED
    BY <1>1, <2>1
<1>5. ASSUME NEW root \in Publications, BuildInventory(o, root) PROVE BundleInv'
  <2> DEFINE j == [job[o] EXCEPT !.root = root, !.forecast = forecast]
  <2>1. /\ j \in Job /\ j.file = job[o].file /\ job' = [job EXCEPT ![o] = j] /\ Call(o, "series")
        /\ j.root \in Publications
    BY <1>0, <1>5 DEF BuildInventory, Job, BundleTypes
  <2> HIDE DEF j
  <2> QED
    BY <1>1, <2>1
<1>6. CASE ReadSeries(o)
  <2> DEFINE j == [job[o] EXCEPT !.series = forecast]
  <2>1. /\ j \in Job /\ j.file = job[o].file /\ Goto(o, "series", "pin") /\ Reads(o, j)
        /\ j.root \in Publications /\ j.series \in Forecasts
    BY <1>0, <1>6 DEF ReadSeries, Job, BundleTypes, CommandInv, Goto
  <2> HIDE DEF j
  <2> QED
    BY <1>2, <2>1
<1>7. CASE ReadPin(o)
  <2> DEFINE j == [job[o] EXCEPT !.pin = pin]
  <2>1. /\ j \in Job /\ j.file = job[o].file /\ Goto(o, "pin", "selection") /\ Reads(o, j)
        /\ j.root \in Publications /\ j.series \in Forecasts
    BY <1>0, <1>7 DEF ReadPin, Job, BundleTypes, CommandInv, Goto
  <2> HIDE DEF j
  <2> QED
    BY <1>2, <2>1
<1>8. CASE VerifyInventory(o)
  <2> DEFINE j == [job[o] EXCEPT !.pin = pin]
  <2>1. /\ j \in Job /\ j.file = job[o].file /\ job' = [job EXCEPT ![o] = j]
        /\ Call(o, "active_selection")
    BY <1>0, <1>8 DEF VerifyInventory, Job, BundleTypes
  <2> HIDE DEF j
  <2> QED
    BY <1>1, <2>1
<1>9. CASE ReadActiveSelection(o)
  <2> DEFINE j == [job[o] EXCEPT !.selection = selection]
  <2>1. /\ j \in Job /\ j.file = job[o].file
        /\ Goto(o, "active_selection", "active_forecast") /\ Reads(o, j)
    BY <1>0, <1>9 DEF ReadActiveSelection, Job, BundleTypes
  <2> HIDE DEF j
  <2> QED
    BY <1>2, <2>1
<1>10. CASE ReadActiveForecast(o)
  <2> DEFINE j == [job[o] EXCEPT !.forecast = forecast]
  <2>1. /\ j \in Job /\ j.file = job[o].file
        /\ Goto(o, "active_forecast", "manifest") /\ Reads(o, j)
    BY <1>0, <1>10 DEF ReadActiveForecast, Job, BundleTypes
  <2> HIDE DEF j
  <2> QED
    BY <1>2, <2>1
<1> QED
  BY <1>3, <1>4, <1>5, <1>6, <1>7, <1>8, <1>9, <1>10

----------------------------------------------------------------------------
(* inventory-build in the directory.                                       *)

LEMMA BuilderEnters ==
    ASSUME BundleInv, NEW o \in Operators, ReadSelection(o)
    PROVE  BundleInv'
<1> USE DEF Building, Checking, Steps
<1>0. BundleTypes /\ CommandInv(o) /\ job[o] \in Job
  BY DEF BundleInv, BundleTypes
<1>1. /\ pc[o] = "selection" /\ pc' = [pc EXCEPT ![o] = "truncate"]
      /\ Publishable(ReplayOf[DataOf(o)])
      /\ job' = [job EXCEPT ![o] = [job[o] EXCEPT !.selection = selection]]
      /\ UNCHANGED <<pin, selection, forecast, released, disk, built, disturbed, tables>>
  BY DEF ReadSelection, Goto, Reads, authority, forecastSide, inventorySide
<1>2. /\ job'[o] \in Job /\ job'[o].file = 1
      /\ job'[o].root = job[o].root /\ job'[o].series = job[o].series
      /\ job[o].root \in Publications /\ job[o].series \in Forecasts
  BY <1>0, <1>1 DEF BundleTypes, CommandInv, Job
<1>3. /\ BundleTypes' /\ pc'[o] = "truncate"
      /\ \A q \in Operators \ {o} : pc'[q] = pc[q] /\ job'[q] = job[q]
  BY <1>0, <1>1, <1>2 DEF BundleTypes
<1>4. CommandInv(o)'
  BY <1>1, <1>2, <1>3 DEF CommandInv, DataOf
<1>5. BuilderInv(o)' /\ CheckerInv(o)'
  BY <1>2, <1>3, FileNumbers DEF BuilderInv, CheckerInv
<1> QED
  BY <1>1, <1>3, <1>4, <1>5, ReadingStep
\* A file of the directory is written.
LEMMA FileWritten ==
    ASSUME BundleTypes, NEW o \in Operators, NEW content, Write(o, content),
           job[o].file \in Artifacts => content \in Blob,
           job[o].file = AcceptanceFile => content \in Evidence \cup {Torn},
           job[o].file = ManifestFile => content \in Manifests \cup {Torn}
    PROVE  /\ disk' \in [Files -> Blob \cup Evidence \cup Manifests]
           /\ \A a \in Artifacts : disk'[a] \in Blob
           /\ disk'[ManifestFile] \in Manifests \cup {Nothing, Torn}
           /\ disk'[job[o].file] = content
           /\ \A f \in Files \ {job[o].file} : disk'[f] = disk[f]
           /\ disturbed' = (disturbed \/ \E q \in Operators \ {o} : Inside(q)) /\ disturbed' \in BOOLEAN
           /\ UNCHANGED <<tables, pin, selection, forecast, released>>
<1>1. job[o].file \in Files
  BY DEF BundleTypes, Job
<1>2. disk' = [disk EXCEPT ![job[o].file] = content]
  BY DEF Write
<1>3. content \in Blob \cup Evidence \cup Manifests
  BY <1>1, FileNumbers DEF Blob
<1> QED
  BY <1>1, <1>2, <1>3, FileNumbers DEF BundleTypes, Write, authority, forecastSide

LEMMA TruncateStep ==
    ASSUME BundleInv, NEW o \in Operators, Truncate(o)
    PROVE  BundleInv'
<1> USE DEF Building, Checking, Steps
<1>0. BundleTypes /\ CommandInv(o) /\ job[o] \in Job
  BY DEF BundleInv, BundleTypes
<1>1. /\ pc[o] = "truncate" /\ pc' = [pc EXCEPT ![o] = "finish"]
      /\ Write(o, Torn) /\ built' = Nothing /\ job' = job
  BY DEF Truncate, Goto
<1>2. /\ disk'[job[o].file] = Torn
      /\ \A f \in Files \ {job[o].file} : disk'[f] = disk[f]
      /\ disturbed' = (disturbed \/ \E q \in Operators \ {o} : Inside(q))
      /\ UNCHANGED tables
      /\ BundleTypes'
  BY <1>0, <1>1, FileWritten DEF Blob, BundleTypes
<1>3. pc'[o] = "finish" /\ \A q \in Operators \ {o} : pc'[q] = pc[q] /\ job'[q] = job[q]
  BY <1>0, <1>1 DEF BundleTypes
<1>4. CommandInv(o)'
  BY <1>0, <1>1, <1>3 DEF CommandInv, DataOf
<1>5. ASSUME ~ disturbed PROVE DirectoryInv' /\ BuilderInv(o)' /\ CheckerInv(o)'
  <2>1. DirectoryInv /\ BuilderInv(o)
    BY <1>5 DEF BundleInv, Undisturbed
  <2>2. DirectoryInv'
    BY <1>0, <1>1, <1>2, <2>1, FileNumbers DEF DirectoryInv
  <2>3. \A f \in Files : f < job[o].file => disk'[f] = FileOf(f, DataOf(o))
    <3>1. ASSUME NEW f \in Files, f < job[o].file PROVE disk'[f] = FileOf(f, DataOf(o))
      <4>1. job[o].file \in Files /\ job[o].file > 1 /\ f # job[o].file
        BY <1>0, <3>1, FileNumbers DEF Job
      <4> QED
        BY <1>1, <1>2, <2>1, <3>1, <4>1 DEF BuilderInv
    <3> QED
      BY <3>1
  <2> QED
    BY <1>1, <1>3, <2>1, <2>2, <2>3 DEF BuilderInv, CheckerInv, DataOf, FileOf
<1> QED
  BY <1>2, <1>3, <1>4, <1>5, WritingStep

LEMMA FinishArtifactStep ==
    ASSUME BundleInv, NEW o \in Operators, FinishArtifact(o)
    PROVE  BundleInv'
<1> USE DEF Building, Checking, Steps
<1>0. BundleTypes /\ CommandInv(o) /\ job[o] \in Job
  BY DEF BundleInv, BundleTypes
<1>1. /\ pc[o] = "finish" /\ pc' = [pc EXCEPT ![o] = "read_back"] /\ job[o].file \in Artifacts
      /\ Write(o, DataOf(o)) /\ built' = built /\ job' = job
  BY FileNumbers DEF FinishArtifact, Goto, Content
<1>2. DataOf(o) \in Data
  BY <1>0, <1>1, DataIsData
<1>3. /\ disk'[job[o].file] = DataOf(o)
      /\ \A f \in Files \ {job[o].file} : disk'[f] = disk[f]
      /\ disturbed' = (disturbed \/ \E q \in Operators \ {o} : Inside(q))
      /\ UNCHANGED tables
      /\ BundleTypes'
  BY <1>0, <1>1, <1>2, FileNumbers, FileWritten DEF Blob, BundleTypes
<1>4. pc'[o] = "read_back" /\ \A q \in Operators \ {o} : pc'[q] = pc[q] /\ job'[q] = job[q]
  BY <1>0, <1>1 DEF BundleTypes
<1>5. CommandInv(o)'
  BY <1>0, <1>1, <1>4 DEF CommandInv, DataOf
<1>6. ASSUME ~ disturbed PROVE DirectoryInv' /\ BuilderInv(o)' /\ CheckerInv(o)'
  <2>1. DirectoryInv /\ BuilderInv(o) /\ built = Nothing
    BY <1>1, <1>6 DEF BundleInv, Undisturbed, BuilderInv
  <2>2. DirectoryInv'
    BY <1>1, <1>3, <2>1, FileNumbers DEF DirectoryInv
  <2>3. \A f \in Files : f < job[o].file => disk[f] = FileOf(f, DataOf(o))
    BY <1>1, <2>1 DEF BuilderInv
  <2>4. ASSUME NEW f \in Files, f < job[o].file PROVE disk'[f] = FileOf(f, DataOf(o))
    <3>1. f \in Files \ {job[o].file}
      BY <2>4, BelowIsOther
    <3>2. disk'[f] = disk[f]
      BY <1>3, <3>1
    <3>3. disk[f] = FileOf(f, DataOf(o))
      BY <2>3, <2>4
    <3> QED
      BY <3>2, <3>3
  <2> QED
    BY <1>1, <1>3, <1>4, <2>1, <2>2, <2>4 DEF BuilderInv, CheckerInv, DataOf, FileOf
<1> QED
  BY <1>3, <1>4, <1>5, <1>6, WritingStep

LEMMA ReadBackStep ==
    ASSUME BundleInv, NEW o \in Operators, ReadBack(o)
    PROVE  BundleInv'
<1> USE DEF Building, Checking, Steps
<1>0. BundleTypes /\ CommandInv(o) /\ job[o] \in Job
  BY DEF BundleInv, BundleTypes
<1> DEFINE f == job[o].file
           j == [job[o] EXCEPT !.artifacts[f] = disk[f], !.file = @ + 1]
<1>1. /\ pc[o] = "read_back" /\ pc' = [pc EXCEPT ![o] = "truncate"]
      /\ job' = [job EXCEPT ![o] = j]
      /\ UNCHANGED <<pin, selection, forecast, released, disk, built, disturbed, tables>>
  BY DEF ReadBack, Goto, Reads, authority, forecastSide, inventorySide
<1>2. f \in Artifacts /\ f \in Nat /\ f + 1 \in Files /\ disk[f] \in Blob
  BY <1>0, <1>1, FileNumbers DEF CommandInv, BundleTypes, Artifacts, Files
<1>3. /\ j \in Job /\ j.file = f + 1 /\ j.root = job[o].root /\ j.series = job[o].series
      /\ j.artifacts[f] = disk[f]
      /\ \A a \in Artifacts \ {f} : j.artifacts[a] = job[o].artifacts[a]
  BY <1>0, <1>2 DEF Job
<1> HIDE DEF j
<1>4. /\ pc'[o] = "truncate" /\ job'[o] = j
      /\ \A q \in Operators \ {o} : pc'[q] = pc[q] /\ job'[q] = job[q]
      /\ BundleTypes'
  BY <1>0, <1>1, <1>3 DEF BundleTypes
<1>5. DataOf(o)' = DataOf(o)
  BY <1>3, <1>4 DEF DataOf
<1>6. CommandInv(o)'
  BY <1>0, <1>1, <1>3, <1>4, <1>5 DEF CommandInv
<1>7. ASSUME ~ disturbed PROVE BuilderInv(o)' /\ CheckerInv(o)'
  <2>1. /\ built = Nothing /\ disk[f] = DataOf(o)
        /\ \A g \in Files : g < f => disk[g] = FileOf(g, DataOf(o))
        /\ \A a \in Artifacts : a < f => job[o].artifacts[a] = DataOf(o)
    BY <1>1, <1>7 DEF BundleInv, Undisturbed, BuilderInv
  <2>2. ASSUME NEW g \in Files, g < f + 1 PROVE disk[g] = FileOf(g, DataOf(o))
    <3>1. g < f \/ g = f
      BY <1>2, <2>2, FileNumbers
    <3> QED
      BY <1>2, <2>1, <3>1, FileNumbers DEF FileOf
  <2>3. ASSUME NEW a \in Artifacts, a < f + 1 PROVE j.artifacts[a] = DataOf(o)
    <3>1. CASE a = f
      BY <1>2, <1>3, <2>1, <3>1
    <3>2. CASE a # f
      <4>1. a < f /\ a \in Artifacts \ {f}
        BY <1>2, <2>3, <3>2, FileNumbers, BelowNext
      <4>2. j.artifacts[a] = job[o].artifacts[a]
        BY <1>3, <4>1
      <4>3. job[o].artifacts[a] = DataOf(o)
        BY <2>1, <4>1
      <4> QED
        BY <4>2, <4>3
    <3> QED
      BY <3>1, <3>2
  <2> QED
    BY <1>1, <1>3, <1>4, <1>5, <2>1, <2>2, <2>3 DEF BuilderInv, CheckerInv, FileOf
<1> QED
  BY <1>1, <1>4, <1>6, <1>7, ReadingStep

LEMMA FinishAcceptanceStep ==
    ASSUME BundleInv, NEW o \in Operators, FinishAcceptance(o)
    PROVE  BundleInv'
<1> USE DEF Building, Checking, Steps
<1>0. BundleTypes /\ CommandInv(o) /\ job[o] \in Job
  BY DEF BundleInv, BundleTypes
<1>1. /\ pc[o] = "finish" /\ pc' = [pc EXCEPT ![o] = "truncate"] /\ job[o].file = AcceptanceFile
      /\ Write(o, ReplayOf[DataOf(o)]) /\ built' = built
      /\ job' = [job EXCEPT ![o].file = ManifestFile]
  BY FileNumbers DEF FinishAcceptance, Goto, Content
<1>2. ReplayOf[DataOf(o)] \in Evidence
  BY <1>0, <1>1, DataIsData
<1>3. /\ disk'[AcceptanceFile] = ReplayOf[DataOf(o)]
      /\ \A f \in Files \ {AcceptanceFile} : disk'[f] = disk[f]
      /\ disturbed' = (disturbed \/ \E q \in Operators \ {o} : Inside(q))
      /\ UNCHANGED <<tables, pin, selection, forecast, released>>
      /\ disk' \in [Files -> Blob \cup Evidence \cup Manifests]
      /\ \A a \in Artifacts : disk'[a] \in Blob
      /\ disk'[ManifestFile] \in Manifests \cup {Nothing, Torn}
      /\ disturbed' \in BOOLEAN
  BY <1>0, <1>1, <1>2, FileNumbers, FileWritten
<1>4. /\ job' \in [Operators -> Job] /\ job'[o].file = ManifestFile
      /\ job'[o].root = job[o].root /\ job'[o].series = job[o].series
      /\ job'[o].artifacts = job[o].artifacts
      /\ pc'[o] = "truncate" /\ \A q \in Operators \ {o} : pc'[q] = pc[q] /\ job'[q] = job[q]
  BY <1>0, <1>1, FileNumbers DEF BundleTypes, Job
<1>5. BundleTypes' /\ DataOf(o)' = DataOf(o)
  BY <1>0, <1>1, <1>3, <1>4 DEF BundleTypes, DataOf
<1>6. CommandInv(o)'
  BY <1>0, <1>1, <1>4, <1>5 DEF CommandInv
<1>7. ASSUME ~ disturbed PROVE DirectoryInv' /\ BuilderInv(o)' /\ CheckerInv(o)'
  <2>1. /\ DirectoryInv /\ built = Nothing
        /\ \A g \in Files : g < AcceptanceFile => disk[g] = FileOf(g, DataOf(o))
        /\ \A a \in Artifacts : a < AcceptanceFile => job[o].artifacts[a] = DataOf(o)
    BY <1>1, <1>7 DEF BundleInv, Undisturbed, BuilderInv
  <2>2. DirectoryInv'
    BY <1>1, <1>3, <2>1, FileNumbers DEF DirectoryInv
  <2>3. ASSUME NEW g \in Files, g < ManifestFile PROVE disk'[g] = FileOf(g, DataOf(o))
    <3>1. g < AcceptanceFile \/ g = AcceptanceFile
      BY <2>3, FileNumbers
    <3> QED
      BY <1>3, <2>1, <3>1, FileNumbers DEF FileOf
  <2>4. \A a \in Artifacts : a < AcceptanceFile
    BY FileNumbers
  <2> QED
    BY <1>1, <1>4, <1>5, <2>1, <2>2, <2>3, <2>4 DEF BuilderInv, CheckerInv, FileOf
<1> QED
  BY <1>3, <1>4, <1>5, <1>6, <1>7, WritingStep

LEMMA FinishManifestStep ==
    ASSUME BundleInv, NEW o \in Operators, FinishManifest(o)
    PROVE  BundleInv'
<1> USE DEF Building, Checking, Steps
<1>0. BundleTypes /\ CommandInv(o) /\ job[o] \in Job
  BY DEF BundleInv, BundleTypes
<1>1. /\ pc[o] = "finish" /\ pc' = [pc EXCEPT ![o] = "idle"] /\ job[o].file = ManifestFile
      /\ Write(o, Manifest(o)) /\ built' = DataOf(o) /\ job' = [job EXCEPT ![o] = NoJob]
  BY FileNumbers DEF FinishManifest, Goto, Content
<1>2. DataOf(o) \in Data /\ ReplayOf[DataOf(o)] \in Evidence /\ Publishable(ReplayOf[DataOf(o)])
  BY <1>0, <1>1, DataIsData DEF CommandInv
<1>3. Manifest(o) \in Manifests /\ Manifest(o).artifacts = job[o].artifacts
      /\ Manifest(o).acceptance = ReplayOf[DataOf(o)]
  BY <1>0, <1>2 DEF Manifest, Manifests, Job
<1>4. /\ disk'[ManifestFile] = Manifest(o)
      /\ \A f \in Files \ {ManifestFile} : disk'[f] = disk[f]
      /\ disturbed' = (disturbed \/ \E q \in Operators \ {o} : Inside(q))
      /\ UNCHANGED <<tables, pin, selection, forecast, released>>
      /\ disk' \in [Files -> Blob \cup Evidence \cup Manifests]
      /\ \A a \in Artifacts : disk'[a] \in Blob
      /\ disk'[ManifestFile] \in Manifests \cup {Nothing, Torn}
      /\ disturbed' \in BOOLEAN
  BY <1>0, <1>1, <1>3, FileNumbers, FileWritten
<1>5. /\ pc'[o] = "idle" /\ job'[o] = NoJob
      /\ \A q \in Operators \ {o} : pc'[q] = pc[q] /\ job'[q] = job[q]
      /\ BundleTypes'
  BY <1>0, <1>1, <1>4, NoJobTypes DEF BundleTypes
<1>6. CommandInv(o)' /\ BuilderInv(o)' /\ CheckerInv(o)'
  BY <1>5 DEF CommandInv, BuilderInv, CheckerInv, NoJob
<1>7. ASSUME ~ disturbed PROVE DirectoryInv'
  <2>1. /\ \A g \in Files : g < ManifestFile => disk[g] = FileOf(g, DataOf(o))
        /\ \A a \in Artifacts : a < ManifestFile => job[o].artifacts[a] = DataOf(o)
    BY <1>1, <1>7 DEF BundleInv, Undisturbed, BuilderInv
  <2>0. /\ \A a \in Artifacts : a \in Files /\ a < ManifestFile /\ a # AcceptanceFile /\ a # ManifestFile
        /\ AcceptanceFile \in Files /\ AcceptanceFile < ManifestFile /\ AcceptanceFile # ManifestFile
    BY FileNumbers
  <2>2. \A a \in Artifacts : disk[a] = DataOf(o) /\ job[o].artifacts[a] = DataOf(o)
    BY <2>0, <2>1 DEF FileOf
  <2>3. disk[AcceptanceFile] = ReplayOf[DataOf(o)]
    BY <2>0, <2>1 DEF FileOf
  <2>4. job[o].artifacts = [a \in Artifacts |-> DataOf(o)]
    BY <1>0, <2>2 DEF Job
  <2>5. Whole(Manifest(o))
    BY <1>2, <1>3, <2>4 DEF Whole
  <2>6. /\ \A a \in Artifacts : disk'[a] = DataOf(o)
        /\ disk'[AcceptanceFile] = ReplayOf[DataOf(o)]
        /\ disk'[ManifestFile].artifacts = [a \in Artifacts |-> DataOf(o)]
        /\ disk'[ManifestFile].acceptance = ReplayOf[DataOf(o)]
    BY <1>3, <1>4, <2>0, <2>2, <2>3, <2>4
  <2>7. Whole(disk[ManifestFile])'
    BY <1>4, <2>5 DEF Whole
  <2> QED
    BY <1>2, <2>6, <2>7 DEF DirectoryInv
<1> QED
  BY <1>4, <1>5, <1>6, <1>7, WritingStep

----------------------------------------------------------------------------
(* inventory-verify and inventory-materialize.                             *)

\* A step of a verifier or loader that only reads the directory.
LEMMA CheckingStep ==
    ASSUME BundleInv, NEW o \in Operators, NEW to \in Checking, NEW j \in Job,
           pc' = [pc EXCEPT ![o] = to], job' = [job EXCEPT ![o] = j],
           UNCHANGED <<pin, selection, forecast, released, disk, built, disturbed, tables>>,
           j.manifest \in Manifests,
           to \in {"artifacts", "rows"} => j.file \in Artifacts,
           ~ disturbed =>
             /\ Whole(j.manifest)
             /\ to = "artifacts" =>
                  \A a \in Artifacts : a < j.file => disk[a] = j.manifest.artifacts[a]
             /\ to \in {"acceptance", "rows"} =>
                  \A a \in Artifacts : disk[a] = j.manifest.artifacts[a]
             /\ to = "rows" =>
                  \A a \in Artifacts : a < j.file => j.artifacts[a] = j.manifest.artifacts[a]
             /\ to = "load" => \A a \in Artifacts : j.artifacts[a] = j.manifest.artifacts[a]
    PROVE  BundleInv'
<1>1. /\ BundleTypes' /\ pc'[o] = to /\ job'[o] = j
      /\ \A q \in Operators \ {o} : pc'[q] = pc[q] /\ job'[q] = job[q]
  BY DEF BundleInv, BundleTypes, Steps
<1>2. CommandInv(o)' /\ BuilderInv(o)'
  BY <1>1 DEF CommandInv, BuilderInv, Building, Checking
<1>3. ~ disturbed => CheckerInv(o)'
  BY <1>1 DEF CheckerInv, Whole
<1> QED
  BY <1>1, <1>2, <1>3, ReadingStep

LEMMA ReadManifestStep ==
    ASSUME BundleInv, NEW o \in Operators, ReadManifest(o)
    PROVE  BundleInv'
<1>0. BundleTypes /\ CommandInv(o) /\ job[o] \in Job
  BY DEF BundleInv, BundleTypes
<1> DEFINE j == [job[o] EXCEPT !.manifest = disk[ManifestFile]]
<1>1. /\ disk[ManifestFile] \notin {Nothing, Torn} /\ pc[o] = "manifest"
      /\ pc' = [pc EXCEPT ![o] = "artifacts"] /\ job' = [job EXCEPT ![o] = j]
      /\ UNCHANGED <<pin, selection, forecast, released, disk, built, disturbed, tables>>
  BY DEF ReadManifest, Goto, Reads, authority, forecastSide, inventorySide
<1>2. disk[ManifestFile] \in Manifests /\ job[o].file = 1
  BY <1>0, <1>1 DEF BundleTypes, CommandInv, Building, Checking
<1>3. j \in Job /\ j.manifest = disk[ManifestFile] /\ j.file = 1
  BY <1>0, <1>2 DEF Job
<1>4. ~ disturbed => Whole(j.manifest)
  BY <1>1, <1>3 DEF BundleInv, Undisturbed, DirectoryInv
<1> HIDE DEF j
<1>5. \A a \in Artifacts : ~ a < 1
  BY FileNumbers
<1>6. "artifacts" \in Checking
  BY DEF Checking
<1> QED
  BY <1>1, <1>2, <1>3, <1>4, <1>5, <1>6, FileNumbers, CheckingStep

LEMMA CheckArtifactStep ==
    ASSUME BundleInv, NEW o \in Operators, CheckArtifact(o)
    PROVE  BundleInv'
<1>0. BundleTypes /\ CommandInv(o) /\ job[o] \in Job
  BY DEF BundleInv, BundleTypes
<1> DEFINE f == job[o].file
           j == [job[o] EXCEPT !.file = @ + 1]
           to == IF f < NArtifacts THEN "artifacts" ELSE "acceptance"
<1>1. /\ pc[o] = "artifacts" /\ disk[f] = job[o].manifest.artifacts[f]
      /\ pc' = [pc EXCEPT ![o] = to] /\ job' = [job EXCEPT ![o] = j]
      /\ UNCHANGED <<pin, selection, forecast, released, disk, built, disturbed, tables>>
  BY DEF CheckArtifact, Intact, Goto, Reads, authority, forecastSide, inventorySide
<1>2. /\ f \in Artifacts /\ f \in Nat /\ f + 1 \in Files /\ job[o].manifest \in Manifests
      /\ f < NArtifacts => f + 1 \in Artifacts
  BY <1>0, <1>1, FileNumbers DEF CommandInv, Checking, Artifacts, Files
<1>3. j \in Job /\ j.manifest = job[o].manifest /\ j.file = f + 1
  BY <1>0, <1>2 DEF Job
<1>4. to \in Checking /\ (to = "artifacts" => f < NArtifacts) /\ (to = "acceptance" => ~ f < NArtifacts)
      /\ to \in {"artifacts", "acceptance"}
  BY DEF Checking
<1>5. ASSUME ~ disturbed
      PROVE  /\ Whole(job[o].manifest)
             /\ \A a \in Artifacts : a < f + 1 => disk[a] = job[o].manifest.artifacts[a]
  <2>1. CheckerInv(o)
    BY <1>5 DEF BundleInv, Undisturbed
  <2>2. Whole(job[o].manifest) /\ \A a \in Artifacts : a < f => disk[a] = job[o].manifest.artifacts[a]
    BY <1>1, <2>1 DEF CheckerInv, Checking
  <2>3. \A a \in Artifacts : a < f + 1 => a < f \/ a = f
    BY <1>2, FileNumbers
  <2> QED
    BY <1>1, <2>2, <2>3
<1>6. ~ f < NArtifacts => \A a \in Artifacts : a < f + 1
  BY <1>2, FileNumbers DEF Artifacts
<1> HIDE DEF j, to
<1>7. ~ disturbed =>
        /\ Whole(j.manifest)
        /\ to = "artifacts" => \A a \in Artifacts : a < j.file => disk[a] = j.manifest.artifacts[a]
        /\ to = "acceptance" => \A a \in Artifacts : disk[a] = j.manifest.artifacts[a]
  BY <1>3, <1>4, <1>5, <1>6
<1> QED
  BY <1>1, <1>2, <1>3, <1>4, <1>7, CheckingStep

LEMMA MaterializeStep ==
    ASSUME BundleInv, NEW o \in Operators, Materialize(o)
    PROVE  BundleInv'
<1>0. BundleTypes /\ CommandInv(o) /\ job[o] \in Job
  BY DEF BundleInv, BundleTypes
<1> DEFINE j == [job[o] EXCEPT !.file = 1]
<1>1. /\ pc[o] = "acceptance"
      /\ pc' = [pc EXCEPT ![o] = "rows"] /\ job' = [job EXCEPT ![o] = j]
      /\ UNCHANGED <<pin, selection, forecast, released, disk, built, disturbed, tables>>
  BY DEF Materialize, Goto, Reads, authority, forecastSide, inventorySide
<1>2. j \in Job /\ j.manifest = job[o].manifest /\ j.file = 1 /\ job[o].manifest \in Manifests
  BY <1>0, <1>1, FileNumbers DEF Job, CommandInv, Checking
<1>3. ~ disturbed => CheckerInv(o)
  BY DEF BundleInv, Undisturbed
<1>4. ~ disturbed => /\ Whole(j.manifest)
                     /\ \A a \in Artifacts : disk[a] = j.manifest.artifacts[a]
  BY <1>1, <1>2, <1>3 DEF CheckerInv, Checking
<1> HIDE DEF j
<1>5. \A a \in Artifacts : ~ a < 1
  BY FileNumbers
<1>6. "rows" \in Checking
  BY DEF Checking
<1> QED
  BY <1>1, <1>2, <1>4, <1>5, <1>6, FileNumbers, CheckingStep

LEMMA ReadRowsStep ==
    ASSUME BundleInv, NEW o \in Operators, ReadRows(o)
    PROVE  BundleInv'
<1>0. BundleTypes /\ CommandInv(o) /\ job[o] \in Job
  BY DEF BundleInv, BundleTypes
<1> DEFINE f == job[o].file
           j == [job[o] EXCEPT !.artifacts[f] = disk[f], !.file = @ + 1]
           to == IF f < NArtifacts THEN "rows" ELSE "load"
<1>1. /\ pc[o] = "rows"
      /\ pc' = [pc EXCEPT ![o] = to] /\ job' = [job EXCEPT ![o] = j]
      /\ UNCHANGED <<pin, selection, forecast, released, disk, built, disturbed, tables>>
  BY DEF ReadRows, Goto, Reads, authority, forecastSide, inventorySide
<1>2. /\ f \in Artifacts /\ f \in Nat /\ f + 1 \in Files /\ job[o].manifest \in Manifests
      /\ f < NArtifacts => f + 1 \in Artifacts
      /\ disk[f] \in Blob
  BY <1>0, <1>1, FileNumbers DEF CommandInv, Checking, Artifacts, Files, BundleTypes
<1>3. /\ j \in Job /\ j.manifest = job[o].manifest /\ j.file = f + 1
      /\ j.artifacts[f] = disk[f]
      /\ \A a \in Artifacts \ {f} : j.artifacts[a] = job[o].artifacts[a]
  BY <1>0, <1>2 DEF Job
<1>4. to \in Checking /\ (to = "rows" => f < NArtifacts) /\ (to = "load" => ~ f < NArtifacts)
      /\ to \in {"rows", "load"}
  BY DEF Checking
<1> HIDE DEF j, to
<1>5. ASSUME ~ disturbed
      PROVE  /\ Whole(j.manifest)
             /\ \A a \in Artifacts : disk[a] = j.manifest.artifacts[a]
             /\ \A a \in Artifacts : a < f + 1 => j.artifacts[a] = j.manifest.artifacts[a]
  <2>1. CheckerInv(o)
    BY <1>5 DEF BundleInv, Undisturbed
  <2>2. /\ Whole(job[o].manifest)
        /\ \A a \in Artifacts : disk[a] = job[o].manifest.artifacts[a]
        /\ \A a \in Artifacts : a < f => job[o].artifacts[a] = job[o].manifest.artifacts[a]
    BY <1>1, <2>1 DEF CheckerInv, Checking
  <2>3. \A a \in Artifacts : a < f + 1 => a < f \/ a = f
    BY <1>2, FileNumbers
  <2> QED
    BY <1>2, <1>3, <2>2, <2>3
<1>6. ~ f < NArtifacts => \A a \in Artifacts : a < f + 1
  BY <1>2, FileNumbers DEF Artifacts
<1>7. ~ disturbed =>
        /\ Whole(j.manifest)
        /\ \A a \in Artifacts : disk[a] = j.manifest.artifacts[a]
        /\ to = "rows" =>
             \A a \in Artifacts : a < j.file => j.artifacts[a] = j.manifest.artifacts[a]
        /\ to = "load" => \A a \in Artifacts : j.artifacts[a] = j.manifest.artifacts[a]
  BY <1>3, <1>4, <1>5, <1>6
<1> QED
  BY <1>1, <1>2, <1>3, <1>4, <1>7, CheckingStep

\* What a loader has read of an undisturbed directory is one build.
LEMMA LoadStep ==
    ASSUME BundleInv, NEW o \in Operators, Load(o)
    PROVE  BundleInv'
<1>0. BundleTypes /\ CommandInv(o) /\ job[o] \in Job
  BY DEF BundleInv, BundleTypes
<1> DEFINE m == job[o].manifest
           new == [run |-> m, rows |-> job[o].artifacts, disturbed |-> disturbed]
<1>1. /\ pc[o] = "load"
      /\ tables' \subseteq tables \cup {new}
      /\ pc' = [pc EXCEPT ![o] = "idle"] /\ job' = [job EXCEPT ![o] = NoJob]
      /\ UNCHANGED <<pin, selection, forecast, released, disk, built, disturbed>>
  BY DEF Load, Return, authority, forecastSide
<1>2. BundleTypes' /\ pc'[o] = "idle" /\ job'[o] = NoJob
      /\ \A q \in Operators \ {o} : pc'[q] = pc[q] /\ job'[q] = job[q]
  BY <1>0, <1>1, NoJobTypes DEF BundleTypes, Steps
<1>3. \A q \in Operators : CommandInv(q)'
  BY <1>2, OtherKept DEF BundleInv, CommandInv, NoJob, Building, Checking
<1>4. BuilderInv(o)' /\ CheckerInv(o)'
  BY <1>2 DEF BuilderInv, CheckerInv, Building, Checking
<1>5. ASSUME ~ disturbed' PROVE Undisturbed'
  <2>1. Undisturbed
    BY <1>1, <1>5 DEF BundleInv
  <2>2. DirectoryInv'
    BY <1>1, <2>1 DEF Undisturbed, DirectoryInv
  <2> QED
    BY <1>1, <1>2, <1>4, <2>1, <2>2, OtherKept DEF BundleInv, Undisturbed
<1>6. ASSUME ~ disturbed
      PROVE  \E d \in Data : /\ job[o].artifacts = [a \in Artifacts |-> d]
                             /\ m.artifacts = job[o].artifacts
                             /\ m.acceptance = ReplayOf[d]
  <2>1. CheckerInv(o)
    BY <1>6 DEF BundleInv, Undisturbed
  <2>2. Whole(m) /\ \A a \in Artifacts : job[o].artifacts[a] = m.artifacts[a]
    BY <1>1, <2>1 DEF CheckerInv, Checking
  <2>3. PICK d \in Data : m.artifacts = [a \in Artifacts |-> d] /\ m.acceptance = ReplayOf[d]
    BY <2>2 DEF Whole
  <2>4. job[o].artifacts = [a \in Artifacts |-> d]
    BY <1>0, <2>2, <2>3 DEF Job
  <2> QED
    BY <2>3, <2>4
<1>7. LoadedIsOneBuild'
  BY <1>1, <1>6 DEF BundleInv, LoadedIsOneBuild
<1> QED
  BY <1>2, <1>3, <1>5, <1>7 DEF BundleInv

----------------------------------------------------------------------------
(* The theorems.                                                           *)

LEMMA BundleInit == Init => BundleInv
<1> SUFFICES ASSUME Init PROVE BundleInv
  OBVIOUS
<1>1. BundleTypes
  BY ForecastAssumption, NoJobTypes, FileNumbers DEF Init, BundleTypes, Steps, Blob
<1>2. \A o \in Operators : pc[o] = "idle" /\ job[o].file = 1
  BY DEF Init, NoJob
<1>3. \A o \in Operators : CommandInv(o) /\ BuilderInv(o) /\ CheckerInv(o)
  BY <1>2 DEF CommandInv, BuilderInv, CheckerInv, Building, Checking
<1>4. DirectoryInv
  BY FileNumbers DEF Init, DirectoryInv
<1> QED
  BY <1>1, <1>3, <1>4 DEF BundleInv, Undisturbed, LoadedIsOneBuild, Init

LEMMA BundleNext == BundleInv /\ [Next]_vars => BundleInv'
<1> SUFFICES ASSUME BundleInv, [Next]_vars PROVE BundleInv'
  OBVIOUS
<1>1. ASSUME NEW o \in Operators, ForecastCommand(o) PROVE BundleInv'
  BY <1>1, LookingSteps, EndingStep DEF ForecastCommand
<1>2. ASSUME NEW o \in Operators, Build(o) PROVE BundleInv'
  BY <1>2, LookingSteps, EndingStep, BuilderEnters, TruncateStep, FinishArtifactStep, ReadBackStep,
     FinishAcceptanceStep, FinishManifestStep DEF Build
<1>3. ASSUME NEW o \in Operators, Verification(o) PROVE BundleInv'
  BY <1>3, LookingSteps, EndingStep, ReadManifestStep, CheckArtifactStep, MaterializeStep,
     ReadRowsStep, LoadStep DEF Verification
<1>4. ASSUME NEW o \in Operators, Kill(o) PROVE BundleInv'
  BY <1>4, EndingStep
<1>5. CASE \/ \E p \in Publications : AdoptRecords(p)
           \/ AdoptPin
           \/ \E f \in Forecasts : ActivateForecast(f)
           \/ UNCHANGED vars
  BY <1>5, AuthorityStep
<1> QED
  BY <1>1, <1>2, <1>3, <1>4, <1>5 DEF Next

LEMMA BundleInvariant == Spec => []BundleInv
<1>1. Init => BundleInv
  BY BundleInit
<1>2. BundleInv /\ [Next]_vars => BundleInv'
  BY BundleNext
<1> QED
  BY <1>1, <1>2, PTL DEF Spec

\* Every step of a build, a verification and a load keeps the kinds of value
\* in the directory, in what the commands have read and in the authorities.
THEOREM TypeCorrect == Spec => []BundleTypes
<1>1. BundleInv => BundleTypes
  BY DEF BundleInv
<1> QED
  BY <1>1, BundleInvariant, PTL

\* No inventory run mixes the files of two builds, whatever is killed and
\* whatever moves in between (materialize_inventory_run).
THEOREM LoadedIsOneBuildHolds == Spec => []LoadedIsOneBuild
<1>1. BundleInv => LoadedIsOneBuild
  BY DEF BundleInv
<1> QED
  BY <1>1, BundleInvariant, PTL

\* The verifier accepts every bundle the publisher finished, also one whose
\* replay failed its gates (publish_inventory_run, verify_inventory_run).
THEOREM PublishedIsVerifiedHolds == Spec => []PublishedIsVerified
<1>1. ASSUME BundleInv, built # Nothing, ~ disturbed
      PROVE  /\ \A a \in Artifacts : Intact(disk[ManifestFile], a)
             /\ AcceptanceHolds(disk[ManifestFile])
  <2>1. DirectoryInv
    BY <1>1 DEF BundleInv, Undisturbed
  <2>2. PICK d \in Data :
           /\ Publishable(ReplayOf[d])
           /\ \A a \in Artifacts : disk[a] = d
           /\ disk[AcceptanceFile] = ReplayOf[d]
           /\ disk[ManifestFile].artifacts = [a \in Artifacts |-> d]
           /\ disk[ManifestFile].acceptance = ReplayOf[d]
    BY <1>1, <2>1 DEF DirectoryInv
  <2>3. Discloses(ReplayOf[d])
    <3>1. ReplayOf[d] \in Evidence
      BY ReplayAssumption
    <3> QED
      BY <2>2, <3>1, PublishableDiscloses
  <2> QED
    BY <2>2, <2>3 DEF Intact, AcceptanceHolds
<1>2. BundleInv => PublishedIsVerified
  BY <1>1 DEF PublishedIsVerified
<1> QED
  BY <1>2, BundleInvariant, PTL

----------------------------------------------------------------------------
(* The two together.                                                       *)

\* What is proved of the label and of the bundles apart holds where both run:
\* every step of the system is a step of one of them and a stutter of the other.
THEOREM BothRun == ForecastBundlesSpec => TrainingSpec /\ Spec
<1>1. ForecastBundlesInit => TrainingInit /\ Init
  BY DEF ForecastBundlesInit
<1>2. [Train \/ Release]_<<trainingVars, vars>> => [TrainingNext]_trainingVars /\ [Next]_vars
  BY DEF Train, Release
<1> QED
  BY <1>1, <1>2, PTL DEF ForecastBundlesSpec, TrainingSpec, Spec

\* The invariants of the run, in the specification the run checks.
THEOREM BundlesAndLabelHold ==
    ForecastBundlesSpec =>
        /\ []RowsAreOriginSafe /\ []LabelIsOneChain
        /\ []LoadedIsOneBuild /\ []PublishedIsVerified
  BY BothRun, RowsAreOriginSafeHolds, LabelIsOneChainHolds, LoadedIsOneBuildHolds,
     PublishedIsVerifiedHolds, PTL
=============================================================================
