------------------------------ MODULE ForecastRun ------------------------------
(***************************************************************************)
(* The forecast half of ml/src/retail_ml as tools/dev.py chains it under   *)
(* one label: features, backtest, score-current, classify and publish.     *)
(* Each command reads what earlier ones left, writes in a staging          *)
(* directory and renames it onto an output that must not exist yet.        *)
(*                                                                         *)
(* Weeks are numbers, the days of a week are not told apart.  Of the units *)
(* only their provenance is kept: a forecast row carries the last week of  *)
(* which anything it was computed from read sales, a label that was late   *)
(* counting in the week in which it was known.  What the gates measure is  *)
(* the constant Accurate.                                                  *)
(***************************************************************************)
EXTENDS Integers, FiniteSets, FiniteSetsExt

CONSTANTS
    Series,
    Inputs,             \* curated publications
    Market,             \* publication -> what it has of the market:
                        \*   through: the last week with sales
                        \*   enters, leaves: series -> its weeks on sale
                        \*   partial, late, early: some cells <<series, week>>
                        \*   tail: the series whose demand is sparse and better
                        \*         met by the intermittent model
    Accurate,           \* publications over which every measured gate passes
    DecisionWeek,       \* the week --decision-as-of lies in
    Lag,                \* 52: the seasonal lag, in weekly rows
    MaxHorizon,         \* 26
    Embargo,            \* 8: LABEL_EMBARGO_WEEKS
    TrainingOrigins,    \* 104
    HeldBack,           \* 8: the last training origins calibrate
    MinOrigins,         \* 10: origins a fit needs
    Window, Step,       \* 26 and 2: the rolling-origin schedule
    ScoringOrigins,     \* 13
    DevelopmentOrigins, \* 8 of them fit the remediation
    CalibratedHorizon,  \* 4: COLD_START_CALIBRATED_MAX_HORIZON
    MinResolved,        \* 8: rows a replay preference rests on
    Delay,              \* weeks a late label is late by
    Crew,               \* operators and pipelines at work on the label
    Absent,
    MaxAdoptions, MaxLosses, MaxClears  \* bounds

Horizons == 1 .. MaxHorizon
Stages == {"features", "backtest", "current", "classified", "bundle"}

ASSUME ScheduleAssumption ==
    /\ {MaxHorizon, Window, Step, MinOrigins} \subseteq Nat \ {0}
    /\ HeldBack < MinOrigins /\ MinOrigins <= TrainingOrigins
    /\ ScoringOrigins * Step = Window
    /\ {DecisionWeek, Lag, Embargo, Delay} \subseteq Nat
ASSUME MarketAssumption ==
    \A i \in Inputs : /\ Market[i].through \in Nat
                      /\ Market[i].enters \in [Series -> Int]
                      /\ Market[i].leaves \in [Series -> Int]

VARIABLES
    input,  \* the publication the source pin names
    made,   \* stage -> what its output directory of the label holds
    at,     \* member of the crew -> the stage it works on, or "idle"
    held,   \* member of the crew -> what its staging directory will hold
    adoptions, losses, clears

trainingVars == <<input, made, at, held, adoptions, losses, clears>>

----------------------------------------------------------------------------
(* weekly_features_sql.  The publication has a row for every week a series *)
(* is on sale, so a lag of n rows is a lag of n weeks.                     *)

HasRow(i, s, t) ==
    t \in Market[i].enters[s] .. Market[i].leaves[s] /\ t <= Market[i].through

\* training_eligible: on sale, and the panel open, on all seven days.
Full(i, s, t) ==
    HasRow(i, s, t) /\ <<s, t>> \notin Market[i].partial /\ t < Market[i].through

Established(i, s, t) == HasRow(i, s, t - Lag)

\* The week in which an actual becomes known: its own, unless it was late.
KnownIn(i, s, t) == t + IF <<s, t>> \in Market[i].late THEN Delay ELSE 0

\* Known by the first hour of the Sunday of week o: the last sale of a week is
\* one of its Sunday, unless the cell closed early.
KnownBy(i, s, t, o) ==
    \/ KnownIn(i, s, t) < o
    \/ KnownIn(i, s, t) = o /\ <<s, t>> \in Market[i].early

\* The features of a row: rolling windows up to the week before, and the
\* price of the week itself against the competitor's.
FeaturesRead(i, s, t) == {u \in t - Lag .. t : HasRow(i, s, u)}

----------------------------------------------------------------------------
(* load_training_horizon, fit_horizon_model *)

AllOrigins(i) ==
    {t \in 1 .. Market[i].through : \E s \in Series : Full(i, s, t) /\ Established(i, s, t)}

LastOf(weeks, n) == {t \in weeks : Cardinality({u \in weeks : u > t}) < n}

Origins(i, o) == LastOf({t \in AllOrigins(i) : t <= o - Embargo}, TrainingOrigins)

\* Seeded fault in TrainingRows: target_known_as_of is not asked.
MutTrainingRows(i, o, h) ==
    {r \in Series \X Origins(i, o) :
        Full(i, r[1], r[2]) /\ Full(i, r[1], r[2] + h)}

TrainingRows(i, o, h) ==
    {r \in Series \X Origins(i, o) :
        /\ Full(i, r[1], r[2]) /\ Full(i, r[1], r[2] + h)
        /\ KnownBy(i, r[1], r[2] + h, o)}

FitOrigins(i, o, h) == {r[2] : r \in TrainingRows(i, o, h)}

CanFit(i, o) == \A h \in Horizons : Cardinality(FitOrigins(i, o, h)) >= MinOrigins

FitRead(i, o, h) ==
    UNION {FeaturesRead(i, r[1], r[2]) \cup {KnownIn(i, r[1], r[2] + h)} :
             r \in TrainingRows(i, o, h)}

\* _tail_replay_preferred_keys: on the origins held back, with history before.
TailPreferred(i, o, h) ==
    LET calibration == LastOf(FitOrigins(i, o, h), HeldBack)
        replayed(s) == {r \in TrainingRows(i, o, h) :
                          /\ r[1] = s /\ r[2] \in calibration
                          /\ \E q \in TrainingRows(i, o, h) : q[1] = s /\ q[2] < r[2]}
    IN {s \in Market[i].tail : Cardinality(replayed(s)) >= MinResolved}

----------------------------------------------------------------------------
(* Cohorts of decisions 82 and 83, and the intermittent route *)

History(i, s, o) == {t \in 1 .. o - 1 : Full(i, s, t)}
Partials(i, s, o) == {t \in 1 .. o - 1 : HasRow(i, s, t) /\ ~ Full(i, s, t)}

\* A launch week counts only where some series has a complete week.
ComparatorRead(i, s, o) ==
    IF History(i, s, o) # {} THEN LastOf(History(i, s, o), 13)
    ELSE IF \E q \in Series : History(i, q, o) # {}
         THEN LastOf(Partials(i, s, o), 1)
         ELSE {}

Cohort(i, s, o) ==
    CASE Established(i, s, o) -> "established"
      [] ~ Established(i, s, o) /\ ComparatorRead(i, s, o) # {} -> "cold"
      [] OTHER -> "ineligible"

----------------------------------------------------------------------------
(* run_backtest *)

Eligible(i) ==
    {t \in 1 .. Market[i].through : \E s \in Series :
        Full(i, s, t) /\ Established(i, s, t) /\ Full(i, s, t + MaxHorizon)}

Rank(i, t) == Cardinality({u \in Eligible(i) : u > t})

Schedule(i) == {t \in Eligible(i) : Rank(i, t) < Window /\ Rank(i, t) % Step = 0}

Evaluated(i, o, h) == {s \in Series : Full(i, s, o) /\ Full(i, s, o + h)}

\* A row of the current or an earlier origin that carries a tail candidate.
HasCandidate(i, s, o) == s \in Market[i].tail /\ History(i, s, o) # {}

\* replay_preferred_tail_keys: rows of earlier origins whose week has passed.
Resolved(i, s, o) ==
    {r \in Schedule(i) \X Horizons :
        /\ r[1] < o /\ r[1] + r[2] < o
        /\ s \in Evaluated(i, r[1], r[2]) /\ HasCandidate(i, s, r[1])}

ReplayPreferred(i, s, o) ==
    s \in Market[i].tail /\ Cardinality(Resolved(i, s, o)) >= MinResolved

Routed(i, s, o, h, replayed) ==
    /\ HasCandidate(i, s, o)
    /\ replayed \/ s \in TailPreferred(i, o, h)

\* What a row read before the remediation: the fit of its origin and horizon,
\* its own features, and the replay and the history that route it.
RowRead(i, s, o, h) ==
    FitRead(i, o, h) \cup FeaturesRead(i, s, o) \cup History(i, s, o)
      \cup {r[1] + r[2] : r \in Resolved(i, s, o)}

EvaluationRow(i, s, o, h) ==
    [series |-> s, origin |-> o, horizon |-> h, cohort |-> Cohort(i, s, o),
     routed |-> Routed(i, s, o, h, ReplayPreferred(i, s, o)),
     seen |-> Max(RowRead(i, s, o, h))]

EvaluationRows ==
    [i \in Inputs |->
        UNION {{EvaluationRow(i, s, oh[1], oh[2]) : s \in Evaluated(i, oh[1], oh[2])} :
                 oh \in Schedule(i) \X Horizons}]

\* assign_cohorts raises above one ineligible row in a hundred.
WithinCap(rows) ==
    100 * Cardinality({r \in rows : r.cohort = "ineligible"}) <= Cardinality(rows)

Development(i) ==
    {o \in Schedule(i) :
        Cardinality({u \in Schedule(i) : u < o}) < DevelopmentOrigins}

Cold(rows) == {r \in rows : r.cohort = "cold"}

CanBacktest ==
    {i \in Inputs :
        /\ Schedule(i) # {}
        /\ \A o \in Schedule(i) : CanFit(i, o)
        /\ WithinCap(EvaluationRows[i])
        /\ \E r \in Cold(EvaluationRows[i]) : r.origin \in Development(i)}

FullSchedule ==
    {i \in Inputs :
        /\ Cardinality(Schedule(i)) = ScoringOrigins
        /\ \A o \in Schedule(i), h \in Horizons : Evaluated(i, o, h) # {}}

\* evaluate_acceptance; the numbers are those of the publication.
Verdict(i) == i \in Accurate

Backtest(f) ==
    [input |-> f.input, passed |-> f.input \in FullSchedule /\ Verdict(f.input)]

----------------------------------------------------------------------------
(* run_current_cycle *)

Current(i) ==
    {s \in Series : HasRow(i, s, DecisionWeek) /\ KnownIn(i, s, DecisionWeek) = DecisionWeek}

CurrentRow(i, s, h) ==
    [series |-> s, origin |-> DecisionWeek, horizon |-> h,
     cohort |-> Cohort(i, s, DecisionWeek),
     routed |-> Routed(i, s, DecisionWeek, h, FALSE),
     seen |-> Max(FitRead(i, DecisionWeek, h) \cup FeaturesRead(i, s, DecisionWeek)
                    \cup History(i, s, DecisionWeek))]

CurrentRows ==
    [i \in Inputs |-> {CurrentRow(i, s, h) : s \in Current(i), h \in Horizons}]

CanScore == {i \in Inputs : Current(i) # {} /\ CanFit(i, DecisionWeek)}
CanBlend == {i \in Inputs : WithinCap(CurrentRows[i])}

\* The manifest names the publication the caller names.
CurrentCycle(i, b) ==
    [input |-> i, blend |-> IF b = Absent THEN Absent ELSE b.input]

(* classify_current_cycle: one class for each current series.              *)

HistoryWeeks(i, s) == Cardinality({t \in 1 .. DecisionWeek : HasRow(i, s, t)})

RowQuality(i, s) ==
    LET observed == Cardinality({t \in DecisionWeek - 12 .. DecisionWeek :
                                   HasRow(i, s, t)})
    IN CASE 4 * observed < 3 * 13 -> "issue"
         [] 4 * observed >= 3 * 13 /\ 10 * observed < 9 * 13 -> "watch"
         [] OTHER -> "good"

Exceptions(i, s) ==
    (IF HistoryWeeks(i, s) < 26 \/ s \in Market[i].tail THEN {"sparse_history"} ELSE {})
      \cup (IF RowQuality(i, s) = "issue" THEN {"data_quality"} ELSE {})

Classification(c) ==
    [input |-> c.input,
     quality |-> [s \in Current(c.input) |-> RowQuality(c.input, s)],
     exceptions |-> [s \in Current(c.input) |-> Exceptions(c.input, s)]]

----------------------------------------------------------------------------
(* publish_forecast_run *)

\* withhold_uncalibrated_cold_start_intervals: the cold series are those of
\* the evaluation.
SeenCold(rows) == {r.series : r \in Cold(rows)}

Intervals(b, c) ==
    {<<r.series, r.horizon>> :
        r \in {q \in CurrentRows[c.input] :
                 ~ (/\ q.series \in SeenCold(EvaluationRows[b.input])
                    /\ q.horizon > CalibratedHorizon)}}

CanPublish(f, b, c, k) ==
    /\ b.input = f.input
    /\ b.input \in FullSchedule /\ b.passed = Verdict(b.input)
    /\ \A r \in CurrentRows[c.input] : r.origin + r.horizon > DecisionWeek
    /\ DOMAIN k.quality = Current(c.input)

Bundle(f, b, c, k) ==
    [input |-> f.input, evaluation |-> b.input, current |-> c.input,
     blend |-> c.blend, classified |-> k.input,
     intervals |-> Intervals(b, c), accepted |-> Verdict(b.input)]

----------------------------------------------------------------------------
TrainingInit ==
    /\ input \in Inputs
    /\ made = [g \in Stages |-> Absent]
    /\ at = [m \in Crew |-> "idle"]
    /\ held = [m \in Crew |-> Absent]
    /\ adoptions = 0 /\ losses = 0 /\ clears = 0

\* A command of dev.py finds its output free and reads; what it will write is
\* settled by what it read.
Begin(m, stage, content) ==
    /\ at[m] = "idle" /\ made[stage] = Absent
    /\ at' = [at EXCEPT ![m] = stage]
    /\ held' = [held EXCEPT ![m] = content]
    /\ UNCHANGED <<input, made, adoptions, losses, clears>>

BuildFeatures(m) == Begin(m, "features", [input |-> input])

RunBacktest(m) ==
    /\ made["features"] # Absent
    /\ made["features"].input \in CanBacktest
    /\ Begin(m, "backtest", Backtest(made["features"]))

\* Seeded fault in SameInput: the features may be those of another input.
MutSameInput(f) == TRUE

SameInput(f) == f.input = input

\* The blend is passed only where the label has a backtest by now.
ScoreCurrent(m) ==
    /\ made["features"] # Absent
    /\ SameInput(made["features"])
    /\ made["features"].input \in CanScore
    /\ made["backtest"] # Absent => made["features"].input \in CanBlend
    /\ Begin(m, "current", CurrentCycle(input, made["backtest"]))

Classify(m) ==
    /\ made["current"] # Absent
    /\ Begin(m, "classified", Classification(made["current"]))

PublishRun(m) ==
    /\ \A g \in Stages \ {"bundle"} : made[g] # Absent
    /\ CanPublish(made["features"], made["backtest"], made["current"],
                  made["classified"])
    /\ Begin(m, "bundle", Bundle(made["features"], made["backtest"],
                                 made["current"], made["classified"]))

Retire(m) ==
    /\ at' = [at EXCEPT ![m] = "idle"]
    /\ held' = [held EXCEPT ![m] = Absent]
    /\ UNCHANGED <<input, adoptions, clears>>

\* os.replace, which does not replace a directory that has files.
Promote(m) ==
    /\ at[m] # "idle" /\ made[at[m]] = Absent
    /\ made' = [made EXCEPT ![at[m]] = held[m]]
    /\ Retire(m) /\ UNCHANGED losses

FailPromotion(m) ==
    /\ at[m] # "idle" /\ made[at[m]] # Absent
    /\ Retire(m) /\ UNCHANGED <<made, losses>>

\* A command is killed, or fails, before it renames.
Lose(m) ==
    /\ at[m] # "idle" /\ losses < MaxLosses
    /\ losses' = losses + 1
    /\ Retire(m) /\ UNCHANGED made

AdoptInput(i) ==
    /\ i # input /\ adoptions < MaxAdoptions
    /\ input' = i
    /\ adoptions' = adoptions + 1
    /\ UNCHANGED <<made, at, held, losses, clears>>

\* What dev.py advises when a slice finds its outputs in place.
ClearOutputs(stages) ==
    /\ clears < MaxClears
    /\ \A g \in stages : made[g] # Absent
    /\ made' = [g \in Stages |-> IF g \in stages THEN Absent ELSE made[g]]
    /\ clears' = clears + 1
    /\ UNCHANGED <<input, at, held, adoptions, losses>>

TrainingNext ==
    \/ \E m \in Crew :
         \/ BuildFeatures(m) \/ RunBacktest(m) \/ ScoreCurrent(m)
         \/ Classify(m) \/ PublishRun(m)
         \/ Promote(m) \/ FailPromotion(m) \/ Lose(m)
    \/ \E i \in Inputs : AdoptInput(i)
    \/ \E stages \in SUBSET Stages \ {{}} : ClearOutputs(stages)

TrainingSpec == TrainingInit /\ [][TrainingNext]_trainingVars
----------------------------------------------------------------------------
(* Properties *)

\* A row of the backtest or of the current cycle was computed only from weeks
\* before its origin or the origin itself: not through the labels its model is
\* fitted on, not through the origins of the same run that were scored before
\* it, and not through the replay that routes it (run_backtest,
\* load_training_horizon, replay_preferred_tail_keys).
RowsAreOriginSafe ==
    /\ made["backtest"] # Absent =>
         \A r \in EvaluationRows[made["backtest"].input] : r.seen <= r.origin
    /\ made["current"] # Absent =>
         \A r \in CurrentRows[made["current"].input] : r.seen <= r.origin

\* A forecast run that publishes is of one publication from its features to its
\* evaluation, its current rows and their classes, although the source pin may
\* move between the commands and two members of the crew may run the same one;
\* outputs that were cleared by hand are left out, since publish asks a current
\* cycle for its rows and not for its publication (run_artifacts.py:712).
LabelIsOneChain ==
    clears = 0 /\ made["bundle"] # Absent =>
        /\ made["bundle"].evaluation = made["bundle"].input
        /\ made["bundle"].current = made["bundle"].input
        /\ made["bundle"].classified = made["bundle"].input

\* Decision 92 as withhold_uncalibrated_cold_start_intervals states it: no
\* interval of a cold series is served beyond the calibrated horizon.
NoUncalibratedInterval ==
    made["bundle"] # Absent =>
        \A p \in made["bundle"].intervals :
            p[2] > CalibratedHorizon
              => Cohort(made["bundle"].current, p[1], DecisionWeek) # "cold"
=============================================================================
