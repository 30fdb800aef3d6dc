\* A label of two pipelines: one adoption, one crash, one clearing; apart from
\* it, two operators, three commands, one of them killed, one move of the authorities.
SPECIFICATION ForecastBundlesSpec

CONSTANTS
    p1 = p1
    p2 = p2
    f1 = f1
    f2 = f2
    f3 = f3
    Publications = {p1, p2}
    Forecasts = {f1, f2, f3}
    PublicationOf <- MCPublicationOf
    Accepted = {f1, f2}
    ReplayOf <- MCReplayOf
    NArtifacts = 2
    Operators = {o1, o2}
    Nothing = Nothing
    Torn = Torn
    MaxCalls = 3
    MaxMoves = 1
    MaxKills = 1
    a = a
    b = b
    c = c
    i1 = i1
    i2 = i2
    i3 = i3
    i4 = i4
    Series = {a, b, c}
    Inputs = {i1, i2, i3, i4}
    Market <- MCMarket
    Accurate = {i1}
    DecisionWeek = 16
    Lag = 4
    MaxHorizon = 3
    Embargo = 2
    TrainingOrigins = 5
    HeldBack = 1
    MinOrigins = 2
    Window = 4
    Step = 2
    ScoringOrigins = 2
    DevelopmentOrigins = 1
    CalibratedHorizon = 1
    MinResolved = 1
    Delay = 2
    Crew = {m1, m2}
    Absent = Absent
    MaxAdoptions = 1
    MaxLosses = 1
    MaxClears = 1

INVARIANTS
    
    LabelIsOneChain
    LoadedIsOneBuild
    PublishedIsVerified

SYMMETRY Symmetry

CHECK_DEADLOCK FALSE
