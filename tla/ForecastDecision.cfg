SPECIFICATION TrainingSpec
CONSTANTS
    a = a
    b = b
    c = c
    i1 = i1
    i2 = i2
    i3 = i3
    i4 = i4
    Series = {a, b, c}
    Inputs = {i1, i2, i3, i4}
    Market <- MCMarket
    Accurate = {i1}
    DecisionWeek = 16
    Lag = 4
    MaxHorizon = 3
    Embargo = 2
    TrainingOrigins = 5
    HeldBack = 1
    MinOrigins = 2
    Window = 4
    Step = 2
    ScoringOrigins = 2
    DevelopmentOrigins = 1
    CalibratedHorizon = 1
    MinResolved = 1
    Delay = 2
    Crew = {m1}
    Absent = Absent
    MaxAdoptions = 0
    MaxLosses = 0
    MaxClears = 0
INVARIANTS
    NoUncalibratedInterval
CHECK_DEADLOCK FALSE
