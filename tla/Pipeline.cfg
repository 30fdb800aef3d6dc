CONSTANTS
    n1 = n1
    n2 = n2
    n3 = n3
    p1 = p1
    p2 = p2
    w1 = w1
    w2 = w2
    r1 = r1
    r2 = r2
    Roots = {r1, r2}
    Snapshots = {n1, n2, n3}
    Profiles = {p1, p2}
    Workers = {w1, w2}
    Rebuilds = {TRUE, FALSE}
    Teams <- AloneOrPair
    GateAPasses <- AllButThird
    Covered <- AllButPartial
    GateBPasses <- AllButLast
    NoFile = NoFile
    Torn = Torn
    NoJob = NoJob
SPECIFICATION Spec
CHECK_DEADLOCK FALSE
PROPERTIES
    RebuildPublishesItsInput
    PrunedAfterEvidence
    ResumeNeverWedges
    PublicationImmutable
