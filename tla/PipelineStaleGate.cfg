CONSTANTS
    n1 = n1
    n2 = n2
    n3 = n3
    p1 = p1
    p2 = p2
    w1 = w1
    w2 = w2
    r1 = r1
    r2 = r2
    Roots = {r1}
    Snapshots = {n1}
    Profiles = {p1, p2}
    Workers = {w1}
    Rebuilds = {TRUE, FALSE}
    Teams <- OneProcess
    GateAPasses <- AllContents
    Covered <- AllContents
    GateBPasses <- AllContents
    NoFile = NoFile
    Torn = Torn
    NoJob = NoJob
SPECIFICATION Spec
CHECK_DEADLOCK FALSE
INVARIANTS
    PublishedWasGated
