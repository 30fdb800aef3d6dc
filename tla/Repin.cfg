CONSTANTS
    r1 = r1
    r2 = r2
    r3 = r3
    p1 = p1
    p2 = p2
    Runs = {r1, r2, r3}
    Eligible = {r1, r2}
    Procs = {p1, p2}
    NParts = 2
    Faults = {}
    HandPinned = HandPinned
    None = None
    MaxCalls = 4
    MaxCrashes = 2
SPECIFICATION Spec
CHECK_DEADLOCK FALSE

    
PROPERTIES
    ImplementsAuthority
