SPECIFICATION Spec
CONSTANTS
    s1 = s1
    s2 = s2
    Slots = {s1, s2}
    a1 = a1
    a2 = a2
    Accounts = {a1, a2}
    h1 = h1
    h2 = h2
    Hashes = {h1, h2}
    p1 = p1
    p2 = p2
    p3 = p3
    Pids = {p1, p2}
    Durations = {0, 1}
    Year = 2
    Week = 1
    MaxYears = 2
    PostCounter = 1
    FreeOrNot = {FALSE}
    Garbage = {FALSE}
    ExpireBackups = 0
    ExpirePayments = 1
    MaxTime = 3
    MaxArrivals = 3
CHECK_DEADLOCK FALSE
INVARIANT FreshIdentifier
SYMMETRY Symmetry
