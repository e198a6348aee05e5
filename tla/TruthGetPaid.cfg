SPECIFICATION Spec
CONSTANTS
    r1 = r1
    r2 = r2
    Slots = {r1, r2}
    p1 = p1
    p2 = p2
    Pids = {p1, p2}
    Methods <- OnlyPaidSms
    Inputs <- MCInputs
    Codes = {1, 3, 5}
    OfferLifetime = 2
    PayCounter = 2
    AnswerTries = 1
    AnswerValidity = 3
    StartTime = 3
    MaxTime = 4
    MaxArrivals = 2
    MaxRestarts = 0
    MaxWires = 1
CHECK_DEADLOCK FALSE
INVARIANT PaidContinues
