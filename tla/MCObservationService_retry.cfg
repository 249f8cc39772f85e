SPECIFICATION Spec
CONSTANTS
    Requests = {r1, r2}
    Schedule = sched
    Chans = {c1, c2, c3}
    NoChan = NoChan
    Failures = {"unavailable", "failed"}
SYMMETRY MCSymmetry
INVARIANT
    FailureAwaitsRetry
