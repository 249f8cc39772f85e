SPECIFICATION Spec
CONSTANTS
    Requests = {r1, r2}
    Schedule = sched
    Chans = {c1, c2}
    NoChan = NoChan
    Failures = {"failed"}
INVARIANTS
    TypeOK
    SingleScan
    FreshOutcome
    OnlyShutdownAborts
    DailyOnlyAfterSuccess
PROPERTIES
    ContractSteps
    RefreshReturns
    ScansGoOn
    ScheduleStops
    KeepsContract
