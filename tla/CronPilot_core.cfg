\* Every run ends and the API need not be called: the system may stop.
SPECIFICATION Spec
CONSTANTS
    Jobs = {j1}
    Runs = {r1, r2}
    NoRun = NoRun
    Offered = {"Allow", "Forbid", "Replace"}
    Procs = {worker, api}
    Worker = worker
    Api = api
    Unlimited = {}
    NoEntry = NoEntry
    NoRow = NoRow
    Free = Free
    Syncing = Syncing
    MaxFaults = 1
    MaxCrashes = 1
    MaxClock = 2
SYMMETRY RunSymmetry
INVARIANT TypeOK
INVARIANT ReplaceExclusive
INVARIANT CronOwned
INVARIANT MissedOnlyByRace
INVARIANT OverlapOnlyByRace
INVARIANT StrandedByFaults
CHECK_DEADLOCK FALSE
