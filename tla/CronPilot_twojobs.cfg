\* Every run ends and the API need not be called: the system may stop.
SPECIFICATION Spec
CONSTANTS
    Jobs = {j1, j2}
    Runs = {r1}
    NoRun = NoRun
    Offered = {"Replace"}
    Procs = {worker, api}
    Worker = worker
    Api = api
    Unlimited = {}
    NoEntry = NoEntry
    NoRow = NoRow
    Free = Free
    Syncing = Syncing
    MaxFaults = 1
    MaxCrashes = 1
    MaxClock = 2
SYMMETRY RunSymmetry
INVARIANT CronOwned
INVARIANT MissedOnlyByRace
CHECK_DEADLOCK FALSE
