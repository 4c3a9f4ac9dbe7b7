\* Every run ends and the API need not be called: the system may stop.
SPECIFICATION FairSpec
CONSTANTS
    Jobs = {j1}
    Runs = {r1, r2}
    NoRun = NoRun
    Offered = {"Replace"}
    Procs = {worker, api}
    Worker = worker
    Api = api
    Unlimited = {j1}
    NoEntry = NoEntry
    NoRow = NoRow
    Free = Free
    Syncing = Syncing
    MaxFaults = 0
    MaxCrashes = 0
    MaxClock = 2
PROPERTY CancelTakesEffect
PROPERTY PauseCancelsReplace
CHECK_DEADLOCK FALSE
