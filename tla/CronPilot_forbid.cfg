\* Every run ends and the API need not be called: the system may stop.
SPECIFICATION Spec
CONSTANTS
    Jobs = {j1}
    Runs = {r1, r2}
    NoRun = NoRun
    Offered = {"Forbid"}
    Procs = {worker, api}
    Worker = worker
    Api = api
    Unlimited = {}
    NoEntry = NoEntry
    NoRow = NoRow
    Free = Free
    Syncing = Syncing
    MaxFaults = 0
    MaxCrashes = 0
    MaxClock = 1
SYMMETRY RunSymmetry
INVARIANT ForbidNoOverlap
CHECK_DEADLOCK FALSE
