SPECIFICATION Spec
CONSTANTS
    Reqs = {r1, r2}
    Slows = {s1}
    Clears = {d1}
    Tabs = {t1}
    maxEntries = 1
    Buffer = 2
    MaxFaults = 1
INVARIANT TypeOK
INVARIANT StoredAreShown
INVARIANT SlowsAreShown
INVARIANT DoubledOnlyByInit
INVARIANT CountOfList
PROPERTY FollowsFeed
PROPERTY TabsCatchUp
CHECK_DEADLOCK FALSE
