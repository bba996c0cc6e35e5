\* Two workers and the sweeper over three names in two shards, for a budget of one
\* and TTLs of one tick, in a process that starts at tick one.
CONSTANTS
    a = a
    b = b
    c = c
    t1 = t1
    s1 = s1
    s2 = s2
    Signals = {s1, s2}
    ShardCount = 2
    ShardOf <- MCShardOf
    Types = {t1}
    Workers = {w1, w2}
    Names = {a, b, c}
    Stores <- MCStores
    Start = 1
    Budget = 1
    StaleTTL = 1
    PurgeTTL = 1
    Delay = 1
    MaxTime = 4
    MaxUpserts = 2
SPECIFICATION FairSpec
INVARIANTS CountAccounting BudgetOvershoot MetricsBalance LastSeenLag StaleIsOld
PROPERTIES PurgedWasIdle IdleIsPurged
CHECK_DEADLOCK FALSE
