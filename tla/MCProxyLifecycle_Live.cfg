\* The same system under fairness: one name with two storage keys, observed twice,
\* so that its deletion may fill a batch, meet a full channel or a failing disk.
CONSTANTS
    Names = {n1}
    Signals = {1, 2}
    BatchSize = 2
    DiskMayFail = TRUE
    Workers = {g1}
    QueueSize = 1
    Budgets = {1}
    MaxTasks = 2
    MaxBoots = 1
SPECIFICATION FairSpec
PROPERTIES PurgeReachesStore SignalStops
CHECK_DEADLOCK FALSE
