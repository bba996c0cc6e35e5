\* kubernetes.md:214: the buffer is drained and the dictionary persisted before
\* terminating.
CONSTANTS
    Names = {n1, n2}
    Signals = {1, 2}
    BatchSize = 1
    DiskMayFail = FALSE
    Workers = {g1}
    QueueSize = 1
    Budgets = {2}
    MaxTasks = 2
    MaxBoots = 2
SPECIFICATION Spec
INVARIANTS GracefulShutdown
CHECK_DEADLOCK FALSE
