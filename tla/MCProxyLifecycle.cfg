\* One process from any database, as each begins with an empty memory: what holds
\* of it holds of a row of them.  The disk may fail, a crash may come at any
\* moment.  Two signal types give a name two storage keys; a budget of one
\* refuses a stored name; one observation after two purges fills the delete
\* channel.
CONSTANTS
    Names = {n1, n2}
    Signals = {1, 2}
    BatchSize = 2
    DiskMayFail = TRUE
    Workers = {g1}
    QueueSize = 1
    Budgets = {1, 2}
    MaxTasks = 1
    MaxBoots = 1
SPECIFICATION Spec
SYMMETRY NameSymmetry
INVARIANTS UnsavedIsExplained ReadyIsTrue
PROPERTIES OnlyForgottenLeave
CHECK_DEADLOCK FALSE
