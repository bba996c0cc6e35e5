\* Two handlers and two workers over a ring and a channel of two; four tasks
\* overflow both.
CONSTANTS
    Capacity = 2
    Writers = {w1, w2}
    Workers = {g1, g2}
    MaxTasks = 4
SPECIFICATION Spec
INVARIANTS LossesAreCounted EachTaskInOnePlace
PROPERTIES RingEvictsOldest DeliveryRefusesNewest SentIsProcessed CancelledStops
CHECK_DEADLOCK FALSE
