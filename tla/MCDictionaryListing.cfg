\* Three names in two shards, read in pages of two, of one, or without a limit.
CONSTANTS
    Names <- MCNames
    ShardCount = 2
    ShardOf <- MCShardOf
    SignalTypes = {"metric", "log"}
    Filters <- MCFilters
    Limits <- MCLimits
    DefaultLimit = 2
    MaxLimit = 2
SPECIFICATION Spec
INVARIANTS WalkIsExact PagesAgree
