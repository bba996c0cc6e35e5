\* Two workers and one reader; two attributes for a budget of one.
CONSTANTS
    x = x
    y = y
    z = z
    Attrs = {a1, a2}
    Values = {x, y, z}
    Workers = {w1, w2}
    GlobalBudget = 1
    PerAttrCap = 1
    K = 1
    Depth = 2
    Width = 2
    Hash <- MCHash
    Registers = {x, y, z}
    Register <- MCRegister
    MaxCalls = 4
SPECIFICATION Spec
INVARIANTS AttrsWithinBudget SketchNeverUndercounts ExactUpToCap TopIsTop
CHECK_DEADLOCK FALSE
