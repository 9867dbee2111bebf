SPECIFICATION AppFairSpec
CONSTANTS
    Requests = {a, c}
    Corrupt = {c}
    BadDims = {}
    Capacity = 1
    BatchMax = 2
    None = None
INVARIANTS
    NoClientStuck
PROPERTIES
    EveryClientAnswered
    SaturationPasses
    DrainCompletes
