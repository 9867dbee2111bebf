SPECIFICATION FairSpec
CONSTANTS
    Requests = {a, b, c}
    Corrupt = {c}
    BadDims = {}
    Capacity = 2
    BatchMax = 2
    None = None
INVARIANTS
    NoThreadStuck
PROPERTIES
    Served
    WorkerStops
    ShutdownReturns
