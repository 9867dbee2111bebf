SPECIFICATION AppSpec
CONSTANTS
    Requests = {a, b, c}
    Corrupt = {c}
    BadDims = {}
    Capacity = 1
    BatchMax = 2
    None = None
SYMMETRY Alike
INVARIANTS
    AppTypeOK
    ResponseTruthful
    RejectionsCounted
    NobodyLeftBehind
    PendingIsAwaited
PROPERTIES
    ProbesMonotone
