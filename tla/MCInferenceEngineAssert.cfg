SPECIFICATION Spec
CONSTANTS
    Requests = {a, b, c, d}
    Corrupt = {c}
    BadDims = {d}
    Capacity = 2
    BatchMax = 3
    None = None
SYMMETRY Alike
INVARIANT AssertionHolds
