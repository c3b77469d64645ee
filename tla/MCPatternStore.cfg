\* MCPatternStore
SPECIFICATION Spec
CONSTANTS
    Handlers = {h1, h2}
    a = a
    b = b
    c = c
    Names <- MCNames
    File <- MCFile
    MaxPatterns = 6
    MaxStarts = 2
    MaxRequests = 3
    None = None
SYMMETRY MCSymmetry
INVARIANTS
    SkippedHasCause
    DefaultsComeBack
PROPERTY DeleteTakesComposites
CHECK_DEADLOCK FALSE
