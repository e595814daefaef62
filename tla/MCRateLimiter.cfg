SPECIFICATION Spec
CONSTANTS
    Key = {a, b, c}
    NoBucket = NoBucket
    NoCall = NoCall
    Limit = 2
    Window = 2
    MaxKeys = 2
    MaxTime = 5
SYMMETRY Symmetry
INVARIANTS
    StaleBounded
    SlidingBound
