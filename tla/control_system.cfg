SPECIFICATION Spec
CONSTANT Blocks = {a, b, c, d}
SYMMETRY Interchangeable
INVARIANTS AllOrNone RequestedOnce ReadersFollow
