SPECIFICATION ValidationSpec
CONSTANTS
    Types = {a, b, c, d}
SYMMETRY Symmetric
CHECK_DEADLOCK FALSE
INVARIANTS
    ValidationAgrees
