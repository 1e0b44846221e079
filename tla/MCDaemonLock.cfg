SPECIFICATION Spec
CONSTANTS
    Proc = {p1, p2, p3, p4}
SYMMETRY Symmetry
\* Every process ends.
CHECK_DEADLOCK FALSE
INVARIANTS Exclusive RefusedByHolder
