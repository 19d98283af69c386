\* The tree of areas with removals of every kind.
SPECIFICATION Spec
CONSTANTS
    Pages = {1, 2, 3, 4, 5}
    MAX_LEN = 2
    MAX_AREAS = 5
    Careful = FALSE
INVARIANT AreasIndexed
CHECK_DEADLOCK FALSE
