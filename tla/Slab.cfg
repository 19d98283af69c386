CONSTANTS
    NULL = NULL
    Cpus = {c1, c2}
    THREADS = 1
    Slabs = {s1, s2}
    OBJS_PER_SLAB = 2
    Magazines = {m1, m2, m3, m4, m5}
    MAGAZINE_SIZE = 1
    MAX_EMPTY = 1
SPECIFICATION Spec
SYMMETRY Symmetry
INVARIANTS
    ObjectsOwned
