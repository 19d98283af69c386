SPECIFICATION Spec
CONSTANTS
    RADIX_TREE_MAP_SIZE = 2
    MaxHeight = 3
INVARIANT TagsExact
CHECK_DEADLOCK FALSE
