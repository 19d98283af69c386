SPECIFICATION MCSpec
CONSTANTS
    Zero = Zero
    NONE = NONE
    Threads = {t1, t2}
    Cpus = {c1}
    total_page_count = 9
    PMM_DMA_LIMIT = 4
    PMM_DMA32_LIMIT = 6
    PMM_MAX_ORDER = 3
    PCP_BATCH_SIZE = 2
    PCP_MAX_PAGES = 3
    Size <- MCSize
    UsableRanges <- MCRanges
    Requests <- MCRequests
    MaxRefs = 2
    NoThread = NoThread
SYMMETRY Symmetry
INVARIANTS
    TypeOK
    BlocksInRange
    FramesAccounted
    SpacesKept
\* A process that runs out of memory may stop.
CHECK_DEADLOCK FALSE
