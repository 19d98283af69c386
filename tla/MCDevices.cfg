SPECIFICATION MCSpec
CONSTANTS
    NONE = NONE
    KNET = KNET
    PING = PING
    Cpus = {"c1", "c2"}
    Tasks = {"t1", "t2"}
    Spaces = {"s1", "s2"}
    initial_space = "s1"
    Pages = {1, 2}
    PageOps <- MCPageOps
    FLUSH_MAX = 1
    ACK_VALUES = 4
    MAXCHANGES = 3
INVARIANTS
    
    
    SoundServed
    
    
    
    
PROPERTY
    DiskRequests
\* The operations of a behaviour are bounded.
CHECK_DEADLOCK FALSE
