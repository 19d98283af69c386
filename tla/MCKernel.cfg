SPECIFICATION MCSpec
CONSTANTS
    Threads = {t1, t2, t3, t4}
    NONE = NONE
    init = init
    user1 = user1
    user2 = user2
INVARIANTS
    CountIsHolders
    WaitersCounted
    BlocksFit
    TreesExact
    CharactersPassed
    WaitersServed
    
PROPERTIES
    FreeWakesSleepers
    IsByteStream
    DeadNeverRunAgain
\* Stores, bytes and characters are bounded, and every process may be killed.
CHECK_DEADLOCK FALSE
