SPECIFICATION MCSpec
CONSTANTS
    Procs = {"p", "q"}
    first = "p"
    Files = {"f"}
    Pipes = {"o"}
    MAX_FDS = 2
    STDIO = 1
    PIPE_SIZE = 1
    Cpus = {0, 1}
    NONE = NONE
    srv = srv
    cl1 = cl1
    cl2 = cl2
INVARIANTS
    FilesCounted
    SocketsPaired
    SocketOwnedOnce
    AcceptServed
    RecvReturns
PROPERTY
    PollServed
\* A process may wait for a message that is never sent.
CHECK_DEADLOCK FALSE
