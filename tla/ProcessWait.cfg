CONSTANTS
    init = init
    NULL = NULL
    Cpus = {c1, c2}
    Users = {init, p, q}
    Killers = {}
    Careful = FALSE
SPECIFICATION FairSpec
PROPERTIES
    ChildAwaited
