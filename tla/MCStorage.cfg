SPECIFICATION Spec
CONSTANT NONE = NONE
INVARIANTS
    FilesKept
    
    
    
    PathsCanonical
PROPERTIES
    
    IdsKept
\* The operations of a behaviour are bounded.
CHECK_DEADLOCK FALSE
