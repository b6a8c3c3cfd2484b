SPECIFICATION MCSpec
CONSTANTS
    a1 = a1  a2 = a2  a3 = a3  None = None
    Owners = {"o1", "o2"}  Threads = {a1, a2}  MaxCustodies = 2  MaxLeases = 1  MaxAttachments = 3
    MaxGenerations = 2  MaxCrashes = 1  MaxCorruptions = 1  RecoverAtAnyTime = TRUE
SYMMETRY ActorSymmetry
INVARIANTS
    CustodyHolds
    TerritoriesAreTrue
PROPERTIES
    FencesKept
    
CHECK_DEADLOCK FALSE
