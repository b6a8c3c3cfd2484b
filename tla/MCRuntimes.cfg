SPECIFICATION MCSpec
CONSTANTS
    Subscription = TRUE  Closers = {"c1"}  CallIds = {"t1", "t2"}  MaxTools = 2
    Batches <- ClaudeBatches  MaxAppends = 2  MaxEntries = 3  Seed <- ClaudeSeed  Calls = {}  MaxHooks = 0
    MaxEvents = 3
    PiFaults = {"materialize", "mismatch", "credential", "root", "launch", "activate", "pipe", "exit", "close", "remove",
     "admit", "checkpoint", "checkpoint-unverified", "store", "release"}
    ClaudeFaults = {"materialize", "mismatch", "root", "launch", "connect", "stream", "interrupt", "disconnect", "admit",
     "store", "remove", "release", "session"}
    CodexFaults = {"binding", "materialize", "mismatch", "activate", "import", "stage", "exec", "collect", "export", "store",
     "delete", "admit", "checkpoint", "scrub", "cleanup", "release"}
    AmpFaults = {"event", "store"}
INVARIANTS
    PublicationFollowsOutcome
    EvidenceIsTrue
    CrossesOnce
PROPERTIES
    ImplementsContract
    
CHECK_DEADLOCK FALSE
