SPECIFICATION FairSpec
CONSTANTS
    feed = feed  work = work  inbox = inbox  done = done  red = red  r1 = r1  f1 = f1  n1 = n1
    d1 = d1  d2 = d2  w1 = w1  w2 = w2  p1 = p1  p2 = p2  p3 = p3  None = None
    Stores = {w1, w2}  Batches <- StoreBatches  Serial = FALSE  JoinedTo = {w1}  MaxRows = 5
    Processes = {p1, p2, p3}  Forks = TRUE  MaxWrites = 3  MaxOpens = 4
INVARIANTS
    StoresHoldOneHistory
    OneWriter
PROPERTIES
    DurableIsResumed
    RequestsSettle
CHECK_DEADLOCK FALSE
