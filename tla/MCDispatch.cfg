SPECIFICATION MCSpec
CONSTANTS
    o1 = o1  o2 = o2  o3 = o3  qa = qa  qb = qb  w1 = w1  w2 = w2  v1 = v1  None = None
    Occurrences = {o1}  Queues = {qa, qb}  Workers = {w1, w2}  Values = {v1}  MaxAttempts = 2
    MaxCrashes = 2
INVARIANTS
    TaskCustody
    NothingAbandoned
PROPERTIES
    OverStands
    OutcomeStands
CHECK_DEADLOCK FALSE
