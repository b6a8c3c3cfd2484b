SPECIFICATION MCSpec
CONSTANTS
    a1 = a1  a2 = a2  b1 = b1  b2 = b2  None = None
    Processes = {"s", "t", "r"}  Sources = {"s1", "s2"}  DeliveryIds = {"d1"}  Payloads = {"x1", "x2"}
    Services = {}  Capabilities = {}  Credentials = {"k1"}  Connections <- Lines
    NetSources = {"s1"}  Limit = 2  MaxCrashes = 1
    Proposals <- EffectProposals  Targets = {"target"}  GatewayCalls <- EffectCalls  MaxHead = 1
    MaxEpoch = 2
SYMMETRY PairSymmetry
INVARIANTS
    MailStands
    EffectsStand
    GrantsAreNeeded
PROPERTIES
    RecordsStay
    
    ThreadsMoveForward
    ProjectionFollowsHistory
CHECK_DEADLOCK FALSE
