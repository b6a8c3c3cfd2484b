CONSTANTS
    feed = feed  work = work  sink = sink  inbox = inbox  done = done  red = red  blue = blue  r1 = r1  r2 = r2  f1 = f1  n1 = n1  d1 = d1  d2 = d2
    None = None
    Places = {inbox, done}
    Transitions = {feed, work}
    Inputs <- ScopeInputs
    Outputs <- ScopeOutputs
    Timers <- NoTimers
    Guard <- NoGuard
    Declared = {work}
    Impure = {work}
    Keys = {"default"}
    ScopeNames = {n1}
    InitialMarking <- Nothing
    Handled <- Nothing
    Results = {r1, r2}
    Failures = {f1}
    Project <- ScopeProject
    ProjectFailure <- ScopeProjectFailure
    Identities = {d1, d2}
    Payloads <- ScopePayloads
    Targets <- ScopeTargets
    Instants = {0}
    MaxHistory = 16
    MaxGenerations = 2
SPECIFICATION Spec
CHECK_DEADLOCK FALSE
INVARIANTS LifecycleInv ResumeRebuilds TokensAccounted
PROPERTIES RecordsStand
