CONSTANTS
    feed = feed  work = work  sink = sink  inbox = inbox  done = done  red = red  blue = blue  r1 = r1  r2 = r2  f1 = f1  n1 = n1  d1 = d1  d2 = d2
    None = None
    Places = {inbox, done}
    Transitions = {feed, work, sink}
    Inputs <- TimerInputs
    Outputs <- TimerOutputs
    Timers <- TimerTimers
    Guard <- NoGuard
    Declared = {}
    Impure = {}
    Keys = {"default"}
    ScopeNames = {n1}
    InitialMarking <- TimerInitial
    Handled <- Nothing
    Results = {}
    Failures = {f1}
    Project <- Nothing
    ProjectFailure <- Nothing
    Identities = {d1}
    Payloads <- TimerPayloads
    Targets <- TimerTargets
    Instants = {0, 1, 2, 3}
    MaxHistory = 14
    MaxGenerations = 1
SPECIFICATION Spec
CHECK_DEADLOCK FALSE
INVARIANTS ResumeRebuilds TokensAccounted
 
