CONSTANTS
    feed = feed  work = work  sink = sink  inbox = inbox  done = done  red = red  blue = blue  r1 = r1  r2 = r2  f1 = f1  n1 = n1  d1 = d1  d2 = d2
    None = None
    Places = {inbox, done}
    Transitions = {feed, work}
    Inputs <- RegInputs
    Outputs <- RegOutputs
    Timers <- NoTimers
    Guard <- NoGuard
    Declared = {feed, work}
    Impure = {work}
    Keys = {"default", "extra"}
    ScopeNames = {}
    InitialMarking <- Nothing
    Handled <- RegHandled
    Results = {r1, r2}
    Failures = {f1}
    Project <- RegProject
    ProjectFailure <- RegProjectFailure
    Identities = {d1, d2}
    Payloads <- ScopePayloads
    Targets = {None}
    Instants = {0}
    MaxHistory = 25
    MaxGenerations = 2
SPECIFICATION Spec
CHECK_DEADLOCK FALSE
INVARIANTS ResumeRebuilds TornCommitRefused
