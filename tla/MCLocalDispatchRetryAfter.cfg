CONSTANTS
    o1 = o1  o2 = o2  w1 = w1  w2 = w2  q1 = q1  q2 = q2  short = short  long = long
    None = None
    Occurrences = {o1}
    Invocations = {short}
    Policy <- MCPolicy
    Queues = {q1, q2}
    Workers = {w1, w2}
    Serves <- MCServes
    Results = {1}
    Failures <- RetryAfterFailures
    Positions = {1}
    MaxTime = 6
    MaxDispatchTime = 1
SPECIFICATION Spec
CHECK_DEADLOCK FALSE
PROPERTIES RetryAfterHonoured
