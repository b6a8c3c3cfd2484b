--------------------------- MODULE MCLocalDispatch ---------------------------
(* Small instances of LocalDispatch for TLC. *)
EXTENDS LocalDispatch

CONSTANTS o1, o2, w1, w2, q1, q2, short, long

\* short: two attempts, no aggregate deadline.
\* long: two attempts, a per-attempt and an aggregate deadline, backoff.
MCPolicy ==
    [inv \in Invocations |->
        IF inv = short
          THEN [attempts |-> 2, heartbeat |-> 2, delay |-> Backoff(2, 1, 2, 3),
                startToClose |-> None, scheduleToClose |-> None]
          ELSE [attempts |-> 2, heartbeat |-> 2, delay |-> Backoff(2, 0, 1, 0),
                startToClose |-> 3, scheduleToClose |-> 4]]

MCServes == [w \in Workers |-> IF w = w1 THEN Queues ELSE {q1}]

MCFailures ==
    {[retryable |-> TRUE, legacy |-> FALSE, retryAfter |-> 0],
     [retryable |-> FALSE, legacy |-> FALSE, retryAfter |-> 0]}

RetryAfterFailures == {[retryable |-> TRUE, legacy |-> FALSE, retryAfter |-> 3]}
=============================================================================
