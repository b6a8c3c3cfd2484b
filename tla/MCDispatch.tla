----------------------------- MODULE MCDispatch -----------------------------
(***************************************************************************)
(* The in-memory and Postgres Dispatch, the ZeroMQ gateway and the         *)
(* workers, each on its own small instance.  MCInit chooses the component, *)
(* so one run explores all of them and their state spaces add up.  The     *)
(* Postgres queue is the module's own variables, which rest while another  *)
(* component runs; the others share x1 to x15.                             *)
(***************************************************************************)
EXTENDS Integers, Sequences, FiniteSets, AbsurdDispatch

CONSTANTS
    o1, o2, o3, qa, qb, w1, w2, v1

VARIABLES
    part,   \* the component under check, fixed by MCInit
    x1, x2, x3, x4, x5, x6, x7, x8, x9, x10, x11, x12, x13, x14, x15   \* its variables, in the order of its declaration

slots ==
    <<x1, x2, x3, x4, x5, x6, x7, x8, x9, x10, x11, x12, x13, x14, x15>>


\* The in-memory Dispatch over a thread pool, and inline.
Pool == INSTANCE InMemoryDispatch WITH
    Occurrences <- {o1, o2, o3}, Inline <- FALSE, MaxAttempts <- 2, MaxOutcomes <- 5,
    pending <- x1, completed <- x2, cancelled <- x3, collected <- x4, dispatched <- x5, runs <- x6

InlineDispatch == INSTANCE InMemoryDispatch WITH
    Occurrences <- {o1, o2, o3}, Inline <- TRUE, MaxAttempts <- 2, MaxOutcomes <- 5,
    pending <- x1, completed <- x2, cancelled <- x3, collected <- x4, dispatched <- x5, runs <- x6

\* The ZeroMQ gateway between workers and Local Dispatch.
ZeroMQ == INSTANCE ZeroMQTransport WITH
    Clients <- {w1, w2}, MaxProviders <- 1, Permits <- 2, MaxSends <- 3, MaxRestarts <- 1,
    custody <- x1, up <- x2, draining <- x3, providers <- x4, born <- x5, net <- x6, replies <- x7,
    calls <- x8, held <- x9, closed <- x10, acked <- x11, refused <- x12, sends <- x13,
    claims <- x14, restarts <- x15

\* The blocking worker and the asyncio worker.
Blocking == INSTANCE Worker WITH
    Threads <- {o1, o2}, Attempts <- {w1, w2, v1}, Limits <- {0, 1, 2}, driver <- x1, budget <- x2,
    stopped <- x3, closed <- x4, releases <- x5, held <- x6, claimed <- x7, ended <- x8

Async == INSTANCE AsyncWorker WITH
    Slots <- {0, 1}, Attempts <- {w1, w2, v1}, available <- x1, at <- x2, picked <- x3, free <- x4,
    task <- x5, beating <- x6, stop <- x7, failure <- x8, cancelled <- x9, phase <- x10,
    reported <- x11

\* A component with fewer variables leaves the others unused.
Unused(n) ==
    /\ n < 6 =>
          /\ x1 = "unused" /\ x2 = "unused" /\ x3 = "unused" /\ x4 = "unused" /\ x5 = "unused"
          /\ x6 = "unused"
    /\ n < 8 => x7 = "unused" /\ x8 = "unused"
    /\ n < 11 => x9 = "unused" /\ x10 = "unused" /\ x11 = "unused"
    /\ n < 15 => x12 = "unused" /\ x13 = "unused" /\ x14 = "unused" /\ x15 = "unused"

Rest(n) ==
    /\ n < 6 => UNCHANGED <<x1, x2, x3, x4, x5, x6>>
    /\ n < 8 => UNCHANGED <<x7, x8>>
    /\ n < 11 => UNCHANGED <<x9, x10, x11>>
    /\ n < 15 => UNCHANGED <<x12, x13, x14, x15>>

\* The initial queue while another component runs.
Resting == Init /\ schema = "pinned" /\ \A o \in Occurrences : route[o] = qa

MCInit ==
    \/ part = "absurd" /\ Init /\ Unused(0)
    \/ part = "pool" /\ Pool!Init /\ Unused(6) /\ Resting
    \/ part = "inline" /\ InlineDispatch!Init /\ Unused(6) /\ Resting
    \/ part = "zeromq" /\ ZeroMQ!Init /\ Resting
    \/ part = "worker" /\ Blocking!Init /\ Unused(8) /\ Resting
    \/ part = "async" /\ Async!Init /\ Unused(11) /\ Resting

MCNext ==
    \/ part = "absurd" /\ Next /\ Rest(0) /\ UNCHANGED part
    \/ part = "pool" /\ Pool!Next /\ Rest(6) /\ UNCHANGED <<part, vars>>
    \/ part = "inline" /\ InlineDispatch!Next /\ Rest(6) /\ UNCHANGED <<part, vars>>
    \/ part = "zeromq" /\ ZeroMQ!Next /\ UNCHANGED <<part, vars>>
    \/ part = "worker" /\ Blocking!Next /\ Rest(8) /\ UNCHANGED <<part, vars>>
    \/ part = "async" /\ Async!Next /\ Rest(11) /\ UNCHANGED <<part, vars>>

MCSpec == MCInit /\ [][MCNext]_<<part, slots, vars>>

\* An occurrence has one holder and one outcome, and it stands.  The in-memory
\* Dispatch never yields two outcomes, and nothing of a fenced occurrence is
\* pending or run again (dispatch/__init__.py).  The gateway gives a claimed
\* attempt to one client, replays no claim, refuses no live attempt, keeps one
\* provider per client within its limit, and an acknowledged report is the
\* outcome custody holds, whatever message or answer is lost, repeated or late
\* (zeromq.py).
OutcomeStands ==
    /\ [](/\ part = "pool" => Pool!OneOutcome /\ Pool!CancelledIsRetired
          /\ part = "inline" => InlineDispatch!OneOutcome
          /\ part = "zeromq" =>
                /\ ZeroMQ!AttemptHasOneClient /\ ZeroMQ!ClaimsAreNotReplayed /\ ZeroMQ!NoFalseRefusal
                /\ ZeroMQ!ProvidersAreBounded /\ ZeroMQ!AcknowledgedIsRecorded)
    /\ [][/\ part = "inline" => InlineDispatch!FencedNotRun
          /\ part = "zeromq" => ZeroMQ!CompletionKept]_<<part, slots>>

\* A worker that stops abandons nothing it claimed: every attempt is reported
\* or still held, its slot is neither lost nor shared, no heartbeat outlives
\* its report, and the client is closed once, after the last attempt
\* (motus/worker/__init__.py).
NothingAbandoned ==
    /\ part = "worker" => Blocking!NothingAbandoned /\ Blocking!ClosedIsClosed
    /\ part = "async" => Async!NothingAbandoned /\ Async!SlotsArePartitioned /\ Async!NoLateHeartbeat
=============================================================================
