-------------------------- MODULE InMemoryDispatch --------------------------
(***************************************************************************)
(* The two Dispatches of one process: InMemoryDispatch, whose pending work *)
(* a host pumps, and InlineDispatch, which runs the Activity inside        *)
(* dispatch and retries it there.  Both forget everything with the         *)
(* process; the Engine dispatches its outbox again.                        *)
(***************************************************************************)
EXTENDS Integers, Sequences, FiniteSets, SequencesExt

CONSTANTS
    Occurrences,
    Inline,      \* InlineDispatch, else InMemoryDispatch
    MaxAttempts, \* policy.attempts
    MaxOutcomes  \* bound on the outcomes of one behaviour

VARIABLES
    pending,    \* _pending
    completed,  \* _completed, in order
    cancelled,  \* _cancelled
    collected,  \* outcomes the Engine has collected, in order
    dispatched, \* occurrences the Engine has dispatched
    runs        \* how often the Activity of each occurrence ran

vars == <<pending, completed, cancelled, collected, dispatched, runs>>

Init ==
    /\ pending = {} /\ completed = <<>> /\ cancelled = {}
    /\ collected = <<>> /\ dispatched = {}
    /\ runs = [o \in Occurrences |-> 0]

Outcomes == Len(completed) + Len(collected)

\* The fence answers a dispatch of a cancelled occurrence.
Fenced(o) == o \in cancelled

\* Inline: attempts are made until one succeeds, one fails for good, the
\* schedule expires or the policy's last one fails.
RunsInline(o) ==
    /\ \E n \in 1..MaxAttempts : runs' = [runs EXCEPT ![o] = @ + n]
    /\ completed' = Append(completed, o)
    /\ UNCHANGED pending

\* The Engine dispatches an occurrence once per session.
Dispatch(o) ==
    /\ o \notin dispatched /\ Outcomes < MaxOutcomes
    /\ dispatched' = dispatched \cup {o}
    /\ IF Fenced(o) THEN UNCHANGED <<pending, completed, runs>>
       ELSE IF Inline THEN RunsInline(o)
       ELSE pending' = pending \cup {o} /\ UNCHANGED <<completed, runs>>
    /\ UNCHANGED <<cancelled, collected>>

Takes(o) == pending' = pending \ {o}

\* complete and fail, by the host of the pool.  Over a cancelled occurrence
\* every report is kept: the Engine quarantines or acknowledges it.
Ends(o) ==
    /\ ~Inline /\ Outcomes < MaxOutcomes
    /\ \/ o \in cancelled /\ UNCHANGED pending
       \/ o \in pending \ cancelled /\ Takes(o)
    /\ completed' = Append(completed, o)
    /\ runs' = [runs EXCEPT ![o] = @ + 1]
    /\ UNCHANGED <<cancelled, collected, dispatched>>

Retires(o) == pending' = pending \ {o}

\* cancel: pending work is retired, anything else is tombstoned.
Cancel(o) ==
    /\ o \notin cancelled
    /\ cancelled' = cancelled \cup {o}
    /\ Retires(o)
    /\ UNCHANGED <<completed, collected, dispatched, runs>>

\* collect.
Collect ==
    /\ completed # <<>>
    /\ collected' = collected \o completed
    /\ completed' = <<>>
    /\ UNCHANGED <<pending, cancelled, dispatched, runs>>

Next == Collect \/ \E o \in Occurrences : Dispatch(o) \/ Ends(o) \/ Cancel(o)

\* The host pumps what is pending and the Engine collects.
PendingEnds(o) == o \in pending /\ Ends(o)

Spec ==
    /\ Init /\ [][Next]_vars
    /\ WF_vars(Collect)
    /\ \A o \in Occurrences : WF_vars(PendingEnds(o))

-----------------------------------------------------------------------------

\* An occurrence that was never cancelled yields one outcome, however
\* dispatches, reports and collections interleave.
OneOutcome ==
    \A o \in Occurrences \ cancelled :
        Cardinality({i \in DOMAIN (collected \o completed) : (collected \o completed)[i] = o}) <= 1

\* Nothing that is cancelled waits to be run, before or after a redispatch.
CancelledIsRetired == pending \cap cancelled = {}

\* InlineDispatch runs nothing for an occurrence whose scope was ended before
\* it was dispatched.
FencedNotRun ==
    \A o \in cancelled : Inline => runs'[o] = runs[o]

\* A dispatched occurrence that is neither collected nor cancelled; MaxOutcomes
\* bounds what is collected.
Owed(o) == o \in dispatched \ cancelled /\ ~Contains(collected, o) /\ Outcomes < MaxOutcomes
=============================================================================
