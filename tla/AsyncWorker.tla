---------------------------- MODULE AsyncWorker ----------------------------
(***************************************************************************)
(* The AsyncWorker: one coordinator claims into slots, a task per attempt  *)
(* runs the Activity, closes its context and reports, and run owns both to *)
(* the end whoever cancels it.  An Activity's own children may heartbeat   *)
(* until the context is closed.  Tasks interleave at every await; a lane   *)
(* serialises the provider calls of its slot.                              *)
(***************************************************************************)
EXTENDS Integers, Sequences, FiniteSets, FiniteSetsExt

CONSTANTS
    Slots,       \* 0..concurrency-1
    Attempts,    \* what the Dispatch has to hand out
    None

VARIABLES
    available,   \* attempts nobody claimed
    at,          \* the coordinator's await: top, claim, slots, poll, drain, raise, ended
    picked,      \* the slot taken for the claim in progress, or None
    free,        \* free
    task,        \* active: [slot -> [attempt, state]], or None
    beating,     \* slots with a heartbeat in the provider
    stop,        \* _stop
    failure,     \* the coordinator ends with an error
    cancelled,   \* run was cancelled
    phase,       \* of run: running, closing or returned
    reported     \* attempts reported, accepted or refused

vars == <<available, at, picked, free, task, beating, stop, failure, cancelled, phase, reported>>
outer == <<cancelled, phase>>

Init ==
    /\ available = Attempts
    /\ at = "top" /\ picked = None /\ free = Slots
    /\ task = [s \in Slots |-> None] /\ beating = {}
    /\ stop = FALSE /\ failure = FALSE
    /\ cancelled = FALSE /\ phase = "running"
    /\ reported = {}

Active == {s \in Slots : task[s] # None}
Ended == {s \in Active : task[s].state \in {"done", "refused"}}
Refused == {s \in Active : task[s].state = "refused"}

\* _settled_slots over the tasks that are done; the first refused report in
\* the order of admission raises, and ends the loop.
Settle(slots) ==
    \/ /\ Refused = {}
       /\ free' = slots \cup Ended
       /\ task' = [s \in Slots |-> IF s \in Ended THEN None ELSE task[s]]
       /\ UNCHANGED <<stop, failure>>
    \/ \E s \in Refused : \E before \in SUBSET (Ended \ Refused) :
          /\ free' = slots \cup before
          /\ task' = [x \in Slots |-> IF x \in before \cup {s} THEN None ELSE task[x]]
          /\ stop' = TRUE /\ failure' = TRUE

\* The top of the loop: settle, then wait for a task or start a claim.
Top ==
    /\ at = "top"
    /\ IF stop
         THEN at' = "drain" /\ UNCHANGED <<picked, free, task, stop, failure>>
         ELSE \/ /\ Refused = {} /\ free \cup Ended # {}
                 /\ picked' = Min(free \cup Ended)
                 /\ free' = (free \cup Ended) \ {picked'}
                 /\ task' = [s \in Slots |-> IF s \in Ended THEN None ELSE task[s]]
                 /\ at' = "claim" /\ UNCHANGED <<stop, failure>>
              \/ /\ Refused = {} /\ free \cup Ended = {}
                 /\ at' = "slots" /\ UNCHANGED <<picked, free, task, stop, failure>>
              \/ Refused # {} /\ Settle(free) /\ at' = "raise" /\ UNCHANGED picked
    /\ UNCHANGED <<available, beating, reported, outer>>

\* asyncio.wait over the active tasks.
SlotFrees ==
    /\ at = "slots" /\ Ended # {}
    /\ Settle(free)
    /\ at' = IF failure' THEN "raise" ELSE "top"
    /\ UNCHANGED <<available, picked, beating, reported, outer>>

\* The claim answers with an attempt, with none, or raises.
Claimed(a) ==
    /\ at = "claim"
    /\ available' = available \ {a}
    /\ task' = [s \in Slots |-> IF s = picked THEN [attempt |-> a, state |-> "running"] ELSE task[s]]
    /\ picked' = None /\ at' = "top"
    /\ UNCHANGED <<free, beating, stop, failure, reported, outer>>

NothingClaimed ==
    /\ at = "claim"
    /\ Settle(free \cup {picked})
    /\ at' = IF failure' THEN "raise" ELSE IF stop THEN "top" ELSE "poll"
    /\ picked' = None
    /\ UNCHANGED <<available, beating, reported, outer>>

CallFails ==
    /\ at \in {"claim", "poll"}
    /\ at' = "raise" /\ stop' = TRUE /\ failure' = TRUE /\ picked' = None
    /\ UNCHANGED <<available, free, task, beating, reported, outer>>

\* The provider's wait returns.
Polled ==
    /\ at = "poll" /\ at' = "top"
    /\ UNCHANGED <<available, picked, free, task, beating, stop, failure, reported, outer>>

\* gather: admitted work ends before the coordinator does.
Drained ==
    /\ at \in {"drain", "raise"}
    /\ Active = Ended
    /\ at' = "ended"
    /\ failure' = (failure \/ Refused # {})
    /\ UNCHANGED <<available, picked, free, task, beating, stop, reported, outer>>

Becomes(s, state) == task' = [task EXCEPT ![s].state = state]
Is(s, state) == task[s] # None /\ task[s].state = state
coordinator == <<available, at, picked, free, stop, failure>>

\* The Activity returns, raises or is cancelled; the context starts to close.
ActivityEnds(s) ==
    /\ Is(s, "running")
    /\ Becomes(s, "closing")
    /\ UNCHANGED <<coordinator, beating, reported, outer>>

\* A heartbeat enters while the context is open, one at a time.
MayBeat(s) == task[s].state = "running"

Heartbeat(s) ==
    /\ s \in Active \ beating
    /\ MayBeat(s)
    /\ beating' = beating \cup {s}
    /\ UNCHANGED <<coordinator, task, reported, outer>>

HeartbeatReturns(s) ==
    /\ s \in beating
    /\ beating' = beating \ {s}
    /\ UNCHANGED <<coordinator, task, reported, outer>>

\* The close takes the heartbeat lock; then complete or fail is called.
ContextClosed(s) ==
    /\ Is(s, "closing") /\ s \notin beating
    /\ Becomes(s, "reporting")
    /\ UNCHANGED <<coordinator, beating, reported, outer>>

\* The report is accepted, or refused, which the task raises.
Reported(s) ==
    /\ Is(s, "reporting")
    /\ Becomes(s, "done") \/ Becomes(s, "refused")
    /\ reported' = reported \cup {task[s].attempt}
    /\ UNCHANGED <<coordinator, beating, outer>>

\* stop, from any thread.
Stop ==
    /\ ~stop /\ phase = "running"
    /\ stop' = TRUE
    /\ UNCHANGED <<available, at, picked, free, task, beating, failure, reported, outer>>

\* Cancelling run stops admission and leaves the coordinator to its end.
Cancel ==
    /\ ~cancelled /\ phase = "running"
    /\ cancelled' = TRUE /\ stop' = TRUE
    /\ UNCHANGED <<available, at, picked, free, task, beating, failure, reported, phase>>

\* run owns the coordinator, then closes the access.
Close ==
    /\ phase = "running" /\ at = "ended"
    /\ phase' = "closing"
    /\ UNCHANGED <<available, at, picked, free, task, beating, stop, failure, reported, cancelled>>

Return ==
    /\ phase = "closing"
    /\ phase' = "returned"
    /\ UNCHANGED <<available, at, picked, free, task, beating, stop, failure, reported, cancelled>>

Loop == Top \/ SlotFrees \/ Polled \/ Drained \/ NothingClaimed \/ CallFails \/ \E a \in available : Claimed(a)
TaskSteps == \E s \in Slots : ActivityEnds(s) \/ ContextClosed(s) \/ Reported(s)

Next ==
    \/ Loop \/ TaskSteps
    \/ \E s \in Slots : Heartbeat(s) \/ HeartbeatReturns(s)
    \/ Stop \/ Cancel \/ Close \/ Return

\* The event loop runs what is ready, provider calls return, Activities end.
Fairness ==
    /\ WF_vars(Loop) /\ WF_vars(Close) /\ WF_vars(Return)
    /\ \A s \in Slots :
          /\ WF_vars(ActivityEnds(s)) /\ WF_vars(Reported(s))
          /\ WF_vars(ContextClosed(s)) /\ WF_vars(HeartbeatReturns(s))

Spec == Init /\ [][Next]_vars /\ Fairness

-----------------------------------------------------------------------------
(* Properties. *)

\* Every slot is free, taken for a claim or busy, never two of them: an
\* attempt never shares its provider lane.
SlotsArePartitioned ==
    /\ free \cap Active = {}
    /\ picked # None => picked \notin free \cup Active
    /\ at \in {"top", "slots", "poll"} => free \cup Active = Slots

\* Once run closes the custody access, every attempt it claimed was reported,
\* although it was cancelled, a claim raised or another report was refused.
NothingAbandoned == phase # "running" => Attempts \ available \subseteq reported

\* No heartbeat of an attempt is in the provider once its report has started.
NoLateHeartbeat == \A s \in beating : task[s] # None /\ task[s].state \in {"running", "closing"}

\* A refused report is never swallowed: its slot is cleared with the error that
\* run returns.
RefusalSurfaces == \A s \in Slots : Is(s, "refused") => Is(s, "refused")' \/ failure'

\* A worker told to stop, by a caller, a cancellation or an error, whose run
\* has not returned.
Owed == stop /\ phase # "returned"
=============================================================================
