------------------------------- MODULE Worker -------------------------------
(***************************************************************************)
(* The synchronous Worker: threads may call run, run_available, close and  *)
(* stop on it at any time, and the driving lock admits one of them.  The   *)
(* Dispatch behind it hands out attempts and may refuse a report; it is    *)
(* modelled by what the Worker sees of it.                                 *)
(***************************************************************************)
EXTENDS Integers, FiniteSets

CONSTANTS
    Threads,
    Attempts,   \* what the Dispatch has to hand out
    Limits,     \* limits a caller of run_available may pass
    None

VARIABLES
    driver,       \* the thread that holds _driving, or None
    budget,       \* claims run_available may still make; -1 for run
    stopped,      \* _stop
    closed,       \* _closed
    releases,     \* how often the provider was closed
    held,         \* the attempt being executed, or None
    claimed,      \* attempts ever claimed
    ended         \* attempts reported, refused, or left by an interrupt

vars == <<driver, budget, stopped, closed, releases, held, claimed, ended>>

Init ==
    /\ driver = None /\ budget = 0
    /\ stopped = FALSE /\ closed = FALSE /\ releases = 0
    /\ held = None /\ claimed = {} /\ ended = {}

\* _start_driving; a refused caller changes nothing.
MayDrive == driver = None /\ ~closed

Run(t) ==
    /\ MayDrive
    /\ driver' = t /\ budget' = -1
    /\ UNCHANGED <<stopped, closed, releases, held, claimed, ended>>

RunAvailable(t, limit) ==
    /\ MayDrive
    /\ driver' = t /\ budget' = limit
    /\ UNCHANGED <<stopped, closed, releases, held, claimed, ended>>

\* The condition of the drain loop.
MayClaim == ~stopped /\ budget # 0

\* claim answers with an attempt, which is executed at once.
Claim(a) ==
    /\ driver # None /\ held = None
    /\ MayClaim
    /\ held' = a /\ claimed' = claimed \cup {a}
    /\ UNCHANGED <<driver, budget, stopped, closed, releases, ended>>

\* Mutant of Report: a refused report keeps the attempt out of the books.
ReportForgets ==
    /\ held # None
    /\ ended' \in {ended, ended \cup {held}} /\ held' = None
    /\ budget' = IF budget > 0 THEN budget - 1 ELSE budget
    /\ UNCHANGED <<driver, stopped, closed, releases, claimed>>

\* complete or fail; a report that is refused is announced and left.
Report ==
    /\ held # None
    /\ ended' = ended \cup {held} /\ held' = None
    /\ budget' = IF budget > 0 THEN budget - 1 ELSE budget
    /\ UNCHANGED <<driver, stopped, closed, releases, claimed>>

\* _close.
CloseProvider == closed' = TRUE /\ releases' = IF closed THEN releases ELSE releases + 1

\* Mutant of Return: run leaves only when the queue is drained.
ReturnDrained ==
    /\ driver # None /\ held = None
    /\ budget = -1 => stopped /\ claimed = Attempts
    /\ driver' = None
    /\ IF budget = -1 THEN CloseProvider ELSE UNCHANGED <<closed, releases>>
    /\ UNCHANGED <<budget, stopped, held, claimed, ended>>

\* run ends when it sees the stop; run_available when nothing more is
\* claimable or its limit is reached.  Only run closes the provider.
Return ==
    /\ driver # None /\ held = None
    /\ budget = -1 => stopped
    /\ driver' = None
    /\ IF budget = -1 THEN CloseProvider ELSE UNCHANGED <<closed, releases>>
    /\ UNCHANGED <<budget, stopped, held, claimed, ended>>

\* An interrupt, or a claim that raises, passes through: the attempt in hand
\* is left to its lease.
Raises ==
    /\ driver # None
    /\ ended' = IF held = None THEN ended ELSE ended \cup {held}
    /\ held' = None /\ driver' = None
    /\ IF budget = -1 THEN CloseProvider ELSE UNCHANGED <<closed, releases>>
    /\ UNCHANGED <<budget, stopped, claimed>>

\* close, refused while the Worker is driven.
Close(t) ==
    /\ driver = None
    /\ CloseProvider
    /\ UNCHANGED <<driver, budget, stopped, held, claimed, ended>>

Stop == ~stopped /\ stopped' = TRUE /\ UNCHANGED <<driver, budget, closed, releases, held, claimed, ended>>

Steps == Report \/ Return \/ \E a \in Attempts \ claimed : Claim(a)

Next ==
    \/ \E t \in Threads : Run(t) \/ Close(t) \/ \E limit \in Limits : RunAvailable(t, limit)
    \/ Steps \/ Raises \/ Stop

\* A driving thread runs, and an Activity ends.
Spec == Init /\ [][Next]_vars /\ WF_vars(Steps)

-----------------------------------------------------------------------------

\* The provider is closed once, and never used afterwards: not by a second
\* driver, nor by one that raced a close.
ClosedIsClosed == releases <= 1 /\ (releases = 1 => driver = None /\ held = None)

\* Every attempt that was claimed has ended, or is the one in hand.
NothingAbandoned == claimed \ ended \subseteq {held}

\* A worker told to stop whose driver has not returned.
Owed == stopped /\ driver # None
=============================================================================
