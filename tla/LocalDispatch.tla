---------------------------- MODULE LocalDispatch ----------------------------
(***************************************************************************)
(* Local Dispatch: one SQLite custody domain shared by an Engine session,  *)
(* which publishes, fences and collects Activities, and by Workers, which  *)
(* claim attempts under a lease, renew it and report.  Every operation of  *)
(* the code runs in one BEGIN IMMEDIATE transaction, so it is one action   *)
(* here.  The database outlives both sides; the Engine session's           *)
(* published and collected sets do not.                                    *)
(*                                                                         *)
(* An occurrence stands for the (instance, occurrence) key of the tables.  *)
(* Durations are whole units: the code's conversion to milliseconds only   *)
(* scales them.                                                            *)
(***************************************************************************)
EXTENDS Integers, FiniteSets

CONSTANTS
    Occurrences,   \* (instance, occurrence) keys
    Invocations,   \* frozen ActivityInvocations
    Policy,        \* the resolved ExecutionPolicy of each invocation
    Queues,
    Workers,       \* claimants: one unique identity per Worker-side provider
    Serves,        \* [Workers -> SUBSET Queues]
    Results,       \* values an Activity may complete with
    Failures,      \* ActivityFailures a Worker may report
    Positions,     \* History positions of cancelling close and reset records
    MaxTime,       \* bound on the clock
    MaxDispatchTime, \* bound on the instant of a first publication
    None           \* absent limit, claimant or deadline

\* RetryPolicy.delay: exponential backoff after the numbered failed attempt,
\* capped at max_interval; either interval at zero means no backoff.
Delay(initial, coefficient, maxInterval, failed) ==
    IF initial = 0 \/ maxInterval = 0 THEN 0
    ELSE IF initial >= maxInterval THEN maxInterval
    ELSE IF initial * coefficient ^ (failed - 1) < maxInterval
           THEN initial * coefficient ^ (failed - 1)
           ELSE maxInterval

\* The delays an ExecutionPolicy hands its provider, one per failed attempt.
Backoff(attempts, initial, coefficient, maxInterval) ==
    [failed \in 1..attempts |-> Delay(initial, coefficient, maxInterval, failed)]

FailureType == [retryable: BOOLEAN, legacy: BOOLEAN, retryAfter: Nat]

\* A resolved ExecutionPolicy, its retry policy tabulated as the delay that
\* follows each failed attempt.
IsPolicy(p) ==
    /\ p.attempts \in Nat \ {0} /\ p.heartbeat \in Nat \ {0}
    /\ p.delay \in [1..p.attempts -> Nat]
    /\ p.startToClose \in (Nat \ {0}) \cup {None}
    /\ p.scheduleToClose \in (Nat \ {0}) \cup {None}

(* What the configured values must be: ExecutionPolicy, RetryPolicy and    *)
(* ActivityFailure refuse anything else at construction.                   *)
ASSUME DispatchAssumption ==
    /\ \A inv \in Invocations : IsPolicy(Policy[inv])
    /\ Serves \in [Workers -> SUBSET Queues]
    /\ Failures \subseteq FailureType
    /\ MaxTime \in Nat /\ MaxDispatchTime \in Nat
    /\ None \notin Int /\ None \notin Workers
    /\ Positions \subseteq Nat \ {0}

VARIABLES
    now,           \* the clock every transaction samples
    tasks,         \* impetus_local_dispatch_tasks
    terminals,     \* impetus_local_dispatch_terminals
    cancellations, \* impetus_local_dispatch_cancellations
    attempts,      \* ActivityAttempt values handed to Workers, never taken back
    published,     \* the Engine session's _published
    collected,     \* the Engine session's _collected
    promised       \* the instant before which a reported retry is not to run

durable == <<tasks, terminals, cancellations>>
session == <<published, collected>>
vars == <<now, tasks, terminals, cancellations, attempts, published, collected, promised>>

Deadlines == Nat \cup {None}

TaskType ==
    [seq: Nat, queue: Queues, inv: Invocations, epoch: Nat, claimant: Workers \cup {None},
     deadline: Deadlines, scheduleStart: Nat, attemptStart: Deadlines,
     attemptDeadline: Deadlines, availableAt: Nat]

Outcomes == [kind: {"completed"}, value: Results] \cup [kind: {"failed"}, failure: Failures]
              \cup {[kind |-> "exhausted"]}

TerminalType == [epoch: Nat, claimant: Workers \cup {None}, outcome: Outcomes]
CancellationType == [position: Positions, inv: Invocations]
AttemptType == [occ: Occurrences, epoch: Nat, claimant: Workers, queue: Queues, inv: Invocations]

\* A table keyed by occurrence.
IsTable(f, S) == DOMAIN f \subseteq Occurrences /\ f \in [DOMAIN f -> S]

\* f with its row for k inserted or replaced.
Put(f, k, v) == [x \in DOMAIN f \cup {k} |-> IF x = k THEN v ELSE f[x]]

Init ==
    /\ now = 0
    /\ tasks = <<>> /\ terminals = <<>> /\ cancellations = <<>>
    /\ attempts = {}
    /\ published = {} /\ collected = {}
    /\ promised = [o \in Occurrences |-> 0]

-----------------------------------------------------------------------------
(* Policy arithmetic. *)

\* The earlier of two instants, either of which may be absent.
Earlier(a, b) == IF a = None \/ (b # None /\ b < a) THEN b ELSE a

\* The aggregate deadline of a task, if its policy has one.
ScheduleDeadline(t) ==
    LET limit == Policy[t.inv].scheduleToClose
    IN  IF limit = None THEN None ELSE t.scheduleStart + limit

\* The instant a lease of t granted now may not outlive, if there is one.
HardLimit(t) ==
    LET limit == Policy[t.inv].startToClose
    IN  Earlier(IF limit = None THEN None ELSE now + limit, ScheduleDeadline(t))

Passed(deadline) == deadline # None /\ deadline <= now

-----------------------------------------------------------------------------
(* Engine side. *)

Open(o) == o \notin DOMAIN terminals /\ o \notin DOMAIN cancellations

LeaseExpired(t) == t.epoch = 0 \/ t.deadline <= now

\* LocalDispatch.dispatch: publish once; a fenced occurrence only joins the
\* session, a republication may reroute work nobody holds, and a different
\* invocation for the same key is refused.  Successive sessions may route an
\* Activity to different queues.
Dispatch(o, inv, queue) ==
    /\ IF o \in DOMAIN cancellations
         THEN /\ cancellations[o].inv = inv
              /\ UNCHANGED tasks
         ELSE IF o \in DOMAIN tasks
         THEN /\ tasks[o].inv = inv
              /\ tasks' = IF o \notin DOMAIN terminals /\ LeaseExpired(tasks[o])
                            THEN [tasks EXCEPT ![o].queue = queue]
                            ELSE tasks
         ELSE /\ now <= MaxDispatchTime
              /\ tasks' = Put(tasks, o,
                    [seq |-> Cardinality(DOMAIN tasks) + 1, queue |-> queue, inv |-> inv,
                     epoch |-> 0, claimant |-> None, deadline |-> None, scheduleStart |-> now,
                     attemptStart |-> None, attemptDeadline |-> None, availableAt |-> now])
    /\ published' = published \cup {o}
    /\ UNCHANGED <<now, terminals, cancellations, attempts, collected, promised>>

\* LocalDispatch.cancel: install the durable fence, even for an occurrence
\* never published; a different position or invocation is a conflict.
Cancel(o, position, inv) ==
    /\ o \in DOMAIN cancellations => cancellations[o] = [position |-> position, inv |-> inv]
    /\ o \in DOMAIN tasks => tasks[o].inv = inv
    /\ cancellations' = Put(cancellations, o, [position |-> position, inv |-> inv])
    /\ published' = published \cup {o}
    /\ UNCHANGED <<now, tasks, terminals, attempts, collected, promised>>

\* LocalDispatch.collect: every terminal of this session's publications that
\* it has not handed out yet.
Collect ==
    /\ collected' = collected \cup ((published \ collected) \cap DOMAIN terminals)
    /\ UNCHANGED <<now, tasks, terminals, cancellations, attempts, published, promised>>

\* A new Engine session over the same database knows nothing it published.
EngineRestart ==
    /\ published' = {} /\ collected' = {}
    /\ UNCHANGED <<now, tasks, terminals, cancellations, attempts, promised>>

-----------------------------------------------------------------------------
(* Worker side. *)

\* _terminalize_exhausted, first half: an expired lease with attempts left
\* becomes work delayed by the policy's backoff, counted from the expiry.
Swept(queues) ==
    [o \in DOMAIN tasks |->
        LET t == tasks[o]
        IN  IF /\ Open(o) /\ t.queue \in queues
               /\ t.epoch > 0 /\ t.deadline <= now /\ t.epoch < Policy[t.inv].attempts
              THEN [t EXCEPT !.availableAt = t.deadline + Policy[t.inv].delay[t.epoch]]
              ELSE t]

ExhaustedByAttempts(queues) ==
    {o \in DOMAIN tasks :
        LET t == tasks[o]
        IN  /\ Open(o) /\ t.queue \in queues
            /\ t.epoch > 0 /\ t.deadline <= now /\ t.epoch >= Policy[t.inv].attempts}

\* _terminalize_exhausted, second half: no attempt or no time is left.
Exhausted(queues) ==
    {o \in DOMAIN tasks :
        LET t == tasks[o]
        IN  /\ Open(o) /\ t.queue \in queues
            /\ \/ t.epoch > 0 /\ t.deadline <= now /\ t.epoch >= Policy[t.inv].attempts
               \/ Passed(ScheduleDeadline(t))}

SweptTerminals(queues) ==
    [o \in DOMAIN terminals \cup Exhausted(queues) |->
        IF o \in DOMAIN terminals THEN terminals[o]
        ELSE [epoch |-> tasks[o].epoch, claimant |-> tasks[o].claimant,
              outcome |-> [kind |-> "exhausted"]]]

\* Mutant of Claimable: the claim query forgets the cancellation table.
ClaimableFenced(queues) ==
    {o \in DOMAIN tasks \ Exhausted(queues) :
        LET t == Swept(queues)[o]
        IN  /\ o \notin DOMAIN terminals /\ t.queue \in queues
            /\ t.epoch < Policy[t.inv].attempts
            /\ t.availableAt <= now
            /\ LeaseExpired(t)}

\* The rows the claim query selects, after the sweep.
Claimable(queues) ==
    {o \in DOMAIN tasks \ Exhausted(queues) :
        LET t == Swept(queues)[o]
        IN  /\ Open(o) /\ t.queue \in queues
            /\ t.epoch < Policy[t.inv].attempts
            /\ t.availableAt <= now
            /\ LeaseExpired(t)}

\* Mutant of Leased: a reclaim keeps the epoch of the expired lease.
LeasedAgain(t, w) ==
    [t EXCEPT !.epoch = IF @ = 0 THEN 1 ELSE @, !.claimant = w, !.attemptStart = now,
              !.attemptDeadline = HardLimit(t),
              !.deadline = Earlier(now + Policy[t.inv].heartbeat, HardLimit(t))]

\* The row a claim writes: the next epoch, under a lease no longer than the
\* heartbeat timeout and the hard limits.
Leased(t, w) ==
    [t EXCEPT !.epoch = @ + 1, !.claimant = w, !.attemptStart = now,
              !.attemptDeadline = HardLimit(t),
              !.deadline = Earlier(now + Policy[t.inv].heartbeat, HardLimit(t))]

\* LocalWorkerDispatch.claim: sweep, then lease the oldest claimable row.
Claim(w) ==
    LET queues == Serves[w]
        swept == Swept(queues)
    IN  /\ terminals' = SweptTerminals(queues)
        /\ \/ /\ Claimable(queues) = {}
              /\ tasks' = swept /\ UNCHANGED attempts
           \/ \E o \in Claimable(queues) :
                 LET row == Leased(swept[o], w)
                 IN  /\ \A p \in Claimable(queues) : swept[o].seq <= swept[p].seq
                     /\ tasks' = [swept EXCEPT ![o] = row]
                     /\ attempts' = attempts \cup
                           {[occ |-> o, epoch |-> row.epoch, claimant |-> w,
                             queue |-> row.queue, inv |-> row.inv]}
        /\ UNCHANGED <<now, cancellations, published, collected, promised>>

\* LocalWorkerDispatch.wait: one round of its polling loop, which only sweeps.
Wait(w) ==
    /\ tasks' = Swept(Serves[w])
    /\ terminals' = SweptTerminals(Serves[w])
    /\ UNCHANGED <<now, cancellations, attempts, published, collected, promised>>

\* The attempt holds exactly the custody its row records.
Holds(a) ==
    /\ a.occ \in DOMAIN tasks
    /\ LET t == tasks[a.occ]
       IN  <<t.queue, t.inv, t.epoch, t.claimant>> = <<a.queue, a.inv, a.epoch, a.claimant>>

\* _active: custody, and the lease still runs.
Active(a) == Open(a.occ) /\ Holds(a) /\ tasks[a.occ].deadline > now

\* _cancelled_attempt: the fenced claimant may still report, for quarantine.
CancelledAttempt(a) == a.occ \in DOMAIN cancellations /\ Holds(a)

\* LocalWorkerDispatch.heartbeat: renew the lease, never past the attempt's deadline.
Heartbeat(a) ==
    /\ Active(a)
    /\ tasks' = [tasks EXCEPT ![a.occ].deadline =
                    Earlier(now + Policy[a.inv].heartbeat, tasks[a.occ].attemptDeadline)]
    /\ UNCHANGED <<now, terminals, cancellations, attempts, published, collected, promised>>

\* _insert_terminal.
InsertTerminal(a, outcome) ==
    terminals' = Put(terminals, a.occ, [epoch |-> a.epoch, claimant |-> a.claimant, outcome |-> outcome])

\* Mutant of Complete: a cancelled attempt's report replaces the terminal.
CompleteAgain(a, result) ==
    /\ a.occ \notin DOMAIN terminals \/ a.occ \in DOMAIN cancellations
    /\ CancelledAttempt(a) \/ Active(a)
    /\ InsertTerminal(a, [kind |-> "completed", value |-> result])
    /\ UNCHANGED <<now, tasks, cancellations, attempts, published, collected, promised>>

\* LocalWorkerDispatch._terminal, for a completion.  Reports over a recorded
\* terminal are acknowledged or refused, and write nothing.
Complete(a, result) ==
    /\ a.occ \notin DOMAIN terminals
    /\ CancelledAttempt(a) \/ Active(a)
    /\ InsertTerminal(a, [kind |-> "completed", value |-> result])
    /\ UNCHANGED <<now, tasks, cancellations, attempts, published, collected, promised>>

\* The instant a reported failure asks the next attempt to wait for.
RetryAt(a, failure) ==
    LET delay == Policy[a.inv].delay[a.epoch]
    IN  now + (IF failure.retryAfter > delay THEN failure.retryAfter ELSE delay)

\* Whether fail schedules another attempt instead of ending the task.
Retries(a, failure) ==
    /\ failure.retryable \/ failure.legacy
    /\ a.epoch < Policy[a.inv].attempts
    /\ LET limit == ScheduleDeadline(tasks[a.occ])
       IN  limit = None \/ RetryAt(a, failure) < limit

\* LocalWorkerDispatch.fail: a cancelled attempt's failure is kept for
\* quarantine; an active one is retried later or becomes the terminal.
Fail(a, failure) ==
    /\ a.occ \notin DOMAIN terminals
    /\ CancelledAttempt(a) \/ Active(a)
    /\ IF ~CancelledAttempt(a) /\ Retries(a, failure)
         THEN /\ tasks' = [tasks EXCEPT ![a.occ].deadline = now,
                                        ![a.occ].availableAt = RetryAt(a, failure)]
              /\ promised' = [promised EXCEPT ![a.occ] = RetryAt(a, failure)]
              /\ UNCHANGED terminals
         ELSE /\ InsertTerminal(a, [kind |-> "failed", failure |-> failure])
              /\ UNCHANGED <<tasks, promised>>
    /\ UNCHANGED <<now, cancellations, attempts, published, collected>>

-----------------------------------------------------------------------------

Tick ==
    /\ now < MaxTime
    /\ now' = now + 1
    /\ UNCHANGED <<tasks, terminals, cancellations, attempts, published, collected, promised>>

Next ==
    \/ \E o \in Occurrences, inv \in Invocations, queue \in Queues : Dispatch(o, inv, queue)
    \/ \E o \in Occurrences, position \in Positions, inv \in Invocations : Cancel(o, position, inv)
    \/ Collect
    \/ EngineRestart
    \/ \E w \in Workers : Claim(w) \/ Wait(w)
    \/ \E a \in attempts : Heartbeat(a)
    \/ \E a \in attempts, result \in Results : Complete(a, result)
    \/ \E a \in attempts, failure \in Failures : Fail(a, failure)
    \/ Tick

Spec == Init /\ [][Next]_vars

-----------------------------------------------------------------------------
(* Properties. *)

\* Every table row, attempt and session set has the shape the schema gives it.
TypeOK ==
    /\ now \in Nat
    /\ IsTable(tasks, TaskType)
    /\ IsTable(terminals, TerminalType)
    /\ IsTable(cancellations, CancellationType)
    /\ attempts \subseteq AttemptType
    /\ published \subseteq Occurrences /\ collected \subseteq published
    /\ promised \in [Occurrences -> Nat]

\* An epoch is a fence: it is granted to one claimant once, and no attempt is
\* ahead of the row it was claimed from (claim increments, nothing else does).
EpochIsAFence ==
    /\ \A a \in attempts : a.occ \in DOMAIN tasks /\ a.epoch \in 1..tasks[a.occ].epoch
    /\ \A a, b \in attempts : a.occ = b.occ /\ a.epoch = b.epoch => a = b

\* The terminal of an occurrence belongs to the last attempt that was claimed:
\* no stale attempt decides the outcome, and a decided task is never claimed
\* again, whatever late reports, sweeps and republications interleave.
TerminalIsOfLastAttempt ==
    \A o \in DOMAIN terminals :
        /\ o \in DOMAIN tasks
        /\ terminals[o].epoch = tasks[o].epoch
        /\ terminals[o].claimant = tasks[o].claimant

\* The policy bounds the attempts, and the database alone gives up: only when
\* they are spent or the aggregate deadline has passed.
AttemptBudget ==
    /\ \A o \in DOMAIN tasks : tasks[o].epoch <= Policy[tasks[o].inv].attempts
    /\ \A o \in DOMAIN terminals : terminals[o].outcome.kind = "exhausted" =>
          \/ terminals[o].epoch = Policy[tasks[o].inv].attempts
          \/ Passed(ScheduleDeadline(tasks[o]))

\* No lease, however often it is renewed, outlives the attempt's start-to-close
\* or the task's schedule-to-close deadline (claim, heartbeat and fail).
LeaseWithinLimits ==
    \A o \in DOMAIN tasks :
        LET t == tasks[o]
            stc == Policy[t.inv].startToClose
        IN  t.epoch > 0 =>
              /\ ScheduleDeadline(t) # None => t.deadline <= ScheduleDeadline(t)
              /\ stc # None => t.deadline <= t.attemptStart + stc

\* A row is unclaimed, or leased within its policy to the Worker it names.
LeaseInv(t) ==
    /\ t.epoch <= Policy[t.inv].attempts
    /\ t.epoch > 0 =>
          /\ t.claimant \in Workers /\ t.deadline \in Nat /\ t.attemptStart \in Nat
          /\ t.attemptDeadline # None => t.deadline <= t.attemptDeadline
          /\ ScheduleDeadline(t) # None =>
                t.attemptDeadline # None /\ t.attemptDeadline <= ScheduleDeadline(t)
          /\ Policy[t.inv].startToClose # None =>
                t.attemptDeadline # None /\ t.attemptDeadline <= t.attemptStart + Policy[t.inv].startToClose

\* The inductive invariant of the custody tables: what dispatch, claim, sweep,
\* heartbeat and the reports jointly keep, and the safety properties follow from.
CustodyInv ==
    /\ TypeOK
    /\ IsFiniteSet(DOMAIN tasks)
    /\ \A o \in DOMAIN tasks : LeaseInv(tasks[o])
    /\ EpochIsAFence /\ TerminalIsOfLastAttempt /\ AttemptBudget

\* A recorded outcome never changes, so every Engine session that collects an
\* occurrence, before or after a restart, collects the same outcome.
TerminalKept ==
    \A o \in DOMAIN terminals : o \in DOMAIN terminals' /\ terminals'[o] = terminals[o]

\* After cancel commits, the fence stands and no further attempt is claimed.
FenceKept ==
    \A o \in DOMAIN cancellations :
        /\ o \in DOMAIN cancellations' /\ cancellations'[o] = cancellations[o]
        /\ o \in DOMAIN tasks' => o \in DOMAIN tasks /\ tasks'[o].epoch = tasks[o].epoch

\* What custody granted and recorded stands: outcomes are final, fences hold and
\* no step extends a lease past its limits, whoever sweeps, retries or reports
\* late.
CustodyStands == [][TerminalKept /\ FenceKept /\ LeaseWithinLimits']_vars

\* A task is not claimed again before the instant its last retryable failure
\* report asked for: the larger of the policy's backoff and retry_after (fail).
RetryAfterHonoured ==
    [][\A o \in DOMAIN tasks : tasks'[o].epoch > tasks[o].epoch => promised[o] <= now]_vars

-----------------------------------------------------------------------------
(* Liveness. *)

\* Reconciliation after a restart publishes an unfinished Activity again.
Redispatch(o) ==
    /\ o \in DOMAIN tasks /\ o \notin published
    /\ \E queue \in Queues : Dispatch(o, tasks[o].inv, queue)

\* Time passes, every Worker keeps polling, a session redispatches and collects.
\* Nothing is assumed of the Activities themselves: they may never report.
Fairness ==
    /\ WF_vars(Tick)
    /\ \A w \in Workers : WF_vars(Wait(w))
    /\ \A o \in Occurrences : WF_vars(Redispatch(o))
    /\ WF_vars(Collect)

LiveSpec == Spec /\ Fairness

\* A published Activity with an aggregate deadline that has not ended, and a
\* recorded outcome that the session has not collected.
Owed(o) == o \in DOMAIN tasks /\ ScheduleDeadline(tasks[o]) # None /\ Open(o)
Uncollected(o) == o \in DOMAIN terminals /\ o \notin collected

-----------------------------------------------------------------------------
(* Leases, retries, sweeps and rerouting are invisible to the Engine.      *)

Promise == INSTANCE Dispatch WITH
    custody  <- [o \in DOMAIN tasks |-> tasks[o].inv],
    outcomes <- [o \in DOMAIN terminals |-> terminals[o].outcome],
    fences   <- DOMAIN cancellations

\* Every step of the custody database and of its sessions is a step the
\* Dispatch protocol allows, or leaves what the Engine can see unchanged: a
\* republication or a late report never replaces an invocation or an outcome.
ImplementsDispatch == Promise!Spec

\* A fence carries the invocation of the task it fences: cancel refuses another,
\* and dispatch installs no task under a fence.  A republication that the fence
\* acknowledges is thereby one the custody would have acknowledged.
FencedAsDispatched ==
    \A o \in DOMAIN cancellations \cap DOMAIN tasks : cancellations[o].inv = tasks[o].inv
=============================================================================
