--------------------------- MODULE AbsurdDispatch ---------------------------
(***************************************************************************)
(* AbsurdDispatch over the pinned Absurd schema: the authority publishes   *)
(* an occurrence as a task keyed by its recovery identity, Workers claim,  *)
(* renew and end runs under leases, the authority collects the terminal    *)
(* tasks.  One transaction is one action, except where the authority reads *)
(* custody without a lock and acts on what it read: discovery and action   *)
(* are then two steps, and Workers move between them.                      *)
(* Doorbells (NOTIFY) are wake hints and are left out; everybody polls.    *)
(***************************************************************************)
EXTENDS Integers, Sequences, FiniteSets, TLAPS

CONSTANTS
    Occurrences, Queues, Workers, Values,
    MaxAttempts, \* policy.attempts
    MaxCrashes,  \* bound on the authority's restarts
    None

VARIABLES
    tasks,     \* t_<queue>, r_<queue> and the details checkpoint, per key
    schema,    \* the absurd schema of the database
    hist,      \* canonical state of each occurrence
    outcome,   \* the terminal fact of each occurrence
    up,        \* the authority's composition is loaded
    route,     \* queue_for, fixed while the composition is loaded
    mine,      \* _tasks: queue of the task of each occurrence, this session
    fenced,    \* _cancelled
    collected, \* _collected
    found,     \* custody the authority has read and not yet acted on
    told,      \* the last disposition cancel returned, and custody then
    held,      \* the attempt each Worker process holds
    acks,      \* terminal reports a Worker has had acknowledged
    crashes

db == <<tasks, schema>>
session == <<up, route, mine, fenced, collected, found>>
canonical == <<hist, outcome>>
vars == <<tasks, schema, hist, outcome, up, route, mine, fenced, collected,
          found, told, held, acks, crashes>>

Keys == Queues \X Occurrences
NoTask == [state |-> "absent", max |-> 0, started |-> "never", runs |-> <<>>,
           details |-> None]
NoRead == [op |-> "none"]

NewRun(later) ==
    [state |-> IF later THEN "sleeping" ELSE "pending",
     available |-> IF later THEN "later" ELSE "now", by |-> None, lease |-> "none", out |-> None]

SpawnTask ==
    [state |-> "pending", max |-> MaxAttempts, started |-> "never",
     runs |-> <<NewRun(FALSE)>>, details |-> None]

LastRun(t) == t.runs[Len(t.runs)]
Open(t) == t.state \in {"pending", "sleeping", "running"}
Terminal(t) == t.state \in {"completed", "failed"}

Init ==
    /\ tasks = [k \in Keys |-> NoTask]
    /\ schema \in {"absent", "pinned", "foreign"}
    /\ hist = [o \in Occurrences |-> "new"]
    /\ outcome = [o \in Occurrences |-> None]
    /\ up = FALSE /\ route \in [Occurrences -> Queues]
    /\ mine = [o \in Occurrences |-> None]
    /\ fenced = {} /\ collected = {} /\ found = NoRead
    /\ told = None
    /\ held = [w \in Workers |-> None]
    /\ acks = {} /\ crashes = 0

----------------------------------------------------------------------------
(* The schema's functions, as what they make of a task. *)

\* The task after its last run has become r; the task's state follows.
WithLast(t, r) == [t EXCEPT !.state = r.state, !.runs = [@ EXCEPT ![Len(t.runs)] = r]]

\* fail_run: the run fails; while attempts remain the next run is inserted,
\* sleeping when its retry instant lies ahead.
FailRun(t, reason, later) ==
    LET failed == WithLast(t, [LastRun(t) EXCEPT !.state = "failed", !.out = reason])
    IN  IF Len(t.runs) + 1 <= t.max
        THEN [failed EXCEPT !.state = NewRun(later).state,
                            !.runs = Append(@, NewRun(later))]
        ELSE failed

CompleteRun(t, v) ==
    WithLast(t, [LastRun(t) EXCEPT !.state = "completed", !.out = v])

\* Mutant of CancelTask: a claimed run keeps running.
CancelTaskOnly(t) ==
    IF Open(t) /\ LastRun(t).state = "running"
    THEN [t EXCEPT !.state = "cancelled"]
    ELSE IF Open(t)
    THEN WithLast(t, [LastRun(t) EXCEPT !.state = "cancelled"])
    ELSE t

\* cancel_task: a no-op over a task that is over.
CancelTask(t) ==
    IF Open(t)
    THEN WithLast(t, [LastRun(t) EXCEPT !.state = "cancelled", !.by = None, !.lease = "none"])
    ELSE t

Claimable(t) ==
    /\ Open(t)
    /\ LastRun(t).state \in {"pending", "sleeping"}
    /\ LastRun(t).available = "now"

ClaimRun(t, w) ==
    WithLast([t EXCEPT !.started = "once"],
             [LastRun(t) EXCEPT !.state = "running", !.by = w, !.lease = "live"])

Expired(t) ==
    Open(t) /\ LastRun(t).state = "running" /\ LastRun(t).lease = "expired"

----------------------------------------------------------------------------
(* Workers. *)

\* claim_task first fails at most one expired run of the queue, then claims
\* at most one available run; the answer may be lost after the commit.
Claim(w, q) ==
    /\ held[w] = None /\ schema = "pinned"
    /\ \E swept \in {o \in Occurrences : Expired(tasks[<<q, o>>])} \cup
                    {x \in {None} : \A o \in Occurrences : ~Expired(tasks[<<q, o>>])} :
        \E after \in {[o \in Occurrences |->
                        IF o = swept THEN FailRun(tasks[<<q, o>>], "timeout", FALSE)
                                     ELSE tasks[<<q, o>>]]} :
            LET ready == {o \in Occurrences : Claimable(after[o])} IN
            \/ /\ ready = {} /\ swept # None
               /\ tasks' = [k \in Keys |-> IF k[1] = q THEN after[k[2]] ELSE tasks[k]]
               /\ UNCHANGED held
            \/ \E o \in ready :
                /\ tasks' = [k \in Keys |->
                              IF k = <<q, o>> THEN ClaimRun(after[o], w)
                              ELSE IF k[1] = q THEN after[k[2]] ELSE tasks[k]]
                /\ \/ held' = [held EXCEPT ![w] = [q |-> q, o |-> o,
                                                   run |-> Len(after[o].runs)]]
                   \/ UNCHANGED held
    /\ UNCHANGED <<schema, canonical, session, told, acks, crashes>>

Attempt(w) == tasks[<<held[w].q, held[w].o>>].runs[held[w].run]

\* _guard: the run is running, claimed by this claimant, its lease unexpired.
Current(w) ==
    /\ Attempt(w).state = "running" /\ Attempt(w).by = w
    /\ Attempt(w).lease = "live"

\* heartbeat renews the lease, which is live, and replaces the details.
Heartbeat(w) ==
    /\ held[w] # None /\ Current(w)
    /\ tasks' = [tasks EXCEPT ![<<held[w].q, held[w].o>>].details = held[w].run]
    /\ UNCHANGED <<schema, canonical, session, told, held, acks, crashes>>

Acknowledge(w, out) ==
    acks' = acks \cup {[q |-> held[w].q, o |-> held[w].o, run |-> held[w].run,
                        out |-> out]}

\* Mutant of Repeats: the stored outcome is not compared.
RepeatsAnything(w, out) ==
    /\ Attempt(w).by = w
    /\ Attempt(w).state \in {"completed", "failed"}

\* _guard_terminal: an exact repetition of the terminal report is acknowledged
\* and changes nothing; every other report of a run that is over is refused.
Repeats(w, out) ==
    /\ Attempt(w).by = w /\ Attempt(w).out = out
    /\ Attempt(w).state \in {"completed", "failed"}

Repeat(w, out) ==
    /\ held[w] # None /\ Repeats(w, out) /\ Acknowledge(w, out)
    /\ UNCHANGED <<db, canonical, session, told, held, crashes>>

Complete(w, v) ==
    /\ held[w] # None /\ Current(w)
    /\ tasks' = [tasks EXCEPT ![<<held[w].q, held[w].o>>] = CompleteRun(@, v)]
    /\ Acknowledge(w, v)
    /\ UNCHANGED <<schema, canonical, session, told, held, crashes>>

\* A failure that is not retryable closes the budget at this attempt.
Settled(t, reason) ==
    IF reason = "fatal" THEN [t EXCEPT !.max = Len(t.runs)] ELSE t

Fail(w, reason, later) ==
    /\ held[w] # None /\ Current(w)
    /\ later => reason = "retryable"
    /\ tasks' = [tasks EXCEPT ![<<held[w].q, held[w].o>>] =
                                FailRun(Settled(@, reason), reason, later)]
    /\ Acknowledge(w, reason)
    /\ UNCHANGED <<schema, canonical, session, told, held, crashes>>

\* The Worker goes on to other work, or its process ends: the claimant of the
\* next process is a new one, so what it held is nobody's.
Drop(w) ==
    /\ held[w] # None
    /\ held' = [held EXCEPT ![w] = None]
    /\ UNCHANGED <<db, canonical, session, told, acks, crashes>>

----------------------------------------------------------------------------
(* Time, as the database's clock sees it. *)

Expire(k) ==
    /\ Open(tasks[k]) /\ LastRun(tasks[k]).state = "running"
    /\ LastRun(tasks[k]).lease = "live"
    /\ tasks' = [tasks EXCEPT ![k] = WithLast(@, [LastRun(@) EXCEPT !.lease = "expired"])]
    /\ UNCHANGED <<schema, canonical, session, told, held, acks, crashes>>

Wake(k) ==
    /\ Open(tasks[k]) /\ LastRun(tasks[k]).state = "sleeping"
    /\ LastRun(tasks[k]).available = "later"
    /\ tasks' = [tasks EXCEPT ![k] = WithLast(@, [LastRun(@) EXCEPT !.available = "now"])]
    /\ UNCHANGED <<schema, canonical, session, told, held, acks, crashes>>

----------------------------------------------------------------------------
(* The authority. *)

\* ensure_absurd_schema: an absent schema is applied, any other version than
\* the pinned one is refused.  The session starts empty, its routing is the
\* configuration's.
Load ==
    /\ ~up /\ schema # "foreign"
    /\ schema' = "pinned" /\ up' = TRUE
    /\ \E r \in [Occurrences -> Queues] : route' = r
    /\ UNCHANGED <<tasks, canonical, mine, fenced, collected, found, told,
                   held, acks, crashes>>

\* The process ends, or a writing door failed and poisoned the composition;
\* the open transaction is rolled back and the session is forgotten.
EndsSession ==
    /\ up' = FALSE /\ mine' = [o \in Occurrences |-> None]
    /\ fenced' = {} /\ collected' = {} /\ found' = NoRead
    /\ UNCHANGED route

Crash ==
    /\ up /\ crashes < MaxCrashes /\ crashes' = crashes + 1
    /\ EndsSession
    /\ UNCHANGED <<db, canonical, told, held, acks>>

LiveAt(o) == {q \in Queues : tasks[<<q, o>>].state \notin {"absent", "cancelled"}}
TombstoneAt(o) == {q \in Queues : tasks[<<q, o>>].state = "cancelled"}

\* What a discovery reads of an occurrence in every provider queue.
Custody(op, o) == [op |-> op, o |-> o, live |-> LiveAt(o), tomb |-> TombstoneAt(o),
                   seen |-> [q \in Queues |-> tasks[<<q, o>>].state],
                   run |-> [q \in Queues |-> Len(tasks[<<q, o>>].runs)]]

\* The Engine publishes a begun occurrence, and after a restart every
\* occurrence of its outbox; _recover_custody reads all queues.
DiscoverDispatch(o) ==
    /\ up /\ found = NoRead /\ mine[o] = None /\ o \notin fenced
    /\ hist[o] \in {"new", "requested"}
    /\ found' = Custody("dispatch", o)
    /\ UNCHANGED <<db, canonical, up, route, mine, fenced, collected, told, held,
                   acks, crashes>>

\* The task is locked and read again: only a task that never started moves.
MayMove(o, q) ==
    LET t == tasks[<<q, o>>] IN
    /\ t.state = "pending" /\ t.started = "never"
    /\ Len(t.runs) = found.run[q] /\ LastRun(t).state = "pending"

\* dispatch publishes o in queue q, with what it makes of the other queues.
Publishes(o, others) ==
    /\ tasks' = [others EXCEPT ![<<route[o], o>>] =
                    IF @.state = "absent" THEN SpawnTask ELSE @]
    /\ mine' = [mine EXCEPT ![o] = route[o]]

\* Custody that cannot be established: more than one live task, or a
\* tombstone where the task belongs while no task is terminal.
Refuses(o) ==
    \/ Cardinality(found.live) > 1
    \/ /\ route[o] \in found.tomb
       /\ \A q \in found.live : found.seen[q] \notin {"completed", "failed"}

\* The second half of dispatch: no live task spawns one, a terminal task or
\* one in the target queue is taken as it is, any other moves or is refused.
Dispatch(o) ==
    /\ found # NoRead /\ found.op = "dispatch" /\ found.o = o
    /\ UNCHANGED <<schema, told, held, acks, crashes, outcome>>
    /\ \/ /\ ~Refuses(o) /\ found.live = {}
          /\ Publishes(o, tasks)
          /\ hist' = [hist EXCEPT ![o] = "requested"]
          /\ found' = NoRead /\ UNCHANGED <<up, route, fenced, collected>>
       \/ \E q \in found.live :
           /\ ~Refuses(o)
           /\ q = route[o] \/ found.seen[q] \in {"completed", "failed"}
           /\ mine' = [mine EXCEPT ![o] = q]
           /\ hist' = [hist EXCEPT ![o] = "requested"]
           /\ found' = NoRead /\ UNCHANGED <<tasks, up, route, fenced, collected>>
       \/ \E q \in found.live :
           /\ ~Refuses(o) /\ q # route[o]
           /\ found.seen[q] \notin {"completed", "failed"} /\ MayMove(o, q)
           /\ Publishes(o, [tasks EXCEPT ![<<q, o>>] = CancelTask(@)])
           /\ hist' = [hist EXCEPT ![o] = "requested"]
           /\ found' = NoRead /\ UNCHANGED <<up, route, fenced, collected>>
       \/ /\ \/ Refuses(o)
             \/ \E q \in found.live :
                  /\ q # route[o] /\ found.seen[q] \notin {"completed", "failed"}
                  /\ ~MayMove(o, q)
          /\ EndsSession /\ UNCHANGED <<tasks, hist>>

\* The lifecycle closes the occurrence's scope: canonical, and committed
\* before any cancellation is sent.
Close(o) ==
    /\ up /\ found = NoRead /\ hist[o] = "requested"
    /\ hist' = [hist EXCEPT ![o] = "closed"]
    /\ UNCHANGED <<db, outcome, session, told, held, acks, crashes>>

DiscoverCancel(o) ==
    /\ up /\ found = NoRead /\ hist[o] = "closed" /\ o \notin fenced
    /\ found' = Custody("cancel", o)
    /\ UNCHANGED <<db, canonical, up, route, mine, fenced, collected, told, held,
                   acks, crashes>>

Told(o, said, was) == told' = [o |-> o, said |-> said, was |-> was]

\* The second half of cancel.  Without any custody the task is spawned and
\* cancelled in the one transaction; a terminal task is left to be collected.
Cancel(o) ==
    /\ found # NoRead /\ found.op = "cancel" /\ found.o = o
    /\ UNCHANGED <<schema, canonical, held, acks, crashes>>
    /\ \/ /\ Cardinality(found.live) > 1
          /\ EndsSession /\ UNCHANGED <<tasks, told>>
       \/ /\ Cardinality(found.live) <= 1
          /\ fenced' = fenced \cup {o} /\ found' = NoRead
          /\ UNCHANGED <<up, route, collected>>
          /\ \/ /\ found.live = {} /\ found.tomb # {}
                /\ Told(o, "acknowledged", "cancelled") /\ UNCHANGED <<tasks, mine>>
             \/ /\ found.live = {} /\ found.tomb = {}
                /\ tasks' = [tasks EXCEPT ![<<route[o], o>>] = CancelTask(SpawnTask)]
                /\ Told(o, "retired", "pending") /\ mine' = [mine EXCEPT ![o] = None]
             \/ \E q \in found.live :
                 IF found.seen[q] \in {"completed", "failed"}
                 THEN /\ mine' = [mine EXCEPT ![o] = q]
                      /\ Told(o, "terminal", tasks[<<q, o>>].state) /\ UNCHANGED tasks
                 ELSE /\ tasks' = [tasks EXCEPT ![<<q, o>>] = CancelTask(@)]
                      /\ mine' = [mine EXCEPT ![o] = None]
                      /\ Told(o, IF found.seen[q] = "pending" THEN "retired"
                                                             ELSE "fenced",
                              tasks[<<q, o>>].state)

\* collect drains every terminal task of the session and the Engine records
\* the outcomes; that of a closed occurrence is quarantined.  A tombstone is
\* no outcome and ends the session.
Collect ==
    /\ up /\ found = NoRead
    /\ LET pending == {o \in Occurrences : mine[o] # None /\ o \notin collected}
           over == {o \in pending : Terminal(tasks[<<mine[o], o>>])}
       IN  IF \E o \in pending : tasks[<<mine[o], o>>].state = "cancelled"
           THEN EndsSession /\ UNCHANGED canonical
           ELSE /\ over # {}
                /\ collected' = collected \cup over
                /\ hist' = [o \in Occurrences |->
                             IF o \in over /\ hist[o] = "requested"
                             THEN "accepted" ELSE hist[o]]
                /\ outcome' = [o \in Occurrences |->
                                IF o \in over /\ hist[o] = "requested"
                                THEN LastRun(tasks[<<mine[o], o>>]).out ELSE outcome[o]]
                /\ UNCHANGED <<up, route, mine, fenced, found>>
    /\ UNCHANGED <<db, told, held, acks, crashes>>

WorkerStep(w) ==
    \/ \E q \in Queues : Claim(w, q)
    \/ Heartbeat(w)
    \/ \E v \in Values : Complete(w, v)
    \/ \E reason \in {"retryable", "fatal"}, later \in BOOLEAN : Fail(w, reason, later)
    \/ \E out \in Values \cup {"retryable", "fatal"} : Repeat(w, out)
    \/ Drop(w)

AuthorityStep(o) == DiscoverDispatch(o) \/ Dispatch(o) \/ DiscoverCancel(o) \/ Cancel(o)

Next ==
    \/ \E w \in Workers : WorkerStep(w)
    \/ \E k \in Keys : Expire(k) \/ Wake(k)
    \/ Load \/ Crash \/ Collect
    \/ \E o \in Occurrences : AuthorityStep(o) \/ Close(o)

\* A loaded composition is driven, a Worker with nothing in hand polls every
\* queue and does not hold an attempt forever, and the clock goes on.
Fairness ==
    /\ WF_vars(Load) /\ WF_vars(Collect)
    /\ \A o \in Occurrences : WF_vars(AuthorityStep(o))
    /\ \A k \in Keys : WF_vars(Expire(k)) /\ WF_vars(Wake(k))
    /\ \A w \in Workers : WF_vars(Drop(w)) /\ \A q \in Queues : WF_vars(Claim(w, q))

Spec == Init /\ [][Next]_vars
FairSpec == Spec /\ Fairness

----------------------------------------------------------------------------
\* However routing changes between restarts, at most one task of an
\* occurrence is not a tombstone: _recover_custody searches every queue and
\* cancels before it spawns.
OneLiveTask ==
    \A o \in Occurrences, p, q \in Queues :
        /\ tasks[<<p, o>>].state \notin {"absent", "cancelled"}
        /\ tasks[<<q, o>>].state \notin {"absent", "cancelled"}
        => p = q

\* Only work that never started moves to another queue: the tombstone of a
\* transfer has no claimed run, although the custody was first read without
\* a lock and a Worker may have claimed it since.
TransferNeverStarted ==
    \A q \in Queues, o \in Occurrences :
        tasks[<<q, o>>].state = "cancelled" /\ hist[o] # "closed"
        => tasks[<<q, o>>].started = "never"

\* collect never meets a tombstone among the session's own tasks.
CollectMeetsNoTombstone ==
    \A o \in Occurrences :
        mine[o] # None => tasks[<<mine[o], o>>].state # "cancelled"

\* After cancel has answered no run of the occurrence can be claimed or is
\* running, whatever a Worker did between the read and the cancellation.
FencedIsOver == \A o \in fenced, q \in Queues : ~Open(tasks[<<q, o>>])

\* A report a Worker has had acknowledged is the stored outcome of its run:
\* an exact repetition is acknowledged, a conflicting one is refused.
AcknowledgedIsRecorded ==
    \A a \in acks : tasks[<<a.q, a.o>>].runs[a.run].out = a.out

\* No more runs than the policy's attempts, sweeps of lost Workers counted,
\* and every run but the last has failed.
AttemptBudget ==
    \A k \in Keys :
        /\ Len(tasks[k].runs) <= MaxAttempts
        /\ \A i \in 1..Len(tasks[k].runs) - 1 : tasks[k].runs[i].state = "failed"

\* A failure that is not retryable is the last run of its task.
FatalIsLast ==
    \A k \in Keys : \A i \in DOMAIN tasks[k].runs :
        tasks[k].runs[i].out = "fatal" =>
            i = Len(tasks[k].runs) /\ tasks[k].state = "failed"

\* A task that is over never changes: no late Worker writes into it.
OverKept ==
    \A k \in Keys : tasks[k].state \in {"cancelled", "completed", "failed"}
                    => tasks'[k] = tasks[k]

\* Custody of an occurrence in the queues, whatever Workers, crashes and changed
\* routing interleave with the authority (absurd.py, dispatch, cancel, collect
\* and _adopt).
TaskCustody ==
    /\ OneLiveTask /\ TransferNeverStarted /\ CollectMeetsNoTombstone /\ FencedIsOver
    /\ AcknowledgedIsRecorded /\ AttemptBudget /\ FatalIsLast

\* A task that is over stands (complete_run, fail_run and cancel_task of the schema).
OverStands == [][OverKept]_vars

\* A published occurrence that is neither accepted nor closed by the lifecycle.
Owed(o) == hist[o] = "requested"

\* The disposition cancel reports is the custody found when the fence was
\* installed (the docstring of CancellationDisposition).
DispositionIsCustody ==
    told # None =>
        /\ told.said = "retired" => told.was = "pending"
        /\ told.said = "fenced" => told.was \in {"running", "sleeping"}

----------------------------------------------------------------------------
(* What is proved, for any queues, occurrences, Workers and attempts. *)

\* A policy allows an attempt, and reports are told apart from failures.
ConstantsOk ==
    /\ MaxAttempts \in Nat \ {0}
    /\ "fatal" \notin Values /\ None \notin {"fatal"}
    /\ None \notin Queues /\ None \notin Occurrences

RunType ==
    [state : {"pending", "sleeping", "running", "completed", "failed", "cancelled"},
     available : {"now", "later"}, by : Workers \cup {None}, lease : {"none", "live", "expired"},
     out : Values \cup {"retryable", "fatal", "timeout", None}]
TaskType ==
    [state : {"absent", "pending", "sleeping", "running", "completed", "failed", "cancelled"},
     max : Nat, started : {"never", "once"}, runs : Seq(RunType), details : Nat \cup {None}]

\* The last run is what the task is; only a failed task ends in "fatal".
LastOk(state, run) ==
    /\ state # "absent" /\ run.state = state
    /\ state \in {"pending", "sleeping", "running"} => run.out = None
    /\ run.out = "fatal" => state = "failed"

TaskOk(t) ==
    /\ t \in TaskType
    /\ t.max <= MaxAttempts /\ Len(t.runs) <= MaxAttempts
    /\ t.state = "absent" <=> Len(t.runs) = 0
    /\ \A i \in 1..Len(t.runs) - 1 : t.runs[i].state = "failed" /\ t.runs[i].out # "fatal"
    /\ t.state # "absent" => LastOk(t.state, LastRun(t))

\* Runs that are over stay as they are.
RunsKept(t, u) ==
    /\ Len(t.runs) <= Len(u.runs)
    /\ \A i \in 1..Len(t.runs) : t.runs[i].state \in {"completed", "failed"} => u.runs[i] = t.runs[i]

\* The length of the runs of a task, as a sequence.
LEMMA SeqLen ==
    ASSUME NEW S, NEW seq \in Seq(S)
    PROVE  Len(seq) \in Nat /\ DOMAIN seq = 1..Len(seq)
OBVIOUS

\* A member of a sequence.
LEMMA SeqElement ==
    ASSUME NEW S, NEW seq \in Seq(S), NEW n \in 1..Len(seq)
    PROVE  seq[n] \in S
OBVIOUS

\* A sequence with another member at i.
LEMMA SeqExcept ==
    ASSUME NEW S, NEW seq \in Seq(S), NEW i \in 1..Len(seq), NEW e \in S
    PROVE  LET new == [seq EXCEPT ![i] = e] IN
           /\ new \in Seq(S) /\ Len(new) = Len(seq)
           /\ \A j \in 1..Len(seq) : new[j] = IF j = i THEN e ELSE seq[j]
OBVIOUS

\* A sequence with one more member.
LEMMA SeqAppend ==
    ASSUME NEW S, NEW seq \in Seq(S), NEW e \in S
    PROVE  LET new == Append(seq, e) IN
           /\ new \in Seq(S) /\ Len(new) = Len(seq) + 1 /\ new[Len(seq) + 1] = e
           /\ \A i \in 1..Len(seq) : new[i] = seq[i]
OBVIOUS

\* A task that does not change keeps its runs.
LEMMA RunsKeptSelf ==
    ASSUME NEW t, TaskOk(t)
    PROVE  RunsKept(t, t)
<1>1. Len(t.runs) \in Nat
  BY SeqLen DEF TaskOk, TaskType
<1> QED
  BY <1>1 DEF RunsKept

\* An open task whose last run changes.
LEMMA NewLast ==
    ASSUME ConstantsOk, NEW t, TaskOk(t), Open(t), NEW u \in TaskType, NEW r \in RunType,
           u.max <= MaxAttempts, u.runs = [t.runs EXCEPT ![Len(t.runs)] = r], LastOk(u.state, r)
    PROVE  TaskOk(u) /\ RunsKept(t, u)
<1> DEFINE n == Len(t.runs)
<1>1. t.runs \in Seq(RunType) /\ n \in Nat /\ n # 0
  BY SeqLen DEF TaskOk, TaskType, Open
<1>2. /\ u.runs \in Seq(RunType) /\ Len(u.runs) = n
      /\ \A j \in 1..n : u.runs[j] = IF j = n THEN r ELSE t.runs[j]
  BY <1>1, SeqExcept
<1>3. n \in 1..n /\ t.runs[n].state \notin {"completed", "failed"}
  BY <1>1 DEF TaskOk, Open, LastOk, LastRun
<1>4. LastRun(u) = r
  BY <1>1, <1>2, <1>3 DEF LastRun
<1>5. \A i \in 1..n - 1 : u.runs[i] = t.runs[i]
  BY <1>1, <1>2
<1>6. RunsKept(t, u)
  BY <1>1, <1>2, <1>3 DEF RunsKept
<1>7. TaskOk(u)
  BY <1>1, <1>2, <1>4, <1>5 DEF TaskOk, LastOk, TaskType
<1> QED
  BY <1>6, <1>7

\* An open task whose last run failed and is followed by another.
LEMMA NextRun ==
    ASSUME ConstantsOk, NEW t, TaskOk(t), Open(t), NEW u \in TaskType, NEW r \in RunType, NEW next \in RunType,
           u.max <= MaxAttempts, Len(t.runs) + 1 <= MaxAttempts,
           u.runs = Append([t.runs EXCEPT ![Len(t.runs)] = r], next),
           r.state = "failed", r.out # "fatal", LastOk(u.state, next)
    PROVE  TaskOk(u) /\ RunsKept(t, u)
<1> DEFINE n == Len(t.runs)
           failed == [t.runs EXCEPT ![n] = r]
<1>1. t.runs \in Seq(RunType) /\ n \in Nat /\ n # 0
  BY SeqLen DEF TaskOk, TaskType, Open
<1>2. /\ failed \in Seq(RunType) /\ Len(failed) = n
      /\ \A j \in 1..n : failed[j] = IF j = n THEN r ELSE t.runs[j]
  BY <1>1, SeqExcept
<1>3. /\ u.runs \in Seq(RunType) /\ Len(u.runs) = n + 1 /\ u.runs[n + 1] = next
      /\ \A i \in 1..n : u.runs[i] = failed[i]
  BY <1>2, SeqAppend
<1> HIDE DEF failed
<1>4. n \in 1..n /\ t.runs[n].state \notin {"completed", "failed"}
  BY <1>1 DEF TaskOk, Open, LastOk, LastRun
<1>5. LastRun(u) = next
  BY <1>3 DEF LastRun
<1>6. \A i \in 1..n : u.runs[i].state = "failed" /\ u.runs[i].out # "fatal"
  BY <1>1, <1>2, <1>3 DEF TaskOk
<1>7. RunsKept(t, u)
  BY <1>1, <1>2, <1>3, <1>4 DEF RunsKept
<1>8. TaskOk(u)
  BY <1>1, <1>3, <1>5, <1>6 DEF TaskOk, LastOk, TaskType
<1> QED
  BY <1>7, <1>8

\* What Workers and time may make of a task: an open one goes on or ends.
MovesOn(t, u) ==
    \/ u = t
    \/ /\ Open(t) /\ TaskOk(u) /\ u.state \notin {"absent", "cancelled"}
       /\ RunsKept(t, u)

\* MovesOn composes.
LEMMA MovesOnTwice ==
    ASSUME NEW t, NEW u, NEW v, TaskOk(t), TaskOk(u), TaskOk(v), MovesOn(t, u), MovesOn(u, v)
    PROVE  MovesOn(t, v)
<1>1. CASE u = t \/ v = u
  BY <1>1 DEF MovesOn
<1>2. CASE u # t /\ v # u
  <2>1. t.runs \in Seq(RunType) /\ u.runs \in Seq(RunType) /\ v.runs \in Seq(RunType)
    BY DEF TaskOk, TaskType
  <2>2. RunsKept(t, u) /\ RunsKept(u, v) /\ Open(t)
    BY <1>2 DEF MovesOn
  <2>3. Len(t.runs) \in Nat /\ Len(u.runs) \in Nat /\ Len(v.runs) \in Nat
    BY <2>1, SeqLen
  <2>4. RunsKept(t, v)
    BY <2>2, <2>3 DEF RunsKept
  <2> QED
    BY <1>2, <2>4 DEF MovesOn
<1> QED
  BY <1>1, <1>2

\* The last run of an open task is a run.
LEMMA OpenLast ==
    ASSUME NEW t, TaskOk(t), Open(t)
    PROVE  /\ t \in TaskType /\ t.runs \in Seq(RunType) /\ Len(t.runs) \in Nat \ {0}
           /\ t.runs[Len(t.runs)] \in RunType
           /\ t.runs[Len(t.runs)].state = t.state /\ t.runs[Len(t.runs)].out = None
<1>1. t.runs \in Seq(RunType) /\ Len(t.runs) \in Nat /\ Len(t.runs) # 0
  BY SeqLen DEF TaskOk, TaskType, Open
<1>2. t.runs[Len(t.runs)] \in RunType
  BY <1>1, SeqElement
<1> QED
  BY <1>1, <1>2 DEF TaskOk, LastOk, LastRun, Open

\* Task u is task t with another last run.
LastReplaced(t, r, u) ==
    /\ TaskOk(u) /\ RunsKept(t, u) /\ u.state = r.state /\ u.started = t.started
    /\ u.max = t.max /\ u.runs = [t.runs EXCEPT ![Len(t.runs)] = r]
    /\ Len(u.runs) = Len(t.runs) /\ u.runs[Len(t.runs)] = r

\* An open task whose last run becomes r.
LEMMA WithLastOk ==
    ASSUME ConstantsOk, NEW t, TaskOk(t), Open(t), NEW r \in RunType, LastOk(r.state, r)
    PROVE  LastReplaced(t, r, WithLast(t, r))
<1> DEFINE n == Len(t.runs)
           runs == [t.runs EXCEPT ![n] = r]
           u == WithLast(t, r)
<1>1. /\ t \in TaskType /\ t.runs \in Seq(RunType) /\ n \in Nat \ {0}
      /\ t.max <= MaxAttempts
  BY OpenLast DEF TaskOk
<1>2. runs \in Seq(RunType) /\ Len(runs) = n /\ runs[n] = r
  BY <1>1, SeqExcept
<1>3. u = [t EXCEPT !.state = r.state, !.runs = runs]
  BY <1>1 DEF WithLast, TaskType
<1> HIDE DEF runs, u
<1>4. /\ u \in TaskType /\ u.max = t.max /\ u.state = r.state /\ u.runs = runs
      /\ u.started = t.started
  BY <1>1, <1>2, <1>3, Zenon DEF TaskType, RunType
<1>5. TaskOk(u) /\ RunsKept(t, u)
  <2>1. u \in TaskType /\ u.max <= MaxAttempts /\ LastOk(u.state, r)
    BY <1>1, <1>4
  <2>2. u.runs = [t.runs EXCEPT ![Len(t.runs)] = r]
    BY <1>4 DEF runs
  <2> QED
    BY <2>1, <2>2, NewLast
<1> QED
  BY <1>2, <1>4, <1>5 DEF LastReplaced, u, runs

\* fail_run keeps the budget and what is over.
LEMMA FailRunOk ==
    ASSUME ConstantsOk, NEW t, TaskOk(t), Open(t), NEW reason \in {"retryable", "fatal", "timeout"},
           NEW later \in BOOLEAN, reason = "fatal" => t.max <= Len(t.runs)
    PROVE  LET u == FailRun(t, reason, later) IN
           /\ TaskOk(u) /\ MovesOn(t, u)
           /\ u.runs[Len(t.runs)].state = "failed" /\ u.runs[Len(t.runs)].out = reason
<1> DEFINE n == Len(t.runs)
           r == [LastRun(t) EXCEPT !.state = "failed", !.out = reason]
           failed == WithLast(t, r)
           next == NewRun(later)
           u == FailRun(t, reason, later)
<1>1. /\ t \in TaskType /\ t.runs \in Seq(RunType) /\ n \in Nat \ {0} /\ LastRun(t) \in RunType
      /\ t.max \in Nat /\ t.max <= MaxAttempts /\ n <= MaxAttempts /\ MaxAttempts \in Nat
  BY OpenLast DEF TaskOk, TaskType, ConstantsOk, LastRun
<1>2. r \in RunType /\ r.state = "failed" /\ r.out = reason
  BY <1>1, Zenon DEF RunType
<1>3. next \in RunType /\ next.state \in {"pending", "sleeping"} /\ next.out = None
  BY DEF NewRun, RunType
<1>4. LastOk(r.state, r)
  BY <1>2 DEF LastOk
<1>5. u = IF n + 1 <= t.max
          THEN [failed EXCEPT !.state = next.state, !.runs = Append(@, next)] ELSE failed
  BY DEF FailRun
<1> HIDE DEF r, next, u, failed
<1>6. /\ TaskOk(failed) /\ RunsKept(t, failed) /\ failed.state = r.state /\ failed.max = t.max
      /\ failed.runs = [t.runs EXCEPT ![n] = r] /\ Len(failed.runs) = n /\ failed.runs[n] = r
  <2>1. LastReplaced(t, r, failed)
    BY <1>2, <1>4, WithLastOk DEF failed
  <2> QED
    BY <2>1 DEF LastReplaced
<1>7. failed \in TaskType /\ failed.runs \in Seq(RunType)
  BY <1>6, Zenon DEF TaskOk, TaskType
<1>8. CASE n + 1 <= t.max
  <2>1. u = [failed EXCEPT !.state = next.state, !.runs = Append(failed.runs, next)]
    BY <1>5, <1>7, <1>8 DEF TaskType
  <2>2. Append(failed.runs, next) \in Seq(RunType) /\ Append(failed.runs, next)[n] = r
    BY <1>1, <1>3, <1>6, <1>7, SeqAppend
  <2>3. /\ u \in TaskType /\ u.max = t.max /\ u.state = next.state
        /\ u.runs = Append(failed.runs, next)
    BY <1>3, <1>6, <1>7, <2>1, <2>2, Zenon DEF TaskType
  <2>4. LastOk(u.state, next)
    BY <1>3, <2>3 DEF LastOk, ConstantsOk
  <2>5. r.out # "fatal"
    BY <1>1, <1>2, <1>8
  <2>6. Len(t.runs) + 1 <= MaxAttempts /\ u.max <= MaxAttempts
    BY <1>1, <1>8, <2>3
  <2>7. u.runs = Append([t.runs EXCEPT ![Len(t.runs)] = r], next)
    BY <1>6, <2>3
  <2>8. TaskOk(u) /\ RunsKept(t, u)
    BY <1>2, <1>3, <2>3, <2>4, <2>5, <2>6, <2>7, NextRun
  <2> QED
    BY <1>2, <1>3, <2>2, <2>3, <2>8, Zenon DEF MovesOn, u
<1>9. CASE ~(n + 1 <= t.max)
  BY <1>2, <1>5, <1>6, <1>9, Zenon DEF MovesOn, u
<1> QED
  BY <1>8, <1>9

\* A failure that is not retryable first closes the budget.
LEMMA SettledOk ==
    ASSUME ConstantsOk, NEW t, TaskOk(t), Open(t), NEW reason
    PROVE  LET u == Settled(t, reason) IN
           /\ TaskOk(u) /\ Open(u) /\ u.runs = t.runs /\ RunsKept(t, u) /\ MovesOn(t, u)
           /\ reason = "fatal" => u.max <= Len(u.runs)
<1> DEFINE u == Settled(t, reason)
<1>1. /\ t \in TaskType /\ t.runs \in Seq(RunType) /\ Len(t.runs) \in Nat \ {0}
      /\ Len(t.runs) <= MaxAttempts
  BY OpenLast DEF TaskOk
<1>2. /\ u \in TaskType /\ u.runs = t.runs /\ u.state = t.state
      /\ u.max = IF reason = "fatal" THEN Len(t.runs) ELSE t.max
  BY <1>1 DEF Settled, TaskType
<1> HIDE DEF u
<1>3. RunsKept(t, u)
  BY <1>1, <1>2 DEF RunsKept
<1>4. TaskOk(u) /\ Open(u)
  BY <1>1, <1>2 DEF TaskOk, Open, LastRun
<1>5. u.state \notin {"absent", "cancelled"}
  BY <1>2 DEF Open
<1> QED
  BY <1>1, <1>2, <1>3, <1>4, <1>5 DEF MovesOn, u

\* complete_run.
LEMMA CompleteRunOk ==
    ASSUME ConstantsOk, NEW t, TaskOk(t), Open(t), NEW v \in Values
    PROVE  LET u == CompleteRun(t, v) IN
           /\ TaskOk(u) /\ MovesOn(t, u)
           /\ u.runs[Len(t.runs)].state = "completed" /\ u.runs[Len(t.runs)].out = v
<1> DEFINE r == [LastRun(t) EXCEPT !.state = "completed", !.out = v]
           u == WithLast(t, r)
<1>1. LastRun(t) \in RunType
  BY OpenLast DEF LastRun
<1>2. r \in RunType /\ r.state = "completed" /\ r.out = v
  BY <1>1, Zenon DEF RunType
<1>3. LastOk(r.state, r)
  BY <1>2 DEF LastOk, ConstantsOk
<1> HIDE DEF r
<1>4. TaskOk(u) /\ RunsKept(t, u) /\ u.state = r.state /\ u.runs[Len(t.runs)] = r
  <2>1. LastReplaced(t, r, u)
    BY <1>2, <1>3, WithLastOk
  <2> HIDE DEF u
  <2> QED
    BY <2>1 DEF LastReplaced
<1> HIDE DEF u
<1>5. TaskOk(u) /\ MovesOn(t, u) /\ u.runs[Len(t.runs)].state = "completed" /\ u.runs[Len(t.runs)].out = v
  BY <1>2, <1>4 DEF MovesOn
<1> QED
  BY <1>5, Zenon DEF CompleteRun, u, r

\* claim_task over one run.
LEMMA ClaimRunOk ==
    ASSUME ConstantsOk, NEW t, TaskOk(t), Open(t), NEW w \in Workers
    PROVE  LET u == ClaimRun(t, w) IN
           TaskOk(u) /\ MovesOn(t, u) /\ Len(u.runs) = Len(t.runs)
<1> DEFINE s == [t EXCEPT !.started = "once"]
           r == [LastRun(t) EXCEPT !.state = "running", !.by = w, !.lease = "live"]
           u == WithLast(s, r)
<1>1. t \in TaskType /\ LastRun(t) \in RunType /\ LastRun(t).out = None
  BY OpenLast DEF LastRun
<1>2. r \in RunType /\ r.state = "running" /\ r.out = None
  BY <1>1, Zenon DEF RunType
<1>3. LastOk(r.state, r)
  BY <1>2 DEF LastOk, ConstantsOk
<1>4. s \in TaskType /\ s.runs = t.runs /\ s.state = t.state /\ s.max = t.max
  BY <1>1 DEF TaskType
<1> HIDE DEF r, s
<1>5. TaskOk(s) /\ Open(s)
  BY <1>4 DEF TaskOk, Open, LastRun
<1>6. TaskOk(u) /\ RunsKept(s, u) /\ u.state = r.state /\ Len(u.runs) = Len(s.runs)
  <2>1. LastReplaced(s, r, u)
    BY <1>2, <1>3, <1>5, WithLastOk
  <2> HIDE DEF u
  <2> QED
    BY <2>1 DEF LastReplaced
<1> HIDE DEF u
<1>7. RunsKept(t, u)
  BY <1>4, <1>6 DEF RunsKept
<1>8. TaskOk(u) /\ MovesOn(t, u) /\ Len(u.runs) = Len(t.runs)
  BY <1>2, <1>4, <1>6, <1>7 DEF MovesOn
<1> QED
  BY <1>8, Zenon DEF ClaimRun, u, r, s

\* A run whose lease expires or whose retry instant arrives.
LEMMA ClockOk ==
    ASSUME ConstantsOk, NEW t, TaskOk(t), Open(t), NEW r \in RunType,
           r.state = LastRun(t).state, r.out = LastRun(t).out
    PROVE  LET u == WithLast(t, r) IN TaskOk(u) /\ MovesOn(t, u)
<1> DEFINE u == WithLast(t, r)
<1>1. r.state = t.state /\ r.out = None
  BY OpenLast DEF LastRun
<1>2. LastOk(r.state, r)
  BY <1>1 DEF LastOk, ConstantsOk, Open
<1>3. TaskOk(u) /\ RunsKept(t, u) /\ u.state = r.state
  <2>1. LastReplaced(t, r, u)
    BY <1>2, WithLastOk
  <2> HIDE DEF u
  <2> QED
    BY <2>1 DEF LastReplaced
<1> HIDE DEF u
<1>4. TaskOk(u) /\ MovesOn(t, u)
  BY <1>1, <1>3 DEF MovesOn, Open
<1> QED
  BY <1>4 DEF u

\* cancel_task: an open task becomes a tombstone, any other stays.
LEMMA CancelTaskOk ==
    ASSUME ConstantsOk, NEW t, TaskOk(t)
    PROVE  LET u == CancelTask(t) IN
           /\ TaskOk(u) /\ RunsKept(t, u) /\ ~Open(u)
           /\ Open(t) => u.state = "cancelled" /\ u.started = t.started
           /\ ~Open(t) => u = t
<1> DEFINE r == [LastRun(t) EXCEPT !.state = "cancelled", !.by = None, !.lease = "none"]
           u == WithLast(t, r)
<1>1. CASE Open(t)
  <2>1. LastRun(t) \in RunType /\ LastRun(t).out = None
    BY <1>1, OpenLast DEF LastRun
  <2>2. r \in RunType /\ r.state = "cancelled" /\ r.out = None
    BY <2>1, Zenon DEF RunType
  <2>3. LastOk(r.state, r)
    BY <2>2 DEF LastOk, ConstantsOk
  <2> HIDE DEF r
  <2>4. TaskOk(u) /\ RunsKept(t, u) /\ u.state = r.state /\ u.started = t.started
    <3>1. LastReplaced(t, r, u)
      BY <1>1, <2>2, <2>3, WithLastOk
    <3> HIDE DEF u
    <3> QED
      BY <3>1 DEF LastReplaced
  <2>5. CancelTask(t) = u
    BY <1>1, Zenon DEF CancelTask, r
  <2> HIDE DEF u
  <2> QED
    BY <1>1, <2>2, <2>4, <2>5 DEF Open
<1>2. CASE ~Open(t)
  <2>1. CancelTask(t) = t
    BY <1>2 DEF CancelTask
  <2>2. t.runs \in Seq(RunType)
    BY DEF TaskOk, TaskType
  <2>3. RunsKept(t, t)
    BY <2>2, SeqLen DEF RunsKept
  <2> QED
    BY <1>2, <2>1, <2>3
<1> QED
  BY <1>1, <1>2

\* spawn_task.
LEMMA SpawnTaskOk ==
    ASSUME ConstantsOk
    PROVE  TaskOk(SpawnTask) /\ Open(SpawnTask) /\ SpawnTask.started = "never" /\ SpawnTask.state = "pending"
<1> DEFINE first == NewRun(FALSE)
<1>1. first \in RunType /\ first.state = "pending" /\ first.out = None
  BY DEF NewRun, RunType
<1> HIDE DEF first
<1>2. <<first>> \in Seq(RunType) /\ Len(<<first>>) = 1 /\ <<first>>[1] = first
  BY <1>1
<1>3. MaxAttempts \in Nat /\ 1 <= MaxAttempts
  BY DEF ConstantsOk
<1>4. LastOk("pending", first)
  BY <1>1 DEF LastOk, ConstantsOk
<1>5. SpawnTask = [state |-> "pending", max |-> MaxAttempts, started |-> "never",
                   runs |-> <<first>>, details |-> None]
  BY DEF SpawnTask, first
<1>6. SpawnTask \in TaskType
  BY <1>2, <1>3, <1>5 DEF TaskType
<1>7. /\ SpawnTask.state = "pending" /\ SpawnTask.max = MaxAttempts
      /\ SpawnTask.started = "never" /\ SpawnTask.runs = <<first>>
  BY <1>5
<1>8. LastRun(SpawnTask) = first
  BY <1>2, <1>7 DEF LastRun
<1>9. TaskOk(SpawnTask)
  BY <1>2, <1>3, <1>4, <1>6, <1>7, <1>8 DEF TaskOk
<1> QED
  BY <1>7, <1>9 DEF Open

----------------------------------------------------------------------------
(* The inductive invariant. *)

Occurs == [q : Queues, o : Occurrences, run : Nat]

TypeInv ==
    /\ tasks \in [Keys -> TaskType] /\ \A k \in Keys : TaskOk(tasks[k])
    /\ hist \in [Occurrences -> {"new", "requested", "accepted", "closed"}]
    /\ route \in [Occurrences -> Queues]
    /\ mine \in [Occurrences -> Queues \cup {None}]
    /\ fenced \subseteq Occurrences
    /\ held \in [Workers -> Occurs \cup {None}]
    /\ \A a \in acks : a.q \in Queues /\ a.o \in Occurrences

\* What a Worker holds is a run; what it has had acknowledged is over.
WorkersInv ==
    /\ \A w \in Workers : held[w] # None =>
        held[w].run \in 1..Len(tasks[<<held[w].q, held[w].o>>].runs)
    /\ \A a \in acks :
        LET runs == tasks[<<a.q, a.o>>].runs IN
        /\ a.run \in 1..Len(runs) /\ runs[a.run].state \in {"completed", "failed"}
        /\ runs[a.run].out = a.out

\* Custody the authority has read is still what it read, except that an open
\* task may have gone on.
ReadInv ==
    found # NoRead =>
        /\ found.op \in {"dispatch", "cancel"} /\ found.o \in Occurrences
        /\ found.live = LiveAt(found.o) /\ found.tomb = TombstoneAt(found.o)
        /\ \A q \in Queues : found.seen[q] \in {"completed", "failed"} =>
                             tasks[<<q, found.o>>].state = found.seen[q]
        /\ found.op = "dispatch" =>
            /\ hist[found.o] \in {"new", "requested"} /\ mine[found.o] = None
            /\ found.o \notin fenced
        /\ found.op = "cancel" => hist[found.o] = "closed"

SessionInv ==
    /\ OneLiveTask /\ TransferNeverStarted /\ CollectMeetsNoTombstone /\ FencedIsOver
    /\ \A o \in fenced : hist[o] = "closed"

DispatchInv == TypeInv /\ WorkersInv /\ ReadInv /\ SessionInv

\* What the invariant says of the outcomes.
LEMMA InvImplies ==
    ASSUME ConstantsOk, DispatchInv
    PROVE  /\ OneLiveTask /\ TransferNeverStarted /\ CollectMeetsNoTombstone /\ FencedIsOver
           /\ AcknowledgedIsRecorded /\ AttemptBudget /\ FatalIsLast
<1>1. OneLiveTask /\ TransferNeverStarted /\ CollectMeetsNoTombstone /\ FencedIsOver
  BY DEF DispatchInv, SessionInv
<1>2. AcknowledgedIsRecorded
  BY Zenon DEF DispatchInv, WorkersInv, AcknowledgedIsRecorded
<1>3. AttemptBudget
  BY DEF DispatchInv, TypeInv, TaskOk, AttemptBudget
<1>4. FatalIsLast
  <2> SUFFICES ASSUME NEW k \in Keys, NEW i \in DOMAIN tasks[k].runs, tasks[k].runs[i].out = "fatal"
               PROVE  i = Len(tasks[k].runs) /\ tasks[k].state = "failed"
    BY DEF FatalIsLast
  <2> DEFINE t == tasks[k]
  <2>1. TaskOk(t) /\ t.runs \in Seq(RunType)
    BY DEF DispatchInv, TypeInv, TaskOk, TaskType
  <2> HIDE DEF t
  <2>2. Len(t.runs) \in Nat /\ i \in 1..Len(t.runs)
    BY <2>1, SeqLen DEF t
  <2>3. i = Len(t.runs)
    BY <2>1, <2>2 DEF TaskOk, t
  <2>4. t.state # "absent" /\ LastRun(t).out = "fatal"
    BY <2>1, <2>2, <2>3 DEF TaskOk, LastRun, t
  <2>5. t.state = "failed"
    BY <2>1, <2>4 DEF TaskOk, LastOk
  <2> QED
    BY <2>3, <2>5 DEF t
<1> QED
  BY <1>1, <1>2, <1>3, <1>4

\* Runs that are over stay so: what Workers hold and were told stays true.
LEMMA RunsStay ==
    ASSUME DispatchInv, \A k \in Keys : TaskOk(tasks'[k]),
           \A k \in Keys : RunsKept(tasks[k], tasks'[k])
    PROVE  /\ \A w \in Workers : held[w] # None =>
                held[w].run \in 1..Len(tasks'[<<held[w].q, held[w].o>>].runs)
           /\ \A a \in acks :
                LET runs == tasks'[<<a.q, a.o>>].runs IN
                /\ a.run \in 1..Len(runs) /\ runs[a.run].state \in {"completed", "failed"}
                /\ runs[a.run].out = a.out
<1>1. \A k \in Keys : /\ Len(tasks[k].runs) \in Nat /\ Len(tasks'[k].runs) \in Nat
                      /\ Len(tasks[k].runs) <= Len(tasks'[k].runs)
  BY SeqLen DEF DispatchInv, TypeInv, TaskOk, TaskType, RunsKept
<1>2. ASSUME NEW w \in Workers, held[w] # None
      PROVE  held[w].run \in 1..Len(tasks'[<<held[w].q, held[w].o>>].runs)
  <2>1. <<held[w].q, held[w].o>> \in Keys /\ held[w].run \in Nat
    BY <1>2 DEF DispatchInv, TypeInv, Keys, Occurs
  <2>2. held[w].run \in 1..Len(tasks[<<held[w].q, held[w].o>>].runs)
    BY <1>2 DEF DispatchInv, WorkersInv
  <2> QED
    BY <1>1, <2>1, <2>2
<1>3. ASSUME NEW a \in acks
      PROVE  /\ a.run \in 1..Len(tasks'[<<a.q, a.o>>].runs)
             /\ tasks'[<<a.q, a.o>>].runs[a.run] = tasks[<<a.q, a.o>>].runs[a.run]
  <2>1. <<a.q, a.o>> \in Keys
    BY DEF DispatchInv, TypeInv, Keys
  <2>2. /\ a.run \in 1..Len(tasks[<<a.q, a.o>>].runs)
        /\ tasks[<<a.q, a.o>>].runs[a.run].state \in {"completed", "failed"}
    BY DEF DispatchInv, WorkersInv
  <2>3. RunsKept(tasks[<<a.q, a.o>>], tasks'[<<a.q, a.o>>])
    BY <2>1
  <2> QED
    BY <1>1, <2>1, <2>2, <2>3 DEF RunsKept
<1> QED
  BY <1>2, <1>3, Zenon DEF WorkersInv, DispatchInv

\* The same, when no Worker takes or reports anything.
LEMMA WorkersKeep ==
    ASSUME DispatchInv, UNCHANGED <<held, acks>>, \A k \in Keys : TaskOk(tasks'[k]),
           \A k \in Keys : RunsKept(tasks[k], tasks'[k])
    PROVE  WorkersInv'
BY RunsStay DEF WorkersInv

\* What Workers and time do leaves custody, and what is over, as it is.
LEMMA MovesOnKeeps ==
    ASSUME ConstantsOk, DispatchInv, UNCHANGED <<hist, route, mine, fenced, found>>,
           \A k \in Keys : MovesOn(tasks[k], tasks'[k])
    PROVE  /\ ReadInv' /\ SessionInv' /\ OverKept
           /\ \A k \in Keys : RunsKept(tasks[k], tasks'[k])
<1>1. ASSUME NEW k \in Keys
      PROVE  \/ tasks'[k] = tasks[k]
             \/ /\ tasks[k].state \in {"pending", "sleeping", "running"}
                /\ tasks'[k].state \notin {"absent", "cancelled"}
  BY DEF MovesOn, Open
<1>2. ASSUME NEW q \in Queues, NEW o \in Occurrences PROVE <<q, o>> \in Keys
  BY DEF Keys
<1>3. ASSUME NEW k \in Keys PROVE RunsKept(tasks[k], tasks'[k])
  <2>1. tasks[k].runs \in Seq(RunType)
    BY DEF DispatchInv, TypeInv, TaskOk, TaskType
  <2>2. RunsKept(tasks[k], tasks[k])
    BY <2>1, SeqLen DEF RunsKept
  <2> QED
    BY <2>2 DEF MovesOn
<1>4. \A o \in Occurrences : LiveAt(o)' = LiveAt(o) /\ TombstoneAt(o)' = TombstoneAt(o)
  BY <1>1, <1>2 DEF LiveAt, TombstoneAt
<1>5. ReadInv'
  <2> SUFFICES ASSUME found # NoRead PROVE ReadInv'
    BY DEF ReadInv
  <2>1. ASSUME NEW q \in Queues, found.seen[q] \in {"completed", "failed"}
        PROVE  tasks'[<<q, found.o>>].state = found.seen[q]
    BY <1>1, <1>2, <2>1 DEF DispatchInv, ReadInv
  <2> QED
    BY <1>4, <2>1 DEF DispatchInv, ReadInv
<1>6. OneLiveTask'
  BY <1>1, <1>2 DEF DispatchInv, SessionInv, OneLiveTask
<1>7. TransferNeverStarted'
  BY <1>1, <1>2 DEF DispatchInv, SessionInv, TransferNeverStarted
<1>8. CollectMeetsNoTombstone'
  BY <1>1, <1>2 DEF DispatchInv, TypeInv, SessionInv, CollectMeetsNoTombstone
<1>9. FencedIsOver'
  BY <1>1, <1>2, Zenon DEF DispatchInv, TypeInv, SessionInv, FencedIsOver, Open
<1>10. OverKept
  BY <1>1 DEF OverKept
<1> QED
  BY <1>3, <1>5, <1>6, <1>7, <1>8, <1>9, <1>10 DEF DispatchInv, SessionInv

\* One task moves on, no Worker takes or reports anything.
LEMMA OneMovesOn ==
    ASSUME ConstantsOk, DispatchInv, NEW k \in Keys, NEW u, TaskOk(u), MovesOn(tasks[k], u),
           tasks' = [tasks EXCEPT ![k] = u]
    PROVE  /\ tasks' \in [Keys -> TaskType] /\ tasks'[k] = u
           /\ \A j \in Keys : TaskOk(tasks'[j]) /\ MovesOn(tasks[j], tasks'[j])
<1>1. tasks \in [Keys -> TaskType] /\ \A j \in Keys : TaskOk(tasks[j])
  BY DEF DispatchInv, TypeInv
<1>2. u \in TaskType
  BY DEF TaskOk
<1>3. \A j \in Keys : MovesOn(tasks[j], tasks[j])
  BY DEF MovesOn
<1> QED
  BY <1>1, <1>2, <1>3

\* A lease expires.
LEMMA ExpireKeeps ==
    ASSUME ConstantsOk, DispatchInv, NEW k \in Keys, Expire(k)
    PROVE  DispatchInv' /\ OverKept
<1> DEFINE t == tasks[k]
           r == [LastRun(t) EXCEPT !.lease = "expired"]
           u == WithLast(t, r)
<1>1. TaskOk(t) /\ Open(t) /\ tasks' = [tasks EXCEPT ![k] = u]
  BY DEF DispatchInv, TypeInv, Expire
<1> HIDE DEF t
<1>2. LastRun(t) \in RunType
  BY <1>1, OpenLast DEF LastRun
<1>3. r \in RunType /\ r.state = LastRun(t).state /\ r.out = LastRun(t).out
  BY <1>2 DEF RunType
<1> HIDE DEF r
<1>4. TaskOk(u) /\ MovesOn(t, u)
  BY <1>1, <1>3, ClockOk
<1> HIDE DEF u
<1>5. /\ tasks' \in [Keys -> TaskType]
      /\ \A j \in Keys : TaskOk(tasks'[j]) /\ MovesOn(tasks[j], tasks'[j])
  BY <1>1, <1>4, OneMovesOn, Zenon DEF t
<1>6. UNCHANGED <<hist, route, mine, fenced, found, held, acks>>
  BY DEF Expire, canonical, session
<1>7. ReadInv' /\ SessionInv' /\ OverKept /\ \A j \in Keys : RunsKept(tasks[j], tasks'[j])
  BY <1>5, <1>6, MovesOnKeeps
<1>8. WorkersInv'
  BY <1>5, <1>6, <1>7, WorkersKeep
<1>9. TypeInv'
  BY <1>5, <1>6 DEF DispatchInv, TypeInv
<1> QED
  BY <1>7, <1>8, <1>9 DEF DispatchInv

\* A retry instant arrives.
LEMMA WakeKeeps ==
    ASSUME ConstantsOk, DispatchInv, NEW k \in Keys, Wake(k)
    PROVE  DispatchInv' /\ OverKept
<1> DEFINE t == tasks[k]
           r == [LastRun(t) EXCEPT !.available = "now"]
           u == WithLast(t, r)
<1>1. TaskOk(t) /\ Open(t) /\ tasks' = [tasks EXCEPT ![k] = u]
  BY DEF DispatchInv, TypeInv, Wake
<1> HIDE DEF t
<1>2. LastRun(t) \in RunType
  BY <1>1, OpenLast DEF LastRun
<1>3. r \in RunType /\ r.state = LastRun(t).state /\ r.out = LastRun(t).out
  BY <1>2 DEF RunType
<1> HIDE DEF r
<1>4. TaskOk(u) /\ MovesOn(t, u)
  BY <1>1, <1>3, ClockOk
<1> HIDE DEF u
<1>5. /\ tasks' \in [Keys -> TaskType]
      /\ \A j \in Keys : TaskOk(tasks'[j]) /\ MovesOn(tasks[j], tasks'[j])
  BY <1>1, <1>4, OneMovesOn, Zenon DEF t
<1>6. UNCHANGED <<hist, route, mine, fenced, found, held, acks>>
  BY DEF Wake, canonical, session
<1>7. ReadInv' /\ SessionInv' /\ OverKept /\ \A j \in Keys : RunsKept(tasks[j], tasks'[j])
  BY <1>5, <1>6, MovesOnKeeps
<1>8. WorkersInv'
  BY <1>5, <1>6, <1>7, WorkersKeep
<1>9. TypeInv'
  BY <1>5, <1>6 DEF DispatchInv, TypeInv
<1> QED
  BY <1>7, <1>8, <1>9 DEF DispatchInv

\* A Worker whose attempt is current holds the last run of an open task.
LEMMA HeldCurrent ==
    ASSUME DispatchInv, NEW w \in Workers, held[w] # None, Current(w)
    PROVE  LET k == <<held[w].q, held[w].o>> IN
           /\ k \in Keys /\ held[w] \in Occurs /\ TaskOk(tasks[k]) /\ Open(tasks[k])
           /\ held[w].run = Len(tasks[k].runs)
<1> DEFINE k == <<held[w].q, held[w].o>>
           t == tasks[k]
           n == held[w].run
<1>1. held[w] \in Occurs
  BY DEF DispatchInv, TypeInv
<1>2. k \in Keys /\ n \in Nat
  BY <1>1 DEF Keys, Occurs
<1>3. TaskOk(t) /\ t.runs \in Seq(RunType)
  BY <1>2, Zenon DEF DispatchInv, TypeInv, TaskOk, TaskType
<1>4. n \in 1..Len(t.runs) /\ t.runs[n].state = "running"
  BY DEF DispatchInv, WorkersInv, Current, Attempt
<1> HIDE DEF t, n
<1>5. Len(t.runs) \in Nat
  BY <1>3, SeqLen
<1>6. n = Len(t.runs)
  BY <1>3, <1>4, <1>5 DEF TaskOk
<1>7. t.state # "absent" /\ LastRun(t).state = "running"
  BY <1>3, <1>4, <1>5, <1>6 DEF TaskOk, LastRun
<1>8. Open(t)
  BY <1>3, <1>7 DEF TaskOk, LastOk, Open
<1> QED
  BY <1>1, <1>2, <1>3, <1>6, <1>8 DEF t, n

\* A heartbeat changes the details of its own task.
LEMMA HeartbeatKeeps ==
    ASSUME ConstantsOk, DispatchInv, NEW w \in Workers, Heartbeat(w)
    PROVE  DispatchInv' /\ OverKept
<1> DEFINE k == <<held[w].q, held[w].o>>
           t == tasks[k]
           u == [t EXCEPT !.details = held[w].run]
<1>1. /\ k \in Keys /\ held[w] \in Occurs /\ TaskOk(t) /\ Open(t)
      /\ held[w].run = Len(t.runs)
  BY HeldCurrent DEF Heartbeat
<1>2. tasks' = [tasks EXCEPT ![k] = u]
  BY <1>1 DEF Heartbeat, DispatchInv, TypeInv
<1> HIDE DEF t, k
<1>3. t \in TaskType /\ held[w].run \in Nat
  BY <1>1 DEF TaskOk, Occurs
<1>4. u \in TaskType /\ u.state = t.state /\ u.runs = t.runs /\ u.max = t.max
  BY <1>3 DEF TaskType
<1> HIDE DEF u
<1>5. TaskOk(u)
  BY <1>1, <1>4 DEF TaskOk, LastRun
<1>6. RunsKept(t, u)
  <2>1. Len(t.runs) \in Nat
    BY <1>3, SeqLen DEF TaskType
  <2> QED
    BY <1>4, <2>1 DEF RunsKept
<1>7. MovesOn(t, u)
  BY <1>1, <1>4, <1>5, <1>6 DEF MovesOn, Open
<1>8. /\ tasks' \in [Keys -> TaskType]
      /\ \A j \in Keys : TaskOk(tasks'[j]) /\ MovesOn(tasks[j], tasks'[j])
  BY <1>1, <1>2, <1>5, <1>7, OneMovesOn, Zenon DEF t
<1>9. UNCHANGED <<hist, route, mine, fenced, found, held, acks>>
  BY DEF Heartbeat, canonical, session
<1>10. ReadInv' /\ SessionInv' /\ OverKept /\ \A j \in Keys : RunsKept(tasks[j], tasks'[j])
  BY <1>8, <1>9, MovesOnKeeps
<1>11. WorkersInv'
  BY <1>8, <1>9, <1>10, WorkersKeep
<1>12. TypeInv'
  BY <1>8, <1>9 DEF DispatchInv, TypeInv
<1> QED
  BY <1>10, <1>11, <1>12 DEF DispatchInv

\* A Worker ends its attempt with out, and is told so.
LEMMA ReportKeeps ==
    ASSUME ConstantsOk, DispatchInv, NEW w \in Workers, held[w] # None, Current(w), NEW u, NEW out,
           LET t == tasks[<<held[w].q, held[w].o>>] IN
           /\ TaskOk(u) /\ MovesOn(t, u)
           /\ u.runs[Len(t.runs)].state \in {"completed", "failed"} /\ u.runs[Len(t.runs)].out = out,
           tasks' = [tasks EXCEPT ![<<held[w].q, held[w].o>>] = u],
           Acknowledge(w, out), UNCHANGED <<hist, route, mine, fenced, found, held>>
    PROVE  DispatchInv' /\ OverKept
<1> DEFINE k == <<held[w].q, held[w].o>>
           t == tasks[k]
           a == [q |-> held[w].q, o |-> held[w].o, run |-> held[w].run, out |-> out]
<1>1. /\ k \in Keys /\ held[w] \in Occurs /\ TaskOk(t) /\ Open(t)
      /\ held[w].run = Len(t.runs)
  BY HeldCurrent
<1>2. /\ TaskOk(u) /\ MovesOn(t, u)
      /\ u.runs[Len(t.runs)].state \in {"completed", "failed"} /\ u.runs[Len(t.runs)].out = out
      /\ tasks' = [tasks EXCEPT ![k] = u]
  OBVIOUS
<1>3. /\ tasks' \in [Keys -> TaskType] /\ tasks'[k] = u
      /\ \A j \in Keys : TaskOk(tasks'[j]) /\ MovesOn(tasks[j], tasks'[j])
  BY <1>1, <1>2, OneMovesOn, Zenon
<1>4. ReadInv' /\ SessionInv' /\ OverKept /\ \A j \in Keys : RunsKept(tasks[j], tasks'[j])
  BY <1>3, MovesOnKeeps
<1>5. acks' = acks \cup {a}
  BY DEF Acknowledge
<1>6. \A j \in Keys : Len(tasks[j].runs) \in Nat /\ Len(tasks'[j].runs) \in Nat
  BY <1>3, SeqLen DEF DispatchInv, TypeInv, TaskOk, TaskType
<1>7. /\ a.q \in Queues /\ a.o \in Occurrences /\ <<a.q, a.o>> = k /\ a.out = out
      /\ a.run = Len(t.runs)
  BY <1>1 DEF Occurs
<1> HIDE DEF k, t, a
<1>8. /\ \A v \in Workers : held[v] # None =>
            held[v].run \in 1..Len(tasks'[<<held[v].q, held[v].o>>].runs)
      /\ \A b \in acks :
            /\ b.run \in 1..Len(tasks'[<<b.q, b.o>>].runs)
            /\ tasks'[<<b.q, b.o>>].runs[b.run].state \in {"completed", "failed"}
            /\ tasks'[<<b.q, b.o>>].runs[b.run].out = b.out
  BY <1>3, <1>4, RunsStay
<1>9. /\ a.run \in 1..Len(tasks'[<<a.q, a.o>>].runs)
      /\ tasks'[<<a.q, a.o>>].runs[a.run].state \in {"completed", "failed"}
      /\ tasks'[<<a.q, a.o>>].runs[a.run].out = a.out
  <2>1. Len(t.runs) \in Nat /\ Len(t.runs) # 0 /\ Len(t.runs) <= Len(u.runs) /\ Len(u.runs) \in Nat
    BY <1>1, <1>3, <1>4, <1>6, OpenLast DEF RunsKept, t
  <2> QED
    BY <1>2, <1>3, <1>7, <2>1
<1>10. WorkersInv'
  BY <1>5, <1>8, <1>9, Zenon DEF WorkersInv
<1>11. TypeInv'
  BY <1>3, <1>5, <1>7 DEF DispatchInv, TypeInv
<1> QED
  BY <1>4, <1>10, <1>11 DEF DispatchInv

\* complete.
LEMMA CompleteKeeps ==
    ASSUME ConstantsOk, DispatchInv, NEW w \in Workers, NEW v \in Values, Complete(w, v)
    PROVE  DispatchInv' /\ OverKept
<1> DEFINE k == <<held[w].q, held[w].o>>
           t == tasks[k]
           u == CompleteRun(t, v)
<1>1. k \in Keys /\ TaskOk(t) /\ Open(t) /\ held[w] # None /\ Current(w)
  BY HeldCurrent DEF Complete
<1>2. tasks' = [tasks EXCEPT ![k] = u]
  BY <1>1 DEF Complete, DispatchInv, TypeInv
<1>3. /\ TaskOk(u) /\ MovesOn(t, u)
      /\ u.runs[Len(t.runs)].state = "completed" /\ u.runs[Len(t.runs)].out = v
  BY <1>1, CompleteRunOk
<1>4. Acknowledge(w, v) /\ UNCHANGED <<hist, route, mine, fenced, found, held>>
  BY DEF Complete, canonical, session
<1> HIDE DEF u
<1> QED
  BY <1>1, <1>2, <1>3, <1>4, ReportKeeps, Zenon

\* fail, retryable or not.
LEMMA FailKeeps ==
    ASSUME ConstantsOk, DispatchInv, NEW w \in Workers, NEW reason \in {"retryable", "fatal"},
           NEW later \in BOOLEAN, Fail(w, reason, later)
    PROVE  DispatchInv' /\ OverKept
<1> DEFINE k == <<held[w].q, held[w].o>>
           t == tasks[k]
           s == Settled(t, reason)
           u == FailRun(s, reason, later)
<1>1. k \in Keys /\ TaskOk(t) /\ Open(t) /\ held[w] # None /\ Current(w)
  BY HeldCurrent DEF Fail
<1>2. tasks' = [tasks EXCEPT ![k] = u]
  BY <1>1 DEF Fail, DispatchInv, TypeInv
<1>3. /\ TaskOk(s) /\ Open(s) /\ s.runs = t.runs /\ MovesOn(t, s)
      /\ reason = "fatal" => s.max <= Len(s.runs)
  BY <1>1, SettledOk
<1> HIDE DEF s
<1>4. /\ TaskOk(u) /\ MovesOn(s, u)
      /\ u.runs[Len(s.runs)].state = "failed" /\ u.runs[Len(s.runs)].out = reason
  BY <1>3, FailRunOk
<1> HIDE DEF u
<1>5. MovesOn(t, u)
  BY <1>1, <1>3, <1>4, MovesOnTwice
<1>6. Acknowledge(w, reason) /\ UNCHANGED <<hist, route, mine, fenced, found, held>>
  BY DEF Fail, canonical, session
<1> QED
  BY <1>1, <1>2, <1>3, <1>4, <1>5, <1>6, ReportKeeps, Zenon

\* An exact repetition is acknowledged.
LEMMA RepeatKeeps ==
    ASSUME ConstantsOk, DispatchInv, NEW w \in Workers, NEW out, Repeat(w, out)
    PROVE  DispatchInv' /\ OverKept
<1> DEFINE a == [q |-> held[w].q, o |-> held[w].o, run |-> held[w].run, out |-> out]
<1>1. UNCHANGED <<tasks, hist, route, mine, fenced, found, held>> /\ acks' = acks \cup {a}
  BY DEF Repeat, Acknowledge, db, canonical, session
<1>2. held[w] # None /\ held[w] \in Occurs
  BY DEF Repeat, DispatchInv, TypeInv
<1>3. /\ a.q = held[w].q /\ a.o = held[w].o /\ a.run = held[w].run /\ a.out = out
      /\ a.q \in Queues /\ a.o \in Occurrences
  BY <1>2 DEF Occurs
<1> HIDE DEF a
<1>4. LET runs == tasks[<<a.q, a.o>>].runs IN
      /\ a.run \in 1..Len(runs) /\ runs[a.run].state \in {"completed", "failed"}
      /\ runs[a.run].out = a.out
  BY <1>2, <1>3 DEF DispatchInv, WorkersInv, Repeat, Repeats, Attempt
<1>5. TypeInv'
  BY <1>1, <1>3 DEF DispatchInv, TypeInv
<1>6. WorkersInv'
  BY <1>1, <1>4 DEF DispatchInv, WorkersInv
<1>7. ReadInv' /\ SessionInv'
  BY <1>1 DEF DispatchInv, ReadInv, SessionInv, LiveAt, TombstoneAt, OneLiveTask, TransferNeverStarted,
              CollectMeetsNoTombstone, FencedIsOver
<1>8. OverKept
  BY <1>1 DEF OverKept
<1> QED
  BY <1>5, <1>6, <1>7, <1>8 DEF DispatchInv

\* A Worker goes on to other work, or ends.
LEMMA DropKeeps ==
    ASSUME ConstantsOk, DispatchInv, NEW w \in Workers, Drop(w)
    PROVE  DispatchInv' /\ OverKept
<1>1. UNCHANGED <<tasks, hist, route, mine, fenced, found, acks>> /\ held' = [held EXCEPT ![w] = None]
  BY DEF Drop, db, canonical, session
<1>2. TypeInv'
  BY <1>1 DEF DispatchInv, TypeInv
<1>3. \A v \in Workers : held'[v] = None \/ held'[v] = held[v]
  BY <1>1 DEF DispatchInv, TypeInv
<1>4. WorkersInv'
  BY <1>1, <1>3 DEF DispatchInv, WorkersInv
<1>5. ReadInv' /\ SessionInv'
  BY <1>1 DEF DispatchInv, ReadInv, SessionInv, LiveAt, TombstoneAt, OneLiveTask, TransferNeverStarted,
              CollectMeetsNoTombstone, FencedIsOver
<1>6. OverKept
  BY <1>1 DEF OverKept
<1> QED
  BY <1>2, <1>4, <1>5, <1>6 DEF DispatchInv

\* claim_task's sweep fails at most one expired run.
LEMMA SweepOk ==
    ASSUME ConstantsOk, DispatchInv, NEW q \in Queues, NEW swept,
           swept \in Occurrences => Expired(tasks[<<q, swept>>]), NEW o \in Occurrences
    PROVE  LET u == IF o = swept THEN FailRun(tasks[<<q, o>>], "timeout", FALSE) ELSE tasks[<<q, o>>] IN
           TaskOk(u) /\ MovesOn(tasks[<<q, o>>], u)
<1> DEFINE t == tasks[<<q, o>>]
<1>1. TaskOk(t)
  BY DEF DispatchInv, TypeInv, Keys
<1>2. CASE o = swept
  <2>1. Open(t)
    BY <1>2 DEF Expired
  <2> HIDE DEF t
  <2>2. TaskOk(FailRun(t, "timeout", FALSE)) /\ MovesOn(t, FailRun(t, "timeout", FALSE))
    <3>1. "timeout" \in {"retryable", "fatal", "timeout"} /\ FALSE \in BOOLEAN /\ "timeout" # "fatal"
      OBVIOUS
    <3> QED
      BY <1>1, <2>1, <3>1, FailRunOk, Zenon
  <2> QED
    BY <1>2, <2>2, Zenon DEF t
<1>3. CASE o # swept
  BY <1>1, <1>3 DEF MovesOn
<1> QED
  BY <1>2, <1>3, Zenon

\* claim_task.
LEMMA ClaimKeeps ==
    ASSUME ConstantsOk, DispatchInv, NEW w \in Workers, NEW q \in Queues, Claim(w, q)
    PROVE  DispatchInv' /\ OverKept
<1> DEFINE Swept(x) == [o \in Occurrences |->
                        IF o = x THEN FailRun(tasks[<<q, o>>], "timeout", FALSE) ELSE tasks[<<q, o>>]]
<1>1. PICK swept \in {o \in Occurrences : Expired(tasks[<<q, o>>])} \cup
                     {x \in {None} : \A o \in Occurrences : ~Expired(tasks[<<q, o>>])} :
        \E after \in {Swept(swept)} :
            LET ready == {o \in Occurrences : Claimable(after[o])} IN
            \/ /\ ready = {} /\ swept # None
               /\ tasks' = [k \in Keys |-> IF k[1] = q THEN after[k[2]] ELSE tasks[k]]
               /\ UNCHANGED held
            \/ \E o \in ready :
                /\ tasks' = [k \in Keys |->
                              IF k = <<q, o>> THEN ClaimRun(after[o], w)
                              ELSE IF k[1] = q THEN after[k[2]] ELSE tasks[k]]
                /\ \/ held' = [held EXCEPT ![w] = [q |-> q, o |-> o,
                                                   run |-> Len(after[o].runs)]]
                   \/ UNCHANGED held
  BY Zenon DEF Claim
<1>2. swept \in Occurrences => Expired(tasks[<<q, swept>>])
  BY <1>1 DEF ConstantsOk
<1> DEFINE after == Swept(swept)
<1>3. \A o \in Occurrences : TaskOk(after[o]) /\ MovesOn(tasks[<<q, o>>], after[o])
  BY <1>2, SweepOk, Zenon
<1>4. \/ /\ tasks' = [k \in Keys |-> IF k[1] = q THEN after[k[2]] ELSE tasks[k]]
         /\ UNCHANGED held
      \/ \E o \in Occurrences :
                /\ Claimable(after[o])
                /\ tasks' = [k \in Keys |->
                              IF k = <<q, o>> THEN ClaimRun(after[o], w)
                              ELSE IF k[1] = q THEN after[k[2]] ELSE tasks[k]]
                /\ \/ held' = [held EXCEPT ![w] = [q |-> q, o |-> o,
                                                   run |-> Len(after[o].runs)]]
                   \/ UNCHANGED held
  BY <1>1, Zenon
<1> HIDE DEF after, Swept
<1>5. UNCHANGED <<hist, route, mine, fenced, found, acks>>
  BY DEF Claim, canonical, session
<1>6. \A k \in Keys : TaskOk(tasks[k]) /\ MovesOn(tasks[k], tasks[k])
  BY DEF DispatchInv, TypeInv, MovesOn
<1>7. \A k \in Keys : k[1] \in Queues /\ k[2] \in Occurrences /\ k = <<k[1], k[2]>>
  BY DEF Keys
<1>8. ASSUME DOMAIN tasks' = Keys, \A k \in Keys : TaskOk(tasks'[k]) /\ MovesOn(tasks[k], tasks'[k]),
             tasks' = [k \in Keys |-> tasks'[k]],
             \/ UNCHANGED held
             \/ \E o \in Occurrences, n \in Nat :
                   /\ held' = [held EXCEPT ![w] = [q |-> q, o |-> o, run |-> n]]
                   /\ n \in 1..Len(tasks'[<<q, o>>].runs)
      PROVE  DispatchInv' /\ OverKept
  <2>1. tasks' \in [Keys -> TaskType]
    BY <1>8 DEF TaskOk
  <2>2. ReadInv' /\ SessionInv' /\ OverKept /\ \A j \in Keys : RunsKept(tasks[j], tasks'[j])
    BY <1>5, <1>8, MovesOnKeeps
  <2>3. /\ \A v \in Workers : held[v] # None =>
                held[v].run \in 1..Len(tasks'[<<held[v].q, held[v].o>>].runs)
        /\ \A a \in acks :
                LET runs == tasks'[<<a.q, a.o>>].runs IN
                /\ a.run \in 1..Len(runs) /\ runs[a.run].state \in {"completed", "failed"}
                /\ runs[a.run].out = a.out
    BY <1>8, <2>2, RunsStay
  <2>4. CASE UNCHANGED held
    <3>1. WorkersInv'
      BY <1>5, <2>3, <2>4 DEF WorkersInv
    <3>2. TypeInv'
      BY <1>5, <1>8, <2>1, <2>4 DEF DispatchInv, TypeInv
    <3> QED
      BY <2>2, <3>1, <3>2 DEF DispatchInv
  <2>5. ASSUME NEW o \in Occurrences, NEW n \in Nat,
               held' = [held EXCEPT ![w] = [q |-> q, o |-> o, run |-> n]],
               n \in 1..Len(tasks'[<<q, o>>].runs)
        PROVE  DispatchInv'
    <3> DEFINE h == [q |-> q, o |-> o, run |-> n]
    <3>1. h \in Occurs /\ h.q = q /\ h.o = o /\ h.run = n
      BY DEF Occurs
    <3>2. held' = [held EXCEPT ![w] = h] /\ held \in [Workers -> Occurs \cup {None}]
      BY <2>5 DEF DispatchInv, TypeInv
    <3> HIDE DEF h
    <3>3. held' \in [Workers -> Occurs \cup {None}] /\ \A v \in Workers : held'[v] = IF v = w THEN h ELSE held[v]
      BY <3>1, <3>2
    <3>4. \A v \in Workers : held'[v] # None =>
                held'[v].run \in 1..Len(tasks'[<<held'[v].q, held'[v].o>>].runs)
      BY <2>3, <2>5, <3>1, <3>3
    <3>5. WorkersInv'
      BY <1>5, <2>3, <3>4 DEF WorkersInv
    <3>6. TypeInv'
      BY <1>5, <1>8, <2>1, <3>3 DEF DispatchInv, TypeInv
    <3> QED
      BY <2>2, <3>5, <3>6 DEF DispatchInv
  <2> QED
    BY <1>8, <2>2, <2>4, <2>5, Zenon
<1>9. CASE /\ tasks' = [k \in Keys |-> IF k[1] = q THEN after[k[2]] ELSE tasks[k]]
           /\ UNCHANGED held
  <2>1. \A k \in Keys : TaskOk(tasks'[k]) /\ MovesOn(tasks[k], tasks'[k])
    BY <1>3, <1>6, <1>7, <1>9
  <2>2. DOMAIN tasks' = Keys /\ tasks' = [k \in Keys |-> tasks'[k]]
    BY <1>9
  <2> QED
    BY <1>8, <1>9, <2>1, <2>2
<1>10. ASSUME NEW o \in Occurrences, Claimable(after[o]),
              tasks' = [k \in Keys |->
                              IF k = <<q, o>> THEN ClaimRun(after[o], w)
                              ELSE IF k[1] = q THEN after[k[2]] ELSE tasks[k]],
              \/ held' = [held EXCEPT ![w] = [q |-> q, o |-> o, run |-> Len(after[o].runs)]]
              \/ UNCHANGED held
       PROVE  DispatchInv' /\ OverKept
  <2> DEFINE u == ClaimRun(after[o], w)
             n == Len(after[o].runs)
  <2>1. Open(after[o]) /\ TaskOk(after[o]) /\ <<q, o>> \in Keys
    BY <1>3, <1>10 DEF Claimable, Keys
  <2>2. TaskOk(u) /\ MovesOn(after[o], u) /\ Len(u.runs) = n
    BY <2>1, ClaimRunOk
  <2>3. n \in Nat \ {0}
    BY <2>1, OpenLast
  <2>4. tasks'[<<q, o>>] = u /\ DOMAIN tasks' = Keys /\ tasks' = [k \in Keys |-> tasks'[k]]
    BY <1>10, <2>1
  <2> HIDE DEF u
  <2>5. MovesOn(tasks[<<q, o>>], u)
    BY <1>3, <1>6, <2>1, <2>2, MovesOnTwice
  <2>6. \A k \in Keys : TaskOk(tasks'[k]) /\ MovesOn(tasks[k], tasks'[k])
    BY <1>3, <1>6, <1>7, <1>10, <2>2, <2>4, <2>5
  <2>7. n \in Nat /\ n \in 1..Len(tasks'[<<q, o>>].runs)
    BY <2>2, <2>3, <2>4
  <2> QED
    BY <1>8, <1>10, <2>4, <2>6, <2>7
<1> QED
  BY <1>4, <1>9, <1>10

\* The end of a session forgets what the authority knew and changes no task.
LEMMA SessionEnds ==
    ASSUME ConstantsOk, DispatchInv, EndsSession, UNCHANGED <<tasks, hist, held, acks>>
    PROVE  DispatchInv' /\ OverKept
<1>1. found' = NoRead /\ fenced' = {} /\ route' = route /\ mine' = [o \in Occurrences |-> None]
  BY DEF EndsSession
<1>2. TypeInv'
  BY <1>1 DEF DispatchInv, TypeInv
<1>3. WorkersInv'
  BY DEF DispatchInv, WorkersInv
<1>4. ReadInv'
  BY <1>1 DEF ReadInv
<1>5. SessionInv'
  BY <1>1 DEF DispatchInv, SessionInv, OneLiveTask, TransferNeverStarted, CollectMeetsNoTombstone, FencedIsOver
<1>6. OverKept
  BY DEF OverKept
<1> QED
  BY <1>2, <1>3, <1>4, <1>5, <1>6 DEF DispatchInv

\* Loading the composition fixes a routing.
LEMMA LoadKeeps ==
    ASSUME ConstantsOk, DispatchInv, Load
    PROVE  DispatchInv' /\ OverKept
<1>1. /\ UNCHANGED <<tasks, hist, mine, fenced, found, held, acks>>
      /\ route' \in [Occurrences -> Queues]
  BY DEF Load, canonical
<1>2. TypeInv' /\ WorkersInv'
  BY <1>1 DEF DispatchInv, TypeInv, WorkersInv
<1>3. ReadInv' /\ SessionInv'
  BY <1>1 DEF DispatchInv, ReadInv, SessionInv, LiveAt, TombstoneAt, OneLiveTask, TransferNeverStarted,
              CollectMeetsNoTombstone, FencedIsOver
<1>4. OverKept
  BY <1>1 DEF OverKept
<1> QED
  BY <1>2, <1>3, <1>4 DEF DispatchInv

\* The process ends.
LEMMA CrashKeeps ==
    ASSUME ConstantsOk, DispatchInv, Crash
    PROVE  DispatchInv' /\ OverKept
<1>1. EndsSession /\ UNCHANGED <<tasks, hist, held, acks>>
  BY DEF Crash, db, canonical
<1> QED
  BY <1>1, SessionEnds

\* The lifecycle closes an occurrence.
LEMMA CloseKeeps ==
    ASSUME ConstantsOk, DispatchInv, NEW o \in Occurrences, Close(o)
    PROVE  DispatchInv' /\ OverKept
<1>1. /\ UNCHANGED <<tasks, route, mine, fenced, found, held, acks>>
      /\ found = NoRead /\ hist' = [hist EXCEPT ![o] = "closed"]
  BY DEF Close, db, session
<1>2. TypeInv' /\ WorkersInv' /\ ReadInv'
  BY <1>1 DEF DispatchInv, TypeInv, WorkersInv, ReadInv
<1>3. \A p \in Occurrences : hist'[p] = "closed" \/ hist'[p] = hist[p]
  BY <1>1 DEF DispatchInv, TypeInv
<1>4. SessionInv'
  BY <1>1, <1>3 DEF DispatchInv, TypeInv, SessionInv, OneLiveTask, TransferNeverStarted,
                    CollectMeetsNoTombstone, FencedIsOver
<1>5. OverKept
  BY <1>1 DEF OverKept
<1> QED
  BY <1>2, <1>4, <1>5 DEF DispatchInv

\* collect records outcomes, or ends the session.
LEMMA CollectKeeps ==
    ASSUME ConstantsOk, DispatchInv, Collect
    PROVE  DispatchInv' /\ OverKept
<1>1. UNCHANGED <<tasks, held, acks>> /\ found = NoRead
  BY DEF Collect, db
<1>2. CASE EndsSession /\ UNCHANGED canonical
  <2>1. UNCHANGED <<tasks, hist, held, acks>>
    BY <1>1, <1>2 DEF canonical
  <2> QED
    BY <1>2, <2>1, SessionEnds
<1>3. CASE ~(EndsSession /\ UNCHANGED canonical)
  <2>1. /\ UNCHANGED <<route, mine, fenced, found>>
        /\ \E done : hist' = [o \in Occurrences |->
                               IF o \in done /\ hist[o] = "requested" THEN "accepted" ELSE hist[o]]
    BY <1>3, Zenon DEF Collect
  <2>2. /\ DOMAIN hist' = Occurrences /\ hist' = [o \in Occurrences |-> hist'[o]]
        /\ \A o \in Occurrences : hist'[o] = hist[o] \/ (hist'[o] = "accepted" /\ hist[o] = "requested")
    BY <2>1
  <2>3. hist' \in [Occurrences -> {"new", "requested", "accepted", "closed"}]
    BY <2>2 DEF DispatchInv, TypeInv
  <2>4. TypeInv' /\ WorkersInv' /\ ReadInv'
    BY <1>1, <2>1, <2>3 DEF DispatchInv, TypeInv, WorkersInv, ReadInv
  <2>5. SessionInv'
    BY <1>1, <2>1, <2>2 DEF DispatchInv, TypeInv, SessionInv, OneLiveTask, TransferNeverStarted,
                    CollectMeetsNoTombstone, FencedIsOver
  <2>6. OverKept
    BY <1>1 DEF OverKept
  <2> QED
    BY <2>4, <2>5, <2>6 DEF DispatchInv
<1> QED
  BY <1>2, <1>3

\* Reading custody.
LEMMA DiscoverKeeps ==
    ASSUME ConstantsOk, DispatchInv, NEW o \in Occurrences, DiscoverDispatch(o) \/ DiscoverCancel(o)
    PROVE  DispatchInv' /\ OverKept
<1>1. UNCHANGED <<tasks, hist, route, mine, fenced, held, acks>>
  BY DEF DiscoverDispatch, DiscoverCancel, db, canonical
<1>2. PICK op \in {"dispatch", "cancel"} :
        /\ found' = Custody(op, o)
        /\ op = "dispatch" => hist[o] \in {"new", "requested"} /\ mine[o] = None /\ o \notin fenced
        /\ op = "cancel" => hist[o] = "closed"
  BY DEF DiscoverDispatch, DiscoverCancel
<1>3. /\ found'.op = op /\ found'.o = o /\ found'.live = LiveAt(o) /\ found'.tomb = TombstoneAt(o)
      /\ \A q \in Queues : found'.seen[q] = tasks[<<q, o>>].state
  BY <1>2 DEF Custody
<1>4. ReadInv'
  BY <1>1, <1>2, <1>3 DEF ReadInv, LiveAt, TombstoneAt
<1>5. TypeInv' /\ WorkersInv'
  BY <1>1 DEF DispatchInv, TypeInv, WorkersInv
<1>6. SessionInv'
  BY <1>1 DEF DispatchInv, SessionInv, OneLiveTask, TransferNeverStarted, CollectMeetsNoTombstone, FencedIsOver
<1>7. OverKept
  BY <1>1 DEF OverKept
<1> QED
  BY <1>4, <1>5, <1>6, <1>7 DEF DispatchInv

\* The tasks of one occurrence change, none of another.
OnlyTasksOf(o, new) ==
    /\ new \in [Keys -> TaskType]
    /\ \A k \in Keys : /\ TaskOk(new[k]) /\ RunsKept(tasks[k], new[k])
                       /\ k[2] # o => new[k] = tasks[k]
                       /\ tasks[k].state \in {"cancelled", "completed", "failed"} => new[k] = tasks[k]

\* dispatch publishes the task of an occurrence that has none.
LEMMA PublishKeeps ==
    ASSUME ConstantsOk, DispatchInv, NEW o \in Occurrences, found # NoRead, found.op = "dispatch", found.o = o,
           NEW others, OnlyTasksOf(o, others),
           \A q \in Queues : /\ others[<<q, o>>].state \in {"absent", "cancelled"}
                             /\ others[<<q, o>>].state = "cancelled" => others[<<q, o>>].started = "never",
           others[<<route[o], o>>].state = "absent",
           Publishes(o, others), hist' = [hist EXCEPT ![o] = "requested"],
           found' = NoRead, UNCHANGED <<route, fenced, held, acks>>
    PROVE  DispatchInv' /\ OverKept
<1> DEFINE p == route[o]
<1>1. p \in Queues /\ <<p, o>> \in Keys
  BY DEF DispatchInv, TypeInv, Keys
<1>2. others \in [Keys -> TaskType]
  BY DEF OnlyTasksOf
<1>3. tasks' = [others EXCEPT ![<<p, o>>] = SpawnTask]
  BY <1>1, <1>2 DEF Publishes
<1>4. TaskOk(SpawnTask) /\ Open(SpawnTask) /\ SpawnTask.state = "pending" /\ SpawnTask \in TaskType
  BY SpawnTaskOk DEF TaskOk
<1>5. tasks' \in [Keys -> TaskType] /\ \A k \in Keys : tasks'[k] = IF k = <<p, o>> THEN SpawnTask ELSE others[k]
  BY <1>1, <1>2, <1>3, <1>4
<1>6. tasks[<<p, o>>].state \notin {"cancelled", "completed", "failed"}
  BY <1>1 DEF OnlyTasksOf
<1>7. RunsKept(tasks[<<p, o>>], SpawnTask)
  <2>1. TaskOk(others[<<p, o>>]) /\ RunsKept(tasks[<<p, o>>], others[<<p, o>>])
    BY <1>1 DEF OnlyTasksOf
  <2>2. Len(others[<<p, o>>].runs) = 0
    BY <2>1 DEF TaskOk
  <2>3. Len(tasks[<<p, o>>].runs) \in Nat /\ Len(SpawnTask.runs) \in Nat
    BY <1>1, <1>4, SeqLen DEF DispatchInv, TypeInv, TaskType
  <2>4. Len(tasks[<<p, o>>].runs) = 0
    BY <2>1, <2>2, <2>3 DEF RunsKept
  <2> HIDE DEF p
  <2> QED
    BY <2>3, <2>4 DEF RunsKept
<1>8. \A k \in Keys : TaskOk(tasks'[k]) /\ RunsKept(tasks[k], tasks'[k])
  BY <1>4, <1>5, <1>7 DEF OnlyTasksOf
<1>9. WorkersInv'
  BY <1>8, WorkersKeep
<1>10. mine' = [mine EXCEPT ![o] = p]
  BY DEF Publishes
<1>11. TypeInv'
  BY <1>1, <1>5, <1>8, <1>10 DEF DispatchInv, TypeInv
<1>12. ReadInv'
  BY DEF ReadInv
<1>13. ASSUME NEW q \in Queues, NEW x \in Occurrences
       PROVE  /\ <<q, x>> \in Keys
              /\ x # o => tasks'[<<q, x>>] = tasks[<<q, x>>]
              /\ x = o => tasks'[<<q, x>>] = IF q = p THEN SpawnTask ELSE others[<<q, o>>]
  <2>1. <<q, x>> \in Keys /\ <<q, x>>[2] = x
    BY DEF Keys
  <2>2. x # o => others[<<q, x>>] = tasks[<<q, x>>] /\ <<q, x>> # <<p, o>>
    BY <2>1 DEF OnlyTasksOf
  <2> QED
    BY <1>5, <2>1, <2>2
<1>14. o \notin fenced /\ hist[o] # "closed" /\ mine[o] = None
  BY DEF DispatchInv, ReadInv
<1>15. \A x \in Occurrences : /\ hist'[x] = IF x = o THEN "requested" ELSE hist[x]
                              /\ mine'[x] = IF x = o THEN p ELSE mine[x]
  BY <1>10 DEF DispatchInv, TypeInv
<1> HIDE DEF p
<1>16. /\ tasks'[<<p, o>>].state = "pending"
       /\ \A q \in Queues : /\ tasks'[<<q, o>>].state \notin {"absent", "cancelled"} => q = p
                            /\ tasks'[<<q, o>>].state = "cancelled" => tasks'[<<q, o>>].started = "never"
  BY <1>1, <1>4, <1>13
<1>17. OneLiveTask' /\ TransferNeverStarted'
  <2>1. ASSUME NEW x \in Occurrences, NEW q \in Queues, NEW r \in Queues,
               tasks'[<<q, x>>].state \notin {"absent", "cancelled"},
               tasks'[<<r, x>>].state \notin {"absent", "cancelled"}
        PROVE  q = r
    <3>1. CASE x = o
      BY <1>16, <2>1, <3>1
    <3>2. CASE x # o
      BY <1>13, <2>1, <3>2, Zenon DEF DispatchInv, SessionInv, OneLiveTask
    <3> QED
      BY <3>1, <3>2
  <2>2. ASSUME NEW x \in Occurrences, NEW q \in Queues,
               tasks'[<<q, x>>].state = "cancelled", hist'[x] # "closed"
        PROVE  tasks'[<<q, x>>].started = "never"
    <3>1. CASE x = o
      BY <1>16, <2>2, <3>1
    <3>2. CASE x # o
      <4>1. tasks'[<<q, x>>] = tasks[<<q, x>>]
        BY <1>13, <3>2, Zenon
      <4>2. hist'[x] = hist[x]
        BY <1>15, <3>2
      <4> QED
        BY <2>2, <4>1, <4>2 DEF DispatchInv, SessionInv, TransferNeverStarted
    <3> QED
      BY <3>1, <3>2
  <2> QED
    BY <2>1, <2>2 DEF OneLiveTask, TransferNeverStarted
<1>18. CollectMeetsNoTombstone'
  <2> SUFFICES ASSUME NEW x \in Occurrences, mine'[x] # None
               PROVE  tasks'[<<mine'[x], x>>].state # "cancelled"
    BY DEF CollectMeetsNoTombstone
  <2>1. CASE x = o
    BY <1>15, <1>16, <2>1
  <2>2. CASE x # o
    <3>1. mine'[x] = mine[x] /\ mine[x] \in Queues
      BY <1>15, <2>2 DEF DispatchInv, TypeInv
    <3>2. tasks'[<<mine[x], x>>] = tasks[<<mine[x], x>>]
      BY <1>13, <2>2, <3>1, Zenon
    <3> QED
      BY <3>1, <3>2 DEF DispatchInv, SessionInv, CollectMeetsNoTombstone
  <2> QED
    BY <2>1, <2>2
<1>19. FencedIsOver' /\ \A x \in fenced' : hist'[x] = "closed"
  <2>1. \A x \in fenced : x \in Occurrences /\ x # o
    BY <1>14 DEF DispatchInv, TypeInv
  <2>2. ASSUME NEW x \in fenced
        PROVE  hist'[x] = "closed" /\ \A q \in Queues : tasks'[<<q, x>>] = tasks[<<q, x>>]
    <3>1. x \in Occurrences /\ x # o /\ hist[x] = "closed"
      BY <2>1 DEF DispatchInv, SessionInv
    <3>2. hist'[x] = "closed"
      BY <1>15, <3>1
    <3>3. \A q \in Queues : tasks'[<<q, x>>] = tasks[<<q, x>>]
      BY <1>13, <3>1, Zenon
    <3> QED
      BY <3>2, <3>3
  <2> QED
    BY <2>2 DEF DispatchInv, SessionInv, FencedIsOver
<1>20. OverKept
  BY <1>5, <1>6 DEF OnlyTasksOf, OverKept
<1> QED
  BY <1>9, <1>11, <1>12, <1>17, <1>18, <1>19, <1>20 DEF DispatchInv, SessionInv

\* dispatch takes a task that exists.
LEMMA TakeKeeps ==
    ASSUME ConstantsOk, DispatchInv, NEW o \in Occurrences, found # NoRead, found.op = "dispatch", found.o = o,
           NEW q \in found.live, mine' = [mine EXCEPT ![o] = q],
           hist' = [hist EXCEPT ![o] = "requested"], found' = NoRead,
           UNCHANGED <<tasks, route, fenced, held, acks>>
    PROVE  DispatchInv' /\ OverKept
<1>1. q \in Queues /\ tasks[<<q, o>>].state \notin {"absent", "cancelled"}
  BY DEF DispatchInv, ReadInv, LiveAt
<1>2. o \notin fenced /\ hist[o] # "closed"
  BY DEF DispatchInv, ReadInv
<1>3. \A x \in Occurrences : /\ hist'[x] = IF x = o THEN "requested" ELSE hist[x]
                             /\ mine'[x] = IF x = o THEN q ELSE mine[x]
  BY DEF DispatchInv, TypeInv
<1>4. TypeInv' /\ WorkersInv' /\ ReadInv'
  BY <1>1 DEF DispatchInv, TypeInv, WorkersInv, ReadInv
<1>5. SessionInv'
  BY <1>1, <1>2, <1>3 DEF DispatchInv, TypeInv, SessionInv, OneLiveTask, TransferNeverStarted,
                    CollectMeetsNoTombstone, FencedIsOver
<1>6. OverKept
  BY DEF OverKept
<1> QED
  BY <1>4, <1>5, <1>6 DEF DispatchInv

\* dispatch, whatever it read and whatever Workers did since.
LEMMA DispatchKeeps ==
    ASSUME ConstantsOk, DispatchInv, NEW o \in Occurrences, Dispatch(o)
    PROVE  DispatchInv' /\ OverKept
<1>1. /\ found # NoRead /\ found.op = "dispatch" /\ found.o = o
      /\ UNCHANGED <<held, acks>>
  BY DEF Dispatch
<1>2. /\ found.live = LiveAt(o) /\ found.tomb = TombstoneAt(o) /\ hist[o] # "closed"
      /\ \A q \in Queues : found.seen[q] \in {"completed", "failed"} => tasks[<<q, o>>].state = found.seen[q]
  BY <1>1 DEF DispatchInv, ReadInv
<1>3. route[o] \in Queues
  BY DEF DispatchInv, TypeInv
<1>4. \A q \in Queues : <<q, o>> \in Keys
  BY DEF Keys
<1>5. \A q \in Queues : tasks[<<q, o>>].state = "cancelled" => tasks[<<q, o>>].started = "never"
  BY <1>2 DEF DispatchInv, SessionInv, TransferNeverStarted
<1>6. \A k \in Keys : TaskOk(tasks[k]) /\ RunsKept(tasks[k], tasks[k])
  BY RunsKeptSelf DEF DispatchInv, TypeInv
<1>7. OnlyTasksOf(o, tasks)
  BY <1>6 DEF DispatchInv, TypeInv, OnlyTasksOf
<1>8. CASE /\ ~Refuses(o) /\ found.live = {} /\ Publishes(o, tasks)
           /\ hist' = [hist EXCEPT ![o] = "requested"]
           /\ found' = NoRead /\ UNCHANGED <<up, route, fenced, collected>>
  <2>1. route[o] \notin found.tomb
    BY <1>8 DEF Refuses
  <2>2. \A q \in Queues : tasks[<<q, o>>].state \in {"absent", "cancelled"}
    BY <1>2, <1>8 DEF LiveAt
  <2>3. tasks[<<route[o], o>>].state = "absent"
    BY <1>2, <1>3, <2>1, <2>2 DEF TombstoneAt
  <2> QED
    BY <1>1, <1>5, <1>7, <1>8, <2>2, <2>3, PublishKeeps, Zenon
<1>9. ASSUME NEW q \in found.live, mine' = [mine EXCEPT ![o] = q],
             hist' = [hist EXCEPT ![o] = "requested"],
             found' = NoRead, UNCHANGED <<tasks, up, route, fenced, collected>>
      PROVE  DispatchInv' /\ OverKept
  BY <1>1, <1>9, TakeKeeps, Zenon
<1>10. ASSUME NEW q \in found.live, ~Refuses(o), q # route[o],
              found.seen[q] \notin {"completed", "failed"}, MayMove(o, q),
              Publishes(o, [tasks EXCEPT ![<<q, o>>] = CancelTask(@)]),
              hist' = [hist EXCEPT ![o] = "requested"],
              found' = NoRead, UNCHANGED <<up, route, fenced, collected>>
       PROVE  DispatchInv' /\ OverKept
  <2> DEFINE t == tasks[<<q, o>>]
             u == CancelTask(t)
             others == [tasks EXCEPT ![<<q, o>>] = u]
  <2>1. q \in Queues /\ \A p \in found.live : p = q
    BY <1>2 DEF DispatchInv, SessionInv, OneLiveTask, LiveAt
  <2>2. route[o] \notin found.tomb /\ route[o] \notin found.live
    BY <1>10, <2>1 DEF Refuses
  <2>3. tasks[<<route[o], o>>].state = "absent"
    BY <1>2, <1>3, <2>2 DEF LiveAt, TombstoneAt
  <2>4. \A p \in Queues : p # q => tasks[<<p, o>>].state \in {"absent", "cancelled"}
    BY <1>2, <2>1 DEF LiveAt
  <2>5. TaskOk(t) /\ Open(t) /\ t.started = "never"
    BY <1>4, <1>6, <1>10, <2>1 DEF MayMove, Open
  <2> HIDE DEF t
  <2>6. TaskOk(u) /\ RunsKept(t, u) /\ u.state = "cancelled" /\ u.started = "never" /\ u \in TaskType
    BY <2>5, CancelTaskOk DEF TaskOk
  <2> HIDE DEF u
  <2>7. tasks \in [Keys -> TaskType] /\ <<q, o>> \in Keys
    BY <1>4, <2>1 DEF DispatchInv, TypeInv
  <2>8. others \in [Keys -> TaskType] /\ \A k \in Keys : others[k] = IF k = <<q, o>> THEN u ELSE tasks[k]
    BY <2>6, <2>7
  <2>9. Publishes(o, others)
    BY <1>10, <2>7 DEF u, t
  <2> HIDE DEF others
  <2>10. OnlyTasksOf(o, others)
    <3>1. <<q, o>>[2] = o
      OBVIOUS
    <3>2. t.state \notin {"cancelled", "completed", "failed"}
      BY <2>5 DEF Open
    <3> QED
      BY <1>6, <2>6, <2>8, <3>1, <3>2 DEF OnlyTasksOf, t
  <2>11. others[<<route[o], o>>].state = "absent"
    BY <1>3, <1>4, <1>10, <2>3, <2>8
  <2>12. \A p \in Queues : /\ others[<<p, o>>].state \in {"absent", "cancelled"}
                           /\ others[<<p, o>>].state = "cancelled" => others[<<p, o>>].started = "never"
    BY <1>4, <1>5, <2>4, <2>6, <2>8
  <2> QED
    BY <1>1, <1>10, <2>9, <2>10, <2>11, <2>12, PublishKeeps, Zenon
<1>11. CASE EndsSession /\ UNCHANGED <<tasks, hist>>
  BY <1>1, <1>11, SessionEnds
<1> QED
  BY <1>8, <1>9, <1>10, <1>11, Zenon DEF Dispatch

\* cancel answers: the occurrence is fenced and nothing of it is open.
LEMMA FenceKeeps ==
    ASSUME ConstantsOk, DispatchInv, NEW o \in Occurrences, hist[o] = "closed", OnlyTasksOf(o, tasks'),
           \A q \in Queues : ~Open(tasks'[<<q, o>>]),
           \A p, q \in Queues : (/\ tasks'[<<p, o>>].state \notin {"absent", "cancelled"}
                                 /\ tasks'[<<q, o>>].state \notin {"absent", "cancelled"}) => p = q,
           NEW m \in Queues \cup {None}, m # None => tasks'[<<m, o>>].state # "cancelled",
           mine' = [mine EXCEPT ![o] = m], fenced' = fenced \cup {o}, found' = NoRead,
           UNCHANGED <<hist, route, held, acks>>
    PROVE  DispatchInv' /\ OverKept
<1>1. /\ tasks' \in [Keys -> TaskType]
      /\ \A k \in Keys : TaskOk(tasks'[k]) /\ RunsKept(tasks[k], tasks'[k])
  BY DEF OnlyTasksOf
<1>2. WorkersInv'
  BY <1>1, WorkersKeep
<1>3. TypeInv'
  BY <1>1 DEF DispatchInv, TypeInv
<1>4. ReadInv'
  BY DEF ReadInv
<1>5. OverKept
  BY DEF OverKept, OnlyTasksOf
<1>6. ASSUME NEW x \in Occurrences, x # o, NEW q \in Queues PROVE tasks'[<<q, x>>] = tasks[<<q, x>>]
  <2>1. <<q, x>> \in Keys /\ <<q, x>>[2] = x
    BY DEF Keys
  <2> QED
    BY <1>6, <2>1 DEF OnlyTasksOf
<1>7. \A x \in Occurrences : mine'[x] = IF x = o THEN m ELSE mine[x]
  BY DEF DispatchInv, TypeInv
<1>8. ASSUME NEW x \in Occurrences, NEW q \in Queues, NEW r \in Queues,
             tasks'[<<q, x>>].state \notin {"absent", "cancelled"},
             tasks'[<<r, x>>].state \notin {"absent", "cancelled"}
      PROVE  q = r
  <2>1. CASE x = o
    BY <1>8, <2>1
  <2>2. CASE x # o
    <3>1. tasks'[<<q, x>>] = tasks[<<q, x>>] /\ tasks'[<<r, x>>] = tasks[<<r, x>>]
      BY <1>6, <2>2
    <3> QED
      BY <1>8, <3>1 DEF DispatchInv, SessionInv, OneLiveTask
  <2> QED
    BY <2>1, <2>2
<1>9. ASSUME NEW x \in Occurrences, NEW q \in Queues,
             tasks'[<<q, x>>].state = "cancelled", hist'[x] # "closed"
      PROVE  tasks'[<<q, x>>].started = "never"
  <2>1. x # o
    BY <1>9
  <2>2. tasks'[<<q, x>>] = tasks[<<q, x>>]
    BY <1>6, <2>1
  <2> QED
    BY <1>9, <2>2 DEF DispatchInv, SessionInv, TransferNeverStarted
<1>10. ASSUME NEW x \in Occurrences, mine'[x] # None
       PROVE  tasks'[<<mine'[x], x>>].state # "cancelled"
  <2>1. CASE x = o
    BY <1>7, <1>10, <2>1
  <2>2. CASE x # o
    <3>1. mine'[x] = mine[x] /\ mine[x] \in Queues
      BY <1>7, <1>10, <2>2 DEF DispatchInv, TypeInv
    <3>2. tasks'[<<mine[x], x>>] = tasks[<<mine[x], x>>]
      BY <1>6, <2>2, <3>1
    <3> QED
      BY <1>10, <3>1, <3>2 DEF DispatchInv, SessionInv, CollectMeetsNoTombstone
  <2> QED
    BY <2>1, <2>2
<1>11. ASSUME NEW x \in fenced', NEW q \in Queues
       PROVE  hist'[x] = "closed" /\ ~Open(tasks'[<<q, x>>])
  <2>1. CASE x = o
    BY <2>1
  <2>2. CASE x # o
    <3>1. x \in fenced /\ x \in Occurrences
      BY <2>2 DEF DispatchInv, TypeInv
    <3>2. tasks'[<<q, x>>] = tasks[<<q, x>>]
      BY <1>6, <2>2, <3>1
    <3> QED
      BY <3>1, <3>2 DEF DispatchInv, SessionInv, FencedIsOver
  <2> QED
    BY <2>1, <2>2
<1>12. \A x \in fenced' : hist'[x] = "closed"
  BY DEF DispatchInv, SessionInv
<1>13. OneLiveTask' /\ TransferNeverStarted' /\ CollectMeetsNoTombstone' /\ FencedIsOver'
  BY <1>8, <1>9, <1>10, <1>11 DEF OneLiveTask, TransferNeverStarted, CollectMeetsNoTombstone, FencedIsOver, Open
<1> QED
  BY <1>2, <1>3, <1>4, <1>5, <1>12, <1>13 DEF DispatchInv, SessionInv

\* cancel, whatever it read and whatever Workers did since.
LEMMA CancelKeeps ==
    ASSUME ConstantsOk, DispatchInv, NEW o \in Occurrences, Cancel(o)
    PROVE  DispatchInv' /\ OverKept
<1>1. found # NoRead /\ found.op = "cancel" /\ found.o = o /\ UNCHANGED <<hist, held, acks>>
  BY DEF Cancel, canonical
<1>2. /\ found.live = LiveAt(o) /\ found.tomb = TombstoneAt(o) /\ hist[o] = "closed"
      /\ \A q \in Queues : found.seen[q] \in {"completed", "failed"} => tasks[<<q, o>>].state = found.seen[q]
  BY <1>1 DEF DispatchInv, ReadInv
<1>3. route[o] \in Queues /\ mine[o] \in Queues \cup {None} /\ mine \in [Occurrences -> Queues \cup {None}]
  BY DEF DispatchInv, TypeInv
<1>4. \A q \in Queues : <<q, o>> \in Keys
  BY DEF Keys
<1>5. \A k \in Keys : TaskOk(tasks[k]) /\ RunsKept(tasks[k], tasks[k])
  BY RunsKeptSelf DEF DispatchInv, TypeInv
<1>6. OnlyTasksOf(o, tasks) /\ tasks \in [Keys -> TaskType]
  BY <1>5 DEF DispatchInv, TypeInv, OnlyTasksOf
<1>7. \A p, q \in Queues : (/\ tasks[<<p, o>>].state \notin {"absent", "cancelled"}
                            /\ tasks[<<q, o>>].state \notin {"absent", "cancelled"}) => p = q
  BY DEF DispatchInv, SessionInv, OneLiveTask
<1>8. CASE EndsSession /\ UNCHANGED <<tasks, told>>
  BY <1>1, <1>8, SessionEnds
<1>9. CASE /\ fenced' = fenced \cup {o} /\ found' = NoRead /\ UNCHANGED route
           /\ found.live = {} /\ UNCHANGED <<tasks, mine>>
  <2>1. \A q \in Queues : ~Open(tasks[<<q, o>>])
    BY <1>2, <1>9 DEF LiveAt, Open
  <2>2. mine' = [mine EXCEPT ![o] = mine[o]]
    BY <1>3, <1>9
  <2>3. mine[o] # None => tasks[<<mine[o], o>>].state # "cancelled"
    BY DEF DispatchInv, SessionInv, CollectMeetsNoTombstone
  <2> QED
    BY <1>1, <1>2, <1>3, <1>6, <1>7, <1>9, <2>1, <2>2, <2>3, FenceKeeps, Zenon
<1>10. CASE /\ fenced' = fenced \cup {o} /\ found' = NoRead /\ UNCHANGED route
            /\ found.live = {} /\ found.tomb = {}
            /\ tasks' = [tasks EXCEPT ![<<route[o], o>>] = CancelTask(SpawnTask)]
            /\ mine' = [mine EXCEPT ![o] = None]
  <2> DEFINE u == CancelTask(SpawnTask)
             k == <<route[o], o>>
  <2>1. TaskOk(SpawnTask) /\ Open(SpawnTask)
    BY SpawnTaskOk
  <2>2. TaskOk(u) /\ u.state = "cancelled" /\ u \in TaskType
    BY <2>1, CancelTaskOk DEF TaskOk
  <2> HIDE DEF u
  <2>3. \A q \in Queues : tasks[<<q, o>>].state \notin {"pending", "sleeping", "running", "completed", "failed", "cancelled"}
    BY <1>2, <1>10 DEF LiveAt, TombstoneAt
  <2>4. k \in Keys /\ k[2] = o
    BY <1>3, <1>4
  <2>5. tasks' \in [Keys -> TaskType] /\ \A j \in Keys : tasks'[j] = IF j = k THEN u ELSE tasks[j]
    BY <1>6, <1>10, <2>2, <2>4 DEF u
  <2>6. RunsKept(tasks[k], u)
    <3>1. TaskOk(tasks[k]) /\ tasks[k] \in TaskType
      BY <1>5, <1>6, <2>4
    <3>2. tasks[k].state = "absent"
      BY <1>3, <2>3, <3>1 DEF TaskType
    <3>3. Len(tasks[k].runs) = 0 /\ Len(u.runs) \in Nat
      BY <2>2, <3>1, <3>2, SeqLen DEF TaskOk, TaskType
    <3> QED
      BY <3>3 DEF RunsKept
  <2>7. OnlyTasksOf(o, tasks')
    <3>1. tasks[k].state \notin {"cancelled", "completed", "failed"}
      BY <1>3, <2>3
    <3> HIDE DEF k
    <3> QED
      BY <1>5, <2>2, <2>4, <2>5, <2>6, <3>1 DEF OnlyTasksOf
  <2>8. \A q \in Queues : tasks'[<<q, o>>] = u \/ tasks'[<<q, o>>] = tasks[<<q, o>>]
    BY <1>4, <2>5
  <2>9. \A q \in Queues : /\ ~Open(tasks'[<<q, o>>])
                          /\ tasks'[<<q, o>>].state \in {"absent", "cancelled"}
    <3>1. \A q \in Queues : tasks[<<q, o>>].state = "absent"
      BY <1>4, <1>6, <2>3 DEF TaskType
    <3> QED
      BY <2>2, <2>8, <3>1 DEF Open
  <2>10. None \in Queues \cup {None}
    OBVIOUS
  <2> QED
    BY <1>1, <1>2, <1>10, <2>7, <2>9, <2>10, FenceKeeps, Zenon
<1>11. ASSUME NEW q \in found.live, found.seen[q] \in {"completed", "failed"},
              fenced' = fenced \cup {o}, found' = NoRead, UNCHANGED <<route, tasks>>,
              mine' = [mine EXCEPT ![o] = q]
       PROVE  DispatchInv' /\ OverKept
  <2>1. q \in Queues /\ tasks[<<q, o>>].state \in {"completed", "failed"}
    BY <1>2, <1>11 DEF LiveAt
  <2>2. \A p \in Queues : ~Open(tasks[<<p, o>>])
    BY <1>7, <2>1 DEF Open
  <2>3. q # None => tasks[<<q, o>>].state # "cancelled"
    BY <2>1
  <2>4. q \in Queues \cup {None}
    BY <2>1
  <2> QED
    BY <1>1, <1>2, <1>6, <1>7, <1>11, <2>2, <2>3, <2>4, FenceKeeps, Zenon
<1>12. ASSUME NEW q \in found.live, fenced' = fenced \cup {o}, found' = NoRead, UNCHANGED route,
              tasks' = [tasks EXCEPT ![<<q, o>>] = CancelTask(@)], mine' = [mine EXCEPT ![o] = None]
       PROVE  DispatchInv' /\ OverKept
  <2> DEFINE t == tasks[<<q, o>>]
             u == CancelTask(t)
  <2>1. q \in Queues /\ t.state \notin {"absent", "cancelled"} /\ <<q, o>> \in Keys /\ <<q, o>>[2] = o
    BY <1>2, <1>4 DEF LiveAt
  <2>2. TaskOk(t)
    BY <1>5, <2>1
  <2>3. TaskOk(u) /\ RunsKept(t, u) /\ ~Open(u) /\ u \in TaskType /\ (~Open(t) => u = t)
    BY <2>2, CancelTaskOk DEF TaskOk
  <2> HIDE DEF u
  <2>4. tasks' \in [Keys -> TaskType] /\ \A j \in Keys : tasks'[j] = IF j = <<q, o>> THEN u ELSE tasks[j]
    BY <1>6, <1>12, <2>1, <2>3 DEF u
  <2>5. t.state \in {"cancelled", "completed", "failed"} => u = t
    BY <2>3 DEF Open
  <2>6. OnlyTasksOf(o, tasks')
    BY <1>5, <2>1, <2>3, <2>4, <2>5 DEF OnlyTasksOf
  <2>7. \A p \in Queues : tasks'[<<p, o>>] = IF p = q THEN u ELSE tasks[<<p, o>>]
    BY <1>4, <2>4
  <2>8. \A p \in Queues : tasks'[<<p, o>>].state \notin {"absent", "cancelled"} => p = q
    BY <1>7, <2>1, <2>7
  <2>9. \A p \in Queues : ~Open(tasks'[<<p, o>>])
    BY <2>3, <2>7, <2>8 DEF Open
  <2>10. None \in Queues \cup {None}
    OBVIOUS
  <2> QED
    BY <1>1, <1>2, <1>12, <2>6, <2>8, <2>9, <2>10, FenceKeeps, Zenon
<1> QED
  BY <1>8, <1>9, <1>10, <1>11, <1>12, Zenon DEF Cancel, Told

\* The initial database has no task and no session.
LEMMA InitOk ==
    ASSUME ConstantsOk, Init
    PROVE  DispatchInv
<1>1. NoTask \in TaskType /\ NoTask.state = "absent" /\ NoTask.runs = <<>> /\ NoTask.max = 0
  BY DEF NoTask, TaskType
<1>2. TaskOk(NoTask)
  BY <1>1 DEF TaskOk, ConstantsOk
<1>3. tasks \in [Keys -> TaskType] /\ \A k \in Keys : tasks[k] = NoTask
  BY <1>1 DEF Init
<1>4. \A q \in Queues, o \in Occurrences : tasks[<<q, o>>].state = "absent"
  BY <1>1, <1>3 DEF Keys
<1>5. TypeInv
  BY <1>2, <1>3 DEF Init, TypeInv
<1>6. WorkersInv /\ ReadInv
  BY DEF Init, WorkersInv, ReadInv
<1>7. SessionInv
  BY <1>4 DEF Init, SessionInv, OneLiveTask, TransferNeverStarted, CollectMeetsNoTombstone, FencedIsOver
<1> QED
  BY <1>5, <1>6, <1>7 DEF DispatchInv

\* Every step keeps the invariant and what is over.
LEMMA NextOk ==
    ASSUME ConstantsOk, DispatchInv, [Next]_vars
    PROVE  DispatchInv' /\ (OverKept \/ UNCHANGED vars)
<1>1. CASE UNCHANGED vars
  <2>1. UNCHANGED <<tasks, hist, route, mine, fenced, found, held, acks>>
    BY <1>1 DEF vars
  <2>2. TypeInv' /\ WorkersInv'
    BY <2>1 DEF DispatchInv, TypeInv, WorkersInv
  <2>3. ReadInv' /\ SessionInv'
    BY <2>1, Zenon DEF DispatchInv, ReadInv, SessionInv, LiveAt, TombstoneAt, OneLiveTask, TransferNeverStarted,
                CollectMeetsNoTombstone, FencedIsOver
  <2> QED
    BY <1>1, <2>2, <2>3 DEF DispatchInv
<1>2. ASSUME NEW w \in Workers, WorkerStep(w) PROVE DispatchInv' /\ OverKept
  BY <1>2, ClaimKeeps, HeartbeatKeeps, CompleteKeeps, FailKeeps, RepeatKeeps, DropKeeps DEF WorkerStep
<1>3. ASSUME NEW k \in Keys, Expire(k) \/ Wake(k) PROVE DispatchInv' /\ OverKept
  BY <1>3, ExpireKeeps, WakeKeeps
<1>4. CASE Load \/ Crash \/ Collect
  BY <1>4, LoadKeeps, CrashKeeps, CollectKeeps
<1>5. ASSUME NEW o \in Occurrences, AuthorityStep(o) \/ Close(o) PROVE DispatchInv' /\ OverKept
  BY <1>5, DiscoverKeeps, DispatchKeeps, CancelKeeps, CloseKeeps DEF AuthorityStep
<1> QED
  BY <1>1, <1>2, <1>3, <1>4, <1>5 DEF Next

\* However Workers, time, crashes and re-routing interleave: one live task per
\* occurrence, only unstarted work moves, collect meets no tombstone, a fenced
\* occurrence is over, acknowledged reports are stored, the attempt budget
\* holds and a fatal failure is the last run.
THEOREM CustodyHolds ==
    ASSUME ConstantsOk
    PROVE  Spec => []TaskCustody
<1>1. Init => DispatchInv
  BY InitOk
<1>2. DispatchInv /\ [Next]_vars => DispatchInv'
  BY NextOk
<1>3. DispatchInv => TaskCustody
  BY InvImplies DEF TaskCustody
<1> QED
  BY <1>1, <1>2, <1>3, PTL DEF Spec

\* No step, of a late Worker or of a restarted authority, writes into a task
\* that is completed, failed or cancelled.
THEOREM OverIsKept ==
    ASSUME ConstantsOk
    PROVE  Spec => OverStands
<1>1. Init => DispatchInv
  BY InitOk
<1>2. DispatchInv /\ [Next]_vars => DispatchInv' /\ [OverKept]_vars
  BY NextOk
<1> QED
  BY <1>1, <1>2, PTL DEF Spec, OverStands
=============================================================================
