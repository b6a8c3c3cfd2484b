------------------------------ MODULE MCEngine ------------------------------
(***************************************************************************)
(* The Engine over its History and its Dispatch, the SQL History stores    *)
(* and the hosts that open a durable Instance, each on its own small       *)
(* instance.  MCInit chooses the component, so one run explores all of     *)
(* them and their state spaces add up.  The PostgreSQL store and the       *)
(* SQLite host are the modules' own variables, which rest while another    *)
(* component runs; the others share x1 to x27.                             *)
(***************************************************************************)
EXTENDS Integers, Sequences, FiniteSets, SqlHistoryStore, Hosting

CONSTANTS
    feed, work, inbox, done, red, r1, f1, n1, d1, d2, w1, w2, p1, p2, p3

VARIABLES
    part,   \* the component under check, fixed by MCInit
    x1, x2, x3, x4, x5, x6, x7, x8, x9, x10, x11, x12, x13, x14, x15, x16,
    x17, x18, x19, x20, x21, x22, x23, x24, x25, x26, x27   \* its variables, in the order of its declaration

slots ==
    <<x1, x2, x3, x4, x5, x6, x7, x8, x9, x10, x11, x12, x13, x14, x15, x16, x17, x18, x19,
    x20, x21, x22, x23, x24, x25, x26, x27>>

\* A net with scopes: the source feed fills inbox, the activity work turns
\* inbox into done.
Transitions == {feed, work}
Gen(g) == [name |-> n1, generation |-> g]
Inputs ==
    [x \in Transitions |->
        IF x = work THEN <<[place |-> inbox, mode |-> "consume", weight |-> 1, admits |-> {red}]>> ELSE <<>>]
Outputs == [x \in Transitions |-> <<[place |-> IF x = work THEN done ELSE inbox, admits |-> {red}]>>]
NoTimers == [x \in Transitions |-> {}]
NoGuard(binding) == TRUE
Places == {inbox, done}
Activities == {work}
Keys == {"default"}
Names == {n1}
Payloads == {<<red>>}
Targets == {Gen(1)}
Identities == {d1, d2}
OneIdentity == {d1}
AnyTarget == {None, Gen(1)}
Project == [x \in {work} |-> [r \in {r1} |-> [tokens |-> <<<<done, <<red>>>>>>, closes |-> <<>>, opens |-> <<>>]]]
NoProjection == [x \in {work} |-> None]

\* A begin, its ends, and the batches of callers that repeat a terminal fact.
Record(kind, value) == [kind |-> kind, occ |-> 1, value |-> value]
StoreBatches ==
    {<<Record("other", 0)>>, <<Record("firing", 1)>>, <<Record("firing", 2), Record("other", 0)>>,
     <<Record("activity", 1), Record("firing", 1)>>}

\* An Engine that owns its History and its custody, and one that commits both in one transaction.
Owned == INSTANCE Engine WITH
    Timers <- NoTimers, Guard <- NoGuard, Declared <- Activities, Impure <- Activities,
    ScopeNames <- Names, InitialMarking <- <<>>, Handled <- <<>>, Results <- {r1}, Failures <- {f1},
    ProjectFailure <- NoProjection, Instants <- {0}, MaxHistory <- 40, MaxGenerations <- 1,
    Joined <- FALSE, Shared <- FALSE, MaxLoads <- 2, history <- x1, boundaries <- x2, queues <- x3,
    watermark <- x4, armed <- x5, nextOccurrence <- x6, nextEntry <- x7, inFlight <- x8,
    activities <- x9, cancelled <- x10, frozen <- x11, terminal <- x12, quarantined <- x13,
    accepted <- x14, active <- x15, generations <- x16, committed <- x17, todo <- x18,
    reconciled <- x19, arrived <- x20, unsettled <- x21, loads <- x22, custody <- x23,
    outcomes <- x24, fences <- x25, published <- x26, collected <- x27

Joint == INSTANCE Engine WITH
    Timers <- NoTimers, Guard <- NoGuard, Declared <- Activities, Impure <- Activities,
    ScopeNames <- Names, InitialMarking <- <<>>, Handled <- <<>>, Results <- {r1}, Failures <- {f1},
    ProjectFailure <- NoProjection, Identities <- OneIdentity, Targets <- AnyTarget,
    Instants <- {0}, MaxHistory <- 40, MaxGenerations <- 1, Joined <- TRUE, Shared <- TRUE,
    MaxLoads <- 3, history <- x1, boundaries <- x2, queues <- x3, watermark <- x4, armed <- x5,
    nextOccurrence <- x6, nextEntry <- x7, inFlight <- x8, activities <- x9, cancelled <- x10,
    frozen <- x11, terminal <- x12, quarantined <- x13, accepted <- x14, active <- x15,
    generations <- x16, committed <- x17, todo <- x18, reconciled <- x19, arrived <- x20,
    unsettled <- x21, loads <- x22, custody <- x23, outcomes <- x24, fences <- x25,
    published <- x26, collected <- x27

\* The other kind of store, and the other kind of host.
SqliteStore == INSTANCE SqlHistoryStore WITH
    Batches <- StoreBatches, Stores <- {w1, w2}, Serial <- TRUE, JoinedTo <- {}, MaxRows <- 5,
    table <- x1, nextSeq <- x2, memory <- x3, tx <- x4, job <- x5

PostgresHost == INSTANCE Hosting WITH
    Processes <- {p1, p2, p3}, Forks <- FALSE, MaxWrites <- 3, MaxOpens <- 4, phase <- x1, fd <- x2,
    locked <- x3, opens <- x4, seen <- x5, durable <- x6

\* A component with fewer variables leaves the others unused.
Unused(n) ==
    /\ n < 1 => x1 = "unused" /\ x2 = "unused" /\ x3 = "unused" /\ x4 = "unused" /\ x5 = "unused"
    /\ n < 6 => x6 = "unused"
    /\ n < 27 =>
          /\ x7 = "unused" /\ x8 = "unused" /\ x9 = "unused" /\ x10 = "unused" /\ x11 = "unused"
          /\ x12 = "unused" /\ x13 = "unused" /\ x14 = "unused" /\ x15 = "unused"
          /\ x16 = "unused" /\ x17 = "unused" /\ x18 = "unused" /\ x19 = "unused"
          /\ x20 = "unused" /\ x21 = "unused" /\ x22 = "unused" /\ x23 = "unused"
          /\ x24 = "unused" /\ x25 = "unused" /\ x26 = "unused" /\ x27 = "unused"

Rest(n) ==
    /\ n < 1 => UNCHANGED <<x1, x2, x3, x4, x5>>
    /\ n < 6 => UNCHANGED x6
    /\ n < 27 =>
          UNCHANGED <<x7, x8, x9, x10, x11, x12, x13, x14, x15, x16, x17, x18, x19, x20, x21, x22,
          x23, x24, x25, x26, x27>>

MCInit ==
    /\ Init /\ HostInit
    /\ \/ part = "owned" /\ Owned!EngineInit
       \/ part = "shared" /\ Joint!EngineInit
       \/ part = "sqlite-store" /\ SqliteStore!Init /\ Unused(5)
       \/ part = "postgres-host" /\ PostgresHost!HostInit /\ Unused(6)
       \/ part \in {"postgres-store", "sqlite-host"} /\ Unused(0)

MCNext ==
    \/ part = "owned" /\ Owned!EngineNext /\ UNCHANGED <<part, vars, hostVars>>
    \/ part = "shared" /\ Joint!EngineNext /\ UNCHANGED <<part, vars, hostVars>>
    \/ part = "sqlite-store" /\ SqliteStore!Next /\ Rest(5) /\ UNCHANGED <<part, vars, hostVars>>
    \/ part = "postgres-store" /\ Next /\ Rest(0) /\ UNCHANGED <<part, hostVars>>
    \/ part = "postgres-host" /\ PostgresHost!HostNext /\ Rest(6) /\ UNCHANGED <<part, vars, hostVars>>
    \/ part = "sqlite-host" /\ HostNext /\ Rest(0) /\ UNCHANGED <<part, vars>>

MCSpec == MCInit /\ [][MCNext]_<<part, slots, vars, hostVars>>

\* Fairness of the Engine of the shared instance: an open door
\* goes on (x18 is todo), a halted Engine is loaded again (x19 reconciled), a
\* host collects what is pending (x20, x27 arrived and collected), and workers
\* end the work they hold (x24 outcomes).
Fairness ==
    /\ []<>~(part = "shared" /\ Joint!Proceeds) \/ []<><<TRUE>>_x18
    /\ []<>~(part = "shared" /\ Joint!Free /\ ~x19) \/ []<><<TRUE>>_x19
    /\ []<>~(part = "shared" /\ Joint!Pending) \/ []<><<TRUE>>_<<x20, x27>>
    /\ []<>~(part = "shared" /\ DOMAIN x23 # DOMAIN x24) \/ []<><<TRUE>>_x24

FairSpec == MCSpec /\ Fairness

\* What is durable can be resumed, by one Engine.  The History and the
\* Dispatch's custody agree across crashes: work in custody was begun durably
\* ("frozen in the firing's begin batch before dispatch and acts as the
\* authoritative outbox", spec/event-history.md:82-83), a reconciled Engine
\* between doors has published every open request and fenced every cancelled
\* one, and the outcome History records is the one the Dispatch found.  A
\* firing ends only after the outcome of its activity is durable.  Wherever
\* the process dies, the durable records are a History that resume accepts:
\* no commit point of a door splits a batch.  A SQLite store and a PostgreSQL
\* host keep what the modules promise of the other kind of each.
DurableIsResumed ==
    /\ [](/\ part = "owned" =>
                /\ Owned!CustodyIsRecorded /\ Owned!OutboxIsPublished /\ Owned!CancelledAreFenced
                /\ Owned!RecordedIsReported /\ Owned!EveryCutResumes
          /\ part = "shared" =>
                /\ Joint!CustodyIsRecorded /\ Joint!OutboxIsPublished /\ Joint!CancelledAreFenced
                /\ Joint!RecordedIsReported /\ Joint!EveryCutResumes
          /\ part = "sqlite-store" => SqliteStore!StoresHoldOneHistory
          /\ part = "postgres-host" => PostgresHost!OneWriter)
    /\ [][/\ part = "owned" => Owned!FreezeIsDurable
          /\ part = "shared" => Joint!FreezeIsDurable]_<<part, slots>>

\* Every durable request of the Engine is settled: its firing ends with an
\* outcome or is cancelled, whatever doors and crashes come between.
RequestsSettle ==
    \A o \in 1..2 :
        (part = "shared" /\ o \in Joint!Requested(Joint!Durable))
            ~> (part = "shared" => o \in DOMAIN x12 \cup DOMAIN x10)
=============================================================================
