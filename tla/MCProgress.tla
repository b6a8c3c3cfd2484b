----------------------------- MODULE MCProgress -----------------------------
(***************************************************************************)
(* What must eventually happen, in every component that promises it, each  *)
(* on its own small instance under the fairness of its specification.      *)
(* Init chooses the component.                                             *)
(***************************************************************************)
EXTENDS Integers, Sequences, FiniteSets

CONSTANTS
    None

VARIABLES
    part,   \* the component under check, fixed by Init
    x1, x2, x3, x4, x5, x6, x7, x8, x9, x10, x11, x12, x13, x14, x15, x16,
    x17, x18, x19, x20   \* its variables, in the order of its declaration

vars ==
    <<part, x1, x2, x3, x4, x5, x6, x7, x8, x9, x10, x11, x12, x13, x14, x15, x16, x17, x18, x19,
    x20>>

\* Local Dispatch: an Activity of two attempts with a deadline for each and
\* one for all, and failures that may and may not be retried.
Policy ==
    [inv \in {"inv"} |->
        [attempts |-> 2, heartbeat |-> 2, delay |-> [failed \in 1..2 |-> 0],
         startToClose |-> 3, scheduleToClose |-> 4]]
Serves == [w \in {"w1", "w2"} |-> IF w = "w1" THEN {"q1", "q2"} ELSE {"q1"}]
Failures == {[retryable |-> b, legacy |-> FALSE, retryAfter |-> 0] : b \in BOOLEAN}

\* The drive: the activity fetch and the transition mail, which take the same
\* token value, and tidy, which the admission filters of one Engine refuse.
Pair == <<"fetch", "mail">>
Order == <<"tidy", "fetch", "mail">>
Ring == <<"mail", "fetch">>
Transitions == {"tidy", "fetch", "mail"}
Rank == [t \in Transitions |-> IF t = "fetch" THEN 0 ELSE 1]
Priorities == [t \in Transitions |-> IF t = "tidy" THEN 0 ELSE 2]
Takes == [t \in Transitions |-> {IF t = "tidy" THEN "door" ELSE "letter"}]

\* Effects: two proposals that reuse one id.  Hands: writes of two calls.
Proposals == {[id |-> "p", payload |-> b, target |-> "target"] : b \in {"b1", "b2"}}
Requests ==
    {[form |-> "ok", call |-> k, bound |-> TRUE, method |-> "write", arg |-> "in", grant |-> 1] : k \in {"k1", "k2"}}
Grants == <<[methods |-> {"write", "read"}, args |-> {"in"}, max |-> 2]>>

\* What a model may answer.
Programs == {[identity |-> "net-owned", fresh |-> TRUE, accepts |-> {<<"net-owned", "net-owned">>}, produces |-> "net-owned"]}
Answer(stop, batch) == [stop |-> stop, batch |-> batch]
Answers ==
    {Answer("stop", <<>>), Answer("error", <<>>), Answer("aborted", <<"read">>), Answer("length", <<"read">>),
     Answer("toolUse", <<"read">>), Answer("toolUse", <<"read", "read">>), Answer("toolUse", <<"write", "read">>)}

PiFaults ==
    {"materialize", "mismatch", "credential", "root", "launch", "activate", "pipe", "exit", "close", "remove",
     "admit", "checkpoint", "checkpoint-unverified", "store", "release"}
NewEntry == {<<[uuid |-> 2, body |-> "a"]>>}
Request == [c \in {"c1", "c2", "c3"} |-> [op |-> IF c = "c3" THEN "q" ELSE "o", fp |-> "a"]]
Targets == [p \in {"p1", "p2"} |-> {"a1"}]

\* The Dispatches.
Local == INSTANCE LocalDispatch WITH
    Occurrences <- {"o1"}, Invocations <- {"inv"}, Queues <- {"q1", "q2"}, Workers <- {"w1", "w2"},
    Results <- {1}, Positions <- {1}, MaxTime <- 5, MaxDispatchTime <- 1, now <- x1, tasks <- x2,
    terminals <- x3, cancellations <- x4, attempts <- x5, published <- x6, collected <- x7,
    promised <- x8

Pool == INSTANCE InMemoryDispatch WITH
    Occurrences <- {"o1", "o2"}, Inline <- FALSE, MaxAttempts <- 2, MaxOutcomes <- 5, pending <- x1,
    completed <- x2, cancelled <- x3, collected <- x4, dispatched <- x5, runs <- x6

Absurd == INSTANCE AbsurdDispatch WITH
    Occurrences <- {"o1"}, Queues <- {"qa"}, Workers <- {"w1", "w2"}, Values <- {"v1"},
    MaxAttempts <- 2, MaxCrashes <- 1, tasks <- x1, schema <- x2, hist <- x3, outcome <- x4,
    up <- x5, route <- x6, mine <- x7, fenced <- x8, collected <- x9, found <- x10, told <- x11,
    held <- x12, acks <- x13, crashes <- x14

ZeroMQ == INSTANCE ZeroMQTransport WITH
    Clients <- {"c1"}, MaxProviders <- 1, Permits <- 2, MaxSends <- 3, MaxRestarts <- 1,
    custody <- x1, up <- x2, draining <- x3, providers <- x4, born <- x5, net <- x6, replies <- x7,
    calls <- x8, held <- x9, closed <- x10, acked <- x11, refused <- x12, sends <- x13,
    claims <- x14, restarts <- x15

\* The workers.
Blocking == INSTANCE Worker WITH
    Threads <- {"t1", "t2"}, Attempts <- {"a1", "a2", "a3"}, Limits <- {0, 1, 2}, driver <- x1,
    budget <- x2, stopped <- x3, closed <- x4, releases <- x5, held <- x6, claimed <- x7,
    ended <- x8

Async == INSTANCE AsyncWorker WITH
    Slots <- {0, 1}, Attempts <- {"a1", "a2", "a3"}, available <- x1, at <- x2, picked <- x3,
    free <- x4, task <- x5, beating <- x6, stop <- x7, failure <- x8, cancelled <- x9, phase <- x10,
    reported <- x11

\* The two driving policies.
Conservative == INSTANCE Coordination WITH
    Admitted <- {"fetch", "mail"}, Strategy <- "roundrobin", Order <- Pair, Pure <- {"mail"},
    Sources <- {"door"}, Policy <- "conservative", MaxSensed <- 1, Nobody <- "nobody",
    enabled <- x1, inFlight <- x2, armed <- x3, maturing <- x4, due <- x5, finished <- x6,
    arrived <- x7, sensed <- x8, deliveries <- x9, previous <- x10, cursor <- x11, ledger <- x12,
    posture <- x13

Throughput == INSTANCE Coordination WITH
    Admitted <- {"fetch", "mail"}, Strategy <- "priority", Pure <- {"tidy"}, Sources <- {"door"},
    Policy <- "throughput", MaxSensed <- 1, Nobody <- "nobody", enabled <- x1, inFlight <- x2,
    armed <- x3, maturing <- x4, due <- x5, finished <- x6, arrived <- x7, sensed <- x8,
    deliveries <- x9, previous <- x10, cursor <- x11, ledger <- x12, posture <- x13

\* What an agent waits for.
Mail == INSTANCE Fabric WITH
    Processes <- {"s", "t", "r"}, Sources <- {"s1", "s2"}, DeliveryIds <- {"d1"},
    Payloads <- {"x1"}, Services <- {}, Capabilities <- {}, Credentials <- {"k1"},
    Connections <- {"c1", "c2", "c3"}, NetSources <- {"s1"}, Limit <- 2, MaxCrashes <- 1,
    schema <- x1, processes <- x2, exposed <- x3, offers <- x4, grants <- x5, granted <- x6,
    deliveries <- x7, hist <- x8, client <- x9, work <- x10, endpoints <- x11, answered <- x12,
    crashes <- x13

Connection == INSTANCE ConnectionCustody WITH
    Connections <- {"c1"}, Hosts <- {"h1"}, Callers <- {"p1", "p2"}, LeaseIds <- {"l1"},
    Erasers <- 1, MaxGrants <- 1, MaxRefreshes <- 1, MaxEnrolments <- 2, MaxEpoch <- 2,
    MaxTime <- 2, hosts <- x1, conns <- x2, leases <- x3, files <- x4, keyed <- x5, held <- x6,
    calls <- x7, now <- x8, grants <- x9, granted <- x10, contexts <- x11

Effect == INSTANCE EffectGateway WITH
    Targets <- {"target"}, GatewayCalls <- {"k1", "k2"}, MaxHead <- 1, MaxEpoch <- 1, head <- x1,
    epoch <- x2, approvals <- x3, calls <- x4, flying <- x5, appliedBy <- x6

Hands == INSTANCE EpisodeAttachment WITH
    Callers <- {"c1", "c2"}, Seams <- {}, MaxCalls <- 1, Interrupts <- {"worker"}, MaxRetries <- 1,
    MaxOperations <- 0, caller <- x1, ledger <- x2, inFlight <- x3, grantEpoch <- x4, granted <- x5,
    consumed <- x6, entries <- x7, stages <- x8, target <- x9, barrier <- x10, att <- x11,
    late <- x12, admitted <- x13, headCurrent <- x14, host <- x15, binding <- x16, territory <- x17,
    archive <- x18, writes <- x19, attempts <- x20

Runner == INSTANCE AgentNetRunner WITH
    PhaseLimit <- 2, ToolLimit <- 2, Capabilities <- {"read"},
    ToolResults <- {"ok", "io", "aborted"}, Failing <- {"model", "hands"}, Misfit <- FALSE,
    Settlements <- {"settled", "closed", "uncertain"}, Revocable <- FALSE, MaxCrashes <- 1,
    MaxSettles <- 2, history <- x1, net <- x2, flight <- x3, projection <- x4, attachment <- x5,
    runner <- x6, arrived <- x7, crossings <- x8, crashes <- x9, settles <- x10

\* The agent runtimes.
Pi == INSTANCE PiRuntime WITH
    Subscription <- FALSE, Closers <- {"c1"}, CallIds <- {"t1"}, MaxTools <- 1, Faults <- PiFaults,
    pc <- x1, cancelled <- x2, publishing <- x3, result <- x4, disposition <- x5, cleanup <- x6,
    closer <- x7, res <- x8, loc <- x9, helper <- x10, submitted <- x11, published <- x12,
    env <- x13

Claude == INSTANCE ClaudeRuntime WITH
    Batches <- NewEntry, MaxAppends <- 1, MaxEntries <- 3, Seed <- <<>>, Calls <- {}, MaxHooks <- 0,
    Faults <- {"stream", "disconnect"}, pc <- x1, cancelled <- x2, publishing <- x3, result <- x4,
    disposition <- x5, cleanup <- x6, closer <- x7, res <- x8, loc <- x9, store <- x10,
    mirrored <- x11, stream <- x12, drain <- x13, pending <- x14, allowed <- x15, submitted <- x16,
    transcript <- x17, published <- x18, env <- x19

Amp == INSTANCE AmpRuntime WITH
    MaxEvents <- 3, Faults <- {"event", "store"}, starter <- x1, binding <- x2, canceller <- x3,
    closer <- x4, pc <- x5, cancelled <- x6, result <- x7, cleanup <- x8, kill <- x9,
    expired <- x10, sdk <- x11, stream <- x12, loc <- x13, published <- x14

Host == INSTANCE PiHost WITH
    Ops <- {"o1"}, Waiters <- {"w1", "w2"}, Closers <- {"c1"}, MaxCrashes <- 0, MaxFailures <- 1,
    Faults <- {"destroy", "unclean", "grace"}, ledger <- x1, bodies <- x2, territory <- x3,
    proc <- x4, life <- x5, inner <- x6, staged <- x7, handle <- x8, fin <- x9, thread <- x10,
    started <- x11, observed <- x12, crashes <- x13, failures <- x14

Service == INSTANCE CodexService WITH
    Procs <- {"p1", "p2"}, Clients <- {"c1", "c2", "c3"}, MaxCrashes <- 1, Faults <- {"stale"},
    ledger <- x1, rows <- x2, lock <- x3, endpoint <- x4, svc <- x5, client <- x6, started <- x7,
    crashes <- x8

Adapter == INSTANCE CodexAdapter WITH
    Attachments <- {"a1"}, Probers <- {"p1", "p2"}, Attempts <- {"s1", "s2", "s3"}, Keys <- {"k1"},
    MaxProbes <- 1, MaxStarts <- 2, Faults <- {"stale", "validate", "client"}, adapter <- x1,
    guest <- x2, latest <- x3, prober <- x4, ops <- x5, attempt <- x6

\* A component with fewer variables leaves the others unused.
Unused(n) ==
    /\ n <= 6 =>
          /\ x7 = "unused" /\ x8 = "unused"
    /\ n <= 8 =>
          /\ x9 = "unused" /\ x10 = "unused"
    /\ n <= 10 =>
          /\ x11 = "unused"
    /\ n <= 11 =>
          /\ x12 = "unused" /\ x13 = "unused"
    /\ n <= 13 =>
          /\ x14 = "unused"
    /\ n <= 14 =>
          /\ x15 = "unused"
    /\ n <= 15 =>
          /\ x16 = "unused" /\ x17 = "unused" /\ x18 = "unused" /\ x19 = "unused"
    /\ n <= 19 =>
          /\ x20 = "unused"

Rest(n) ==
    /\ n <= 6 =>
          UNCHANGED <<x7, x8>>
    /\ n <= 8 =>
          UNCHANGED <<x9, x10>>
    /\ n <= 10 =>
          UNCHANGED <<x11>>
    /\ n <= 11 =>
          UNCHANGED <<x12, x13>>
    /\ n <= 13 =>
          UNCHANGED <<x14>>
    /\ n <= 14 =>
          UNCHANGED <<x15>>
    /\ n <= 15 =>
          UNCHANGED <<x16, x17, x18, x19>>
    /\ n <= 19 =>
          UNCHANGED <<x20>>

Init ==
    \/ part = "local" /\ Local!Init /\ Unused(8)
    \/ part = "pool" /\ Pool!Init /\ Unused(6)
    \/ part = "absurd" /\ Absurd!Init /\ Unused(14)
    \/ part = "zeromq" /\ ZeroMQ!Init /\ Unused(15)
    \/ part = "worker" /\ Blocking!Init /\ Unused(8)
    \/ part = "async" /\ Async!Init /\ Unused(11)
    \/ part = "drive" /\ Conservative!Init /\ Unused(13)
    \/ part = "overlap" /\ Throughput!Init /\ Unused(13)
    \/ part = "fabric" /\ Mail!Deployed("r", "k1") /\ Unused(13)
    \/ part = "connection" /\ Connection!Init /\ Unused(11)
    \/ part = "effect" /\ Effect!EffectInit /\ Unused(6)
    \/ part = "hands" /\ Hands!Init /\ Unused(20)
    \/ part = "runner" /\ Runner!Init /\ Unused(10)
    \/ part = "pi" /\ Pi!Init /\ Unused(13)
    \/ part = "claude" /\ Claude!Init /\ Unused(19)
    \/ part = "amp" /\ Amp!Init /\ Unused(14)
    \/ part = "host" /\ Host!Init /\ Unused(14)
    \/ part = "service" /\ Service!Init /\ Unused(8)
    \/ part = "adapter" /\ Adapter!Init /\ Unused(6)

Next ==
    \/ part = "local" /\ Local!Next /\ Rest(8) /\ UNCHANGED part
    \/ part = "pool" /\ Pool!Next /\ Rest(6) /\ UNCHANGED part
    \/ part = "absurd" /\ Absurd!Next /\ Rest(14) /\ UNCHANGED part
    \/ part = "zeromq" /\ ZeroMQ!Next /\ Rest(15) /\ UNCHANGED part
    \/ part = "worker" /\ Blocking!Next /\ Rest(8) /\ UNCHANGED part
    \/ part = "async" /\ Async!Next /\ Rest(11) /\ UNCHANGED part
    \/ part = "drive" /\ Conservative!Next /\ Rest(13) /\ UNCHANGED part
    \/ part = "overlap" /\ Throughput!Next /\ Rest(13) /\ UNCHANGED part
    \/ part = "fabric" /\ Mail!Traffic("r", "k1", {"c3"}) /\ Rest(13) /\ UNCHANGED part
    \/ part = "connection" /\ Connection!Next /\ Rest(11) /\ UNCHANGED part
    \/ part = "effect" /\ Effect!EffectNext /\ Rest(6) /\ UNCHANGED part
    \/ part = "hands" /\ Hands!Next /\ Rest(20) /\ UNCHANGED part
    \/ part = "runner" /\ Runner!Next /\ Rest(10) /\ UNCHANGED part
    \/ part = "pi" /\ Pi!Next /\ Rest(13) /\ UNCHANGED part
    \/ part = "claude" /\ Claude!Next /\ Rest(19) /\ UNCHANGED part
    \/ part = "amp" /\ Amp!Next /\ Rest(14) /\ UNCHANGED part
    \/ part = "host" /\ Host!Next /\ Rest(14) /\ UNCHANGED part
    \/ part = "service" /\ Service!Next /\ Rest(8) /\ UNCHANGED part
    \/ part = "adapter" /\ Adapter!Next /\ Rest(6) /\ UNCHANGED part

Spec == Init /\ [][Next]_vars

\* The fairness each component's specification states, its duties numbered: a
\* step that stays possible is taken.  Only one component runs in a behaviour,
\* so the duties of different components may share a number.  Reports of
\* Activities, requests of callers, cancellations, faults and crashes are
\* never owed.
Duty(n) ==
    \/ /\ part = "local"
       /\ \/ n = 1 /\ Local!Tick
          \/ n = 2 /\ Local!Collect
          \/ n = 3 /\ Local!Redispatch("o1")
          \/ n \in 4..5 /\ Local!Wait(<<"w1", "w2">>[n - 3])
       /\ Rest(8) /\ UNCHANGED part
    \/ /\ part = "pool"
       /\ \/ n = 1 /\ Pool!Collect
          \/ n \in 2..3 /\ Pool!PendingEnds(<<"o1", "o2">>[n - 1])
       /\ Rest(6) /\ UNCHANGED part
    \/ /\ part = "absurd"
       /\ \/ n = 1 /\ Absurd!Load
          \/ n = 2 /\ Absurd!Collect
          \/ n = 3 /\ Absurd!AuthorityStep("o1")
          \/ n = 4 /\ \E k \in Absurd!Keys : Absurd!Expire(k)
          \/ n = 5 /\ \E k \in Absurd!Keys : Absurd!Wake(k)
          \/ n \in 6..7 /\ Absurd!Drop(<<"w1", "w2">>[n - 5])
          \/ n \in 8..9 /\ Absurd!Claim(<<"w1", "w2">>[n - 7], "qa")
       /\ Rest(14) /\ UNCHANGED part
    \/ part = "zeromq" /\ n = 1 /\ ZeroMQ!SocketTimesOut("c1") /\ Rest(15) /\ UNCHANGED part
    \/ part = "worker" /\ n = 1 /\ Blocking!Steps /\ Rest(8) /\ UNCHANGED part
    \/ /\ part = "async"
       /\ \/ n = 1 /\ Async!Loop
          \/ n = 2 /\ Async!Close
          \/ n = 3 /\ Async!Return
          \/ n \in 4..5 /\ Async!ActivityEnds(n - 4)
          \/ n \in 6..7 /\ Async!Reported(n - 6)
          \/ n \in 8..9 /\ Async!ContextClosed(n - 8)
          \/ n \in 10..11 /\ Async!HeartbeatReturns(n - 10)
       /\ Rest(11) /\ UNCHANGED part
    \/ /\ part = "drive"
       /\ \/ n = 1 /\ Conservative!Drive
          \/ n = 2 /\ Conservative!Load
          \/ n \in 3..4 /\ \E ok \in BOOLEAN : Conservative!Finish(Pair[n - 2], ok)
       /\ Rest(13) /\ UNCHANGED part
    \/ /\ part = "overlap"
       /\ \/ n = 1 /\ Throughput!Drive
          \/ n = 2 /\ Throughput!Load
          \/ n \in 3..4 /\ \E ok \in BOOLEAN : Throughput!Finish(Pair[n - 2], ok)
       /\ Rest(13) /\ UNCHANGED part
    \/ /\ part = "fabric"
       /\ \/ n = 1 /\ Mail!Reconnect("c3", "r", "k1", {"c3"})
          \/ n = 2 /\ Mail!Step("c3")
       /\ Rest(13) /\ UNCHANGED part
    \/ /\ part = "connection"
       /\ \/ n = 1 /\ Connection!Tick
          \/ n = 2 /\ Connection!RecoverInstallation
          \/ n \in 3..4 /\ Connection!Progress(<<"p1", "p2">>[n - 2])
       /\ Rest(11) /\ UNCHANGED part
    \/ part = "effect" /\ n \in 1..2 /\ Effect!Proceed(<<"k1", "k2">>[n]) /\ Rest(6) /\ UNCHANGED part
    \/ part = "hands" /\ n \in 1..2 /\ Hands!SubmissionStep(<<"c1", "c2">>[n]) /\ Rest(20) /\ UNCHANGED part
    \/ /\ part = "runner"
       /\ \/ n = 1 /\ Runner!Step
          \/ n = 2 /\ Runner!Drop
          \/ n = 3 /\ Runner!Repair
       /\ Rest(10) /\ UNCHANGED part
    \/ /\ part = "pi"
       /\ \/ n = 1 /\ Pi!ThreadStep
          \/ n = 2 /\ Pi!Expire
       /\ Rest(13) /\ UNCHANGED part
    \/ /\ part = "claude"
       /\ \/ n = 1 /\ Claude!ThreadStep
          \/ n = 2 /\ Claude!Expire
       /\ Rest(19) /\ UNCHANGED part
    \/ /\ part = "amp"
       /\ \/ n = 1 /\ Amp!TaskStep
          \/ n = 2 /\ Amp!StartStep
       /\ Rest(14) /\ UNCHANGED part
    \/ /\ part = "host"
       /\ \/ n = 1 /\ Host!StartStep("o1")
          \/ n = 2 /\ Host!InnerSettles("o1")
          \/ n = 3 /\ Host!FinStep("o1")
          \/ n = 4 /\ Host!HostCloseOperation("o1")
          \/ n = 5 /\ Host!HostVerdict
          \/ n \in 6..7 /\ Host!WaitInner(<<"w1", "w2">>[n - 5])
          \/ n \in 8..9 /\ Host!WaitClaim(<<"w1", "w2">>[n - 7])
       /\ Rest(14) /\ UNCHANGED part
    \/ part = "service" /\ n \in 1..2 /\ Service!Serving(<<"p1", "p2">>[n]) /\ Rest(8) /\ UNCHANGED part
    \/ /\ part = "adapter"
       /\ \/ n = 1 /\ Adapter!SomeOperationSettles
          \/ n \in 2..4 /\ Adapter!AttemptStep(<<"s1", "s2", "s3">>[n - 1])
       /\ Rest(6) /\ UNCHANGED part

FairSpec == Spec /\ \A n \in 1..11 : WF_vars(Duty(n))

\* Several actors of one component may owe something; they are numbered.
RequestOwed(n) ==
    \/ part = "local" /\ n = 1 /\ Local!Owed("o1")
    \/ part = "pool" /\ Pool!Owed(<<"o1", "o2">>[n])
    \/ part = "absurd" /\ n = 1 /\ Absurd!Owed("o1")
CallOwed(n) ==
    \/ part = "fabric" /\ Mail!Owed(<<<<"s", "t">>[n], "d1">>, "r")
    \/ part = "connection" /\ n = 1 /\ Connection!Owed("l1")
    \/ part = "effect" /\ Effect!Unanswered(<<"k1", "k2">>[n])
    \/ part = "hands" /\ Hands!Owed(<<"c1", "c2">>[n])
    \/ part = "runner" /\ n = 1 /\ Runner!Owed
OperationOwed(n) ==
    \/ n = 1 /\ part = "pi" /\ Pi!Owed
    \/ n = 1 /\ part = "claude" /\ Claude!Owed
    \/ n = 1 /\ part = "amp" /\ Amp!Owed
    \/ n = 1 /\ part = "worker" /\ Blocking!Owed
    \/ n = 1 /\ part = "async" /\ Async!Owed
    \/ n = 1 /\ part = "zeromq" /\ ZeroMQ!Owed("c1")
    \/ part = "host" /\ IF n = 3 THEN Host!CloseOwed ELSE Host!WaitOwed(<<"w1", "w2">>[n])
    \/ part = "service" /\ Service!Owed(<<"c1", "c2", "c3">>[n])
    \/ part = "adapter" /\ Adapter!Owed(<<"s1", "s2", "s3">>[n])
DriveOwes(n) ==
    \/ /\ part = "drive"
       /\ \/ n \in 1..2 /\ ~Conservative!ResultTaken(Pair[n])
          \/ n \in 3..4 /\ ~Conservative!TurnTaken(Pair[n - 2])
          \/ n = 5 /\ ~Conservative!IngressServed
          \/ n = 6 /\ ~Conservative!InternalServed
    \/ /\ part = "overlap"
       /\ \/ n = 5 /\ ~Throughput!IngressServed
          \/ n = 6 /\ ~Throughput!OverlapServed

\* What the Engine may rely on a Dispatch for: a published Activity with an
\* aggregate deadline ends, by a report, by exhaustion or by a fence, though
\* every Worker that claims it may fall silent (dispatch/local.py); what is
\* dispatched to the pool is collected or cancelled (motus/dispatch/__init__.py); what the
\* Postgres queue took is accepted, or closed by the lifecycle, however often
\* Workers and the authority stop (absurd.py).  If restarts cease, the session
\* collects every outcome Local Dispatch recorded.
RequestsAnswered ==
    /\ \A n \in 1..2 : []<>~RequestOwed(n)
    /\ <>[][part = "local" => ~Local!EngineRestart]_vars => []<>~(part = "local" /\ Local!Uncollected("o1"))

\* The drive starves nobody: outcomes are committed, parcels of an open source
\* are accepted, internal work is begun under a stream of parcels, round robin
\* reaches every transition that stays enabled, and throughput driving begins
\* what collides with nothing.  It stops only when it is quiet, begins nothing
\* that collides, and a reload rebuilds its selection state
\* (engine/_coordination.py, impetus/selection).
DriveIsFair ==
    /\ [](part = "drive" => Conservative!TypeOK /\ Conservative!SelectionIsFolded)
    /\ [](part = "overlap" => Throughput!TypeOK)
    /\ [][/\ part = "drive" => Conservative!StopIsQuiet
          /\ part = "overlap" => Throughput!StopIsQuiet /\ Throughput!BegunIsFresh]_vars
    /\ \A n \in 1..6 : []<>~DriveOwes(n)

\* What an agent waits for comes: a pending delivery is accepted, unless one
\* the recipient's net cannot take is pending there too, at which drain stops
\* (fabric); plaintext of a credential is removed whatever dies
\* (connection/custody.py); a call of the effect gateway returns a decision or
\* dies (effect/gateway.py); a submission to the hands is answered and no
\* waiter outlives the call it waits for (hands/gateway.py); a run that was
\* created settles (program/agent_net.py).
CallsEnd == \A n \in 1..2 : []<>~CallOwed(n)

\* What was started ends: a Pi or Claude operation settles though its helper or
\* response never ends (pi.py, claude.py), a cancelled Amp operation though
\* its provider falls silent (amp.py); a wait ends however waiters, closers and
\* the host meet at one claim, and the host closes (pi_a2_host.py); an attempt
\* the Codex service admitted ends and a wait of its adapter too; a stopped
\* worker returns, with the error when a report was refused
\* (motus/worker/__init__.py), and closing a ZeroMQ client closes its sockets.
OperationsEnd ==
    /\ \A n \in 1..3 : []<>~OperationOwed(n)
    /\ [][part = "async" => Async!RefusalSurfaces]_vars
=============================================================================
