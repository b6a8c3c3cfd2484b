--------------------------- MODULE MCTerritories ----------------------------
(***************************************************************************)
(* The territories an agent works in, their custody, and the attachment    *)
(* through which its hands reach them, each on its own small instance.     *)
(* MCInit chooses the component, so one run explores all of them and their *)
(* state spaces add up.  The custody recovered at any time is the module's *)
(* own variables, which rest while another component runs; the others      *)
(* share x1 to x20.                                                        *)
(***************************************************************************)
EXTENDS Integers, Sequences, FiniteSets, TLC, TerritoryCustody

CONSTANTS
    a1, a2, a3

VARIABLES
    part,   \* the component under check, fixed by MCInit
    x1, x2, x3, x4, x5, x6, x7, x8, x9, x10, x11, x12, x13, x14, x15, x16,
    x17, x18, x19, x20   \* its variables, in the order of its declaration

slots ==
    <<x1, x2, x3, x4, x5, x6, x7, x8, x9, x10, x11, x12, x13, x14, x15, x16, x17, x18, x19,
    x20>>

\* The threads, hosts, commands and callers of a component are alike.
Actors == {a1, a2, a3}
Two == {a1, a2}
ActorSymmetry == Permutations(Actors)

Operations == {"create", "destroy", "cancel", "attach", "execute"}
Specs == {"s1", "s2"}
Territories == {"plain", "image"}

\* Requests to the hands: writes of two calls; and with them reads of the
\* second grant, a write outside the granted paths, a request of another
\* attachment and one that does not parse.
Request(call, bound, method, arg, grant) ==
    [form |-> "ok", call |-> call, bound |-> bound, method |-> method, arg |-> arg, grant |-> grant]
WriteRequests == {Request(k, TRUE, "write", "in", 1) : k \in {"k1", "k2"}}
MixedRequests ==
    WriteRequests \cup
    {Request(k, TRUE, "read", "in", 2) : k \in {"k1", "k2"}} \cup
    {Request("k2", TRUE, "write", "out", 1),
     Request("k1", FALSE, "read", "in", 1), [Request("k1", TRUE, "write", "in", 1) EXCEPT !.form = "params"]}

\* One grant; and two, of which the second replaces the first and permits one read.
OneGrant == <<[methods |-> {"write", "read"}, args |-> {"in"}, max |-> 2]>>
NarrowGrants ==
    <<[methods |-> {"write"}, args |-> {"in"}, max |-> 2], [methods |-> {"read"}, args |-> {"in"}, max |-> 1]>>

\* Retained territories that are recovered at startup only.
Startup == INSTANCE TerritoryCustody WITH
    Owners <- {"o1"}, Threads <- Two, MaxCustodies <- 2, MaxLeases <- 2, MaxAttachments <- 3,
    MaxGenerations <- 2, MaxCrashes <- 1, MaxCorruptions <- 0, RecoverAtAnyTime <- FALSE, row <- x1,
    lease <- x2, attachment <- x3, job <- x4, served <- x5, crashes <- x6, corruptions <- x7

\* The local provider with two commands, and with every fault.
Local == INSTANCE LocalTerritory WITH
    Commands <- Two, Specs <- Territories, MaxLeases <- 2, MaxAttachments <- 3, MaxFiles <- 3,
    FilesPerAttachment <- 2, Faults <- {"unlink", "discard", "kill"}, lease <- x1, spec <- x2,
    territory <- x3, current <- x4, attLease <- x5, file <- x6, junk <- x7, cleaned <- x8,
    process <- x9, command <- x10, verified <- x11, privateClean <- x12

LocalFaults == INSTANCE LocalTerritory WITH
    Commands <- {a1}, Specs <- Territories, MaxLeases <- 2, MaxAttachments <- 3, MaxFiles <- 3,
    FilesPerAttachment <- 2, Faults <- {"rmtree", "unlink", "import", "discard", "kill"},
    lease <- x1, spec <- x2, territory <- x3, current <- x4, attLease <- x5, file <- x6, junk <- x7,
    cleaned <- x8, process <- x9, command <- x10, verified <- x11, privateClean <- x12

\* The E2B provider without and with faults, and Docker.
E2b == INSTANCE RemoteTerritory WITH
    Threads <- Actors, Provider <- "e2b", MaxMachines <- 3, MaxFailures <- 0, MaxCrashes <- 0,
    machine <- x1, active <- x2, job <- x3, granted <- x4, verified <- x5, failures <- x6,
    crashes <- x7

E2bFaults == INSTANCE RemoteTerritory WITH
    Threads <- Two, Provider <- "e2b", MaxMachines <- 3, MaxFailures <- 2, MaxCrashes <- 1,
    machine <- x1, active <- x2, job <- x3, granted <- x4, verified <- x5, failures <- x6,
    crashes <- x7

Docker == INSTANCE RemoteTerritory WITH
    Threads <- Two, Provider <- "docker", MaxMachines <- 3, MaxFailures <- 2, MaxCrashes <- 1,
    machine <- x1, active <- x2, job <- x3, granted <- x4, verified <- x5, failures <- x6,
    crashes <- x7

\* Three hosts of one Gondolin machine, one of which destroys it.
Gondolin == INSTANCE GondolinTerritory WITH
    Destroyers <- {"h1"}, Hosts <- {"h1"} \cup Two, MaxLeases <- 2, MaxLocks <- 3, MaxCrashes <- 1,
    MaxFaults <- 1, dir <- x1, holder <- x2, locks <- x3, sidecar <- x4, host <- x5, granted <- x6,
    verified <- x7, crashes <- x8, faults <- x9

\* An attachment from its opening to its settlement, and its hands.
Attachment == INSTANCE EpisodeAttachment WITH
    Callers <- Two, Requests <- WriteRequests, Grants <- OneGrant, Seams <- {"deadline", "head"},
    MaxCalls <- 2, Interrupts <- {"worker"}, MaxRetries <- 1, MaxOperations <- 1, caller <- x1,
    ledger <- x2, inFlight <- x3, grantEpoch <- x4, granted <- x5, consumed <- x6, entries <- x7,
    stages <- x8, target <- x9, barrier <- x10, att <- x11, late <- x12, admitted <- x13,
    headCurrent <- x14, host <- x15, binding <- x16, territory <- x17, archive <- x18,
    writes <- x19, attempts <- x20

Hands == INSTANCE EpisodeAttachment WITH
    Callers <- Two, Requests <- MixedRequests, Grants <- NarrowGrants,
    Seams <- {"deadline", "connection"}, MaxCalls <- 2, Interrupts <- {}, MaxRetries <- 1,
    MaxOperations <- 0, caller <- x1, ledger <- x2, inFlight <- x3, grantEpoch <- x4, granted <- x5,
    consumed <- x6, entries <- x7, stages <- x8, target <- x9, barrier <- x10, att <- x11,
    late <- x12, admitted <- x13, headCurrent <- x14, host <- x15, binding <- x16, territory <- x17,
    archive <- x18, writes <- x19, attempts <- x20

\* A component with fewer variables leaves the others unused.
Unused(n) ==
    /\ n < 7 =>
          /\ x1 = "unused" /\ x2 = "unused" /\ x3 = "unused" /\ x4 = "unused" /\ x5 = "unused"
          /\ x6 = "unused" /\ x7 = "unused"
    /\ n <= 7 =>
          /\ x8 = "unused" /\ x9 = "unused"
    /\ n <= 9 =>
          /\ x10 = "unused" /\ x11 = "unused" /\ x12 = "unused"
    /\ n <= 12 =>
          /\ x13 = "unused" /\ x14 = "unused" /\ x15 = "unused" /\ x16 = "unused"
          /\ x17 = "unused" /\ x18 = "unused" /\ x19 = "unused" /\ x20 = "unused"

Rest(n) ==
    /\ n < 7 =>
          UNCHANGED <<x1, x2, x3, x4, x5, x6, x7>>
    /\ n <= 7 =>
          UNCHANGED <<x8, x9>>
    /\ n <= 9 =>
          UNCHANGED <<x10, x11, x12>>
    /\ n <= 12 =>
          UNCHANGED <<x13, x14, x15, x16, x17, x18, x19, x20>>

MCInit ==
    /\ Init
    /\ \/ part = "custody" /\ Unused(0)
       \/ part = "custody-startup" /\ Startup!Init /\ Unused(7)
       \/ part = "local" /\ Local!Init /\ Unused(12)
       \/ part = "local-faults" /\ LocalFaults!Init /\ Unused(12)
       \/ part = "e2b" /\ E2b!Init /\ Unused(7)
       \/ part = "e2b-faults" /\ E2bFaults!Init /\ Unused(7)
       \/ part = "docker" /\ Docker!Init /\ Unused(7)
       \/ part = "gondolin" /\ Gondolin!Init /\ Unused(9)
       \/ part = "attachment" /\ Attachment!Init /\ Unused(20)
       \/ part = "hands" /\ Hands!Init /\ Unused(20)

MCNext ==
    \/ part = "custody" /\ Next /\ Rest(0) /\ UNCHANGED part
    \/ part = "custody-startup" /\ Startup!Next /\ Rest(7) /\ UNCHANGED <<part, vars>>
    \/ part = "local" /\ Local!Next /\ Rest(12) /\ UNCHANGED <<part, vars>>
    \/ part = "local-faults" /\ LocalFaults!Next /\ Rest(12) /\ UNCHANGED <<part, vars>>
    \/ part = "e2b" /\ E2b!Next /\ Rest(7) /\ UNCHANGED <<part, vars>>
    \/ part = "e2b-faults" /\ E2bFaults!Next /\ Rest(7) /\ UNCHANGED <<part, vars>>
    \/ part = "docker" /\ Docker!Next /\ Rest(7) /\ UNCHANGED <<part, vars>>
    \/ part = "gondolin" /\ Gondolin!Next /\ Rest(9) /\ UNCHANGED <<part, vars>>
    \/ part = "attachment" /\ Attachment!Next /\ Rest(20) /\ UNCHANGED <<part, vars>>
    \/ part = "hands" /\ Hands!Next /\ Rest(20) /\ UNCHANGED <<part, vars>>

MCSpec == MCInit /\ [][MCNext]_<<part, slots, vars>>

\* What is reported gone is gone, and what is there has one holder.  A provider
\* that verifies a destruction leaves no machine, process or file of the lease,
\* and a private attachment reported clean leaves none of its files; one lease's
\* command runs at a time over files that are there, and one machine lives per
\* operation and can be found by its lease (motus/_execution).  A custody that
\* is recovered at startup only keeps what the module promises of one that is
\* recovered at any time (_retention.py).
TerritoriesAreTrue ==
    /\ part = "local" =>
          /\ Local!VerifiedIsGone /\ Local!CleanupIsFailClosed
          /\ Local!OneActiveCommand /\ Local!RootsOutliveCommand
    /\ part = "local-faults" => LocalFaults!VerifiedIsGone
    /\ part = "e2b" => E2b!OneMachinePerOperation
    /\ part = "e2b-faults" => E2bFaults!VerifiedIsGone
    /\ part = "docker" => Docker!VerifiedIsGone
    /\ part = "gondolin" => Gondolin!VerifiedIsGone /\ Gondolin!OneVM /\ Gondolin!GrantedIsFindable
    /\ part = "custody-startup" => Startup!CustodyHolds

=============================================================================
