------------------------------ MODULE MCAgents ------------------------------
(***************************************************************************)
(* The Fabric, provider connections, agent Threads, the effect gateway and *)
(* the runner of an agent Net, each on its own small instance.  MCInit     *)
(* chooses the component, so one run explores all of them and their state  *)
(* spaces add up.  The Fabric that delivers and the effect gateway are the *)
(* modules' own variables, which rest while another component runs; the    *)
(* others share x1 to x13.                                                 *)
(***************************************************************************)
EXTENDS Integers, Sequences, FiniteSets, TLC, Fabric, EffectGateway

CONSTANTS
    a1, a2, b1, b2

VARIABLES
    part,   \* the component under check, fixed by MCInit
    x1, x2, x3, x4, x5, x6, x7, x8, x9, x10, x11, x12, x13   \* its variables, in the order of its declaration

slots ==
    <<x1, x2, x3, x4, x5, x6, x7, x8, x9, x10, x11, x12, x13>>

\* Two pairs of interchangeable identities.
Pair == {a1, a2}
Mates == {b1, b2}
PairSymmetry == Permutations(Pair) \cup Permutations(Mates)

\* Connections of two senders, and of the two hosts of a recipient.
Lines == Pair \cup Mates

\* Programs: `owner` starts fresh, resumes its own state and produces it;
\* `successor` only resumes the owner's state and produces none; `rival` starts
\* fresh and produces a state of the owner's type that no one resumes.
Descriptor(identity, fresh, accepts, produces) ==
    [identity |-> identity, fresh |-> fresh, accepts |-> accepts, produces |-> produces]
ThreadPrograms ==
    {Descriptor("owner", TRUE, {<<"state", "owner">>}, "state"),
     Descriptor("successor", FALSE, {<<"state", "owner">>}, None),
     Descriptor("rival", TRUE, {}, "state")}
OwnerAndSuccessor == {p \in ThreadPrograms : p.identity # "rival"}
NetPrograms == {Descriptor("net-owned", TRUE, {<<"net-owned", "net-owned">>}, "net-owned")}
OneBudget == {[turns |-> 2, appends |-> 2]}
Adopted == [id |-> "c1", foreign |-> FALSE, identity |-> "state", program |-> "owner", state |-> "available"]

\* Three calls of the effect gateway, and two proposals that reuse one id for
\* different payloads.
EffectCalls == {"k"} \cup Pair
EffectProposals == {[id |-> "p", payload |-> b, target |-> "target"] : b \in Mates}

\* What a model may answer: an end, an error, and batches of tool calls.
Answer(stop, batch) == [stop |-> stop, batch |-> batch]
AllAnswers ==
    {Answer("stop", <<>>), Answer("error", <<>>), Answer("aborted", <<"read">>), Answer("length", <<"read">>),
     Answer("toolUse", <<"read">>), Answer("toolUse", <<"read", "read">>), Answer("toolUse", <<"write", "read">>)}

\* Fabric from an empty database.
Grants == INSTANCE Fabric WITH
    Processes <- {"s", "r"}, Sources <- {"s1"}, DeliveryIds <- {"d1"}, Payloads <- {"x1"},
    Services <- {}, Capabilities <- {}, Credentials <- Mates, Connections <- Pair,
    NetSources <- {"s1"}, Limit <- 1, MaxCrashes <- 0, schema <- x1, processes <- x2, exposed <- x3,
    offers <- x4, grants <- x5, granted <- x6, deliveries <- x7, hist <- x8, client <- x9,
    work <- x10, endpoints <- x11, answered <- x12, crashes <- x13

Offers == INSTANCE Fabric WITH
    Processes <- {"s", "r"}, Sources <- {"s1"}, DeliveryIds <- {}, Payloads <- {},
    Services <- {"v1"}, Capabilities <- {"p1"}, Credentials <- Mates, Connections <- Pair,
    NetSources <- {"s1"}, Limit <- 1, MaxCrashes <- 0, schema <- x1, processes <- x2, exposed <- x3,
    offers <- x4, grants <- x5, granted <- x6, deliveries <- x7, hist <- x8, client <- x9,
    work <- x10, endpoints <- x11, answered <- x12, crashes <- x13

\* A provider connection with two callers.
Connection == INSTANCE ConnectionCustody WITH
    Connections <- {"c1"}, Hosts <- {"h1"}, Callers <- Pair, LeaseIds <- Mates, Erasers <- 1,
    MaxGrants <- 2, MaxRefreshes <- 1, MaxEnrolments <- 2, MaxEpoch <- 2, MaxTime <- 2, hosts <- x1,
    conns <- x2, leases <- x3, files <- x4, keyed <- x5, held <- x6, calls <- x7, now <- x8,
    grants <- x9, granted <- x10, contexts <- x11

\* A Thread with turns, and one of three Episodes without.
Life == INSTANCE ThreadLifecycle WITH
    Programs <- OwnerAndSuccessor, EpisodeIds <- Pair, TurnIds <- Mates,
    ContinuationIds <- {"c1", "c2"}, ContinuationTypes <- {"state", "other"}, Budgets <- OneBudget,
    Imported <- Adopted, TurnEndings <- {"completed", "failed"},
    EpisodeEndings <- {"completed", "failed", "cancelled"}, thread <- x1, answer <- x2

Lineage == INSTANCE ThreadLifecycle WITH
    Programs <- ThreadPrograms, EpisodeIds <- {"e1", "e2", "e3"}, TurnIds <- {},
    ContinuationIds <- {"c1", "c2", "c3"}, ContinuationTypes <- {"state", "other"},
    Budgets <- OneBudget, Imported <- Adopted, TurnEndings <- {},
    EpisodeEndings <- {"completed", "failed"}, thread <- x1, answer <- x2

\* The runner of an agent Net.
Runner == INSTANCE AgentNetRunner WITH
    Programs <- NetPrograms, PhaseLimit <- 3, ToolLimit <- 2, Capabilities <- {"read"},
    Answers <- AllAnswers, ToolResults <- {"ok", "io", "aborted"}, Failing <- {"model", "hands"},
    Misfit <- TRUE, Settlements <- {"settled", "closed", "uncertain"}, Revocable <- TRUE,
    MaxCrashes <- 2, MaxSettles <- 2, history <- x1, net <- x2, flight <- x3, projection <- x4,
    attachment <- x5, runner <- x6, arrived <- x7, crossings <- x8, crashes <- x9, settles <- x10

\* A component with fewer variables leaves the others unused.
Unused(n) ==
    /\ n < 2 => x1 = "unused" /\ x2 = "unused"
    /\ n < 10 =>
          /\ x3 = "unused" /\ x4 = "unused" /\ x5 = "unused" /\ x6 = "unused" /\ x7 = "unused"
          /\ x8 = "unused" /\ x9 = "unused" /\ x10 = "unused"
    /\ n < 11 => x11 = "unused"
    /\ n < 13 => x12 = "unused" /\ x13 = "unused"

Rest(n) ==
    /\ n < 2 => UNCHANGED <<x1, x2>>
    /\ n < 10 => UNCHANGED <<x3, x4, x5, x6, x7, x8, x9, x10>>
    /\ n < 11 => UNCHANGED x11
    /\ n < 13 => UNCHANGED <<x12, x13>>

MCInit ==
    /\ Deployed("r", "k1") /\ EffectInit
    /\ \/ part \in {"fabric", "effect"} /\ Unused(0)
       \/ part = "fabric-grants" /\ Grants!Init
       \/ part = "fabric-offers" /\ Offers!Init
       \/ part = "connection" /\ Connection!Init /\ Unused(11)
       \/ part = "thread" /\ Life!Init /\ Unused(2)
       \/ part = "lineage" /\ Lineage!Init /\ Unused(2)
       \/ part = "runner" /\ Runner!Init /\ Unused(10)

MCNext ==
    \/ part = "fabric" /\ Traffic("r", "k1", Mates) /\ Rest(0) /\ UNCHANGED <<part, effectVars>>
    \/ part = "effect" /\ EffectNext /\ Rest(0) /\ UNCHANGED <<part, vars>>
    \/ part = "fabric-grants" /\ Grants!Next /\ UNCHANGED <<part, vars, effectVars>>
    \/ part = "fabric-offers" /\ Offers!Next /\ UNCHANGED <<part, vars, effectVars>>
    \/ part = "connection" /\ Connection!Next /\ Rest(11) /\ UNCHANGED <<part, vars, effectVars>>
    \/ part = "thread" /\ Life!Next /\ Rest(2) /\ UNCHANGED <<part, vars, effectVars>>
    \/ part = "lineage" /\ Lineage!Next /\ Rest(2) /\ UNCHANGED <<part, vars, effectVars>>
    \/ part = "runner" /\ Runner!Next /\ Rest(10) /\ UNCHANGED <<part, vars, effectVars>>

MCSpec == MCInit /\ [][MCNext]_<<part, slots, vars, effectVars>>

\* Whatever processes register, expose, grant and revoke from an empty
\* database on, a submitted or discovered address was granted to its sender
\* (fabric/postgres.py, ensure_fabric_schema, register_process, grant_delivery,
\* revoke_delivery, submit and discover).
GrantsAreNeeded ==
    /\ part = "fabric-grants" => Grants!SubmittedWasGranted
    /\ part = "fabric-offers" => Offers!DiscoveredWasGranted


\* A Thread only moves forward: it stays valid, what settled or closed never
\* changes, a requested cancellation is never overtaken by a completion, and
\* a Continuation is used once, by a program that accepts it
\* (thread/lifecycle.py, continuation.py).
ThreadsMoveForward ==
    /\ [](/\ part = "thread" =>
                Life!ThreadIsValid /\ Life!ContinuationUsedOnce /\ Life!ResumedByItsProgram
          /\ part = "lineage" =>
                Lineage!ThreadIsValid /\ Lineage!ContinuationUsedOnce /\ Lineage!ResumedByItsProgram)
    /\ [][part = "thread" => Life!SettledKept /\ Life!CancellationKept]_<<part, slots>>

\* The runner's projection follows the Net's History across crashes, failed
\* settlements and repairs: appends and hand results match the completed
\* activities, the lifecycle never refuses them, a settlement is true and
\* final, the budgets hold, every tool proposal is answered, and the runner
\* crosses into the model or the hands at most once per occurrence
\* (runtime/agent_net_runner.py, program/agent_net.py).
ProjectionFollowsHistory ==
    /\ [](part = "runner" =>
             /\ Runner!ProjectionFollowsHistory /\ Runner!LifecycleNeverRefuses /\ Runner!SettlementIsTrue
             /\ Runner!WithinBudget /\ Runner!EveryProposalAnswered /\ Runner!NoSecondCrossing)
    /\ [][part = "runner" => Runner!SettledKept]_<<part, slots>>
=============================================================================
