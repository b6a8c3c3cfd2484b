----------------------------- MODULE MCRuntimes -----------------------------
(***************************************************************************)
(* The model-provider runtimes and the durable services around them, each  *)
(* on its own small instance.  MCInit chooses the component, so one run    *)
(* explores all of them and their state spaces add up.  The runtimes have  *)
(* the variables of RuntimeProofs; the services share x1 to x14.           *)
(***************************************************************************)
EXTENDS RuntimeProofs

VARIABLES
    x1, x2, x3, x4, x5, x6, x7, x8, x9, x10, x11, x12, x13,
    x14   \* a service's variables, in the order of its declaration

slots == <<x1, x2, x3, x4, x5, x6, x7, x8, x9, x10, x11, x12, x13, x14>>

\* Faults the environment of each service may raise.
HostFaults == {"authority", "open", "inner", "destroy", "stage", "unclean", "grace", "erase"}
ServiceFaults == {"storage", "runtime", "stale", "invalid"}
AdapterFaults == {"deadline", "import", "check", "clean", "client", "input", "stale", "validate", "thread"}

\* A Claude continuation of one entry; a batch that repeats it, one that
\* extends it and one that gives a known identity a different body.
Entry(uuid, body) == [uuid |-> uuid, body |-> body]
ClaudeSeed == <<Entry(1, "a")>>
ClaudeBatches == {<<Entry(1, "a"), Entry(2, "a")>>, <<Entry(3, "a")>>, <<Entry(2, "b")>>}

\* Two attempts of one Codex request, and one that reuses its identity for
\* another request.
Request ==
    [c \in {"c1", "c2", "c3"} |-> [op |-> "o", fp |-> IF c = "c3" THEN "b" ELSE "a"]]

\* Each prober has an attachment of its own.
Targets == [p \in {"p1", "p2"} |-> IF p = "p1" THEN {"a1"} ELSE {"a2"}]

\* Pi with an API key.
PiKey == INSTANCE PiRuntime WITH
    Subscription <- FALSE, CallIds <- {"t1"}, MaxTools <- 1, Faults <- PiFaults

\* Claude with a new continuation and two tool calls.
ClaudeTools == INSTANCE ClaudeRuntime WITH
    Batches <- {<<Entry(2, "a")>>}, MaxAppends <- 1, Seed <- << >>, Calls <- {"t1", "t2"},
    MaxHooks <- 2, Faults <- {"stream"}

\* The Pi recovery ledger: two operations, then one whose writes may fail.
Recovery == INSTANCE PiRecovery WITH
    Ops <- {"o1", "o2"}, Fingerprints <- {"f1"}, MaxCrashes <- 1, MaxFailures <- 0, ledger <- x1,
    up <- x2, inner <- x3, live <- x4, starting <- x5, closing <- x6, crossings <- x7,
    observed <- x8, refused <- x9, crashes <- x10, failures <- x11

RecoveryFaults == INSTANCE PiRecovery WITH
    Ops <- {"o1"}, Fingerprints <- {"f1", "f2"}, MaxCrashes <- 2, MaxFailures <- 2, ledger <- x1,
    up <- x2, inner <- x3, live <- x4, starting <- x5, closing <- x6, crossings <- x7,
    observed <- x8, refused <- x9, crashes <- x10, failures <- x11

\* The Pi host: one operation with two waiters, then two operations.
Host == INSTANCE PiHost WITH
    Ops <- {"o1"}, Waiters <- {"w1", "w2"}, Closers <- {"c1"}, MaxCrashes <- 2, MaxFailures <- 2,
    Faults <- HostFaults, ledger <- x1, bodies <- x2, territory <- x3, proc <- x4, life <- x5,
    inner <- x6, staged <- x7, handle <- x8, fin <- x9, thread <- x10, started <- x11,
    observed <- x12, crashes <- x13, failures <- x14

HostTwo == INSTANCE PiHost WITH
    Ops <- {"o1", "o2"}, Waiters <- {"w1"}, Closers <- {}, MaxCrashes <- 1, MaxFailures <- 1,
    Faults <- {"authority", "open", "destroy", "grace"}, ledger <- x1, bodies <- x2,
    territory <- x3, proc <- x4, life <- x5, inner <- x6, staged <- x7, handle <- x8, fin <- x9,
    thread <- x10, started <- x11, observed <- x12, crashes <- x13, failures <- x14

Service == INSTANCE CodexService WITH
    Procs <- {"p1", "p2"}, Clients <- {"c1", "c2", "c3"}, MaxCrashes <- 2, Faults <- ServiceFaults,
    ledger <- x1, rows <- x2, lock <- x3, endpoint <- x4, svc <- x5, client <- x6, started <- x7,
    crashes <- x8

\* The Codex adapter: two probers and two attempts, then one prober that probes again.
Adapter == INSTANCE CodexAdapter WITH
    Attachments <- {"a1", "a2"}, Probers <- {"p1", "p2"}, Attempts <- {"s1", "s2"},
    Keys <- {"k1", "k2"}, MaxProbes <- 1, MaxStarts <- 2, Faults <- AdapterFaults, adapter <- x1,
    guest <- x2, latest <- x3, prober <- x4, ops <- x5, attempt <- x6

Reprobe == INSTANCE CodexAdapter WITH
    Attachments <- {"a1"}, Probers <- {"p1"}, Targets <- [p \in {"p1"} |-> {"a1"}],
    Attempts <- {"s1", "s2"}, Keys <- {"k1", "k2"}, MaxProbes <- 3, MaxStarts <- 2,
    Faults <- AdapterFaults, adapter <- x1, guest <- x2, latest <- x3, prober <- x4, ops <- x5,
    attempt <- x6

\* The variables of one runtime or of two, the others leave them unused.
claudeOnly == <<store, mirrored, drain, pending, allowed, transcript>>
codexOnly == <<files, home, custody>>
ampOnly == <<starter, binding, canceller, kill, sdk>>
shared == <<pc, cancelled, result, cleanup, closer, loc, published>>

NotClaude ==
    /\ store = "unused" /\ mirrored = "unused" /\ drain = "unused" /\ pending = "unused"
    /\ allowed = "unused" /\ transcript = "unused"
NotCodex == files = "unused" /\ home = "unused" /\ custody = "unused"
NotAmp == starter = "unused" /\ binding = "unused" /\ canceller = "unused" /\ kill = "unused" /\ sdk = "unused"
NoHands == res = "unused" /\ env = "unused" /\ submitted = "unused"
NoClaim == publishing = "unused" /\ disposition = "unused"

IsPi == NotClaude /\ NotCodex /\ NotAmp /\ stream = "unused" /\ expired = "unused"
IsClaude == helper = "unused" /\ NotCodex /\ NotAmp /\ expired = "unused"
IsCodex == helper = "unused" /\ NotClaude /\ NotAmp /\ NoHands /\ stream = "unused"
IsAmp == helper = "unused" /\ NotClaude /\ NotCodex /\ NoHands /\ NoClaim

\* A service runs beside no operation.
IsService ==
    /\ IsAmp /\ NotAmp /\ stream = "unused" /\ expired = "unused"
    /\ pc = "unused" /\ closer = "unused" /\ loc = "unused" /\ published = "unused"
    /\ cancelled = FALSE /\ result = "none" /\ cleanup = "none"

\* A component with fewer variables leaves the other slots unused.
Unused(n) ==
    /\ n < 6 =>
          /\ x1 = "unused" /\ x2 = "unused" /\ x3 = "unused" /\ x4 = "unused" /\ x5 = "unused"
          /\ x6 = "unused"
    /\ n < 8 => x7 = "unused" /\ x8 = "unused"
    /\ n < 11 => x9 = "unused" /\ x10 = "unused" /\ x11 = "unused"
    /\ n < 14 => x12 = "unused" /\ x13 = "unused" /\ x14 = "unused"

Rest(n) ==
    /\ n < 8 => UNCHANGED <<x7, x8>>
    /\ n < 11 => UNCHANGED <<x9, x10, x11>>
    /\ n < 14 => UNCHANGED <<x12, x13, x14>>

NoOperation ==
    UNCHANGED <<part, shared, publishing, disposition, res, env, submitted, helper, claudeOnly,
                codexOnly, ampOnly, stream, expired>>

MCInit ==
    \/ part = "pi" /\ Pi!Init /\ IsPi /\ Unused(0)
    \/ part = "pi-key" /\ PiKey!Init /\ IsPi /\ Unused(0)
    \/ part = "claude" /\ Claude!Init /\ IsClaude /\ Unused(0)
    \/ part = "claude-tools" /\ ClaudeTools!Init /\ IsClaude /\ Unused(0)
    \/ part = "codex" /\ Codex!Init /\ IsCodex /\ Unused(0)
    \/ part = "amp" /\ Amp!Init /\ IsAmp /\ Unused(0)
    \/ part = "recovery" /\ Recovery!Init /\ IsService /\ Unused(11)
    \/ part = "recovery-faults" /\ RecoveryFaults!Init /\ IsService /\ Unused(11)
    \/ part = "host" /\ Host!Init /\ IsService
    \/ part = "host-two" /\ HostTwo!Init /\ IsService
    \/ part = "service" /\ Service!Init /\ IsService /\ Unused(8)
    \/ part = "adapter" /\ Adapter!Init /\ IsService /\ Unused(6)
    \/ part = "adapter-reprobe" /\ Reprobe!Init /\ IsService /\ Unused(6)

MCNext ==
    \/ /\ (part = "pi" /\ Pi!Next) \/ (part = "pi-key" /\ PiKey!Next)
       /\ UNCHANGED <<part, slots, claudeOnly, codexOnly, ampOnly, stream, expired>>
    \/ /\ (part = "claude" /\ Claude!Next) \/ (part = "claude-tools" /\ ClaudeTools!Next)
       /\ UNCHANGED <<part, slots, helper, codexOnly, ampOnly, expired>>
    \/ /\ part = "codex" /\ Codex!Next
       /\ UNCHANGED <<part, slots, helper, claudeOnly, ampOnly, res, env, submitted, stream>>
    \/ /\ part = "amp" /\ Amp!Next
       /\ UNCHANGED <<part, slots, helper, claudeOnly, codexOnly, res, env, submitted, publishing, disposition>>
    \/ part = "recovery" /\ Recovery!Next /\ Rest(11) /\ NoOperation
    \/ part = "recovery-faults" /\ RecoveryFaults!Next /\ Rest(11) /\ NoOperation
    \/ part = "host" /\ Host!Next /\ NoOperation
    \/ part = "host-two" /\ HostTwo!Next /\ NoOperation
    \/ part = "service" /\ Service!Next /\ Rest(8) /\ NoOperation
    \/ part = "adapter" /\ Adapter!Next /\ Rest(6) /\ NoOperation
    \/ part = "adapter-reprobe" /\ Reprobe!Next /\ Rest(6) /\ NoOperation

MCSpec ==
    MCInit /\ [][MCNext]_<<part, shared, publishing, disposition, res, env, submitted, helper,
                           claudeOnly, codexOnly, ampOnly, stream, expired, slots>>

\* Nothing crosses twice, whatever crashes, retries and duplicates happen: a
\* tool call reaches the hands once (Pi) or as often as the hook allowed it
\* (Claude), and an operation's program is started once (Pi recovery, Pi host,
\* Codex service, Codex adapter) with its authority supplied once, by the
\* process that holds its row or the service's fence.
CrossesOnce ==
    /\ part = "pi" => Pi!ToolCallsCrossOnce
    /\ part = "claude-tools" => ClaudeTools!SubmittedWasAllowed
    /\ part = "recovery" => Recovery!AtMostOnce /\ Recovery!ExecutingIsOwned
    /\ part = "recovery-faults" => RecoveryFaults!AtMostOnce /\ RecoveryFaults!ExecutingIsOwned
    /\ part = "host" => Host!AtMostOnce
    /\ part = "host-two" => HostTwo!AtMostOnce /\ HostTwo!AuthorityOnce
    /\ part = "service" => Service!RuntimeStartsOnce /\ Service!FenceCoversService
    /\ part = "adapter" => Adapter!RunsOnce /\ Adapter!HandleIsTheRequested

=============================================================================
