-------------------------- MODULE EpisodeAttachment --------------------------
(***************************************************************************)
(* The Episode Attachment and its Motus binding                            *)
(* (petrus/agenticus/attachment/episode.py, binding.py) composed with the  *)
(* Hands gateway over their shared barrier.                                *)
(*                                                                         *)
(* A transition (settle, release to host custody, retry of a settlement)   *)
(* is a thread of the host: it closes admission under the barrier and then *)
(* drains, cleans, exports and destroys or hands over, without the barrier *)
(* between those steps.  Runtime operations borrow the binding beside the  *)
(* Hands calls.                                                            *)
(***************************************************************************)
EXTENDS HandsGateway

CONSTANTS
    MaxRetries,      \* settle and retry_settlement calls of the host
    MaxOperations    \* runtime operations that borrow the binding

VARIABLES
    host,            \* the transition in progress
    binding,         \* MotusAttachmentBinding
    territory,       \* the provider's territory: "live", "destroyed", "retained"
    archive,         \* the archive the transition exported
    writes,          \* runtime operations that wrote the workspace
    attempts         \* transitions begun

attVars == <<host, binding, territory, archive, writes, attempts>>
vars == <<gatewayVars, ledgerVars, seamVars, att, attVars>>

-----------------------------------------------------------------------------

NoHost == [mode |-> "none", pc |-> "idle"]
NoArchive == [kind |-> "none", hands |-> <<>>, runtime |-> 0]
BaseArchive == [kind |-> "base", hands |-> <<>>, runtime |-> 0]

NewAttachment ==
    [open |-> TRUE, aborted |-> FALSE, cancelled |-> FALSE, settling |-> FALSE,
     uncertain |-> FALSE, settlement |-> "none", released |-> FALSE,
     gateway |-> FALSE, successor |-> FALSE]

NewBinding == [discard |-> FALSE, released |-> FALSE, admission |-> TRUE, active |-> 0]

Init ==
    /\ InitGateway
    /\ att = NewAttachment
    /\ host = NoHost
    /\ binding = NewBinding
    /\ territory = "live"
    /\ archive = NoArchive
    /\ writes = 0 /\ attempts = 0

-----------------------------------------------------------------------------
(* Operations of the host that are one step under the barrier.             *)

OpenGateway ==
    /\ BarrierFree
    /\ ~att.gateway
    /\ ~att.uncertain /\ att.open
    /\ att' = [att EXCEPT !.gateway = TRUE]
    /\ UNCHANGED <<gatewayVars, ledgerVars, seamVars, attVars>>

\* cancel holds the barrier over binding.cancel, which may fail after abort is set.
Cancel ==
    /\ BarrierFree
    /\ ~att.settling /\ att.settlement = "none" /\ att.open /\ ~att.cancelled
    /\ \E done \in BOOLEAN :
          att' = [att EXCEPT !.aborted = TRUE, !.cancelled = done]
    /\ binding' = [binding EXCEPT !.discard = TRUE]
    /\ UNCHANGED <<gatewayVars, ledgerVars, seamVars, host, territory, archive, writes, attempts>>

\* successor: a distinct attachment object; this one stays settled.
Successor ==
    /\ BarrierFree
    /\ ~att.successor
    /\ ~att.uncertain
    /\ ~att.open /\ att.settlement = "verified"
    /\ att' = [att EXCEPT !.successor = TRUE]
    /\ UNCHANGED <<gatewayVars, ledgerVars, seamVars, attVars>>

-----------------------------------------------------------------------------
(* Runtime operations: binding.execute inside binding._operation.          *)

BeginOperation ==
    /\ writes + binding.active < MaxOperations
    /\ ~binding.released /\ binding.admission
    /\ binding' = [binding EXCEPT !.active = @ + 1]
    /\ UNCHANGED <<gatewayVars, ledgerVars, seamVars, att, host, territory, archive, writes, attempts>>

\* A result that timed out, was superseded or truncated discards the output.
EndOperation ==
    /\ binding.active > 0
    /\ writes' = writes + 1
    /\ \E bad \in BOOLEAN :
          binding' = [binding EXCEPT !.active = @ - 1, !.discard = @ \/ bad]
    /\ UNCHANGED <<gatewayVars, ledgerVars, seamVars, att, host, territory, archive, attempts>>

-----------------------------------------------------------------------------
(* Transitions                                                             *)

HostGoto(pc) == host' = [host EXCEPT !.pc = pc]

\* The finally clause of every transition.
EndTransition(a) ==
    /\ host' = NoHost
    /\ att' = [a EXCEPT !.settling = FALSE]

BeginSettle ==
    /\ BarrierFree /\ attempts < MaxRetries
    /\ ~att.uncertain
    /\ att.settlement = "none" /\ ~att.released
    /\ ~att.settling
    /\ att' = [att EXCEPT !.settling = TRUE, !.open = FALSE]
    /\ host' = [mode |-> "settle", pc |-> "drain"]
    /\ attempts' = attempts + 1
    /\ UNCHANGED <<gatewayVars, ledgerVars, seamVars, binding, territory, archive, writes>>

BeginRelease ==
    /\ BarrierFree /\ attempts < MaxRetries
    /\ ~att.uncertain
    /\ att.settlement = "none" /\ ~att.released /\ att.open
    /\ ~att.settling
    /\ att' = [att EXCEPT !.settling = TRUE, !.open = FALSE]
    /\ host' = [mode |-> "release", pc |-> "quiesce"]
    /\ attempts' = attempts + 1
    /\ UNCHANGED <<gatewayVars, ledgerVars, seamVars, binding, territory, archive, writes>>

\* retry_settlement repeats only the destroy step.
BeginRetry ==
    /\ BarrierFree /\ attempts < MaxRetries
    /\ att.settlement # "none" /\ att.uncertain
    /\ ~att.settling
    /\ att' = [att EXCEPT !.settling = TRUE]
    /\ host' = [mode |-> "retry", pc |-> "destroy"]
    /\ attempts' = attempts + 1
    /\ UNCHANGED <<gatewayVars, ledgerVars, seamVars, binding, territory, archive, writes>>

\* _quiesce closes operation admission and waits for the borrowed operations.
Quiesce ==
    /\ host.pc = "quiesce" /\ binding.admission
    /\ binding' = [binding EXCEPT !.admission = FALSE]
    /\ UNCHANGED <<gatewayVars, ledgerVars, seamVars, att, host, territory, archive, writes, attempts>>

Quiesced ==
    /\ host.pc = "quiesce" /\ ~binding.admission /\ binding.active = 0
    /\ HostGoto("drain")
    /\ UNCHANGED <<gatewayVars, ledgerVars, seamVars, att, binding, territory, archive, writes, attempts>>

\* HandsGateway.drain of every gateway.
Drain ==
    /\ host.pc = "drain" /\ inFlight <= 0
    /\ HostGoto("cleanup")
    /\ UNCHANGED <<gatewayVars, ledgerVars, seamVars, att, binding, territory, archive, writes, attempts>>

CleanupStages ==
    /\ host.pc = "cleanup"
    /\ stages' = {}
    /\ HostGoto("export")
    /\ UNCHANGED <<caller, ledger, inFlight, consumed, entries, target, barrier, ledgerVars,
                   seamVars, att, binding, territory, archive, writes, attempts>>

ExportArchive ==
    /\ host.pc = "export"
    /\ archive' = IF binding.discard THEN BaseArchive
                  ELSE [kind |-> "output", hands |-> target, runtime |-> writes]
    /\ HostGoto(IF host.mode = "release" THEN "accept" ELSE "destroy")
    /\ UNCHANGED <<gatewayVars, ledgerVars, seamVars, att, binding, territory, writes, attempts>>

\* A step before the destruction fails: the drain or quiesce timed out, the
\* stage cleanup or the export raised.  settle leaves admission closed and may be
\* called again; a failed release is uncertain and has no settlement to retry.
FailTransition ==
    /\ host.pc \in {"quiesce", "drain", "cleanup", "export"}
    /\ host.pc = "quiesce" => ~binding.admission
    /\ BarrierFree
    /\ EndTransition([att EXCEPT !.uncertain = @ \/ host.mode = "release"])
    /\ granted' = (granted /\ host.mode # "release")
    /\ consumed' = IF host.mode = "release" THEN 0 ELSE consumed
    /\ UNCHANGED <<caller, ledger, inFlight, entries, stages, target, barrier, grantEpoch,
                   seamVars, binding, territory, archive, writes, attempts>>

\* binding.settle: the provider destroys the lease and answers with verified or
\* unverified evidence, or raises; only verified evidence means it is gone.
\* (retry_settlement leaves the ledger alone; it was closed by the first settle.)
Destroy ==
    /\ host.pc = "destroy" /\ BarrierFree
    /\ \/ /\ territory' = "destroyed"
          /\ EndTransition([att EXCEPT !.settlement = "verified", !.uncertain = FALSE])
       \/ /\ territory' \in {territory, "destroyed"}
          /\ EndTransition([att EXCEPT !.settlement = "unverified", !.uncertain = TRUE])
    /\ granted' = (granted /\ host.mode = "retry")
    /\ consumed' = IF host.mode = "retry" THEN consumed ELSE 0
    /\ UNCHANGED <<caller, ledger, inFlight, entries, stages, target, barrier, grantEpoch,
                   seamVars, binding, archive, writes, attempts>>

\* _accept_release: the binding gives up its authority, then host custody takes
\* the lease; when custody refuses, the attachment is left uncertain.
AcceptRelease ==
    /\ host.pc = "accept" /\ BarrierFree
    /\ binding' = [binding EXCEPT !.released = TRUE]
    /\ \/ /\ territory' = "retained"
          /\ EndTransition([att EXCEPT !.released = TRUE])
       \/ /\ UNCHANGED territory
          /\ EndTransition([att EXCEPT !.uncertain = TRUE])
    /\ granted' = FALSE /\ consumed' = 0
    /\ UNCHANGED <<caller, ledger, inFlight, entries, stages, target, barrier, grantEpoch,
                   seamVars, archive, writes, attempts>>

HostStep ==
    \/ Quiesce \/ Quiesced \/ Drain \/ CleanupStages \/ ExportArchive
    \/ FailTransition \/ Destroy \/ AcceptRelease

-----------------------------------------------------------------------------

Next ==
    \/ \E c \in Callers : Step(c) /\ UNCHANGED attVars
    \/ \E c \in Callers, r \in Requests : Submit(c, r) /\ UNCHANGED attVars
    \/ \E c \in Callers : Abandon(c) /\ UNCHANGED attVars
    \/ OpenGrant /\ UNCHANGED attVars
    \/ SeamChange /\ UNCHANGED attVars
    \/ OpenGateway \/ Cancel \/ Successor
    \/ BeginOperation \/ EndOperation
    \/ BeginSettle \/ BeginRelease \/ BeginRetry
    \/ HostStep

Spec == Init /\ [][Next]_vars

\* A thread that runs is scheduled, and the adapter's commands are bounded by
\* the workspace adapter's command timeout.
SubmissionStep(c) == Step(c) /\ UNCHANGED attVars

FairSpec == Spec /\ \A c \in Callers : WF_vars(SubmissionStep(c))

-----------------------------------------------------------------------------
(* Properties                                                              *)

Past(pcs) == host.pc \in pcs

\* HandsGateway.drain: "Wait until no call is between adapter entry and its
\* finalized result", so no call works in the territory that the transition is
\* cleaning, exporting or destroying.
DrainedIsQuiet ==
    Past({"cleanup", "export", "destroy", "accept"}) => \A c \in Callers : ~InAdapter(c)

\* gateway.py: "a transition can never advance while a commit is active and a
\* staged write can never commit past the fence": the target changes only while
\* the attachment is open, is not cancelled and no transition runs.
WrittenInsideFence ==
    target' # target => att.open /\ ~att.aborted /\ ~att.settling /\ ~att.uncertain

\* GrantLedger.consume: the adapter is entered at most max_calls times under one
\* grant, however the prechecks of several callers interleave.
GrantBudget == \A g \in DOMAIN entries : entries[g] <= Grants[g].max

\* The call ledger: one call id commits one write, however often it is submitted.
CommitOncePerCall ==
    \A i, j \in DOMAIN target : target[i].call = target[j].call => i = j

\* Equal requests get the same exact result, whoever executed.
SameAnswer ==
    \A c, d \in Callers :
        caller[c].pc = "done" /\ caller[d].pc = "done" /\ caller[c].req = caller[d].req
            => caller[c].result = caller[d].result

\* A call refused for any reason but a provider failure did not change the target.
RefusedLeavesTarget ==
    \A c \in Callers :
        caller[c].pc = "done" /\ caller[c].result \notin {"ok", "provider", "conflict"}
            => \A i \in DOMAIN target : target[i] # caller[c].req

\* The exported archive holds every committed Hands write, and when the lease
\* was released to the host also every runtime write.
ArchiveIsFinal ==
    archive.kind = "output" /\ (att.settlement # "none" \/ att.released) =>
        /\ archive.hands = target
        /\ att.released => archive.runtime = writes

\* No stage file survives a settlement or enters a retained workspace.
NoStageSurvives == att.settlement # "none" \/ att.released => stages = {}

\* A successor exists only over a destroyed territory, and a territory handed to
\* the host is not destroyed by the attachment that gave it away.
SuccessionIsExclusive ==
    /\ att.successor => territory = "destroyed"
    /\ att.released => territory = "retained"

\* A submission that is not answered.
Owed(c) == caller[c].pc \notin {"idle", "done"}
=============================================================================
