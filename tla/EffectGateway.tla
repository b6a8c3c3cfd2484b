---- MODULE EffectGateway ----
\* The lookup-first gateway for external Effects (agenticus/effect/gateway.py)
\* over the strict values of agenticus/effect/model.py.  Several gateway calls
\* run at once, for the same proposal or for different ones: a host retries a
\* call whose answer it lost or whose process died.  Between any two of its
\* provider calls a gateway call may be overtaken by the others, by a foreign
\* writer of the target and by a change of authority.
\*
\* A digest is injective, so a proposal is its own digest and a receipt is
\* the proposal it was issued for.  The authority, Episode and attachment
\* epochs of a fence are one epoch: the gateway only compares whole fences.
\* The EffectAdapter and EffectFenceSource are host code outside the package:
\* lookup tells the truth or fails, execute applies a proposal only while the
\* target's head is the fence's ("enforcing the provider's native target-head
\* condition"), and a request whose answer was lost may still be in flight.
EXTENDS Integers, FiniteSets, TLAPS

CONSTANTS
    Proposals,     \* EffectProposals [id, payload, target]
    Targets,
    GatewayCalls,  \* gateway calls, each used once
    MaxHead, MaxEpoch

VARIABLES
    head,          \* target -> its current head
    epoch,         \* the current authority epoch
    approvals,     \* approving EffectDecisions: [proposal, fence]
    calls,         \* call -> its progress
    flying,        \* calls whose execute request the provider has not seen yet
    appliedBy      \* calls whose execute request the provider applied

effectVars == <<head, epoch, approvals, calls, flying, appliedBy>>

EffectProposal(id, payload, target) ==
    [id |-> id, payload |-> payload, target |-> target]

EffectFence(p, h, e) == [proposal |-> p, head |-> h, epoch |-> e]

NoProposal == EffectProposal("none", "none", "none")

NoFence == EffectFence(NoProposal, 0, 0)

LookupDispositions == {"applied", "safe-to-retry", "superseded", "indeterminate"}

DecisionKinds == {"execute", "already-applied", "superseded", "indeterminate"}

Undecided == "none"

\* EffectDecision with its EffectEvidence: the kinds and the recovery
\* classification each of them may carry.
DecisionIsConsistent(kind, recovery) ==
    CASE kind = "execute"         -> recovery = Undecided
      [] kind = "already-applied" -> recovery = "applied"
      [] kind = "superseded"      -> recovery = "superseded"
      [] kind = "indeterminate"   -> recovery \in {"safe-to-retry",
                                                   "indeterminate"}

NewCall == [pc |-> "idle", proposal |-> NoProposal, fence |-> NoFence,
            kind |-> Undecided, recovery |-> Undecided]

CurrentFence(p) == EffectFence(p, head[p.target], epoch)

IsApplied(p) == \E c \in appliedBy : calls[c].proposal = p

\* EffectAdapter.lookup: a provider that knows its records by proposal id
\* and tells the truth, or a failure.
LookupResults(p) ==
    LET found == {q \in Proposals : q.id = p.id /\ IsApplied(q)} IN
    {[disposition |-> "indeterminate", receipt |-> NoProposal]} \cup
    IF found # {}
    THEN {[disposition |-> "applied", receipt |-> q] : q \in found}
    ELSE {[disposition |->
             IF \E d \in approvals : d.proposal = p /\ d.fence.head = head[p.target]
             THEN "safe-to-retry" ELSE "superseded",
           receipt |-> NoProposal]}

\* EffectReceipt.correlates
Correlates(receipt, p) == receipt = p

------------------------------------------------------------------------------

EffectInit ==
    /\ head = [t \in Targets |-> 0]
    /\ epoch = 1
    /\ approvals = {}
    /\ calls = [c \in GatewayCalls |-> NewCall]
    /\ flying = {}
    /\ appliedBy = {}

\* EffectDecision.approve: the host freezes the fence of the moment.
Approve(p) ==
    /\ \A d \in approvals : d.proposal # p
    /\ approvals' = approvals \cup {[proposal |-> p, fence |-> CurrentFence(p)]}
    /\ UNCHANGED <<head, epoch, calls, flying, appliedBy>>

\* _approval_fence: the approval must name the proposal, id and digest.
MatchesApproval(d, p) == d.proposal = p

\* The opening checks of execute: the approval, and the payload's digest.
Begin(c, p, payload, d) ==
    /\ calls[c].pc = "idle"
    /\ d \in approvals
    /\ MatchesApproval(d, p)
    /\ payload = p.payload
    /\ calls' = [calls EXCEPT ![c] = [@ EXCEPT
                    !.pc = "lookup", !.proposal = p, !.fence = d.fence]]
    /\ UNCHANGED <<head, epoch, approvals, flying, appliedBy>>

Decided(c, kind, recovery) ==
    calls' = [calls EXCEPT ![c].pc = "done", ![c].kind = kind,
                           ![c].recovery = recovery]

\* _recover and the deciding branches of _lookup_decision, with
\* _applied_or_indeterminate.
Resolved(c, result) ==
    CASE result.disposition = "applied"
           -> IF Correlates(result.receipt, calls[c].proposal)
              THEN Decided(c, "already-applied", "applied")
              ELSE Decided(c, "indeterminate", "indeterminate")
      [] result.disposition = "superseded"
           -> Decided(c, "superseded", "superseded")
      [] OTHER -> Decided(c, "indeterminate", result.disposition)

Lookup(c) ==
    /\ calls[c].pc = "lookup"
    /\ \E result \in LookupResults(calls[c].proposal) :
          IF result.disposition = "safe-to-retry"
          THEN calls' = [calls EXCEPT ![c].pc = "fence"]
          ELSE Resolved(c, result)
    /\ UNCHANGED <<head, epoch, approvals, flying, appliedBy>>

\* Mutant: the call adopts the fence it has just read.
RefreshFence(c) ==
    /\ calls[c].pc = "fence"
    /\ calls' = [calls EXCEPT ![c].pc = "execute",
                              ![c].fence = CurrentFence(calls[c].proposal)]
    /\ UNCHANGED <<head, epoch, approvals, flying, appliedBy>>

\* _current, which may fail, and its comparison with the approved fence.
CheckFence(c) ==
    /\ calls[c].pc = "fence"
    /\ \/ Decided(c, "indeterminate", "safe-to-retry")
       \/ IF CurrentFence(calls[c].proposal) # calls[c].fence
          THEN Decided(c, "superseded", "superseded")
          ELSE calls' = [calls EXCEPT ![c].pc = "execute"]
    /\ UNCHANGED <<head, epoch, approvals, flying, appliedBy>>

\* EffectAdapter.execute as the provider performs it.
Apply(c) ==
    /\ head[calls[c].proposal.target] = calls[c].fence.head
    /\ head' = [head EXCEPT ![calls[c].proposal.target] = @ + 1]
    /\ appliedBy' = appliedBy \cup {c}

\* _execute_once: the receipt correlates and the call is decided ...
ExecuteAnswered(c) ==
    /\ calls[c].pc = "execute"
    /\ Apply(c)
    /\ Decided(c, "execute", Undecided)
    /\ UNCHANGED <<epoch, approvals, flying>>

\* ... or the answer is an exception or a foreign receipt, after the provider
\* applied the request, refused it, or has yet to see it.
ExecuteUncertain(c) ==
    /\ calls[c].pc = "execute"
    /\ calls' = [calls EXCEPT ![c].pc = "recover"]
    /\ \/ Apply(c) /\ UNCHANGED flying
       \/ flying' = flying \cup {c} /\ UNCHANGED <<head, appliedBy>>
       \/ UNCHANGED <<head, appliedBy, flying>>
    /\ UNCHANGED <<epoch, approvals>>

\* Mutant: an uncertain execution is retried until its outcome is known.
RecoverByRetry(c) ==
    /\ calls[c].pc = "recover"
    /\ \E result \in LookupResults(calls[c].proposal) :
          IF result.disposition \in {"safe-to-retry", "indeterminate"}
          THEN calls' = [calls EXCEPT ![c].pc = "lookup"]
          ELSE Resolved(c, result)
    /\ UNCHANGED <<head, epoch, approvals, flying, appliedBy>>

Recover(c) ==
    /\ calls[c].pc = "recover"
    /\ \E result \in LookupResults(calls[c].proposal) : Resolved(c, result)
    /\ UNCHANGED <<head, epoch, approvals, flying, appliedBy>>

\* The process running the call dies: no decision is ever returned.
CallerDies(c) ==
    /\ calls[c].pc \in {"lookup", "fence", "execute", "recover"}
    /\ calls' = [calls EXCEPT ![c].pc = "dead"]
    /\ UNCHANGED <<head, epoch, approvals, flying, appliedBy>>

\* A delayed request reaches the provider, long after its caller gave up.
Arrive(c) ==
    /\ c \in flying
    /\ flying' = flying \ {c}
    /\ IF head[calls[c].proposal.target] = calls[c].fence.head
       THEN Apply(c)
       ELSE UNCHANGED <<head, appliedBy>>
    /\ UNCHANGED <<epoch, approvals, calls>>

\* Another writer moves the target; the host changes authority.
MoveTarget(t) ==
    /\ head[t] < MaxHead
    /\ head' = [head EXCEPT ![t] = @ + 1]
    /\ UNCHANGED <<epoch, approvals, calls, flying, appliedBy>>

ChangeAuthority ==
    /\ epoch < MaxEpoch
    /\ epoch' = epoch + 1
    /\ UNCHANGED <<head, approvals, calls, flying, appliedBy>>

EffectNext ==
    \/ \E p \in Proposals : Approve(p)
    \/ \E c \in GatewayCalls, p \in Proposals, d \in approvals,
          payload \in {q.payload : q \in Proposals} : Begin(c, p, payload, d)
    \/ \E c \in GatewayCalls :
          Lookup(c) \/ CheckFence(c) \/ ExecuteAnswered(c)
          \/ ExecuteUncertain(c) \/ Recover(c) \/ CallerDies(c) \/ Arrive(c)
    \/ \E t \in Targets : MoveTarget(t)
    \/ ChangeAuthority

\* A call that runs in a live process goes on: the provider's methods return
\* or raise.
Proceed(c) ==
    Lookup(c) \/ CheckFence(c) \/ ExecuteAnswered(c) \/ ExecuteUncertain(c) \/ Recover(c) \/ CallerDies(c)

EffectFairness == \A c \in GatewayCalls : WF_effectVars(Proceed(c))

EffectSpec == EffectInit /\ [][EffectNext]_effectVars /\ EffectFairness

------------------------------------------------------------------------------

\* A proposal takes effect at most once, however many calls execute its
\* approval, at whatever interleaving, and whichever requests arrive late
\* (EffectGateway.execute: "Execute at most once").
EffectAppliedOnce ==
    \A c1, c2 \in appliedBy :
        calls[c1].proposal = calls[c2].proposal => c1 = c2

\* Nothing is applied but an approved proposal, to the head its approval
\* froze (_approval_fence and the fence handed to the adapter).
AppliedAsApproved ==
    \A c \in appliedBy :
        [proposal |-> calls[c].proposal, fence |-> calls[c].fence] \in approvals

\* A decision that reports the effect in place is backed by the provider,
\* and every decision carries the recovery its kind allows (_outcome,
\* EffectDecision._validate_outcome).
ReportedIsApplied ==
    \A c \in GatewayCalls : calls[c].pc = "done" =>
        /\ DecisionIsConsistent(calls[c].kind, calls[c].recovery)
        /\ calls[c].kind \in {"execute", "already-applied"} =>
              IsApplied(calls[c].proposal)

\* A call whose own request the provider applied, at once or late, never
\* reports that the proposal was superseded (_execute_once recovers by
\* lookup, not by comparing fences again).
OwnEffectNeverSuperseded ==
    \A c \in appliedBy : calls[c].kind # "superseded"

\* However calls, late requests, foreign writers and changes of authority
\* interleave, the provider's record and the decisions agree with what was
\* approved (EffectGateway.execute).
EffectsStand ==
    EffectAppliedOnce /\ AppliedAsApproved /\ ReportedIsApplied /\ OwnEffectNeverSuperseded

\* A call that began and has neither returned a decision nor died.
Unanswered(c) == calls[c].pc \notin {"idle", "done", "dead"}

------------------------------------------------------------------------------
(* What is proved, for any proposals, calls, foreign writers and epochs. *)

\* A proposal names a target the provider has.
ProposalsHaveTargets == \A p \in Proposals : p.target \in Targets

Fences == [proposal : Proposals \cup {NoProposal}, head : Nat, epoch : Nat]

TypeInv ==
    /\ head \in [Targets -> Nat] /\ epoch \in Nat
    /\ approvals \subseteq [proposal : Proposals, fence : Fences]
    /\ calls \in [GatewayCalls -> [pc : {"idle", "lookup", "fence", "execute", "recover", "done", "dead"},
                            proposal : Proposals \cup {NoProposal}, fence : Fences,
                            kind : DecisionKinds \cup {Undecided},
                            recovery : LookupDispositions \cup {Undecided}]]
    /\ flying \subseteq GatewayCalls /\ appliedBy \subseteq GatewayCalls

\* A proposal is approved once, at a head its target has reached.
ApprovalsInv ==
    /\ \A d, e \in approvals : d.proposal = e.proposal => d = e
    /\ \A d \in approvals : d.fence.head <= head[d.proposal.target]

\* A call runs under an approval, and sends its request after its checks.
CallsInv ==
    /\ \A c \in GatewayCalls : calls[c].pc # "idle" =>
          [proposal |-> calls[c].proposal, fence |-> calls[c].fence] \in approvals
    /\ \A c \in flying \cup appliedBy : calls[c].pc \in {"recover", "done", "dead"}

\* What was applied has moved its target past the fence, so that a second
\* request under the same approval is refused.
AppliedInv ==
    /\ \A c \in appliedBy : calls[c].fence.head < head[calls[c].proposal.target]
    /\ EffectAppliedOnce

\* A decision says what the provider knows; a call that reports its proposal
\* superseded has no request left that could still be applied.
DecisionsInv ==
    /\ ReportedIsApplied
    /\ \A c \in GatewayCalls : calls[c].pc # "done" => calls[c].kind = Undecided
    /\ \A c \in GatewayCalls : calls[c].kind = "superseded" =>
          /\ c \notin appliedBy
          /\ c \in flying => calls[c].fence.head < head[calls[c].proposal.target]

GatewayInv == TypeInv /\ ApprovalsInv /\ CallsInv /\ AppliedInv /\ DecisionsInv

\* A decided call, and nothing else changed (the returns of execute).
LEMMA DecisionKeeps ==
    ASSUME ProposalsHaveTargets, GatewayInv, NEW c \in GatewayCalls, NEW kind \in DecisionKinds,
           NEW recovery \in LookupDispositions \cup {Undecided},
           calls[c].pc \in {"lookup", "fence", "recover"},
           Decided(c, kind, recovery), UNCHANGED <<head, epoch, approvals, flying, appliedBy>>,
           DecisionIsConsistent(kind, recovery),
           kind \in {"execute", "already-applied"} => IsApplied(calls[c].proposal),
           kind = "superseded" =>
               c \notin appliedBy /\ (c \in flying => calls[c].fence.head < head[calls[c].proposal.target])
    PROVE  GatewayInv'
<1> USE DEF GatewayInv
<1>0. /\ calls' \in [GatewayCalls -> [pc : {"idle", "lookup", "fence", "execute", "recover", "done", "dead"},
                            proposal : Proposals \cup {NoProposal}, fence : Fences,
                            kind : DecisionKinds \cup {Undecided},
                            recovery : LookupDispositions \cup {Undecided}]]
      /\ \A x \in GatewayCalls : calls'[x].proposal = calls[x].proposal /\ calls'[x].fence = calls[x].fence
      /\ \A x \in GatewayCalls \ {c} : calls'[x] = calls[x]
      /\ calls'[c].pc = "done" /\ calls'[c].kind = kind /\ calls'[c].recovery = recovery
  BY Zenon DEF Decided, TypeInv
<1>1. TypeInv'
  BY <1>0 DEF TypeInv
<1>2. ApprovalsInv'
  BY <1>0 DEF TypeInv, ApprovalsInv
<1>3. CallsInv'
  BY <1>0 DEF TypeInv, CallsInv
<1>4. AppliedInv'
  BY <1>0 DEF TypeInv, AppliedInv, EffectAppliedOnce
<1>5. DecisionsInv'
  BY <1>0 DEF TypeInv, DecisionsInv, ReportedIsApplied, IsApplied
<1> QED
  BY <1>1, <1>2, <1>3, <1>4, <1>5

\* A call that moves on without a decision and without reaching the provider.
LEMMA ProgressKeeps ==
    ASSUME ProposalsHaveTargets, GatewayInv, NEW c \in GatewayCalls, NEW pc \in {"fence", "execute", "dead"},
           calls[c].pc \in {"lookup", "fence", "execute", "recover"},
           pc # "dead" => calls[c].pc \in {"lookup", "fence"},
           calls' = [calls EXCEPT ![c].pc = pc], UNCHANGED <<head, epoch, approvals, flying, appliedBy>>
    PROVE  GatewayInv'
<1> USE DEF GatewayInv
<1>1. TypeInv'
  BY DEF TypeInv
<1>2. ApprovalsInv'
  BY DEF TypeInv, ApprovalsInv
<1>3. CallsInv'
  BY DEF TypeInv, CallsInv
<1>4. AppliedInv'
  BY DEF TypeInv, AppliedInv, EffectAppliedOnce
<1>5. DecisionsInv'
  BY DEF TypeInv, DecisionsInv, ReportedIsApplied, IsApplied
<1> QED
  BY <1>1, <1>2, <1>3, <1>4, <1>5

\* What a lookup says of the call's own proposal is so (EffectAdapter.lookup).
LEMMA LookupIsTrue ==
    ASSUME ProposalsHaveTargets, GatewayInv, NEW c \in GatewayCalls, calls[c].pc # "idle",
           NEW result \in LookupResults(calls[c].proposal)
    PROVE  /\ result.disposition \in LookupDispositions
           /\ result.disposition = "applied" /\ Correlates(result.receipt, calls[c].proposal) =>
                 IsApplied(calls[c].proposal)
           /\ result.disposition = "superseded" =>
                 c \notin appliedBy /\ calls[c].fence.head < head[calls[c].proposal.target]
<1> DEFINE p == calls[c].proposal
           found == {q \in Proposals : q.id = p.id /\ IsApplied(q)}
<1>1. /\ p \in Proposals /\ [proposal |-> p, fence |-> calls[c].fence] \in approvals
      /\ calls[c].fence.head \in Nat /\ head[p.target] \in Nat
      /\ calls[c].fence.head <= head[p.target]
  BY DEF GatewayInv, TypeInv, ApprovalsInv, CallsInv, ProposalsHaveTargets, Fences
<1>2. CASE found # {}
  BY <1>1, <1>2 DEF LookupResults, Correlates, LookupDispositions
<1>3. CASE found = {}
  <2>1. ~IsApplied(p)
    BY <1>1, <1>3
  <2>2. c \notin appliedBy
    BY <2>1 DEF IsApplied
  <2>3. /\ result.disposition \in {"indeterminate", "safe-to-retry", "superseded"}
        /\ result.disposition = "superseded" =>
              ~ \E d \in approvals : d.proposal = p /\ d.fence.head = head[p.target]
    BY <1>3 DEF LookupResults
  <2>4. result.disposition = "superseded" => calls[c].fence.head # head[p.target]
    BY <1>1, <2>3
  <2> QED
    BY <1>1, <2>2, <2>3, <2>4 DEF LookupDispositions
<1> QED
  BY <1>2, <1>3

\* A resolved lookup is a decision (_recover, _applied_or_indeterminate).
LEMMA ResolvedKeeps ==
    ASSUME ProposalsHaveTargets, GatewayInv, NEW c \in GatewayCalls, calls[c].pc \in {"lookup", "recover"},
           NEW result \in LookupResults(calls[c].proposal), Resolved(c, result),
           UNCHANGED <<head, epoch, approvals, flying, appliedBy>>
    PROVE  GatewayInv'
<1>1. calls[c].pc \in {"lookup", "fence", "recover"} /\ calls[c].pc # "idle"
  OBVIOUS
<1>2. /\ result.disposition \in LookupDispositions
      /\ result.disposition = "applied" /\ Correlates(result.receipt, calls[c].proposal) =>
            IsApplied(calls[c].proposal)
      /\ result.disposition = "superseded" =>
            c \notin appliedBy /\ calls[c].fence.head < head[calls[c].proposal.target]
  BY <1>1, LookupIsTrue
<1>3. CASE Decided(c, "already-applied", "applied") /\ IsApplied(calls[c].proposal)
  BY <1>1, <1>3, DecisionKeeps DEF DecisionKinds, LookupDispositions, DecisionIsConsistent
<1>4. CASE Decided(c, "superseded", "superseded") /\ result.disposition = "superseded"
  BY <1>1, <1>2, <1>4, DecisionKeeps DEF DecisionKinds, LookupDispositions, DecisionIsConsistent
<1>5. ASSUME NEW recovery \in {"safe-to-retry", "indeterminate"}, Decided(c, "indeterminate", recovery)
      PROVE  GatewayInv'
  BY <1>1, <1>5, DecisionKeeps DEF DecisionKinds, LookupDispositions, DecisionIsConsistent
<1> QED
  BY <1>2, <1>3, <1>4, <1>5 DEF Resolved, LookupDispositions

\* The provider applies a request, at once or late (EffectAdapter.execute):
\* the head moves past the fence, and no other call's request for the same
\* proposal was applied before.
LEMMA ApplyOnce ==
    ASSUME ProposalsHaveTargets, GatewayInv, NEW c \in GatewayCalls, calls[c].pc # "idle", Apply(c)
    PROVE  /\ head' \in [Targets -> Nat] /\ \A t \in Targets : head[t] <= head'[t]
           /\ appliedBy' = appliedBy \cup {c}
           /\ calls[c].fence.head < head'[calls[c].proposal.target]
           /\ calls[c].kind # "superseded" \/ c \notin flying
           /\ \A x \in appliedBy : calls[x].proposal # calls[c].proposal
<1>1. /\ calls[c].proposal \in Proposals /\ calls[c].proposal.target \in Targets
      /\ [proposal |-> calls[c].proposal, fence |-> calls[c].fence] \in approvals
      /\ calls[c].fence.head \in Nat /\ head \in [Targets -> Nat]
  BY DEF GatewayInv, TypeInv, CallsInv, ProposalsHaveTargets, Fences
<1>2. \A x \in appliedBy : calls[x].proposal # calls[c].proposal
  <2> SUFFICES ASSUME NEW x \in appliedBy, calls[x].proposal = calls[c].proposal
               PROVE  FALSE
    OBVIOUS
  <2>1. /\ calls[x].fence.head < head[calls[x].proposal.target]
        /\ [proposal |-> calls[x].proposal, fence |-> calls[x].fence] \in approvals
    BY DEF GatewayInv, TypeInv, CallsInv, AppliedInv
  <2>2. calls[x].fence = calls[c].fence
    BY <1>1, <2>1 DEF GatewayInv, ApprovalsInv
  <2> QED
    BY <1>1, <2>1, <2>2 DEF Apply
<1>3. calls[c].kind # "superseded" \/ c \notin flying
  BY <1>1 DEF GatewayInv, DecisionsInv, Apply
<1> QED
  BY <1>1, <1>2, <1>3 DEF Apply

\* _execute_once whose receipt correlates.
LEMMA AnsweredKeeps ==
    ASSUME ProposalsHaveTargets, GatewayInv, NEW c \in GatewayCalls, ExecuteAnswered(c)
    PROVE  GatewayInv'
<1> USE DEF GatewayInv
<1>1. /\ head' \in [Targets -> Nat] /\ \A t \in Targets : head[t] <= head'[t]
      /\ appliedBy' = appliedBy \cup {c}
      /\ calls[c].fence.head < head'[calls[c].proposal.target]
      /\ \A x \in appliedBy : calls[x].proposal # calls[c].proposal
  BY ApplyOnce DEF ExecuteAnswered
<1>2. /\ calls' = [calls EXCEPT ![c] = [@ EXCEPT !.pc = "done", !.kind = "execute", !.recovery = Undecided]]
      /\ UNCHANGED <<epoch, approvals, flying>>
      /\ calls[c].pc = "execute"
  BY Zenon DEF ExecuteAnswered, Decided, TypeInv
<1>3. /\ \A x \in GatewayCalls : calls'[x].proposal = calls[x].proposal /\ calls'[x].fence = calls[x].fence
      /\ \A x \in GatewayCalls \ {c} : calls'[x] = calls[x]
      /\ calls'[c].pc = "done" /\ calls'[c].kind = "execute" /\ calls'[c].recovery = Undecided
  BY <1>2 DEF TypeInv
<1>4. TypeInv'
  BY <1>1, <1>2, Zenon DEF TypeInv, DecisionKinds
<1>5. ApprovalsInv'
  BY <1>1, <1>2 DEF TypeInv, ApprovalsInv, ProposalsHaveTargets, Fences
<1>6. CallsInv'
  BY <1>1, <1>2, <1>3 DEF TypeInv, CallsInv
<1>7. AppliedInv'
  <2>1. \A x \in GatewayCalls : calls[x].pc # "idle" => calls[x].proposal.target \in Targets /\ calls[x].fence.head \in Nat
    BY Zenon DEF TypeInv, CallsInv, ProposalsHaveTargets, Fences
  <2> QED
    BY <1>1, <1>2, <1>3, <2>1 DEF TypeInv, CallsInv, AppliedInv, EffectAppliedOnce
<1>8. DecisionsInv'
  <2>1. \A x \in GatewayCalls : calls[x].pc # "idle" => calls[x].proposal.target \in Targets /\ calls[x].fence.head \in Nat
    BY Zenon DEF TypeInv, CallsInv, ProposalsHaveTargets, Fences
  <2>2. \A q : IsApplied(q) => IsApplied(q)'
    BY <1>1, <1>3 DEF IsApplied, TypeInv
  <2>3. IsApplied(calls[c].proposal)'
    BY <1>1, <1>3 DEF IsApplied
  <2>4. ReportedIsApplied'
    BY <1>2, <1>3, <2>2, <2>3, Zenon DEF DecisionsInv, ReportedIsApplied, DecisionIsConsistent
  <2> QED
    BY <1>1, <1>2, <1>3, <2>1, <2>4 DEF TypeInv, CallsInv, DecisionsInv
<1> QED
  BY <1>4, <1>5, <1>6, <1>7, <1>8

\* A request on its way: its call waits for the lookup or is over, the
\* provider has applied it or not, and heads only grow.
LEMMA RequestKeeps ==
    ASSUME ProposalsHaveTargets, GatewayInv, NEW c \in GatewayCalls, calls[c].pc # "idle",
           \/ calls[c].pc = "execute" /\ calls' = [calls EXCEPT ![c].pc = "recover"]
           \/ c \in flying /\ UNCHANGED calls,
           UNCHANGED <<epoch, approvals>>, flying' \subseteq flying \cup {c},
           Apply(c) \/ UNCHANGED <<head, appliedBy>>
    PROVE  GatewayInv'
<1> USE DEF GatewayInv
<1>1. /\ head' \in [Targets -> Nat] /\ \A t \in Targets : head[t] <= head'[t]
      /\ appliedBy' = appliedBy \/ appliedBy' = appliedBy \cup {c}
      /\ c \in appliedBy' \ appliedBy =>
            /\ calls[c].fence.head < head'[calls[c].proposal.target]
            /\ calls[c].kind # "superseded" \/ c \notin flying
            /\ \A x \in appliedBy : calls[x].proposal # calls[c].proposal
  <2>1. CASE Apply(c)
    BY <2>1, ApplyOnce
  <2>2. CASE UNCHANGED <<head, appliedBy>>
    BY <2>2 DEF TypeInv
  <2> QED
    BY <2>1, <2>2
<1>2. /\ \A x \in GatewayCalls : /\ calls'[x].proposal = calls[x].proposal /\ calls'[x].fence = calls[x].fence
                          /\ calls'[x].kind = calls[x].kind /\ calls'[x].recovery = calls[x].recovery
      /\ \A x \in GatewayCalls \ {c} : calls'[x] = calls[x]
      /\ calls'[c].pc \in {"recover", "done", "dead"}
      /\ calls[c].pc = "execute" \/ calls'[c].pc = calls[c].pc
      /\ calls'[c].pc = "done" => calls[c].pc = "done"
  BY DEF TypeInv, CallsInv
<1>3. \A x \in GatewayCalls : calls[x].pc # "idle" => calls[x].proposal.target \in Targets /\ calls[x].fence.head \in Nat
  BY Zenon DEF TypeInv, CallsInv, ProposalsHaveTargets, Fences
<1>4. calls[c].kind = "superseded" => c \in flying
  BY DEF DecisionsInv, Undecided
<1>5. TypeInv'
  BY <1>1 DEF TypeInv
<1>6. ApprovalsInv'
  BY <1>1 DEF TypeInv, ApprovalsInv, ProposalsHaveTargets, Fences
<1>7. CallsInv'
  BY <1>1, <1>2 DEF TypeInv, CallsInv
<1>8. AppliedInv'
  BY <1>1, <1>2, <1>3 DEF TypeInv, CallsInv, AppliedInv, EffectAppliedOnce
<1>9. DecisionsInv'
  <2>1. \A q : IsApplied(q) => IsApplied(q)'
    BY <1>1, <1>2 DEF IsApplied, TypeInv
  <2>2. ReportedIsApplied'
    BY <1>2, <2>1, Zenon DEF DecisionsInv, ReportedIsApplied, DecisionIsConsistent
  <2>3. \A x \in GatewayCalls : calls'[x].pc # "done" => calls'[x].kind = Undecided
    BY <1>2 DEF DecisionsInv
  <2>4. ASSUME NEW x \in GatewayCalls, calls'[x].kind = "superseded"
        PROVE  /\ x \notin appliedBy'
               /\ x \in flying' => calls'[x].fence.head < head'[calls'[x].proposal.target]
    <3>1. calls[x].kind = "superseded" /\ calls[x].pc = "done" /\ x \notin appliedBy
      BY <1>2, <2>4 DEF DecisionsInv, Undecided
    <3>2. x \in flying' => x \in flying
      BY <1>4, <3>1
    <3>3. x \in flying' => calls[x].fence.head < head[calls[x].proposal.target]
      BY <3>1, <3>2 DEF DecisionsInv
    <3> QED
      BY <1>1, <1>2, <1>3, <1>4, <3>1, <3>3 DEF TypeInv
  <2> QED
    BY <2>2, <2>3, <2>4 DEF DecisionsInv
<1> QED
  BY <1>5, <1>6, <1>7, <1>8, <1>9

\* Steps of the host and of other writers: approve, begin a call, move a
\* target, change the authority.
LEMMA HostKeeps ==
    ASSUME ProposalsHaveTargets, GatewayInv,
           \/ \E p \in Proposals : Approve(p)
           \/ \E c \in GatewayCalls, p \in Proposals, d \in approvals,
                 payload \in {q.payload : q \in Proposals} : Begin(c, p, payload, d)
           \/ \E t \in Targets : MoveTarget(t)
           \/ ChangeAuthority
           \/ UNCHANGED effectVars
    PROVE  GatewayInv'
<1> USE DEF GatewayInv
<1>1. ASSUME NEW p \in Proposals, Approve(p)
      PROVE  GatewayInv'
  <2>1. CurrentFence(p) \in Fences /\ CurrentFence(p).head = head[p.target] /\ head[p.target] \in Nat
    BY DEF TypeInv, CurrentFence, EffectFence, Fences, ProposalsHaveTargets
  <2> QED
    BY <1>1, <2>1 DEF Approve, TypeInv, ApprovalsInv, CallsInv, AppliedInv, DecisionsInv, EffectAppliedOnce,
                      ReportedIsApplied, IsApplied
<1>2. ASSUME NEW c \in GatewayCalls, NEW p \in Proposals, NEW d \in approvals, NEW payload, Begin(c, p, payload, d)
      PROVE  GatewayInv'
  <2>1. /\ calls[c].pc = "idle" /\ d.proposal = p /\ d.fence \in Fences
        /\ calls' = [calls EXCEPT ![c] = [@ EXCEPT !.pc = "lookup", !.proposal = p, !.fence = d.fence]]
        /\ UNCHANGED <<head, epoch, approvals, flying, appliedBy>>
        /\ [proposal |-> p, fence |-> d.fence] = d
    BY <1>2, Zenon DEF Begin, MatchesApproval, TypeInv
  <2>2. c \notin appliedBy /\ c \notin flying
    BY <2>1 DEF CallsInv
  <2>3. /\ \A x \in GatewayCalls \ {c} : calls'[x] = calls[x]
        /\ calls'[c].pc = "lookup" /\ calls'[c].proposal = p /\ calls'[c].fence = d.fence
        /\ calls'[c].kind = calls[c].kind
    BY <2>1 DEF TypeInv
  <2>4. TypeInv'
    BY <2>1, Zenon DEF TypeInv
  <2>5. ApprovalsInv' /\ CallsInv' /\ AppliedInv'
    BY <2>1, <2>2, <2>3 DEF TypeInv, ApprovalsInv, CallsInv, AppliedInv, EffectAppliedOnce
  <2>6. \A q : IsApplied(q) => IsApplied(q)'
    BY <2>1, <2>2, <2>3 DEF IsApplied, TypeInv
  <2>7. DecisionsInv'
    BY <2>1, <2>2, <2>3, <2>6, Zenon DEF TypeInv, DecisionsInv, ReportedIsApplied, DecisionIsConsistent, Undecided
  <2> QED
    BY <2>4, <2>5, <2>7
<1>3. ASSUME NEW t \in Targets, MoveTarget(t)
      PROVE  GatewayInv'
  <2>1. /\ head' \in [Targets -> Nat] /\ \A u \in Targets : head[u] <= head'[u] /\ head[u] \in Nat
        /\ UNCHANGED <<epoch, approvals, calls, flying, appliedBy>>
    BY <1>3 DEF MoveTarget, TypeInv
  <2>2. \A x \in GatewayCalls : calls[x].pc # "idle" => calls[x].proposal.target \in Targets /\ calls[x].fence.head \in Nat
    BY Zenon DEF TypeInv, CallsInv, ProposalsHaveTargets, Fences
  <2>3. TypeInv' /\ CallsInv'
    BY <2>1 DEF TypeInv, CallsInv
  <2>4. ApprovalsInv'
    BY <2>1 DEF TypeInv, ApprovalsInv, ProposalsHaveTargets, Fences
  <2>5. AppliedInv'
    BY <2>1, <2>2 DEF TypeInv, CallsInv, AppliedInv, EffectAppliedOnce
  <2>6. DecisionsInv'
    BY <2>1, <2>2 DEF TypeInv, CallsInv, DecisionsInv, ReportedIsApplied, IsApplied
  <2> QED
    BY <2>3, <2>4, <2>5, <2>6
<1>4. CASE ChangeAuthority \/ UNCHANGED effectVars
  BY <1>4 DEF ChangeAuthority, effectVars, TypeInv, ApprovalsInv, CallsInv, AppliedInv, DecisionsInv, EffectAppliedOnce,
              ReportedIsApplied, IsApplied
<1> QED
  BY <1>1, <1>2, <1>3, <1>4

\* For any proposals, calls, writers and changes of authority, a proposal is
\* applied at most once and as it was approved, and the decision execute
\* returns is true of the provider (gateway.py, EffectGateway.execute).
THEOREM GatewayHolds ==
    ASSUME ProposalsHaveTargets
    PROVE  EffectSpec => []EffectsStand
<1>1. EffectInit => GatewayInv
  BY DEF EffectInit, NewCall, NoFence, EffectFence, Fences, Undecided, GatewayInv, TypeInv, ApprovalsInv, CallsInv,
         AppliedInv, DecisionsInv, EffectAppliedOnce, ReportedIsApplied
<1>2. GatewayInv /\ [EffectNext]_effectVars => GatewayInv'
  <2> SUFFICES ASSUME GatewayInv, [EffectNext]_effectVars
               PROVE  GatewayInv'
    OBVIOUS
  <2>1. ASSUME NEW c \in GatewayCalls, Lookup(c)
        PROVE  GatewayInv'
    <3>1. CASE calls' = [calls EXCEPT ![c].pc = "fence"]
      BY <2>1, <3>1, ProgressKeeps, Zenon DEF Lookup
    <3>2. ASSUME NEW result \in LookupResults(calls[c].proposal), Resolved(c, result)
          PROVE  GatewayInv'
      BY <2>1, <3>2, ResolvedKeeps DEF Lookup
    <3> QED
      BY <2>1, <3>1, <3>2 DEF Lookup
  <2>2. ASSUME NEW c \in GatewayCalls, CheckFence(c)
        PROVE  GatewayInv'
    <3>1. /\ calls[c].pc = "fence" /\ c \notin appliedBy /\ c \notin flying
          /\ UNCHANGED <<head, epoch, approvals, flying, appliedBy>>
      BY <2>2 DEF CheckFence, GatewayInv, CallsInv
    <3>2. CASE Decided(c, "indeterminate", "safe-to-retry")
      BY <3>1, <3>2, DecisionKeeps DEF DecisionKinds, LookupDispositions, DecisionIsConsistent
    <3>3. CASE Decided(c, "superseded", "superseded")
      BY <3>1, <3>3, DecisionKeeps DEF DecisionKinds, LookupDispositions, DecisionIsConsistent
    <3>4. CASE calls' = [calls EXCEPT ![c].pc = "execute"]
      BY <3>1, <3>4, ProgressKeeps, Zenon
    <3> QED
      BY <2>2, <3>2, <3>3, <3>4 DEF CheckFence
  <2>3. ASSUME NEW c \in GatewayCalls, ExecuteUncertain(c)
        PROVE  GatewayInv'
    BY <2>3, RequestKeeps, Zenon DEF ExecuteUncertain
  <2>4. ASSUME NEW c \in GatewayCalls, Recover(c)
        PROVE  GatewayInv'
    BY <2>4, ResolvedKeeps DEF Recover
  <2>5. ASSUME NEW c \in GatewayCalls, CallerDies(c)
        PROVE  GatewayInv'
    BY <2>5, ProgressKeeps, Zenon DEF CallerDies
  <2>6. ASSUME NEW c \in GatewayCalls, Arrive(c)
        PROVE  GatewayInv'
    BY <2>6, RequestKeeps DEF Arrive, GatewayInv, CallsInv
  <2> QED
    BY <2>1, <2>2, <2>3, <2>4, <2>5, <2>6, AnsweredKeeps, HostKeeps DEF EffectNext
<1>3. GatewayInv => EffectsStand
  BY DEF EffectsStand, GatewayInv, TypeInv, CallsInv, AppliedInv, DecisionsInv, AppliedAsApproved, OwnEffectNeverSuperseded
<1> QED
  BY <1>1, <1>2, <1>3, PTL DEF EffectSpec
====
