---------------------------- MODULE HandsGateway ----------------------------
(***************************************************************************)
(* One Hands gateway (petrus/agenticus/hands): concurrent submissions of   *)
(* tool requests to one Episode Attachment, from claim to exact result.    *)
(*                                                                         *)
(* Every submission follows the common path: claim the call id in the      *)
(* ledger, precheck the fence and the grant, consume the grant, enter the  *)
(* adapter (a write only stages), postcheck under the barrier shared with  *)
(* the attachment, commit or discard, publish.  A step boundary is put     *)
(* wherever the code releases a lock.  Callers are threads, one submission *)
(* each.  The attachment's side of the barrier is module EpisodeAttachment.*)
(***************************************************************************)
EXTENDS Integers, FiniteSets, Sequences

CONSTANTS
    None,        \* no request, no grant, no result
    Callers,     \* threads that submit
    Requests,    \* request data: [form, call, bound, method, arg, grant]
    Grants,      \* the grants the host opens, in order: [methods, args, max]
    Seams,       \* host seams that change: "deadline", "connection", "head"
    MaxCalls,    \* HandsGateway max_calls: the size of the call ledger
    Interrupts   \* BaseExceptions that can hit a thread: "worker", "waiter"

VARIABLES
    caller,      \* [Callers -> submission in progress]
    ledger,      \* HandsGateway._calls: claimed ids, with the published result
    inFlight,    \* HandsGateway._in_flight
    grantEpoch,  \* GrantLedger._grant_epoch
    granted,     \* GrantLedger._current is not None
    consumed,    \* GrantLedger._consumed
    entries,     \* adapter entries made under each grant epoch
    stages,      \* stage files of the adapter, by call id
    target,      \* committed writes, in order of commit
    barrier,     \* holder of the attachment barrier across steps, or None
    att,         \* the Episode Attachment, see module EpisodeAttachment
    late,        \* the deadline has passed
    admitted,    \* the connection fence still admits results
    headCurrent  \* the host's target head is current

gatewayVars == <<caller, ledger, inFlight, consumed, entries, stages, target, barrier>>
ledgerVars == <<grantEpoch, granted>>
seamVars == <<late, admitted, headCurrent>>

-----------------------------------------------------------------------------

NewCaller == [pc |-> "idle", req |-> None, result |-> None]

InitGateway ==
    /\ caller = [c \in Callers |-> NewCaller]
    /\ ledger = <<>>
    /\ inFlight = 0
    /\ grantEpoch = 0 /\ granted = FALSE /\ consumed = 0
    /\ entries = [g \in 1 .. Len(Grants) |-> 0]
    /\ stages = {} /\ target = <<>>
    /\ barrier = None
    /\ late = FALSE /\ admitted = TRUE /\ headCurrent = TRUE

Claimed(id) == id \in DOMAIN ledger
Goto(c, pc) == caller' = [caller EXCEPT ![c].pc = pc]

\* _finalize: the exact result is built; _publish makes it the ledger's answer.
Finalize(c, result) == caller' = [caller EXCEPT ![c].pc = "publish", ![c].result = result]
Answer(c, result) == caller' = [caller EXCEPT ![c].pc = "done", ![c].result = result]

BarrierFree == barrier = None

\* EpisodeAttachment._fence_snapshot: a settled or uncertain attachment reads closed.
FenceOpen == att.open /\ ~att.uncertain

-----------------------------------------------------------------------------
(* Grants: opened and retired by the host, consumed by admitted calls.     *)

OpenGrant ==
    /\ grantEpoch < Len(Grants)
    /\ grantEpoch' = grantEpoch + 1 /\ granted' = TRUE /\ consumed' = 0
    /\ UNCHANGED <<caller, ledger, inFlight, entries, stages, target, barrier, att, seamVars>>

\* The current grant is the one the request names.
GrantCurrent(r) == granted /\ grantEpoch = r.grant

\* The category of the first check that fails, in the order of the code.
FirstError(checks) ==
    LET failed == {i \in DOMAIN checks : checks[i][1]}
    IN IF failed = {} THEN None
       ELSE checks[CHOOSE i \in failed : \A j \in failed : i <= j][2]

\* _precheck from the grant on, with _precheck_policy over the grant's scope.
PolicyError(r) ==
    LET permitted == r.method \in Grants[r.grant].methods
        scoped == r.arg \in Grants[r.grant].args
    IN FirstError(<< <<~GrantCurrent(r), "stale-epoch">>,
                     <<late, "deadline">>,
                     <<r.method = "write" /\ ~permitted, "write">>,
                     <<r.method = "write" /\ ~scoped, "path">>,
                     <<~permitted, "capability">>,
                     <<r.method = "shell" /\ ~scoped, "argv">> >>)

-----------------------------------------------------------------------------
(* One submission                                                          *)

\* parse_tool_request: a malformed envelope, an unsupported method, or a field
\* beyond its bound, whose category is that of the method's parameters.
ParseError(r) ==
    FirstError(<< <<r.form = "envelope", "schema">>,
                  <<r.form = "method", "unknown">>,
                  <<r.form = "params" /\ r.method = "shell", "argv">>,
                  <<r.form = "params" /\ r.method = "write", "write">>,
                  <<r.form = "params", "path">> >>)

\* submit: a request that does not parse is answered without touching the ledger.
Submit(c, r) ==
    /\ att.gateway
    /\ caller[c].pc = "idle"
    /\ LET error == ParseError(r)
       IN caller' = [caller EXCEPT ![c] =
                       [pc |-> IF error = None THEN "claim" ELSE "done", req |-> r, result |-> error]]
    /\ UNCHANGED <<ledger, inFlight, consumed, entries, stages, target, barrier,
                   ledgerVars, att, seamVars>>

\* _claim: the first claimant of an id executes; an equal request waits for the
\* published result; a different request under the id is a conflict.  The action
\* is not enabled while the original is unpublished: the thread waits.
ClaimNew(c) ==
    LET r == caller[c].req IN
    /\ caller[c].pc = "claim" /\ ~Claimed(r.call)
    /\ IF Cardinality(DOMAIN ledger) >= MaxCalls
       THEN Answer(c, "budget") /\ UNCHANGED <<ledger, inFlight>>
       ELSE /\ ledger' = [id \in DOMAIN ledger \cup {r.call} |->
                             IF id = r.call THEN [req |-> r, result |-> None] ELSE ledger[id]]
            /\ inFlight' = inFlight + 1
            /\ Goto(c, "fence")
    /\ UNCHANGED <<consumed, entries, stages, target, barrier, ledgerVars, att, seamVars>>

ClaimKnown(c) ==
    LET r == caller[c].req IN
    /\ caller[c].pc = "claim" /\ Claimed(r.call)
    /\ \/ ledger[r.call].req # r /\ Answer(c, "conflict")
       \/ /\ ledger[r.call].req = r /\ ledger[r.call].result # None
          /\ Answer(c, ledger[r.call].result)
    /\ UNCHANGED <<ledger, inFlight, consumed, entries, stages, target, barrier,
                   ledgerVars, att, seamVars>>

\* _precheck, first half: coordinates, then one snapshot of the fence.
CheckFence(c) ==
    LET r == caller[c].req IN
    /\ caller[c].pc = "fence" /\ BarrierFree
    /\ LET error == FirstError(<< <<~r.bound, "stale-epoch">>,
                                 <<~FenceOpen, "post-fence">>,
                                 <<att.aborted, "aborted">> >>)
       IN IF error # None THEN Finalize(c, error) ELSE Goto(c, "policy")
    /\ UNCHANGED <<ledger, inFlight, consumed, entries, stages, target, barrier,
                   ledgerVars, att, seamVars>>

\* _precheck, second half: the current grant, the deadline, the policy.
CheckPolicy(c) ==
    /\ caller[c].pc = "policy"
    /\ LET error == PolicyError(caller[c].req)
       IN IF error # None THEN Finalize(c, error) ELSE Goto(c, "consume")
    /\ UNCHANGED <<ledger, inFlight, consumed, entries, stages, target, barrier,
                   ledgerVars, att, seamVars>>

\* GrantLedger.consume, then _execute counts the adapter entry.
Enter(c, r) ==
    /\ consumed' = consumed + 1
    /\ entries' = [entries EXCEPT ![r.grant] = @ + 1]
    /\ Goto(c, IF r.method = "write" THEN "stage" ELSE "perform")

Consume(c) ==
    LET r == caller[c].req IN
    /\ caller[c].pc = "consume"
    /\ CASE ~GrantCurrent(r) -> Finalize(c, "stale-epoch") /\ UNCHANGED <<consumed, entries>>
         [] GrantCurrent(r) /\ consumed >= Grants[grantEpoch].max ->
                Finalize(c, "budget") /\ UNCHANGED <<consumed, entries>>
         [] OTHER -> Enter(c, r)
    /\ UNCHANGED <<ledger, inFlight, stages, target, barrier, ledgerVars, att, seamVars>>

\* _perform: read, search, shell or the fixed test; the adapter may fail.
Perform(c) ==
    /\ caller[c].pc = "perform"
    /\ \/ Finalize(c, "provider")
       \/ Goto(c, "admit")
    /\ UNCHANGED <<ledger, inFlight, consumed, entries, stages, target, barrier,
                   ledgerVars, att, seamVars>>

\* stage_write: a failed stage may still have left its file on disk.
Stage(c) ==
    LET id == caller[c].req.call IN
    /\ caller[c].pc = "stage"
    /\ \/ stages' = stages \cup {id} /\ Goto(c, "post")
       \/ stages' \in {stages, stages \cup {id}} /\ Finalize(c, "provider")
    /\ UNCHANGED <<ledger, inFlight, consumed, entries, target, barrier, ledgerVars, att, seamVars>>


\* _postcheck: every fence again, in the order of the code.
PostcheckError(r) ==
    FirstError(<< <<~FenceOpen, "post-fence">>,
                  <<att.aborted, "aborted">>,
                  <<~GrantCurrent(r), "stale-epoch">>,
                  <<late, "deadline">>,
                  <<~admitted, "authority">>,
                  <<r.method = "write" /\ ~headCurrent, "post-fence">> >>)

Admit(c) ==
    /\ caller[c].pc = "admit" /\ BarrierFree
    /\ LET error == PostcheckError(caller[c].req)
       IN Finalize(c, IF error # None THEN error ELSE "ok")
    /\ UNCHANGED <<ledger, inFlight, consumed, entries, stages, target, barrier,
                   ledgerVars, att, seamVars>>

\* _execute_write takes the barrier for the postcheck and keeps it for the commit.
Postcheck(c) ==
    LET r == caller[c].req
        error == PostcheckError(r)
    IN
    /\ caller[c].pc = "post" /\ BarrierFree
    /\ \/ /\ error = None
          /\ barrier' = c /\ Goto(c, "commit") /\ UNCHANGED stages
       \/ /\ error # None
          /\ UNCHANGED barrier
          /\ \/ stages' = stages \ {r.call} /\ Finalize(c, error)
             \/ UNCHANGED stages /\ Finalize(c, "provider")
    /\ UNCHANGED <<ledger, inFlight, consumed, entries, target, ledgerVars, att, seamVars>>

\* commit_write moves the stage over the target.  When the command's outcome is
\* lost the move may have happened; the stage is then discarded, if that works.
Commit(c) ==
    LET r == caller[c].req IN
    /\ caller[c].pc = "commit"
    /\ barrier' = None
    /\ \/ /\ target' = Append(target, r) /\ stages' = stages \ {r.call}
          /\ Finalize(c, "ok")
       \/ /\ target' \in {target, Append(target, r)}
          /\ stages' \in {stages, stages \ {r.call}}
          /\ Finalize(c, "provider")
    /\ UNCHANGED <<ledger, inFlight, consumed, entries, ledgerVars, att, seamVars>>

Publish(c) ==
    LET r == caller[c].req IN
    /\ caller[c].pc = "publish"
    /\ ledger' = [id \in DOMAIN ledger \cup {r.call} |->
                     IF id = r.call THEN [req |-> r, result |-> caller[c].result] ELSE ledger[id]]
    /\ inFlight' = inFlight - 1
    /\ Goto(c, "done")
    /\ UNCHANGED <<consumed, entries, stages, target, barrier, ledgerVars, att, seamVars>>

\* _abandon: a BaseException unwinds submit.  The entry of an unpublished equal
\* request is deleted whoever claimed it, and the thread's barrier is released.
Abandon(c) ==
    LET r == caller[c].req
        kind == IF caller[c].pc = "claim" THEN "waiter" ELSE "worker"
    IN
    /\ caller[c].pc \notin {"idle", "done"}
    /\ kind \in Interrupts
    /\ IF Claimed(r.call) /\ ledger[r.call].req = r /\ ledger[r.call].result = None
       THEN /\ ledger' = [id \in DOMAIN ledger \ {r.call} |-> ledger[id]]
            /\ inFlight' = inFlight - 1
       ELSE UNCHANGED <<ledger, inFlight>>
    /\ barrier' = IF barrier = c THEN None ELSE barrier
    /\ Answer(c, "interrupted")
    /\ UNCHANGED <<consumed, entries, stages, target, ledgerVars, att, seamVars>>

Step(c) ==
    \/ ClaimNew(c) \/ ClaimKnown(c)
    \/ CheckFence(c) \/ CheckPolicy(c) \/ Consume(c)
    \/ Perform(c) \/ Admit(c)
    \/ Stage(c) \/ Postcheck(c) \/ Commit(c)
    \/ Publish(c)

\* The host's seams: the deadline passes, the connection fence is revoked, the
\* target head moves.
SeamChange ==
    /\ \/ "deadline" \in Seams /\ ~late /\ late' = TRUE /\ UNCHANGED <<admitted, headCurrent>>
       \/ "connection" \in Seams /\ admitted /\ admitted' = FALSE /\ UNCHANGED <<late, headCurrent>>
       \/ "head" \in Seams /\ headCurrent /\ headCurrent' = FALSE /\ UNCHANGED <<late, admitted>>
    /\ UNCHANGED <<gatewayVars, ledgerVars, att>>

\* Between adapter entry and the end of the adapter's work.
InAdapter(c) == caller[c].pc \in {"perform", "admit", "stage", "post", "commit"}

=============================================================================
