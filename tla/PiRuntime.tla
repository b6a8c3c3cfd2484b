------------------------------ MODULE PiRuntime ------------------------------
(***************************************************************************)
(* One Pi runtime operation (petrus/agenticus/runtime/pi.py: _Operation,   *)
(* PiRuntimeAdapter._execute, _SubprocessClient).                          *)
(*                                                                         *)
(* A background thread borrows a credential from connection custody,       *)
(* makes a private root, drives a helper process frame by frame and        *)
(* publishes the turn; the host's threads cancel and close the operation   *)
(* at any point of it.  Every call to custody, to the helper, to the file  *)
(* system and to the stores is a step of its own that may fail, with       *)
(* cancellation, the deadline, the grant and the lease moving in between.  *)
(***************************************************************************)
EXTENDS Integers, Sequences, Functions

CONSTANTS
    Subscription, \* BOOLEAN: a refreshable subscription or a plain API key
    Closers,      \* host threads that call close
    CallIds,      \* tool call identities the helper may send
    MaxTools,     \* max_tool_calls
    Faults        \* the failures that may happen

VARIABLES
    pc,           \* of the operation's thread
    cancelled, publishing, result, disposition, cleanup, \* the _Operation
    closer,       \* [Closers -> step of close, and what it returned]
    res,          \* client process, private root and custody lease
    loc,          \* locals of _execute
    helper,       \* state of the frame loop
    submitted,    \* tool calls handed to the gateway, in order
    published,    \* what left the operation
    env           \* grant current, lease ready, deadline passed

op == <<cancelled, publishing, result, disposition, cleanup>>
vars == <<pc, op, closer, res, loc, helper, submitted, published, env>>

Init ==
    /\ pc = "begin"
    /\ cancelled = FALSE /\ publishing = FALSE
    /\ result = "none" /\ disposition = "unverified" /\ cleanup = "none"
    /\ closer = [c \in Closers |-> [at |-> "out", saw |-> "none"]]
    /\ res = [client |-> "none", root |-> "none", custody |-> "none"]
    /\ loc = [attempted |-> FALSE, settled |-> FALSE, clean |-> TRUE, outcome |-> "failed",
              candidate |-> FALSE, binding |-> FALSE]
    /\ helper = [ready |-> FALSE, abort |-> FALSE, terminal |-> "none"]
    /\ submitted = << >> /\ published = {}
    /\ env = [grant |-> TRUE, lease |-> TRUE, expired |-> FALSE]

May(fault) == fault \in Faults
At(from) == pc = from
Goto(to) == pc' = to
Raise == pc' = "except"

--------------------------------------------------------------------------
(* PiRuntimeAdapter._execute: borrowing                                    *)

Begin ==
    /\ At("begin")
    /\ IF cancelled \/ env.expired
       THEN Raise /\ UNCHANGED loc
       ELSE Goto("materialize") /\ loc' = [loc EXCEPT !.attempted = TRUE]
    /\ UNCHANGED <<op, closer, res, helper, submitted, published, env>>

\* custody.materialize and the checks of what it returned.  A refusal leaves
\* nothing; "lost" is a failure after custody recorded the lease.
Materialize ==
    /\ At("materialize")
    /\ \/ Goto("read") /\ res' = [res EXCEPT !.custody = "held"]
       \/ May("materialize") /\ Raise /\ UNCHANGED res
       \/ May("mismatch") /\ Raise /\ res' = [res EXCEPT !.custody = "held"]
       \/ May("lost") /\ Raise /\ res' = [res EXCEPT !.custody = "lost"]
    /\ UNCHANGED <<op, closer, loc, helper, submitted, published, env>>

ReadCredential ==
    /\ At("read")
    /\ Goto("root") \/ (May("credential") /\ Raise)
    /\ UNCHANGED <<op, closer, res, loc, helper, submitted, published, env>>

\* mkdtemp and the ownership checks; the identity is taken only when they pass.
MakeRoot ==
    /\ At("root")
    /\ \/ Goto("create") /\ res' = [res EXCEPT !.root = "present"]
       \/ May("root") /\ Raise /\ UNCHANGED res
       \/ May("root") /\ Raise /\ res' = [res EXCEPT !.root = "unidentified"]
    /\ UNCHANGED <<op, closer, loc, helper, submitted, published, env>>

\* _SubprocessClient.__init__ checks the grant before it launches the helper.
CreateClient ==
    /\ At("create")
    /\ \/ /\ env.grant
          /\ Goto(IF Subscription THEN "activate" ELSE "run")
          /\ res' = [res EXCEPT !.client = "open"]
       \/ (~env.grant \/ May("launch")) /\ Raise /\ UNCHANGED res
    /\ UNCHANGED <<op, closer, loc, helper, submitted, published, env>>

Activate ==
    /\ At("activate")
    /\ Goto("run") \/ (May("activate") /\ Raise)
    /\ UNCHANGED <<op, closer, res, loc, helper, submitted, published, env>>

--------------------------------------------------------------------------
(* _SubprocessClient.run: the frame loop                                   *)

Looping == At("run") /\ helper.terminal = "none"

\* "ready" comes once and first.
FrameReady ==
    /\ Looping
    /\ IF helper.ready
       THEN Raise /\ UNCHANGED helper
       ELSE helper' = [helper EXCEPT !.ready = TRUE] /\ UNCHANGED pc
    /\ UNCHANGED <<op, closer, res, loc, submitted, published, env>>

\* Mutant: a tool call is not compared with the ones before it.
FrameToolCallAgain(id) ==
    /\ Looping
    /\ IF ~helper.ready \/ Len(submitted) >= MaxTools
       THEN Raise /\ UNCHANGED submitted
       ELSE submitted' = Append(submitted, id) /\ UNCHANGED pc
    /\ UNCHANGED <<op, closer, res, loc, helper, published, env>>

\* A tool call crosses the Hands gateway at most once per identity.
FrameToolCall(id) ==
    /\ Looping
    /\ IF ~helper.ready \/ id \in Range(submitted) \/ Len(submitted) >= MaxTools
       THEN Raise /\ UNCHANGED submitted
       ELSE submitted' = Append(submitted, id) /\ UNCHANGED pc
    /\ UNCHANGED <<op, closer, res, loc, helper, published, env>>

\* complete and failed are the two terminal frames; a failed turn of a
\* subscription still brings the refreshed credential.
FrameTerminal(kind) ==
    /\ Looping
    /\ IF kind = "complete" /\ ~helper.ready
       THEN Raise /\ UNCHANGED helper
       ELSE helper' = [helper EXCEPT !.terminal = kind] /\ UNCHANGED pc
    /\ UNCHANGED <<op, closer, res, loc, submitted, published, env>>

\* Any other frame, an overflow, or the end of the stream.
FrameMalformed ==
    /\ Looping
    /\ Raise
    /\ UNCHANGED <<op, closer, res, loc, helper, submitted, published, env>>

\* Cancellation or the deadline is seen: ask the helper to abort, once.
Abort ==
    /\ Looping
    /\ cancelled \/ env.expired
    /\ ~helper.abort
    /\ \/ helper' = [helper EXCEPT !.abort = TRUE] /\ UNCHANGED pc
       \/ May("pipe") /\ Raise /\ UNCHANGED helper
    /\ UNCHANGED <<op, closer, res, loc, submitted, published, env>>

GraceOver ==
    /\ Looping
    /\ helper.abort
    /\ Raise
    /\ UNCHANGED <<op, closer, res, loc, helper, submitted, published, env>>

\* Only a completed turn, or a failed one of a subscription that brought its
\* credential, is a result.
Accepted == helper.terminal = "complete" \/ (Subscription /\ helper.terminal = "provider-failed")

\* After the terminal frame the session must be the prior one and the exit
\* status must agree with the frame.
RunReturns ==
    /\ At("run")
    /\ helper.terminal # "none"
    /\ \/ /\ Accepted
          /\ Goto(IF Subscription THEN "seal" ELSE "claim")
          /\ loc' = [loc EXCEPT !.candidate = helper.terminal = "complete"]
       \/ (~Accepted \/ May("exit")) /\ Raise /\ UNCHANGED loc
    /\ UNCHANGED <<op, closer, res, helper, submitted, published, env>>

--------------------------------------------------------------------------
(* Ending the resources                                                    *)

\* Mutant: a helper that could not be reaped counts as closed.
CloseClientAssumed ==
    \/ res.client # "open" /\ UNCHANGED <<res, loc>>
    \/ res.client = "open" /\ res' = [res EXCEPT !.client = "closed"] /\ UNCHANGED loc
    \/ /\ res.client = "open" /\ May("close")
       /\ res' = [res EXCEPT !.client = "running"]
       /\ UNCHANGED loc

\* _SubprocessClient.close: kill the group and reap it within the grace.  A
\* client or a root that was given up once is not tried again.
CloseClient ==
    \/ res.client # "open" /\ UNCHANGED <<res, loc>>
    \/ res.client = "open" /\ res' = [res EXCEPT !.client = "closed"] /\ UNCHANGED loc
    \/ /\ res.client = "open" /\ May("close")
       /\ res' = [res EXCEPT !.client = "running"]
       /\ loc' = [loc EXCEPT !.clean = FALSE]

\* _remove_root: only the directory whose identity was taken.
RemoveRoot ==
    \/ res.root \in {"none", "removed", "left"} /\ UNCHANGED <<res, loc>>
    \/ res.root = "present" /\ res' = [res EXCEPT !.root = "removed"] /\ UNCHANGED loc
    \/ /\ res.root = "unidentified" \/ (res.root = "present" /\ May("remove"))
       /\ res' = [res EXCEPT !.root = "left"]
       /\ loc' = [loc EXCEPT !.clean = FALSE]

\* A subscription gives up helper and root before it claims publication.
SealClient ==
    /\ At("seal")
    /\ CloseClient
    /\ Goto("seal-root")
    /\ UNCHANGED <<op, closer, helper, submitted, published, env>>

SealRoot ==
    /\ At("seal-root")
    /\ RemoveRoot
    /\ pc' = IF loc'.clean THEN "claim" ELSE "except"
    /\ UNCHANGED <<op, closer, helper, submitted, published, env>>

--------------------------------------------------------------------------
(* Publishing                                                              *)

\* _publication_error
PublicationError == cancelled \/ ~env.grant \/ env.expired

\* claim: check, look the lease up without the lock, check again, claim.
ClaimCheck ==
    /\ At("claim")
    /\ pc' = IF PublicationError THEN "except" ELSE "lookup"
    /\ UNCHANGED <<op, closer, res, loc, helper, submitted, published, env>>

Lookup ==
    /\ At("lookup")
    /\ loc' = [loc EXCEPT !.binding = env.lease]
    /\ Goto("claim-again")
    /\ UNCHANGED <<op, closer, res, helper, submitted, published, env>>

ClaimAgain ==
    /\ At("claim-again")
    /\ IF PublicationError \/ ~loc.binding
       THEN Raise /\ UNCHANGED publishing
       ELSE Goto("admit") /\ publishing' = TRUE
    /\ UNCHANGED <<cancelled, result, disposition, cleanup, closer, res, loc, helper, submitted, published, env>>

Publish(what) == published' = published \cup {what}

\* Mutant: the admission is not verified.
AdmitUnverified ==
    /\ At("admit")
    /\ Goto(IF Subscription THEN "checkpoint" ELSE "turn")
    /\ Publish("admitted") \/ (May("admit") /\ UNCHANGED published)
    /\ UNCHANGED <<op, closer, res, loc, helper, submitted, env>>

AdmitResult ==
    /\ At("admit")
    /\ \/ Goto(IF Subscription THEN "checkpoint" ELSE "turn") /\ Publish("admitted")
       \/ May("admit") /\ Raise /\ UNCHANGED published
    /\ UNCHANGED <<op, closer, res, loc, helper, submitted, env>>

\* custody.checkpoint publishes the refreshed credential and gives the lease
\* up; it may fail before it took effect, or answer what cannot be verified.
Checkpoint ==
    /\ At("checkpoint")
    /\ \/ /\ Goto(IF loc.candidate THEN "turn" ELSE "finally")
          /\ res' = [res EXCEPT !.custody = "checkpointed"]
          /\ loc' = [loc EXCEPT !.settled = TRUE]
          /\ Publish("credential")
       \/ May("checkpoint") /\ Raise /\ UNCHANGED <<res, loc, published>>
       \/ /\ May("checkpoint-unverified") /\ Raise
          /\ res' = [res EXCEPT !.custody = "checkpointed"]
          /\ Publish("credential")
          /\ UNCHANGED loc
    /\ UNCHANGED <<op, closer, helper, submitted, env>>

StoreTurn ==
    /\ At("turn")
    /\ \/ Goto("continuation") /\ Publish("turn")
       \/ May("store") /\ Raise /\ UNCHANGED published
    /\ UNCHANGED <<op, closer, res, loc, helper, submitted, env>>

StoreContinuation ==
    /\ At("continuation")
    /\ \/ Goto("finally") /\ Publish("continuation") /\ loc' = [loc EXCEPT !.outcome = "completed"]
       \/ May("store") /\ Raise /\ UNCHANGED <<published, loc>>
    /\ UNCHANGED <<op, closer, res, helper, submitted, env>>

--------------------------------------------------------------------------
(* The end of _execute, and _Operation._run                                *)

\* Every raise is answered by the operation's state at that moment.
Except ==
    /\ At("except")
    /\ loc' = [loc EXCEPT !.outcome = IF cancelled THEN "cancelled" ELSE "failed"]
    /\ Goto("finally")
    /\ UNCHANGED <<op, closer, res, helper, submitted, published, env>>

FinallyClient ==
    /\ At("finally")
    /\ CloseClient
    /\ Goto("finally-root")
    /\ UNCHANGED <<op, closer, helper, submitted, published, env>>

FinallyRoot ==
    /\ At("finally-root")
    /\ RemoveRoot
    /\ Goto("release")
    /\ UNCHANGED <<op, closer, helper, submitted, published, env>>

\* The materialization is released unless a checkpoint settled it.
Release ==
    /\ At("release")
    /\ \/ /\ res.custody \in {"none", "lost"} \/ loc.settled
          /\ UNCHANGED <<res, loc>>
       \/ /\ res.custody \in {"held", "checkpointed"} /\ ~loc.settled
          /\ res' = [res EXCEPT !.custody = "released"]
          /\ UNCHANGED loc
       \/ /\ res.custody \in {"held", "checkpointed"} /\ ~loc.settled /\ May("release")
          /\ loc' = [loc EXCEPT !.clean = FALSE]
          /\ UNCHANGED res
    /\ Goto("settle")
    /\ UNCHANGED <<op, closer, helper, submitted, published, env>>

\* An unclean end fails whatever was published; a requested cancellation
\* overrides every other outcome.
Settle ==
    /\ At("settle")
    /\ result' = IF cancelled THEN "cancelled" ELSE IF loc.clean THEN loc.outcome ELSE "failed"
    /\ disposition' = IF ~loc.clean THEN "unverified" ELSE IF loc.attempted THEN "clean" ELSE "not-created"
    /\ Goto("exit")
    /\ UNCHANGED <<cancelled, publishing, cleanup, closer, res, loc, helper, submitted, published, env>>

Exit ==
    /\ At("exit")
    /\ Goto("done")
    /\ UNCHANGED <<op, closer, res, loc, helper, submitted, published, env>>

--------------------------------------------------------------------------
(* The host's side of _Operation                                           *)

\* Mutant: cancel does not look at the settlement.
CancelLate ==
    /\ ~publishing /\ ~cancelled
    /\ cancelled' = TRUE
    /\ UNCHANGED <<pc, publishing, result, disposition, cleanup, closer, res, loc, helper, submitted, published, env>>

Cancel ==
    /\ result = "none" /\ ~publishing /\ ~cancelled
    /\ cancelled' = TRUE
    /\ UNCHANGED <<pc, publishing, result, disposition, cleanup, closer, res, loc, helper, submitted, published, env>>

CloseEnter(c) ==
    /\ closer[c].at = "out"
    /\ \/ /\ cleanup # "none"
          /\ closer' = [closer EXCEPT ![c] = [at |-> "returned", saw |-> cleanup]]
       \/ /\ cleanup = "none"
          /\ result # "none" \/ cancelled
          /\ closer' = [closer EXCEPT ![c].at = "join"]
    /\ UNCHANGED <<pc, op, res, loc, helper, submitted, published, env>>

\* The join ends with the thread, or with the grace.
CloseJoin(c) ==
    /\ closer[c].at = "join"
    /\ \/ pc = "done" /\ closer' = [closer EXCEPT ![c] = [at |-> "store", saw |-> disposition]]
       \/ pc # "done" /\ closer' = [closer EXCEPT ![c] = [at |-> "store", saw |-> "unverified"]]
    /\ UNCHANGED <<pc, op, res, loc, helper, submitted, published, env>>

\* Without the lock, and without looking whether another close was faster.
CloseStore(c) ==
    /\ closer[c].at = "store"
    /\ cleanup' = closer[c].saw
    /\ closer' = [closer EXCEPT ![c].at = "returned"]
    /\ UNCHANGED <<pc, cancelled, publishing, result, disposition, res, loc, helper, submitted, published, env>>

\* The world: the grant is replaced, the lease ends, the deadline passes.
Revoke ==
    /\ \/ env.grant /\ env' = [env EXCEPT !.grant = FALSE]
       \/ env.lease /\ env' = [env EXCEPT !.lease = FALSE]
    /\ UNCHANGED <<pc, op, closer, res, loc, helper, submitted, published>>

Expire ==
    /\ ~env.expired
    /\ env' = [env EXCEPT !.expired = TRUE]
    /\ UNCHANGED <<pc, op, closer, res, loc, helper, submitted, published>>

Borrowing == Begin \/ Materialize \/ ReadCredential \/ MakeRoot \/ CreateClient \/ Activate
Stopping == Abort \/ GraceOver \/ RunReturns
Publication ==
    SealClient \/ SealRoot \/ ClaimCheck \/ Lookup \/ ClaimAgain \/ AdmitResult \/ Checkpoint
        \/ StoreTurn \/ StoreContinuation
Ending == Except \/ FinallyClient \/ FinallyRoot \/ Release \/ Settle \/ Exit
ThreadStep == Borrowing \/ Stopping \/ Publication \/ Ending

\* What the helper process sends.
HelperFrame ==
    \/ FrameReady
    \/ \E id \in CallIds : FrameToolCall(id)
    \/ \E kind \in {"complete", "aborted", "provider-failed"} : FrameTerminal(kind)
    \/ FrameMalformed

Host == Cancel \/ \E c \in Closers : CloseEnter(c) \/ CloseJoin(c) \/ CloseStore(c)

Next == ThreadStep \/ HelperFrame \/ Host \/ Revoke \/ Expire

Spec == Init /\ [][Next]_vars

\* The thread runs and time passes; the helper and the host owe nothing.
FairSpec == Spec /\ WF_vars(ThreadStep) /\ WF_vars(Expire)

--------------------------------------------------------------------------
(* Properties                                                              *)

\* _Operation implements the contract of runtime/operation.py: one immutable
\* settlement, cancellation only before it, closing only after one of the
\* two, one cleanup evidence.
Contract == INSTANCE RuntimeOperation WITH settlement <- result, evidence <- cleanup
ImplementsContract == Contract!Spec

\* cancel and claim exclude each other: when cancel answered REQUESTED
\* nothing of the turn is published, before or after, although claim looks
\* the lease up without the lock between its two checks.
CancelledPublishesNothing == cancelled => published = {} /\ ~publishing

\* A settlement says "cancelled" exactly when cancel answered REQUESTED.
CancelledIsCancelled == result # "none" => (result = "cancelled" <=> cancelled)

\* A completed settlement names a turn that was admitted by custody and
\* stored with its continuation, with the refreshed credential of a
\* subscription checkpointed, and left no resource behind.
CompletedIsPublished ==
    result = "completed" =>
        /\ {"admitted", "turn", "continuation"} \subseteq published
        /\ Subscription => "credential" \in published
        /\ disposition = "clean"

\* The evidence "clean" is the truth about the helper process, the private
\* root and the custody lease, and "not-created" means there never were any.
Absent ==
    /\ res.client \in {"none", "closed"}
    /\ res.root \in {"none", "removed"}
    /\ res.custody \in {"none", "released", "checkpointed"}
CleanIsTrue ==
    /\ cleanup = "clean" => Absent
    /\ cleanup = "not-created" => res = [client |-> "none", root |-> "none", custody |-> "none"]

\* No tool call identity crosses the Hands gateway twice in one turn, and no
\* more calls than the bound, whatever the helper sends while it is aborted.
ToolCallsCrossOnce ==
    /\ IsInjective(submitted)
    /\ Len(submitted) <= MaxTools

\* runtime/operation.py: "Repeated close returns the same immutable cleanup
\* evidence."
SameEvidence ==
    \A c, d \in Closers :
        closer[c].at = "returned" /\ closer[d].at = "returned" => closer[c].saw = closer[d].saw

\* runtime/operation.py: "Cancellation cleanup that cannot prove absence
\* returns UNVERIFIED".
CancelledCleanIsAbsent == cancelled /\ cleanup = "clean" => Absent

\* An operation that has not settled.
Owed == result = "none"
=============================================================================
