---------------------------- MODULE ClaudeRuntime ----------------------------
(***************************************************************************)
(* One Claude runtime operation (petrus/agenticus/runtime/claude.py:       *)
(* _Operation, ClaudeRuntimeAdapter._execute and _drain, _SessionStore,    *)
(* _OfficialFactory).                                                      *)
(*                                                                         *)
(* The operation's thread runs an event loop in which the SDK client       *)
(* streams its response, mirrors the transcript into the session store     *)
(* and calls the tool hook and the tool handlers, all interleaved with     *)
(* the drain loop that watches cancellation and the deadline.  Host        *)
(* threads cancel and close at any time.                                   *)
(***************************************************************************)
EXTENDS Integers, Sequences, FiniteSets, Functions

CONSTANTS
    Batches,     \* what the client may mirror: sequences of [uuid, body]
    MaxAppends,  \* mirror calls
    MaxEntries,  \* max_messages
    Seed,        \* the transcript of the continuation, or << >>
    Calls,       \* tool call identities the hook may be asked about
    MaxHooks,
    Faults       \* the failures that may happen

VARIABLES
    pc,                                                  \* of the operation's thread
    cancelled, publishing, result, disposition, cleanup, \* the _Operation
    closer,      \* step of close, and what it returned
    res,         \* client, private root and custody lease
    loc,         \* locals of _execute
    store,       \* the _SessionStore
    mirrored,    \* entries whose append returned to the client
    stream,      \* the response: results and mirror errors so far, ended
    drain,       \* stop code seen, interrupt sent
    pending,     \* calls the hook allowed, oldest first (one tool, one input)
    allowed,     \* every call the hook allowed
    submitted,   \* calls handed to the Hands gateway
    transcript,  \* the continuation that was stored
    published, env

op == <<cancelled, publishing, result, disposition, cleanup>>
session == <<store, mirrored, stream, pending, allowed, submitted>>
vars == <<pc, op, closer, res, loc, session, drain, transcript, published, env>>

Init ==
    /\ pc = "begin"
    /\ cancelled = FALSE /\ publishing = FALSE
    /\ result = "none" /\ disposition = "unverified" /\ cleanup = "none"
    /\ closer = [at |-> "out", saw |-> "none"]
    /\ res = [client |-> "none", root |-> "none", custody |-> "none"]
    /\ loc = [attempted |-> FALSE, clean |-> TRUE, outcome |-> "failed", snapshot |-> << >>]
    /\ store = [entries |-> << >>, failed |-> FALSE, appends |-> 0]
    /\ mirrored = {}
    /\ stream = [results |-> 0, success |-> FALSE, ended |-> FALSE]
    /\ drain = [stop |-> FALSE, interrupted |-> FALSE]
    /\ pending = << >> /\ allowed = << >> /\ submitted = << >>
    /\ transcript = << >> /\ published = {}
    /\ env = [grant |-> TRUE, lease |-> TRUE, expired |-> FALSE]

May(fault) == fault \in Faults
At(from) == pc = from
Goto(to) == pc' = to
Raise == pc' = "except"
Quiet == UNCHANGED <<op, closer, env>>

--------------------------------------------------------------------------
(* _execute up to the query                                                *)

\* The continuation seeds the store; then nothing is borrowed if the host
\* cancelled or the time is over.
Begin ==
    /\ At("begin")
    /\ store' = [store EXCEPT !.entries = Seed]
    /\ IF cancelled \/ env.expired
       THEN Raise /\ UNCHANGED loc
       ELSE Goto("materialize") /\ loc' = [loc EXCEPT !.attempted = TRUE]
    /\ Quiet /\ UNCHANGED <<res, mirrored, stream, pending, allowed, submitted, drain, transcript, published>>

\* custody.materialize, the checks of its answer, and cancellation again.
Materialize ==
    /\ At("materialize")
    /\ \/ May("materialize") /\ Raise /\ UNCHANGED res
       \/ /\ res' = [res EXCEPT !.custody = "held"]
          /\ (~cancelled /\ Goto("root")) \/ ((cancelled \/ May("mismatch")) /\ Raise)
    /\ Quiet /\ UNCHANGED <<loc, session, drain, transcript, published>>

MakeRoot ==
    /\ At("root")
    /\ \/ Goto("create") /\ res' = [res EXCEPT !.root = "present"]
       \/ May("root") /\ Raise /\ res' \in {res, [res EXCEPT !.root = "present"]}
    /\ Quiet /\ UNCHANGED <<loc, session, drain, transcript, published>>

CreateClient ==
    /\ At("create")
    /\ \/ Goto("connect") /\ res' = [res EXCEPT !.client = "open"]
       \/ May("launch") /\ Raise /\ UNCHANGED res
    /\ Quiet /\ UNCHANGED <<loc, session, drain, transcript, published>>

\* connect, cancellation, query: each bounded by the remaining time.
Connect ==
    /\ At("connect")
    /\ \/ ~cancelled /\ ~env.expired /\ Goto("drain")
       \/ (cancelled \/ env.expired \/ May("connect")) /\ Raise
    /\ Quiet /\ UNCHANGED <<res, loc, session, drain, transcript, published>>

--------------------------------------------------------------------------
(* The client: the session store, the tool bridge, the response            *)

Connected == res.client = "open" /\ pc \in {"drain", "disconnect"}

\* The entries of a batch that the store does not have yet.
News(batch) == SelectSeq(batch, LAMBDA e : e \notin Range(store.entries))

\* One identity never has two bodies.
Clashes(batch) ==
    LET all == Range(store.entries) \cup Range(batch)
    IN  \E e, f \in all : e.uuid = f.uuid /\ e.body # f.body

\* _SessionStore.append: the whole batch, or a failure that is remembered.
Mirror(batch) ==
    /\ Connected /\ store.appends < MaxAppends
    /\ IF Clashes(batch) \/ Len(store.entries) + Len(News(batch)) > MaxEntries
       THEN store' = [store EXCEPT !.failed = TRUE, !.appends = @ + 1] /\ UNCHANGED mirrored
       ELSE /\ store' = [store EXCEPT !.entries = @ \o News(batch), !.appends = @ + 1]
            /\ mirrored' = mirrored \cup Range(batch)
    /\ Quiet /\ UNCHANGED <<pc, res, loc, stream, pending, allowed, submitted, drain, transcript, published>>

\* The PreToolUse hook queues the identity under the tool and its input.
Hook(c) ==
    /\ Connected /\ Len(allowed) < MaxHooks
    /\ pending' = Append(pending, c)
    /\ allowed' = Append(allowed, c)
    /\ Quiet /\ UNCHANGED <<pc, res, loc, store, mirrored, stream, submitted, drain, transcript, published>>

\* The tool handler takes the oldest one and crosses the Hands gateway.
Handler ==
    /\ Connected /\ pending # << >>
    /\ submitted' = Append(submitted, Head(pending))
    /\ pending' = Tail(pending)
    /\ Quiet /\ UNCHANGED <<pc, res, loc, store, mirrored, stream, allowed, drain, transcript, published>>

\* receive_response: results, mirror errors, and the end of the stream.
Receive ==
    /\ At("drain") /\ ~stream.ended
    /\ \/ /\ stream.results < 2
          /\ \E ok \in BOOLEAN : stream' = [stream EXCEPT !.results = @ + 1, !.success = ok]
       \/ stream' = [stream EXCEPT !.ended = TRUE]
    /\ Quiet /\ UNCHANGED <<pc, res, loc, store, mirrored, pending, allowed, submitted, drain, transcript, published>>

\* A malformed or oversized message, or a dead client.
ReceiveFails ==
    /\ At("drain") /\ ~stream.ended /\ May("stream")
    /\ Raise
    /\ Quiet /\ UNCHANGED <<res, loc, session, drain, transcript, published>>

--------------------------------------------------------------------------
(* _drain                                                                  *)

\* The loop looks at cancellation and the deadline while the stream lasts.
DrainStop ==
    /\ At("drain") /\ ~stream.ended /\ ~drain.stop
    /\ cancelled \/ env.expired
    /\ drain' = [drain EXCEPT !.stop = TRUE]
    /\ Quiet /\ UNCHANGED <<pc, res, loc, session, transcript, published>>

DrainInterrupt ==
    /\ At("drain") /\ drain.stop /\ ~drain.interrupted
    /\ \/ drain' = [drain EXCEPT !.interrupted = TRUE] /\ UNCHANGED pc
       \/ May("interrupt") /\ Raise /\ UNCHANGED drain
    /\ Quiet /\ UNCHANGED <<res, loc, session, transcript, published>>

DrainGraceOver ==
    /\ At("drain") /\ drain.interrupted /\ ~stream.ended
    /\ Raise
    /\ Quiet /\ UNCHANGED <<res, loc, session, drain, transcript, published>>

\* A response that ends after a stop is no result.
DrainReturns ==
    /\ At("drain") /\ stream.ended
    /\ pc' = IF drain.stop THEN "except" ELSE "disconnect"
    /\ Quiet /\ UNCHANGED <<res, loc, session, drain, transcript, published>>

--------------------------------------------------------------------------
(* The result, and publishing it                                           *)

\* client.disconnect flushes the mirror and proves the child gone; a failure
\* leaves the client to the finally block.
Disconnect ==
    /\ At("disconnect")
    /\ \/ Goto("result") /\ res' = [res EXCEPT !.client = "closed"]
       \/ May("disconnect") /\ Raise /\ UNCHANGED res
    /\ Quiet /\ UNCHANGED <<loc, session, drain, transcript, published>>

\* Exactly one result, of the expected session, over a store that never
\* failed; then the transcript is frozen.
TakeResult ==
    /\ At("result")
    /\ \/ /\ ~store.failed /\ stream.results = 1 /\ store.entries # << >> /\ ~cancelled
          /\ loc' = [loc EXCEPT !.snapshot = store.entries]
          /\ Goto(IF stream.success THEN "claim" ELSE "finally")
       \/ /\ store.failed \/ stream.results # 1 \/ store.entries = << >> \/ cancelled \/ May("session")
          /\ Raise /\ UNCHANGED loc
    /\ Quiet /\ UNCHANGED <<res, session, drain, transcript, published>>

\* claim: cancellation, grant, deadline and lease under the one lock.
Claim ==
    /\ At("claim")
    /\ IF cancelled \/ ~env.grant \/ env.expired \/ ~env.lease
       THEN Raise /\ UNCHANGED publishing
       ELSE Goto("admit") /\ publishing' = TRUE
    /\ UNCHANGED <<cancelled, result, disposition, cleanup, closer, res, loc, session, drain, transcript, published, env>>

Publish(what) == published' = published \cup {what}

AdmitResult ==
    /\ At("admit")
    /\ \/ Goto("turn") /\ Publish("admitted")
       \/ May("admit") /\ Raise /\ UNCHANGED published
    /\ Quiet /\ UNCHANGED <<res, loc, session, drain, transcript>>

StoreTurn ==
    /\ At("turn")
    /\ \/ Goto("continuation") /\ Publish("turn")
       \/ May("store") /\ Raise /\ UNCHANGED published
    /\ Quiet /\ UNCHANGED <<res, loc, session, drain, transcript>>

StoreContinuation ==
    /\ At("continuation")
    /\ \/ /\ Goto("finally") /\ Publish("continuation")
          /\ transcript' = loc.snapshot
          /\ loc' = [loc EXCEPT !.outcome = "completed"]
       \/ May("store") /\ Raise /\ UNCHANGED <<published, transcript, loc>>
    /\ Quiet /\ UNCHANGED <<res, session, drain>>

--------------------------------------------------------------------------
(* The end of _execute, and _Operation._run                                *)

Except ==
    /\ At("except")
    /\ loc' = [loc EXCEPT !.outcome = IF cancelled THEN "cancelled" ELSE "failed"]
    /\ Goto("finally")
    /\ Quiet /\ UNCHANGED <<res, session, drain, transcript, published>>

FinallyClient ==
    /\ At("finally")
    /\ \/ res.client # "open" /\ UNCHANGED <<res, loc>>
       \/ res.client = "open" /\ res' = [res EXCEPT !.client = "closed"] /\ UNCHANGED loc
       \/ /\ res.client = "open" /\ May("disconnect")
          /\ res' = [res EXCEPT !.client = "running"]
          /\ loc' = [loc EXCEPT !.clean = FALSE]
    /\ Goto("finally-root")
    /\ Quiet /\ UNCHANGED <<session, drain, transcript, published>>

\* _remove_private_root: a directory that is no longer the private one of
\* this user, or of the identity taken, is left alone.
RemoveRoot ==
    /\ At("finally-root")
    /\ \/ res.root = "none" /\ UNCHANGED <<res, loc>>
       \/ res.root # "none" /\ res' = [res EXCEPT !.root = "removed"] /\ UNCHANGED loc
       \/ /\ res.root # "none" /\ May("remove")
          /\ res' = [res EXCEPT !.root = "left"]
          /\ loc' = [loc EXCEPT !.clean = FALSE]
    /\ Goto("release")
    /\ Quiet /\ UNCHANGED <<session, drain, transcript, published>>

Release ==
    /\ At("release")
    /\ \/ res.custody = "none" /\ UNCHANGED <<res, loc>>
       \/ res.custody = "held" /\ res' = [res EXCEPT !.custody = "released"] /\ UNCHANGED loc
       \/ res.custody = "held" /\ May("release") /\ loc' = [loc EXCEPT !.clean = FALSE] /\ UNCHANGED res
    /\ Goto("settle")
    /\ Quiet /\ UNCHANGED <<session, drain, transcript, published>>

\* An unclean end fails a completed candidate; a requested cancellation
\* overrides every other outcome.
Settle ==
    /\ At("settle")
    /\ result' = IF cancelled THEN "cancelled" ELSE IF loc.clean THEN loc.outcome ELSE "failed"
    /\ disposition' = IF ~loc.clean THEN "unverified" ELSE IF loc.attempted THEN "clean" ELSE "not-created"
    /\ Goto("exit")
    /\ UNCHANGED <<cancelled, publishing, cleanup, closer, res, loc, session, drain, transcript, published, env>>

Exit ==
    /\ At("exit")
    /\ Goto("done")
    /\ Quiet /\ UNCHANGED <<res, loc, session, drain, transcript, published>>

--------------------------------------------------------------------------
(* The host                                                                *)

\* A cancel that only looks at publication.
CancelLate ==
    /\ ~publishing /\ ~cancelled
    /\ cancelled' = TRUE
    /\ UNCHANGED <<pc, publishing, result, disposition, cleanup, closer, res, loc, session, drain, transcript, published, env>>

Cancel ==
    /\ result = "none" /\ ~publishing /\ ~cancelled
    /\ cancelled' = TRUE
    /\ UNCHANGED <<pc, publishing, result, disposition, cleanup, closer, res, loc, session, drain, transcript, published, env>>

\* close: enter under the lock, join for the grace, store the evidence.
Close ==
    /\ \/ /\ closer.at = "out" /\ (result # "none" \/ cancelled)
          /\ closer' = [closer EXCEPT !.at = "join"]
          /\ UNCHANGED cleanup
       \/ /\ closer.at = "join"
          /\ closer' = [at |-> "store", saw |-> IF pc = "done" THEN disposition ELSE "unverified"]
          /\ UNCHANGED cleanup
       \/ /\ closer.at = "store"
          /\ cleanup' = closer.saw
          /\ closer' = [closer EXCEPT !.at = "returned"]
    /\ UNCHANGED <<pc, cancelled, publishing, result, disposition, res, loc, session, drain, transcript, published, env>>

Revoke ==
    /\ \/ env.grant /\ env' = [env EXCEPT !.grant = FALSE]
       \/ env.lease /\ env' = [env EXCEPT !.lease = FALSE]
    /\ UNCHANGED <<pc, op, closer, res, loc, session, drain, transcript, published>>

Expire ==
    /\ ~env.expired
    /\ env' = [env EXCEPT !.expired = TRUE]
    /\ UNCHANGED <<pc, op, closer, res, loc, session, drain, transcript, published>>

Opening == Begin \/ Materialize \/ MakeRoot \/ CreateClient \/ Connect
Draining == DrainStop \/ DrainInterrupt \/ DrainGraceOver \/ DrainReturns
Publication == Disconnect \/ TakeResult \/ Claim \/ AdmitResult \/ StoreTurn \/ StoreContinuation
Ending == Except \/ FinallyClient \/ RemoveRoot \/ Release \/ Settle \/ Exit
ThreadStep == Opening \/ Draining \/ Publication \/ Ending

Client == (\E b \in Batches : Mirror(b)) \/ (\E c \in Calls : Hook(c)) \/ Handler \/ Receive \/ ReceiveFails

Next == ThreadStep \/ Client \/ Cancel \/ Close \/ Revoke \/ Expire

Spec == Init /\ [][Next]_vars

\* The thread runs and time passes; the SDK client and the host owe nothing.
FairSpec == Spec /\ WF_vars(ThreadStep) /\ WF_vars(Expire)

--------------------------------------------------------------------------
(* Properties                                                              *)

\* The operation implements the contract of runtime/operation.py.
Contract == INSTANCE RuntimeOperation WITH settlement <- result, evidence <- cleanup
ImplementsContract == Contract!Spec

\* Between a cancel that answered REQUESTED and the claim of _execute one
\* excludes the other: a cancelled turn publishes nothing.
CancelledPublishesNothing == cancelled => published = {} /\ ~publishing

\* A completed turn is admitted and stored, and its operation is clean.
CompletedIsPublished ==
    result = "completed" => published = {"admitted", "turn", "continuation"} /\ disposition = "clean"

\* "clean" is the truth about the SDK's child, the private root and the
\* lease, and "not-created" means there never were any.
CleanIsTrue ==
    /\ cleanup = "clean" =>
          res.client \in {"none", "closed"} /\ res.root \in {"none", "removed"} /\ res.custody \in {"none", "released"}
    /\ cleanup = "not-created" => res = [client |-> "none", root |-> "none", custody |-> "none"]

\* The stored continuation extends the one the turn started from, holds
\* every entry the client was told is mirrored, also those of the final
\* flush, and no entry twice although the client repeats its batches.
TranscriptIsComplete ==
    "continuation" \in published =>
        /\ Seed = SubSeq(transcript, 1, Len(Seed))
        /\ mirrored \subseteq Range(transcript)
        /\ IsInjective(transcript)

\* Every call that crosses the gateway was allowed by the hook, as often as
\* it was allowed, although two calls with the same input are told apart
\* only by their order.
Occurrences(c, seq) == Cardinality({i \in DOMAIN seq : seq[i] = c})
SubmittedWasAllowed == \A c \in Calls : Occurrences(c, submitted) <= Occurrences(c, allowed)

\* An operation that has not settled.
Owed == result = "none"
=============================================================================
