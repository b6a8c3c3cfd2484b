----------------------------- MODULE AmpRuntime -----------------------------
(***************************************************************************)
(* One Amp runtime operation and the binding that settles it               *)
(* (petrus/agenticus/runtime/amp.py: AmpRuntimeAdapter.start,              *)
(* AmpProviderManagedBinding, _AmpRuntimeOperation).                       *)
(*                                                                         *)
(* A host thread starts the operation while others cancel or settle its    *)
(* attachment.  The operation's thread runs an event loop with one task,   *)
(* the task reads the SDK's event stream; cancellation and the deadline    *)
(* are exceptions delivered to the task wherever it waits.                 *)
(***************************************************************************)
EXTENDS Integers, FiniteSets

CONSTANTS
    MaxEvents,  \* max_events
    Faults      \* the failures that may happen

VARIABLES
    starter,    \* step of AmpRuntimeAdapter.start
    binding,    \* operation bound, cancel reason kept, settlement
    canceller,  \* step of EpisodeAttachment.cancel
    closer,     \* step of binding.settle and the close it calls
    pc,         \* of the operation's thread
    cancelled, result, cleanup,
    kill,       \* a cancellation is scheduled on the task
    expired,    \* the attachment's deadline has passed
    sdk,        \* the SDK client: "none", "running", "killed" or "closed"
    stream,     \* events read, and the terminal among them
    loc,        \* candidate outcome, provider_terminal
    published

op == <<cancelled, result, cleanup>>
host == <<starter, binding, canceller, closer>>
vars == <<host, pc, op, kill, expired, sdk, stream, loc, published>>

Init ==
    /\ starter = "out" /\ canceller = "out" /\ closer = "out"
    /\ binding = [bound |-> FALSE, reason |-> FALSE, settlement |-> "none"]
    /\ pc = "none"
    /\ cancelled = FALSE /\ result = "none" /\ cleanup = "none"
    /\ kill = FALSE /\ expired = FALSE
    /\ sdk = "none"
    /\ stream = [events |-> 0, terminal |-> "none"]
    /\ loc = [outcome |-> "failed", terminal |-> FALSE]
    /\ published = {}

May(fault) == fault \in Faults
At(from) == pc = from
Goto(to) == pc' = to

--------------------------------------------------------------------------
(* The host: start, cancel, settle                                         *)

CancelLate ==
    IF cancelled THEN UNCHANGED <<cancelled, kill>>
    ELSE cancelled' = TRUE /\ kill' = (pc \notin {"none", "boot"})

\* _AmpRuntimeOperation.cancel: too late after the result; a task that is
\* already registered hears of it.
CancelOperation ==
    IF result # "none" \/ cancelled THEN UNCHANGED <<cancelled, kill>>
    ELSE cancelled' = TRUE /\ kill' = (pc \notin {"none", "boot"})

\* AmpProviderManagedBinding.bind: the operation is bound and a reason that
\* was there before is remembered for it.
Bind ==
    /\ starter = "out"
    /\ binding' = [binding EXCEPT !.bound = TRUE]
    /\ starter' = IF binding.reason THEN "cancel" ELSE "start"
    /\ UNCHANGED <<canceller, closer, pc, op, kill, expired, sdk, stream, loc, published>>

BindCancels ==
    /\ starter = "cancel"
    /\ CancelOperation
    /\ starter' = "start"
    /\ UNCHANGED <<binding, canceller, closer, pc, result, cleanup, expired, sdk, stream, loc, published>>

StartThread ==
    /\ starter = "start"
    /\ starter' = "started"
    /\ Goto("boot")
    /\ UNCHANGED <<binding, canceller, closer, op, kill, expired, sdk, stream, loc, published>>

\* EpisodeAttachment.cancel through AmpProviderManagedBinding.cancel: the
\* reason is kept, the operation cancelled after the lock is released.
CancelAttachment ==
    /\ canceller = "out" /\ closer = "out" /\ binding.settlement = "none"
    /\ binding' = [binding EXCEPT !.reason = TRUE]
    /\ canceller' = IF binding.bound THEN "cancel" ELSE "done"
    /\ UNCHANGED <<starter, closer, pc, op, kill, expired, sdk, stream, loc, published>>

CancelReaches ==
    /\ canceller = "cancel"
    /\ CancelOperation
    /\ canceller' = "done"
    /\ UNCHANGED <<starter, binding, closer, pc, result, cleanup, expired, sdk, stream, loc, published>>

\* The holder of the operation cancels it directly.
CancelHandle ==
    /\ starter = "started"
    /\ CancelOperation
    /\ UNCHANGED <<host, pc, result, cleanup, expired, sdk, stream, loc, published>>

Settled(kind) == binding' = [binding EXCEPT !.settlement = kind]

\* AmpProviderManagedBinding.settle, also when the attachment retries an
\* unverified settlement: nothing bound is nothing created, and closing an
\* active operation is refused.
SettleEnter ==
    /\ closer = "out" /\ canceller # "cancel"
    /\ binding.settlement \in {"none", "unverified"}
    /\ \/ ~binding.bound /\ Settled("not-created") /\ UNCHANGED closer
       \/ /\ binding.bound
          /\ cleanup # "none" \/ (result = "none" /\ ~cancelled)
          /\ Settled(IF cleanup \in {"clean", "not-created"} THEN "client-closed" ELSE "unverified")
          /\ UNCHANGED closer
       \/ /\ binding.bound /\ cleanup = "none" /\ (result # "none" \/ cancelled)
          /\ closer' = IF At("none") THEN "store" ELSE "join"
          /\ UNCHANGED binding
    /\ UNCHANGED <<starter, canceller, pc, op, kill, expired, sdk, stream, loc, published>>

\* The join returns when the worker has ended, or after the grace.
SettleJoin ==
    /\ closer = "join"
    /\ closer' = IF At("done") THEN "store" ELSE "alive"
    /\ UNCHANGED <<starter, binding, canceller, pc, op, kill, expired, sdk, stream, loc, published>>

\* close: only the provider's own terminal proves that its work has ended.
Evidence(alive) ==
    IF alive THEN "unverified"
    ELSE IF loc.terminal THEN "clean"
    ELSE IF sdk = "none" THEN "not-created" ELSE "unverified"

SettleStore ==
    /\ closer \in {"store", "alive"}
    /\ cleanup' = Evidence(closer = "alive" /\ ~At("done"))
    /\ Settled(IF cleanup' = "unverified" THEN "unverified" ELSE "client-closed")
    /\ closer' = "out"
    /\ UNCHANGED <<starter, canceller, pc, cancelled, result, kill, expired, sdk, stream, loc, published>>

Expire ==
    /\ ~expired
    /\ expired' = TRUE
    /\ UNCHANGED <<host, pc, op, kill, sdk, stream, loc, published>>

--------------------------------------------------------------------------
(* The operation's thread                                                  *)

\* _run_thread registers loop and task and looks at the flag under the one
\* lock; a task cancelled before its first step never runs.
Boot ==
    /\ At("boot")
    /\ IF cancelled THEN Goto("teardown") /\ loc' = [loc EXCEPT !.outcome = "cancelled"]
       ELSE Goto("run") /\ UNCHANGED loc
    /\ UNCHANGED <<host, op, kill, expired, sdk, stream, published>>

\* _run until the SDK's generator exists.  The first step of the task was
\* queued before any cancellation, so it is not disturbed by one.
Run ==
    /\ At("run")
    /\ IF expired THEN Goto("teardown") /\ UNCHANGED sdk
       ELSE Goto("consume") /\ sdk' = "running"
    /\ UNCHANGED <<host, op, kill, expired, stream, loc, published>>

Fail(outcome) == Goto("unwind") /\ loc' = [loc EXCEPT !.outcome = outcome]

\* _read_stream: init first, then events of that thread, one terminal last.
ReadEvent ==
    /\ At("consume")
    /\ LET next == [stream EXCEPT !.events = @ + 1]
       IN  \/ /\ next.events <= MaxEvents /\ stream.terminal = "none"
              /\ \/ stream' = next
                 \/ next.events > 1 /\ \E t \in {"completed", "failed"} : stream' = [next EXCEPT !.terminal = t]
              /\ UNCHANGED <<pc, loc>>
           \/ /\ next.events > MaxEvents \/ stream.terminal # "none" \/ May("event")
              /\ Fail("failed") /\ UNCHANGED stream
    /\ UNCHANGED <<host, op, kill, expired, sdk, published>>

StreamEnds ==
    /\ At("consume")
    /\ IF stream.terminal = "none" THEN Fail("failed") ELSE Goto("drain") /\ UNCHANGED loc
    /\ UNCHANGED <<host, op, kill, expired, sdk, stream, published>>

\* The task is waiting for an event when cancellation or the deadline hits.
Interrupt ==
    /\ At("consume") /\ (kill \/ expired)
    /\ Fail(IF kill THEN "cancelled" ELSE "timeout")
    /\ UNCHANGED <<host, op, kill, expired, sdk, stream, published>>

\* athrow kills and reaps the local client; what else it raises is suppressed.
\* asyncio.timeout gives way to a cancellation that came as well.
Unwind ==
    /\ At("unwind")
    /\ sdk' = "killed"
    /\ loc' = [loc EXCEPT !.outcome = IF @ # "timeout" THEN @ ELSE IF kill THEN "cancelled" ELSE "failed"]
    /\ Goto("teardown")
    /\ UNCHANGED <<host, op, kill, expired, stream, published>>

\* The finally of _consume waits for aclose and suppresses everything: a
\* cancellation or deadline that hits here is not heard any more.
Drain ==
    /\ At("drain")
    /\ sdk' = "closed"
    /\ loc' = [loc EXCEPT !.terminal = TRUE]
    /\ Goto("publish")
    /\ UNCHANGED <<host, op, kill, expired, stream, published>>

\* _publish runs without waiting, so nothing interrupts it.
Publish ==
    /\ At("publish")
    /\ LET turn == IF stream.terminal = "completed" THEN {"turn"} ELSE {}
       IN  \/ published' = {"continuation"} \cup turn /\ loc' = [loc EXCEPT !.outcome = stream.terminal]
           \/ May("store") /\ published' \in {{}, {"continuation"}} /\ UNCHANGED loc
    /\ Goto("teardown")
    /\ UNCHANGED <<host, op, kill, expired, sdk, stream>>

\* The loop is closed before the result is there.
Teardown ==
    /\ At("teardown")
    /\ Goto("exit")
    /\ result' = loc.outcome
    /\ UNCHANGED <<host, cancelled, cleanup, kill, expired, sdk, stream, loc, published>>

Exit ==
    /\ At("exit")
    /\ Goto("done")
    /\ UNCHANGED <<host, op, kill, expired, sdk, stream, loc, published>>

StartStep == Bind \/ BindCancels \/ StartThread
HostStep == CancelAttachment \/ CancelReaches \/ CancelHandle \/ SettleEnter \/ SettleJoin \/ SettleStore
TaskStep == Boot \/ Run \/ Interrupt \/ Unwind \/ Drain \/ Publish \/ Teardown \/ Exit
StreamStep == ReadEvent \/ StreamEnds

Next == StartStep \/ HostStep \/ TaskStep \/ StreamStep \/ Expire

Spec == Init /\ [][Next]_vars

\* The thread and the loop run; the provider may never send another event,
\* and the deadline may be far away.
FairSpec == Spec /\ WF_vars(TaskStep) /\ WF_vars(StartStep)

--------------------------------------------------------------------------
(* Properties                                                              *)

\* The operation implements the contract of runtime/operation.py.
Contract == INSTANCE RuntimeOperation WITH settlement <- result, evidence <- cleanup
ImplementsContract == Contract!Spec

\* "not-created" stays true, also when the thread is started after the
\* evidence was given; "clean" means the provider itself said it was done.
EvidenceIsTrue ==
    /\ cleanup = "not-created" => sdk = "none"
    /\ cleanup = "clean" => sdk = "closed" /\ stream.terminal # "none"

\* A completed turn has its output and its continuation, and the provider's
\* success behind it.
CompletedIsPublished ==
    result = "completed" => published = {"continuation", "turn"} /\ stream.terminal = "completed"

\* A cancelled result never carries a turn: the task heard of the
\* cancellation before it published anything.
CancelledPublishesNothing == result = "cancelled" => published = {} /\ cancelled

\* A running operation that was cancelled and has not settled.
Owed == cancelled /\ pc # "none" /\ result = "none"

\* What EpisodeAttachment builds on: after a verified settlement no client
\* of the epoch runs.
VerifiedIsQuiet == binding.settlement \in {"not-created", "client-closed"} => sdk # "running"
=============================================================================
