------------------------------- MODULE Engine -------------------------------
(***************************************************************************)
(* The Engine around one Instance: the writing doors of Engine and the     *)
(* Coordinator's two writer phases, cut at every point where a process may *)
(* die, over a History that either owns its writes or joins a transaction  *)
(* the Engine commits, and over a durable Dispatch that may share that     *)
(* transaction.  A door that raises poisons the Engine, whose only         *)
(* continuation is a fresh load, exactly as after a crash.                 *)
(*                                                                         *)
(* The driving policy is any choice among the offered actions.             *)
(***************************************************************************)
EXTENDS Instance

CONSTANTS
    Joined,    \* the History Store joins the Engine's transaction
    Shared,    \* the Dispatch joins it too (Absurd)
    MaxLoads   \* bound on the loads of one behaviour

VARIABLES
    committed,   \* how many records are durable
    todo,        \* what remains of the writing door in progress
    reconciled,  \* _reconciled
    arrived,     \* _arrived: occurrences with an outcome to accept
    unsettled,   \* Dispatch calls made in the open transaction
    loads,       \* how often the Engine was loaded
    custody, outcomes, fences, published, collected

D == INSTANCE Dispatch WITH Occurrences <- Nat, Invocations <- {}, Outcomes <- Results \cup Failures

dispatched == <<custody, outcomes, fences, published, collected>>
engine == <<committed, todo, reconciled, arrived, unsettled, loads>>
engineVars == <<vars, engine, dispatched>>

EngineInit ==
    /\ Init
    /\ committed = Len(history)
    /\ todo = <<>> /\ reconciled = FALSE /\ arrived = <<>> /\ unsettled = {} /\ loads = 1
    /\ D!Init

\* A store that owns its writes makes each append final.
AtTheDoor == committed' = IF Joined THEN committed ELSE Len(history')

Step(kind, o) == [kind |-> kind, occ |-> o]
Commit1 == <<Step("commit", None)>>
Steps(kind, os) == LET inOrder == SetToSortSeq(os, <) IN [i \in DOMAIN inOrder |-> Step(kind, inOrder[i])]

\* A writing door may start: no other holds the monitor.
Free == todo = <<>>

-----------------------------------------------------------------------------
(* Doors. *)

\* Mutant of Outbox: a firing that was dispatched before is left alone.
OutboxOfUnknown == {o \in DOMAIN inFlight \ DOMAIN frozen : inFlight[o].impure /\ o \notin DOMAIN custody}

\* The outbox: invocations recorded without a terminal fact.
Outbox == {o \in DOMAIN inFlight \ DOMAIN frozen : inFlight[o].impure}

\* What reconciliation fences again.
CancelledActivities == DOMAIN cancelled \cap DOMAIN activities

\* Coordinator._reconcile: fences, then the outbox, then frozen outcomes, then
\* pure firings.
Reconcile ==
    /\ Free /\ ~reconciled
    /\ reconciled' = TRUE
    /\ todo' = Steps("fence", CancelledActivities) \o Steps("dispatch", Outbox)
                 \o Steps("settle", DOMAIN frozen)
                 \o Steps("complete", {o \in DOMAIN inFlight : ~inFlight[o].impure}) \o Commit1
    /\ UNCHANGED <<vars, committed, arrived, unsettled, loads, dispatched>>

\* BeginCandidate: begin, then dispatch the activity or complete the pure firing.
BeginCandidate(binding) ==
    /\ Free /\ reconciled
    /\ Begin(binding, watermark)
    /\ AtTheDoor
    /\ todo' = <<Step(IF binding.transition \in Impure THEN "dispatch" ELSE "complete", nextOccurrence)>> \o Commit1
    /\ UNCHANGED <<reconciled, arrived, unsettled, loads, dispatched>>

\* _observe drains the Dispatch.
Observe ==
    /\ Free /\ reconciled
    /\ D!Collect
    /\ arrived' = arrived \o SetToSortSeq(collected' \ collected, <)
    /\ UNCHANGED <<vars, committed, todo, reconciled, unsettled, loads>>

\* Mutant of AfterFreeze: the freeze and its projection are one commit.
AfterFreezeMerged(o) == <<Step("settle", o)>> \o Commit1

\* The freeze is a commit of its own, before the projection.
AfterFreeze(o) == Commit1 \o <<Step("settle", o)>> \o Commit1

\* AcceptResult for the first buffered outcome, or the late result of an ended
\* firing, which _observe records and the next commit settles.
AcceptResult ==
    /\ Free /\ reconciled /\ arrived # <<>>
    /\ LET o == Head(arrived)
       IN  /\ \/ RecordActivity(o, outcomes[o], watermark)
              \/ /\ o \notin DOMAIN inFlight /\ Outcome(o) = outcomes[o]
                 /\ UNCHANGED vars
           /\ todo' = IF o \in DOMAIN inFlight THEN AfterFreeze(o) ELSE <<>>
    /\ AtTheDoor
    /\ arrived' = Tail(arrived)
    /\ UNCHANGED <<reconciled, unsettled, loads, dispatched>>

\* drive hands back Wait or Stop: the observation's transaction is closed.
HandBack ==
    /\ Free /\ committed' = Len(history) /\ committed # Len(history)
    /\ UNCHANGED <<vars, todo, reconciled, arrived, unsettled, loads, dispatched>>

\* Engine.deliver and the Coordinator's AcceptDelivery: acceptance commits
\* before the pure source occurrence completes.
Deliver(source, tokens, identity, target) ==
    /\ Free
    /\ AcceptDelivery(source, tokens, identity, target, watermark)
    /\ AtTheDoor
    /\ todo' = Commit1 \o (IF nextOccurrence' = nextOccurrence THEN <<>>
                           ELSE <<Step("complete", nextOccurrence)>> \o Commit1)
    /\ UNCHANGED <<reconciled, arrived, unsettled, loads, dispatched>>

\* Engine.complete_delivery: an accepted delivery is completed by a door of
\* its own, here only after a load found it unfinished.
CompleteDelivery(o) ==
    /\ Free
    /\ \E d \in DOMAIN accepted : accepted[d].kind = "ExternalEventDelivered" /\ accepted[d].occ = o
    /\ Complete(o, watermark)
    /\ AtTheDoor
    /\ todo' = Commit1
    /\ UNCHANGED <<reconciled, arrived, unsettled, loads, dispatched>>

\* Engine.open_scope.
OpenDoor(name) ==
    /\ Free
    /\ OpenScope(name, watermark)
    /\ AtTheDoor
    /\ todo' = Commit1
    /\ UNCHANGED <<reconciled, arrived, unsettled, loads, dispatched>>

\* Engine.close_scope and reset_scope: the canonical end is committed before
\* the Dispatch is told.
EndDoor(scope) ==
    /\ Free
    /\ CloseScope(scope, watermark) \/ ResetScope(scope, watermark)
    /\ AtTheDoor
    /\ todo' = Commit1 \o Steps("fence", Cancelling(scope) \cap DOMAIN activities) \o Commit1
    /\ UNCHANGED <<reconciled, arrived, unsettled, loads, dispatched>>

\* Engine.seal.
SealDoor(source) ==
    /\ Free
    /\ Seal(source, watermark)
    /\ AtTheDoor
    /\ todo' = Commit1
    /\ UNCHANGED <<reconciled, arrived, unsettled, loads, dispatched>>

-----------------------------------------------------------------------------
(* The steps inside a door. *)

Now(kind) == todo # <<>> /\ Head(todo).kind = kind
Done == todo' = Tail(todo)

\* The Dispatch calls of the transaction take effect with its commit.
CommitStep ==
    /\ Now("commit") /\ Done
    /\ committed' = Len(history)
    /\ custody' = [o \in DOMAIN custody \cup {c.occ : c \in unsettled \ {c \in unsettled : c.kind = "fence"}} |->
                      IF o \in DOMAIN custody THEN custody[o] ELSE activities[o].binding]
    /\ fences' = fences \cup {c.occ : c \in {c \in unsettled : c.kind = "fence"}}
    /\ unsettled' = {}
    /\ UNCHANGED <<vars, reconciled, arrived, loads, outcomes, published, collected>>

\* Dispatch.dispatch and cancel, at once or within the shared transaction.
DispatchStep ==
    /\ Now("dispatch") /\ Done
    /\ LET o == Head(todo).occ
       IN  IF Shared
             THEN /\ unsettled' = unsettled \cup {Head(todo)}
                  /\ published' = published \cup {o}
                  /\ UNCHANGED <<custody, outcomes, fences, collected>>
             ELSE D!Publish(o, activities[o].binding) /\ UNCHANGED unsettled
    /\ UNCHANGED <<vars, committed, reconciled, arrived, loads>>

FenceStep ==
    /\ Now("fence") /\ Done
    /\ LET o == Head(todo).occ
       IN  IF Shared
             THEN /\ unsettled' = unsettled \cup {Head(todo)}
                  /\ published' = published \cup {o}
                  /\ UNCHANGED <<custody, outcomes, fences, collected>>
             ELSE D!Fence(o) /\ UNCHANGED unsettled
    /\ UNCHANGED <<vars, committed, reconciled, arrived, loads>>

\* _complete_pure and complete_delivery.
CompleteStep ==
    /\ Now("complete") /\ Done
    /\ Complete(Head(todo).occ, watermark)
    /\ AtTheDoor
    /\ UNCHANGED <<reconciled, arrived, unsettled, loads, dispatched>>

\* The frozen outcome is projected.  A failure without a projector ends the
\* firing, is committed and then halts the drive.
SettleStep ==
    /\ Now("settle")
    /\ LET o == Head(todo).occ
       IN  \/ Complete(o, watermark) /\ Done
           \/ /\ frozen[o] \in Failures /\ ProjectFailure[inFlight[o].binding.transition] = None
              /\ Fail(o, frozen[o], watermark)
              /\ todo' = Commit1 \o <<Step("halt", None)>>
    /\ AtTheDoor
    /\ UNCHANGED <<reconciled, arrived, unsettled, loads, dispatched>>

-----------------------------------------------------------------------------
(* Failure and recovery. *)

\* A worker obtains the terminal outcome.
Report(o, outcome) ==
    /\ o \in DOMAIN custody \ DOMAIN outcomes
    /\ outcomes' = Put(outcomes, o, outcome)
    /\ UNCHANGED <<vars, engine, custody, fences, published, collected>>

\* The process dies, or a door raises and the Engine is poisoned and rolled
\* back; then Engine.load resumes the Instance from the durable records.
Load ==
    /\ loads < MaxLoads \/ Now("halt")
    /\ LET h == SubSeq(history, 1, committed)
           replayed == ReplayQueues(h)
       IN  /\ history' = h
           /\ boundaries' = {b \in boundaries : b <= committed}
           /\ watermark' = Watermark(h)
           /\ queues' = replayed.queues /\ nextEntry' = replayed.next
           /\ nextOccurrence' = NextOccurrence(h)
           /\ armed' = Armed(h) /\ accepted' = Accepted(h)
           /\ active' = ActiveScopes(h)
           /\ generations' = [n \in ScopeNames |-> Generation(h, n)]
           /\ inFlight' = OccurrencesOf(h, Open(h))
           /\ activities' = OccurrencesOf(h, Requested(h))
           /\ cancelled' = OccurrencesOf(h, Cancelled(h))
           /\ frozen' = Frozen(h) /\ terminal' = Terminal(h) /\ quarantined' = Quarantined(h)
    /\ committed' = committed
    /\ todo' = <<>> /\ reconciled' = FALSE /\ arrived' = <<>> /\ unsettled' = {}
    /\ loads' = IF Now("halt") THEN loads ELSE loads + 1
    /\ D!NewSession

DoorStep == CommitStep \/ DispatchStep \/ FenceStep \/ CompleteStep \/ SettleStep
Drives ==
    \/ Reconcile \/ Observe \/ AcceptResult \/ HandBack
    \/ \E binding \in Candidates(queues, watermark) : BeginCandidate(binding)

EngineNext ==
    \/ Drives
    \/ DoorStep
    \/ \E source \in Sources, tokens \in Payloads, identity \in Identities, target \in Targets :
          Deliver(source, tokens, identity, target)
    \/ \E o \in DOMAIN inFlight : CompleteDelivery(o)
    \/ \E name \in ScopeNames : OpenDoor(name)
    \/ \E scope \in active : EndDoor(scope)
    \/ \E source \in Sources : SealDoor(source)
    \/ \E o \in DOMAIN custody, outcome \in Results \cup Failures : Report(o, outcome)
    \/ Load

EngineSpec == EngineInit /\ [][EngineNext]_engineVars

\* The next step of the open door is one its code can take.
Proceeds ==
    /\ todo # <<>>
    /\ LET step == Head(todo)
           completes == step.occ \in DOMAIN inFlight /\ \E e \in Envelopes(step.occ) : EffectsHold(e)
       IN  CASE step.kind = "dispatch" -> step.occ \in DOMAIN custody => custody[step.occ] = activities[step.occ].binding
             [] step.kind = "complete" -> completes
             [] step.kind = "settle" -> completes \/ frozen[step.occ] \in Failures
             [] OTHER -> TRUE

\* An outcome waits to be collected, or to be accepted.
Pending == Free /\ reconciled /\ ((published \cap DOMAIN outcomes) \ collected # {} \/ arrived # <<>>)

-----------------------------------------------------------------------------
(* Properties. *)

Durable == SubSeq(history, 1, committed)

\* Wherever the process dies, the records that are durable are a History that
\* resume accepts: no commit point of any door splits a batch.
EveryCutResumes == Replayable(Durable)

\* Work in custody was begun durably: an activity never runs for a firing that
\* History does not hold ("frozen in the firing's begin batch before dispatch
\* and acts as the authoritative outbox", spec/event-history.md:82-83).
CustodyIsRecorded ==
    \A o \in DOMAIN custody :
        o \in Requested(Durable) /\ Occurrence(Durable, o).binding = custody[o]

\* Once reconciled and between doors, every recorded request without an outcome
\* is published in this session, so that its outcome will be collected.
OutboxIsPublished ==
    Free /\ reconciled =>
        \A o \in DOMAIN activities \ DOMAIN cancelled : Outcome(o) = None => o \in published \cap DOMAIN custody

\* Once reconciled and between doors, the Dispatch fences every activity that a
\* scope's end cancelled, although a crash may fall between the two.
CancelledAreFenced == Free /\ reconciled => DOMAIN cancelled \cap DOMAIN activities \subseteq fences

\* What History records of an activity is what the Dispatch found, once: a
\* crash between collecting and recording neither loses nor doubles it.
RecordedIsReported ==
    \A o \in DOMAIN activities :
        Outcome(o) # None => o \in DOMAIN outcomes /\ Outcome(o) = outcomes[o]

\* A frozen outcome survives a crash of its projection: completed external
\* work is never dispatched again.
FreezeIsDurable ==
    \A o \in DOMAIN outcomes : (o \in DOMAIN terminal' \ DOMAIN terminal)
        => \E r \in ToSet(Durable) : r.kind \in ActivityTerminals /\ r.occ = o
=============================================================================
